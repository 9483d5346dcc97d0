# A formal model of iptablesman

iptablesman is a daemon that keeps the rules of drop-in files,
`<config-dir>/<table>/<chain>/<file>`, in iptables chains that it shares with other
programs. This directory holds TLA+ modules of its core, TLC configurations that
model-check them on small instances, and theorems about them that TLAPS checks.
Paths and line numbers refer to the repository's root; Python files are under
`src/src/` in `PROJECT.json` and are named by their basename here.

## 1. Inventory

| Component | State it keeps | Operations | Talks to |
| --- | --- | --- | --- |
| Diff apply: `apply.py`, `owned_rules.py`, `iptables_exec.py` | locals of one pass; the kernel's chain | `sync_file`, `delete_all_owned_comments` | one `iptables` process per command; other programs edit the same chain |
| Sync cycle: `targets.py`, `dropin_hosts.py` | `SyncState` per chain directory: `prev_basenames`, `apply_fail_backoff_until` | `sync_target_cycle`, `sync_due_backoff_files`, `run_dns_pass` | the directory (edited by operators), `sync_file` |
| Daemon loop: `daemon.py` | `forced`, three timers, the `SyncState`s | startup, wait, SIGHUP, watch sync, DNS wake, interval wake, metrics pass | everything below and above |
| Config watch: `config_watch.py` | watch descriptors, inotify queue, `ConfigWatchCooldown` | `wait`, `_read_events`, `should_sync`, `merge_pending`, `take_pending` | the kernel's inotify queue, the loop |
| Drop-in parser: `dropin.py`, `annotations.py`, `rule_tokens.py` | pending annotations, counters of names | `parse_dropin_blocks`, `assign_comment_tags` | the file |
| Host resolution, alerts: `host_resolve.py`, `host_cache.py` | episodes per rule, last addresses | `hosts_resolve_ipv4`, `notify`, `notify_multi_a` | DNS, syslog |
| Single instance: `locking.py`, `main.py:172-180` | lock file: `flock`, PID | acquire, release, `--resync` | a second daemon, the signal handler |
| Metrics: `metrics.py`, `main.py:308-421` | counters, labels seen, previous counters | `update_cycle`, `push`, `_collect_monitored_counters` | `iptables-save`, the HTTP thread |
| Test mode: `apply.py:163-171, 284-309` | none | `--test` | `iptables -C` |
| Discovery: `targets.py:32-63` | none | `discover_targets`, `explicit_target` | the configuration tree |
| Command line, status, list, logging, version | none | one-shot | stdout, syslog |

How they interact. `run_daemon_loop` is one thread. It waits for inotify, a timer or
(in effect, see `daemon_sighup`) the end of the wait after a SIGHUP, then runs passes:
each pass lists targets and runs `sync_target_cycle` on each, which lists the drop-ins
and runs `sync_file` on each, which runs `iptables` many times. Nothing is persisted
but the chain: the comment tag of a rule is the only record of who owns it. The
concurrency is with the outside: operators edit the directory, other firewalls edit
the chain, and signals arrive, between any two steps.

What is hard, and what makes each part correct:

* Diff apply: rule *numbers* from an earlier listing are used later; every command may
  fail in the middle; a rule whose `@host` does not resolve can be deleted but not made
  again. Correct if it touches only its own rules, keeps unresolved ones, never
  duplicates a tag, ends, and returns True only when the file is applied.
* Sync cycle: three kinds of cycle share two dictionaries; the directory changes during
  a cycle; a cycle may die by an exception. Correct if no drop-in is forgotten (applied,
  or marked for a retry), none is retried too early, removed ones lose their rules, and
  rules that are up to date are left alone.
* Loop and watch: events arrive faster than syncs are allowed, and are kept, merged and
  flushed in three places; directories and their watches come and go; the flag of a
  signal is reset next to a sync. Correct if no edit and no signal is forgotten, syncs
  keep their distance, and no stream of events starves the timers.
* Parser: names repeat and mix with numbered rules. Correct if tags are distinct and as
  documented, and an annotation feeds one rule.
* Watch, inside: a directory is watched by a walk of several system calls, and a watch
  keeps the path it was made with, while directories are made, renamed and moved under it.
  Correct if a daemon that waits has missed no directory, knows each by its present path,
  and has applied what they hold.
* Lock: the file and its `flock` are two things, changed in several steps at either end, and
  a kill leaves one of them behind. Correct if there is one daemon at most, it is the one in
  the file, `--resync` ends no process, and no kill keeps the next daemon out.
* Alerts: two sorts of episodes per rule open and close each other and outlive the rule.
  Correct if the beginning of a trouble, and nothing else, is an alert, and it is repeated
  once an hour.
* Metrics: the HTTP thread reads in the middle of a push. Correct if no label of a live rule
  is missing there, none of a rule that has gone stays, and activity means change.
* `--test`: flags of a rule, a drop-in, a target and the run. Correct if the exit status is
  0 exactly when everything was looked at and in order.

## 2. Modules

| Module | Models | State and how it corresponds |
| --- | --- | --- |
| `Apply` | one drop-in, one chain, one `iptables` command per step | `chain` is the kernel's chain as a sequence of (tag, body); `pc` names the next command; `want` zips `host_ok_list`, tags and `desired_tokens_list`; `listing` is the last `-S`; `doomed` is `orphan_nums`; `idx` the loop index; `Quoted` and `Garbled` are the comments and bodies whose line in `-S` a pass reads otherwise |
| `Targets` | one chain directory, one `sync_file` per step | `disk`, `dir` the directory; `live[f]` the rules of `f` in the chain, `extra` among them those that a failed command left beside them; `prev`, `backoff` are `SyncState`; `current`, `todo`, `removed` are the locals of `sync_target_cycle` |
| `Watch` | the inside of `ConfigWatcher` and `discover_targets`, one system call or one event per step | a directory is a number; `tree` and `staged` are what is under `config_dir` and outside; `watches`, `events` the kernel's inotify; `wdMap` is `_wd_map`; `visit`, `step`, `siblings` the walk of `_add_tree`; `dirty`, `rediscover` the result of `wait` |
| `Locking` | daemons, one statement of `acquire_single_instance_lock` or `main` per step, and one `--resync` | `at[p]` how far process `p` has come; `flock` and `pidfile` the lock file; `handles` who handles SIGHUP; `signals` the flag of each; `asked` the PID read by `--resync` |
| `HostLog` | `HostResolveLogState`, one rule's answer of a pass per step | `episodes["fail"]` and `episodes["multi"]` are its two dictionaries; `logged` what the pass has written |
| `Metrics` | one metrics pass, label by label | `total`, `last`, `exported` the two counters; `seen`, `prev`, `activity` the dictionaries of `PrometheusExporter`; `gauge` what a scrape sees |
| `TestMode` | `--test`, one `iptables -C` per step | `target`, `current`, `file`, `rules` the four loops; `fileOk`, `testOk` the results on their way up |
| `Daemon` | the loop, one `sync_target_cycle` per step | `queue`, `watched` the kernel's inotify; `pendingDirty`, `pendingRediscover`, `sinceWatch` the cooldown; `forced` the flag; `age*` the timers; `res` the result of `wait` |
| `DropIn` | one file, one line or one block per step | `lineNo`, `pending`, `blocks` of the parser; `count`, `seq`, `tags` of `assign_comment_tags` |
| `MCApply`, `MCTargets`, `MCDaemon` | small instances | definitions that the `.cfg` files give to constants |
| `Reconcile` | what a chain may expect of a pass, without commands, listings or numbers | `owned` the bodies per tag, `foreign` the other rules, `goal` what the drop-in asks for each tag, `ok` the last result |
| `ApplyRefines` | `Apply` as an implementation of `Reconcile` | the refinement mapping: `owned` is the set of bodies that `chain` holds of each tag, `foreign` its other rules in the order of their places, `goal` what `want` asks for each tag |
| `MCParts` | `Locking`, `HostLog`, `Metrics`, `TestMode`, `Watch` and `DropIn` in one run | `part` names the one that moves: they share no state, and so TLC explores the sum of their states and not the product |
| `ApplyProofs`, `TargetsProofs`, `DaemonProofs`, `DropInProofs`, `WatchProofs` | theorems about the module in their name | |
| `RefineProofs` | that `Apply` implements `Reconcile`, about `ApplyRefines` | |
| `Descent` | the well-founded order in which the loops of a pass and of a cycle run down; used by `ApplyProofs` and `TargetsProofs` | |
| `PartsProofs` | theorems about `Locking`, `HostLog`, `Metrics` and `TestMode`, and about all that `MCParts` puts side by side | |

The three levels fit together by their steps: the outcomes of one `sync_file` in
`Targets` (`FullSucceeds`, `FullFails`, `DnsSucceeds`, `DnsFails`) are those that `Apply`
has between `Begin` and `Return`; one step `SyncTarget` of `Daemon` is a whole cycle of
`Targets`; and the `changed` flag of `Targets` stands for what `Daemon` proves of its
queue (`EditsKept`). `Daemon` takes for granted that a new directory's event leads to its
watch and its sync in one step; `Watch` is that step in detail, and `RestWatched` and
`RestSynced` are what `Daemon` takes from it.

Variables marked *history* in their declaration (`stale`, `since`, `told`, `quiet`,
`unsynced`, `asked` of `Daemon`, `sinceSync`, `notes`, `source`, `left`, `sure`, `answers`,
`quiet`, `bad`, `tested`, `unapplied`) are not in the code: they
remember what a property speaks of, and no guard reads them.

An operator `X_Variant` in front of `X` is `X` with a plausible mistake in it (a reset
left out, an order swapped, a guard dropped). Nothing uses these; `PROJECT.json` names
for each property of a passing run a variant that breaks it.

### What the modules abstract

* A rule is a tag and a body. `Kernel[b]` is the spelling that `iptables -S` gives body
  `b`: in the instances it differs from the drop-in's for one body, so that the
  comparison of tokens (`apply.py:211`) and the one of the kernel (`-C`) disagree. The
  tag of another program's rule is any comment that the basename does not own.
* What a pass can read of a rule is its line in `iptables -S`. `Quoted` are the owned comments
  printed in quotes: the regular expression takes the quote for a part of the comment
  (`owned_rules.py:26-33`), and the rule for nobody's. `Garbled` are the bodies whose line
  `shlex` refuses: the snapshot passes over the line *without counting it* (line 81), so the
  numbers behind it are too low, and the deletion loop ends at it. Which comments and bodies
  those are is up to `iptables`; the modules take any sets of them.
* DNS: each pass gets any answer, for each rule anew. Every caller in the
  daemon resolves (`resolve_hosts=True`), so the cache (`host_cache.py`) is written but
  never read.
* Time: in `Targets` and `Daemon` one unit is longer than a pass, so passes take no time.
  Whether the cooldown is measured from the begin or the end of a sync makes no difference
  there.
* `Targets` knows of a drop-in's rules in the chain the static one, whether the `@host` ones
  are there, and whether there is anything more that it owns (`extra`): orphans whose `-D`
  failed, or second copies after a listing that failed. Both come with the result True.
* `Daemon` has one event per target and sort in the queue (the kernel merges equal
  events only when they follow one another; the loop makes a set of them anyway).
  Watch descriptors are in `Watch`. The half second for which `wait` collects events is
  left out; a `Read` may leave any part of the queue for later instead.
* `Watch` has one table directory and its chain directories. A directory is a number, never
  used again, so that a path may be another directory later. An edit of a drop-in is an
  event of its chain directory. `inotify_add_watch` may fail with any error, `ENOENT` and
  others, as `iterdir` may (`WalkFailsAtStart`, `WalkFailsLater`). Symbolic links, and the rest of `Daemon` (cooldown, timers,
  overflow), are left out. Where the code ends by an exception the daemon starts again.
* `Locking` has one lock file and one `--resync` at a time. A process is its PID; a PID that is
  free may become another program's.
* `HostLog` knows of the answer for a rule's hosts whether some host has no address, all have
  one, or some have several. A rule's time is the age of its last message, up to an hour.
* `Metrics` has one monitored chain and one number for the packets and bytes of a rule.
  Minutes are those of `time.time() // 60`. The gauges of one label (packets, bytes, last
  activity) are set one after the other in the code (`metrics.py:199-209`), and removed so,
  and in one step in the model: a scrape between those, which may show a new counter with the
  old activity time, is left out.
* `TestMode` gives `iptables -C` its statuses 0, 1 and any other; a rule is static or has
  hosts, and these may have no address.
* `DropIn` has one content of the file for the parser and for the scan of the DNS pass, which
  in the code read it twice (`targets.py:142, 148`). It knows of a line whether it is an annotation, blank, a rule, refused by `shlex`
  or with a metacharacter. The characters are left out.

## 3. Runs

Passing runs:

| Run | States | What it shows |
| --- | --- | --- |
| `apply_sync` | 376 thousand: 4 drop-ins, 3 tags, a refused body | `ImplementsReconcile`, `NoDuplicateTag`, `PassApplied`, `ReplaceOnlyChanged` and the type invariant, with failing `-N`, `-R`, `-A`, over edits and removals of the file; listings, deletions and readings succeed |
| `apply_shared` | 496 thousand | every command may fail, other programs edit at any step, and `shlex` refuses some of their lines: `OnlyOwnedRulesEdited`, `GatedRuleKept`, and `PassEnds` |
| `targets_cycle` | 2.9 million | `RetryRespected`, `CycleAccounts`, `UpToDateKept`, `AppliedRemembered` with every fault of the module |
| `targets_progress` | 269 thousand, files of static rules and of `@host` rules | `AppliedEventually` though a command failed or the daemon restarted; `RemovedCleaned` if nothing fails |
| `daemon_loop` | 2.9 million | `EditsKept`, `WatchIsRecursive`, `SignalKept`, `WatchSyncsApart`, with an overflowing queue, partial reads and polling instead of inotify |
| `daemon_progress` | 50 thousand | `EditsSynced`, `TimersServed` under fairness |
| `parts` | 432 thousand | `PidFileTruthful`, `ResyncSpares`, `DaemonReturns` of the lock; `AlertsOnChange`, `RemindedHourly` of the alerts; `PushComplete`, `NoGap`, `ActivityMeansChange` of the metrics; `StatusTruthful` of `--test`; `RestWatched`, `RestSynced`, `EditsReach` of the watch; `TagsDistinct`, `TagsDocumented`, `NotesUsedOnce`, `DnsPassSeesHosts` of the parser, for every file of up to five lines |

Runs that end with a counterexample, each to a sentence of the repository:

| Run | The sentence | What the code does |
| --- | --- | --- |
| `apply_list_fails` | README.md:171 "Does not add a second rule for the same tag" | a failing `iptables -S` reads as an empty chain, and every rule is appended a second time |
| `apply_wipe_fails` | README.md:171, the same sentence | after a refused `-R` everything owned is to be deleted; that ends at the first `-D` that fails (`owned_rules.py:137`), and the whole file is appended beside what is left |
| `apply_hosts_pass` | README.md:51 "`@host` DNS-only pass (no static rule reconcile)" | in a file that mixes both, the static rules are orphans of the DNS pass and are deleted |
| `targets_restart` | README.md:180 "removed → `-D`" | `prev_basenames` starts empty: a file removed while the daemon is down keeps its rules |
| `daemon_sighup` | README.md:274 "forces immediate resync (skips sleep)" | the handler sets a flag and Python resumes the wait; time passes |

Three more sentences that the code does not keep have no run of their own; the models
follow the code:

* README.md:204 "parses all drop-ins under selected targets": under `--test` the first drop-in
  that fails raises and ends the loop over its directory (`targets.py:166`).
* README.md:169 "`iptables -C` against desired IP; fails if live still old": status 1 of `-C`,
  which means that there is no such rule, is accepted (`apply.py:306`).
* metrics.py:22 "Per-target sync errors": only full syncs hand their errors on
  (`daemon.py:294`); those of DNS passes, retries and watch passes are not counted.

Two observations that no sentence of the documents contradicts. README.md:107 promises that
files are *processed* in sorted order, and they are; but a file's new rules are appended at
the chain's end, so after an edit of the first file they follow those of the second.
`_derive_iptables_save_path` (`main.py:415-421`) makes `iptables-save-legacy` of
`iptables-legacy`, while the usual name is `iptables-legacy-save`; the metrics pass then reads
no counters.

### Conditions in the properties

Some properties hold under a condition that the code needs. Each was found by leaving
it out and reading the counterexample:

* `NoDuplicateTag` holds where `iptables -S` and `-D` by specification do what they are asked
  to (`apply_list_fails` and `apply_wipe_fails` are what happens otherwise), where lines can be
  read and comments are not quoted, where the file has no more tags than the deletion loop has
  iterations, and where nobody edits the chain during a pass. A failing `-D` by number, `-N`,
  `-R`, `-C` or `-A` does not matter: `OneRulePerTag` is proved with all of these.
* `OnlyOwnedRulesEdited`, `GatedRuleKept` speak of steps while `~stale`: nobody else has
  edited the chain since the listing. And they ask for `NumbersExact`: `shlex` could split
  every line of the listing, else the numbers behind such a line are too low and `-D` or `-R`
  hits the rule before the one that is meant; after an edit by others they hit whatever rule
  has that number now. The passes of `apply_shared` meet both; the properties only start again
  with the next listing.
* `PassApplied` holds under the conditions of `NoDuplicateTag`, and where `-D` by number does
  not fail: an orphan that stays is passed over in silence (`apply.py:190`).
* `PassApplied` excepts a refused `-R` while a rule of the file has no address but is live
  (`apply.py:235`): the old body stays, and the pass returns True without a backoff
  although README.md:182 promises one.
* `ImplementsReconcile` is checked, and proved, where listings and deletions do not fail and
  nobody edits during a pass. A listing that fails hides rules, a deletion that fails leaves
  orphans, and the pass may report success after either. `Reconcile` keeps the exception
  of `PassApplied` (`Excused`). The goals of a DNS pass are those of its `@host` rules
  only: that it also takes the static rules away is `apply_hosts_pass`.
* `AppliedRemembered` speaks of what a *full* cycle applied. A DNS pass or a due retry can
  be the first to apply a file and does not add it to `prev_basenames`
  (`targets.py:169`), and a cycle that an exception cuts short adds nothing: if such a
  file is removed before the next full cycle ends, its rules stay.
* `RemovedCleaned` speaks of drop-ins that a full cycle has listed (`Listed`): one that was
  removed before that, after a DNS pass or a retry had applied it, keeps its rules without any
  failure (`targets.py:169`). And it asks that nothing fails: the result of the cleanup is
  ignored and it is not repeated (`targets.py:131-135`).
* `AppliedEventually` promises the wanted rules, and nothing else if nothing ever failed. After a
  failure there may be more: a `-D` of an orphan that fails is only logged (`apply.py:190`), a
  listing that fails has rules appended that are there; the result is True in both cases, the
  backoff entry goes, and with config-watch nobody looks at the file before its next edit.
* `AppliedEventually` is checked without exceptions: after one, the drop-ins that the cycle
  had not reached have no retry entry, and with config-watch nobody looks at them until
  the next event. A directory that disappears between `is_dir` and the listing
  (`targets.py:109, 127`) reads as empty, and its rules are deleted.
* `WatchIsRecursive`, `EditsKept` ask that the overflowing queue does not lose the creation
  of a directory (`MayLose` without `"new"`; `Reported` in the proofs). If it does, the
  overflow's full sync reads the new directory, but it never gets a watch. They also
  ask for the whole configuration (`~Explicit`): with `--table` and `--chain` a chain
  directory that is made anew gets no watch.
* `WatchSyncsApart` leaves out full syncs after an overflow; they ignore the cooldown and
  do not start it.
* `NotesUsedOnce` says that annotations go to one rule. Those above a line that `shlex`
  refuses go to the next rule (`dropin.py:53`).

* `ResyncSpares` speaks of a PID that belonged to a running daemon when it was read and whose
  daemon runs on. A PID that a kill has left in the file, or whose daemon ended in between,
  may be another program's, which the SIGHUP then hits (`main.py:174`).
* `AlertsOnChange` compares the answers since the daemon started: a restart forgets every
  episode and alerts again. A rule that is removed keeps its episode, so one that comes back
  while its name still fails is not alerted about.
* `ActivityMeansChange` speaks of labels that stay. When `iptables-save` fails once, its labels
  go with what is remembered of them, and come back as active; a `-R` resets a counter and
  looks like traffic.
* `StatusTruthful` takes the code's view of what is in order: status 1 of `-C` is.
* `RestWatched`, `RestSynced` speak of a daemon that waits with an empty queue and has not fallen
  back to polling, as it does when the constructor's walk fails (`daemon.py:98`).

### Bounds

* `Apply`: three tags allow a rule that stays, one that goes and one that comes, in each
  order; two bodies and the second spelling of one of them give equal, respelt and
  changed rules; one refused body; two or three rules in a chain besides those of the
  pass show a shift of numbers on either side. `MaxRules` bounds the chain at the start
  of a pass and for insertions by others only, never what a pass appends. `DeleteMax`
  (512 in the code) is 5 where it is not to be reached and 3 where it is. In `apply_shared` the
  rules of others are one whose line can be read and one whose line cannot, so that both kinds
  stand before and behind those of the pass.
* `Targets`: two files (one before, one after the file that fails), one fault and two edits
  in each behaviour: a removal and a return, or one edit of each file; in `targets_progress` a
  file of static and one of `@host` rules, which a DNS pass may be the first to apply.
  `Retry` is 1: a unit is the whole interval, "too early" is the state before it has passed, and
  `RetriesWait` proves the rest for any number of units.
* `Daemon`: two targets (one event names a target, the pass goes on with the other),
  `MinInterval` 2 so that the cooldown can be half over, timers of 1 and 1, or 2 and 1 in
  `daemon_progress`, which has one target.
  Symmetry in the targets is used for safety only.
* `DropIn`: eight kinds of line with one host and two names; five lines are enough for a
  name three times, or twice with an unnamed rule between.

* `Locking`: two PIDs and two kills are enough for a daemon that ends while the next one
  starts, and for a PID left behind that is given out again.
* `HostLog`: one drop-in with two rules, so that keys can be mixed up, and an hour of two units.
* `Metrics`: an owned rule and another, counters of 0 and 1, two minutes and three passes: a
  label that comes, stays and goes, or goes and comes back.
* `TestMode`: two targets with two drop-ins, each broken, of one rule, or of two with hosts: a
  failure can be followed by a success in every one of the loops.
* `Watch`: two names of chain directories, so that one can be renamed to the other, and three
  changes by operators; `RestWatched` and `RestSynced` also hold with four.

Deadlock is checked everywhere but in `MCParts`, where `--test` and the parser end and the
counters of `Metrics` and `Watch` reach their bounds.

### Fairness

* `Locking`: weak fairness of each process's next statement, and of starting a daemon while
  a PID is free: the unit has `Restart=always` (`iptablesman.service`).
* `Watch`: weak fairness of the daemon's steps (walking, reading, listing, syncing); none of the
  operators, whose changes are bounded.
* `Apply`: weak fairness of a pass that has begun. `sync_file` waits for nothing but the
  command it has started; that a command returns is assumed (`subprocess.run` has no
  timeout).
* `Targets`: weak fairness of the cycle's steps. Strong fairness of starting a full cycle
  when something changed, of the interval wake, and of time: other cycles may run in
  between any number of times, but the loop comes round. That it does is
  `EditsSynced` and `TimersServed` of `Daemon`.
* `Daemon`: weak fairness of the loop, and strong fairness of time while it waits: however
  often events end a wait early, the clock goes on. No fairness of operators.

## 4. Proofs

TLAPS proves these for every value of the constants that satisfies the named assumptions
in the modules (tags and foreign comments are disjoint, `Kernel` is idempotent, the tags of
a drop-in are distinct, intervals are positive, names are not numbers, `NoAddress` is not a
set of bodies).

| Theorem | States | Along |
| --- | --- | --- |
| `ApplyProofs!TypeCorrect` | `Spec => []TypeOK` | `TypeOK` is inductive: it says that `-R` and `-D` are only reached with an entry and an owned rule in hand |
| `ApplyProofs!OwnedOnly` | `Spec => OnlyOwnedRulesEdited` | `NumInv` adds that, as long as nobody interferes and `shlex` can split the lines of the listing, the numbers still to be deleted name rules of tags that left the file, and each number of the listing has the tag it had. The descending order of the deletions is what makes it inductive |
| `ApplyProofs!GatedKept` | `Spec => GatedRuleKept` | `GatedInv` adds to it that tags without an address which are in the chain are in the listing, and that the wipe is only reached when there are none |
| `ApplyProofs!OnlyChangedReplaced` | `"C" \notin MayFail => (Spec => []ReplaceOnlyChanged)` | with `NumInv`, in which a chain that does not exist is empty |
| `ApplyProofs!OneRulePerTag` | `OwnChain => (Spec => []NoDuplicateTag)` | `OnceInv`: every owned rule was listed or belongs to an entry the loop has passed, and a wipe has as many iterations left as there are owned rules. `OwnChain` names what is needed: nobody edits the chain during a pass, `-S` and `-D` by specification do what they say, every line can be read (`Quoted` and `Garbled` are empty), and there are at most `DeleteMax` tags |
| `ApplyProofs!TrueMeansApplied` | `CalmChain => (Spec => []PassApplied)` | `AppliedInv` adds to `OnceInv`: owned rules are spelt as the kernel spells them, every orphan is among the numbers to delete, what the loop has passed is applied or excused, and what is ahead of it is still as it was listed. `CalmChain` is `OwnChain` without failures of `-D` by number |
| `ApplyProofs!PassGetsShorter` | every command of a pass brings `<<Stage, Remaining>>` down in the order of `Descent!ShorterWellFounded`, no step of another program changes it | `LoopsBounded`: each loop stays inside its bound, the orphans are finitely many |
| `RefineProofs!Implements` | `CalmChain => (Spec => ImplementsReconcile)` | `RefineInv`, see below |
| `TargetsProofs!TypeCorrect` | `Spec => []TypeOK` | part of `Inv` |
| `TargetsProofs!RetriesWait` | `Spec => RetryRespected` | `RetryInv`: what is left of the backoff and the time since the failure add up to the interval |
| `TargetsProofs!AppliedKnown` | `Spec => []AppliedRemembered` | `RememberInv`: in a full cycle, which is about to replace `prev_basenames`, a drop-in it had applied was listed or is still to be cleaned up |
| `TargetsProofs!CyclesAccount` | `Spec => CycleAccounts` | `ProgressInv`: what an undisturbed full cycle has dealt with is applied as it is on disk or has an entry |
| `TargetsProofs!UpToDateStays` | `Spec => UpToDateKept` | `Inv` |
| `TargetsProofs!CycleGetsShorter` | the same of a cycle's steps, the failing ones included, and of edits during it | each drop-in of the list is looked at once, and the list is what was on disk when the cycle began |
| `DaemonProofs!NoEditForgotten` | `Reported => (Spec => []EditsKept)` | `KeptInv`: an edited target is known somewhere, *and* each directory is watched or its creation is still in the queue. The second is needed: an edit without a watch raises no event and is covered by the creation event only |
| `DaemonProofs!DirectoriesWatched` | `Reported => (Spec => []WatchIsRecursive)` | the second half of `KeptInv` |
| `DaemonProofs!NoSignalLost` | `Spec => []SignalKept` | inductive as it stands |
| `DaemonProofs!LoopTypeCorrect` | `Spec => []TypeOK` | in three parts: flags, times and sets |
| `DaemonProofs!SyncsKeepDistance` | `Spec => WatchSyncsApart` | `ApartInv`: the cooldown's clock is the time since the last such sync, but for the steps between a sync and its note |
| `DropInProofs!DropInTypeCorrect` | `DropInSpec => []DropInTypeOK` | `Base`: no tag is assigned before parsing ends |
| `DropInProofs!Distinct` | `DropInSpec => []TagsDistinct` | `DistinctInv`: every tag given so far is at or below the counter of its name, or of the unnamed; so the next one is new. That names are not numbers keeps the two sorts apart |
| `DropInProofs!Documented` | `DropInSpec => []TagsDocumented` | `ExactInv`: `name_occurrence` and `unnamed_seq` are the cardinalities of the sets of blocks alike among those numbered so far; one block more adds one element to one of them |
| `DropInProofs!NotesOnce` | `DropInSpec => []NotesUsedOnce` | `NotesInv`: the lines that the blocks and the pending annotations come from are distinct, and above the next line |
| `DropInProofs!HostsSeen` | `DropInSpec => []DnsPassSeesHosts` | `HostsFound`: what the parser has noted as a gate stands on a line that the DNS pass's scan reads as one |
| `PartsProofs!LockTypeCorrect`, `FileTruthful`, `ResyncSafe` | `LockTypeOK`, `PidFileTruthful` and `ResyncSpares` of `LockSpec` | `LockInv`: the flock belongs to the one daemon between its lock and its unlock; the PID is in the file from its writing to the truncation, and what else is there was left by a kill; every daemon past its first stage handles SIGHUP. The order of the steps at either end is what makes it inductive |
| `PartsProofs!HostLogTypeCorrect`, `AlertsCorrect`, `RemindersCorrect` | `HostLogTypeOK`, `AlertsOnChange` and `RemindedHourly` of `HostLogSpec` | `HostLogInv`: the two flags of an episode are one and say whether the rule's last answer was bad, a finished episode is as good as new, and while it lasts `last_hourly_error` is the time of the last message |
| `PartsProofs!MetricsTypeCorrect`, `PushShowsSample`, `PushLeavesNoGap`, `ActivityCorrect` | `MetricsTypeOK`, `PushComplete`, `NoGap` and `ActivityMeansChange` of `MetricsSpec` | `MetricsInv`: what is shown and what is remembered are the same labels and numbers, none outside the seen labels; the exported counters are those of the last push; what a push has set so far is from the sample. `CountInv` bounds the numbers; the chain's counter is the cardinality of a finite set |
| `PartsProofs!TestTypeCorrect`, `StatusCorrect` | `TestTypeOK` and `StatusTruthful` of `TestSpec` | `TestInv`: the results on their way up belong to disjoint parts of what has been found, and a drop-in has been looked at, or will be, unless a failure has cut its target short |
| `WatchProofs!WatchInvariant`, `WatchTypeCorrect`, `WatchedAtRest`, `SyncedAtRest` | `WatchInv`, `WatchTypeOK`, `RestWatched` and `RestSynced` of `WatchSpec` | `WatchInv`, see below |
| `PartsProofs!PartsTypeCorrect`, `PartsSafe` | `Spec => []TypeOK` of `MCParts`, and the fourteen safety and action properties that `parts` checks | the theorems of the parts; every step of the whole is a step of one part and leaves the variables of the others alone (`PartsCompose`) |

The argument for the refinement. Each step of `Apply` is a step of `Reconcile` or leaves what
it speaks of alone: the step after which a pass knows its goals is `Start`, a deletion `Withdraw`, a
`-R` or `-A` that succeeds `Put`, the end of a pass `Succeed` or `GiveUp`, a pass without
rules to apply `Idle`, other programs between passes `Surroundings`. `RefineInv` is
`AppliedInv` (which makes a pass's end with True a `Succeed`: all goals reached, or the named
excuse), `GatedInv` (which keeps a rule without an address from being withdrawn) and
`PassShape` (the cleanup of a removed file has no entries, `-R` is for active ones). That no step touches the rules of others
needs what happens to their order when a rule is appended, replaced or taken out by number.
`ForeignOf` defines that order without recursion: the rule of rank `k` is the one at the
place that has `k` places of others up to it, so a map between places that keeps their order
keeps the ranks (`SameRanks`), and shifting down what lies behind a deleted rule is one.

The argument for the watch. `RestWatched` speaks of a daemon at rest, so by itself it says
nothing of a directory that is made while the walk is on, or whose parent is renamed before
`inotify_add_watch`. `ReachInv` says it for every state: a directory of the tree is *known*
(watched, and `_wd_map` has its present path), or *heard of* (an event `in` of the queue names
it or a directory above it), or *ahead* (the walk has not passed it, or has not passed one
above it). Each operator's change keeps it because the directory that changes is either known
to its parent's watch, which raises the event, or its parent is itself only heard of or ahead.
The walk keeps it because a directory is listed after it is watched, so what is made in between
is in an event as well (`config_watch.py:143-148`): with the two in the other order it is not
inductive, and indeed false. `MapInv` is needed for the events of directories that have moved:
`_wd_map` still knows them, by an old path, but as a chain directory whenever they are one.
`SyncInv` says the same of edits: in the pass, in what `wait` has collected, or in an event that
still maps to their directory; every other event has all directories discovered anew. Both are
under `~polling`; that a daemon which polls also syncs what it must is `EditsReach`.

The theorems have no bounds on minutes, passes, kills, hours, directories or changes other than
the constants that name them, which may be any number.

That the tags of a drop-in are distinct is an assumption of `Apply` (`DropInsAssumption`);
`DropInProofs!Distinct` proves it of the parser.

Only model-checked:

* every liveness property (`PassEnds`, `AppliedEventually`, `RemovedCleaned`, `EditsSynced`,
  `TimersServed`, `DaemonReturns`, `EditsReach`): liveness under fairness is out of the
  prover's reach. Of `PassEnds`, what is not about fairness is proved: `PassGetsShorter` says that
  a pass cannot go on for ever by its own commands, for any constants. The same holds of the
  cycles on which `AppliedEventually` and `RemovedCleaned` rely (`CycleGetsShorter`).

## 5. Not modelled

Command line, status, list, logging, process title and version keep no state that another
part reads; `main.py`'s choice of a mode and the clamping of intervals are assumptions of the
modules (`IntervalsAssumption`). Left out of modelled parts: symbolic links below the
configuration directory, whose events `map_event_path` maps to nothing (`config_watch.py:54`);
names that discovery refuses; the rate limit of the missing-directory log; a wall clock that
is set back, after which reminders, backoffs and timers wait until it has caught up; several
files in one chain, whose `sync_file`s touch disjoint tags. `iptables`, the kernel's chain,
inotify, `flock`, signals and PIDs are modelled from how the code uses them and are marked
external in the map. Exits of the daemon by an exception are left to the service manager,
which restarts it: `Restart` of `Targets` is what the chain sees of that, and in `Watch` the
daemon starts its walk again.

## 6. Plan

Done, in this order, the most important behaviour first: `Apply`, `Targets`, `Daemon`,
`DropIn`, `Reconcile`; then `Locking`, `HostLog`, `Metrics`, `TestMode` and `Watch`; with proofs
about all of them, and about the six parts of `MCParts` together.

Next:

1. `Watch` shown to implement the queue of `Daemon`, with a refinement mapping from the
   events of directories to those of targets.
2. Two drop-ins in one chain in `Apply`.
