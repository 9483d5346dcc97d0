------------------------------- MODULE Daemon --------------------------------
(***************************************************************************)
(* The loop of run_daemon_loop (daemon.py): what wakes the daemon and      *)
(* which targets it then syncs.  Operators edit drop-ins, make and remove  *)
(* chain directories and send SIGHUP at any time.  inotify queues what it  *)
(* sees (ConfigWatcher); ConfigWatchCooldown spaces the passes it causes   *)
(* and keeps the events that come too early.                               *)
(*                                                                         *)
(* One sync_target_cycle of one target is one step (module Targets has its *)
(* inside).  Time passes while the daemon waits: its unit is longer than a *)
(* pass.  Metrics are left out.                                            *)
(***************************************************************************)
EXTENDS Naturals, FiniteSets

CONSTANTS
  Targets,      \* (table, chain) pairs
  Never,        \* no watch-triggered sync yet
  Explicit,     \* --table and --chain: only their directory is watched
  ScopeFull,    \* --config-watch-scope full
  Interval,     \* --interval
  DnsInterval,  \* --dns-interval
  MinInterval,  \* --config-watch-min-interval
  MayLose       \* sorts of events that an overflowing queue may lose

Sorts == {"dirty", "new", "gone"}
Events == [sort : Sorts, target : Targets]
Overflow == [sort |-> "overflow"]

\* Changes of a directory itself map to "rediscover" (map_event_path).
IsRediscover(e) == e.sort \in {"new", "gone"}

ASSUME IntervalsAssumption ==
  /\ Interval \in Nat \ {0} /\ DnsInterval \in Nat \ {0} /\ MinInterval \in Nat \ {0}
  /\ Never \notin Nat
ASSUME SwitchAssumption ==
  /\ Explicit \in BOOLEAN /\ ScopeFull \in BOOLEAN
  /\ MayLose \subseteq Sorts

VARIABLES
  watching,   \* --config-watch, and inotify is available: polling otherwise
  here,       \* targets whose directory exists
  watched,    \* those that have an inotify watch
  queue,      \* unread inotify events
  forced,     \* forced["now"]
  pc,         \* where the loop is
  res,        \* the events that wait() has returned
  todo,       \* targets the current pass has still to sync
  pendingDirty, pendingRediscover,  \* ConfigWatchCooldown
  sinceWatch, \* time since last_watch_sync_at
  ageInterval, ageDns,              \* time since last_interval_at, last_dns_at
  waited,     \* whether the wait has lasted its minimum, one unit
  unsynced,   \* history: targets edited since their last full cycle began
  asked,      \* history: SIGHUP since the last full sync began
  sinceSync   \* history: time since a sync caused by inotify

loop == <<pc, res, todo>>
pending == <<pendingDirty, pendingRediscover>>
ages == <<sinceWatch, ageInterval, ageDns, waited>>
vars == <<watching, here, watched, queue, forced, pc, res, todo, pendingDirty,
          pendingRediscover, sinceWatch, ageInterval, ageDns, waited,
          unsynced, asked, sinceSync>>

\* The startup sync.
Init ==
  /\ watching \in BOOLEAN
  /\ here \in SUBSET Targets
  /\ watched = IF watching THEN here ELSE {}
  /\ queue = {}
  /\ forced = FALSE
  /\ pc = "full" /\ res = {} /\ todo = here
  /\ pendingDirty = {} /\ pendingRediscover = FALSE
  /\ sinceWatch = Never
  /\ ageInterval = 0 /\ ageDns = 0 /\ waited = FALSE
  /\ unsynced = here
  /\ asked = FALSE
  /\ sinceSync = Never

-----------------------------------------------------------------------------
\* Waiting.

\* A time since some event, counted up to the limit it is compared with.
Older(age, limit) == IF age = Never \/ age = limit THEN age ELSE age + 1

\* _compute_wait_timeout: until the next timer, but one unit at least.
DnsDue == ageDns = DnsInterval
IntervalDue == ageInterval = Interval
WaitOver == waited /\ (DnsDue \/ IntervalDue)

Tick ==
  /\ pc = "wait" /\ ~WaitOver
  /\ waited' = TRUE
  /\ sinceWatch' = Older(sinceWatch, MinInterval)
  /\ sinceSync' = Older(sinceSync, MinInterval)
  /\ ageInterval' = Older(ageInterval, Interval)
  /\ ageDns' = Older(ageDns, DnsInterval)
  /\ UNCHANGED <<watching, here, watched, queue, forced, loop, pending,
                 unsynced, asked>>

TimeOut ==
  /\ pc = "wait" /\ WaitOver /\ queue = {}
  /\ pc' = "woken" /\ res' = {}
  /\ UNCHANGED <<watching, here, watched, queue, forced, todo, pending, ages,
                 unsynced, asked, sinceSync>>

\* ConfigWatcher.wait: at most one buffer of events in each read, so some may
\* stay in the queue.  A new directory that still exists gets its watch here.
WatchedAfter_NoNew(part) == watched
WatchedAfter_Gone(part) == watched \cup {t \in Targets : [sort |-> "new", target |-> t] \in part}
WatchedAfter(part) == watched \cup {t \in here : [sort |-> "new", target |-> t] \in part}

Read ==
  /\ pc = "wait"
  /\ \E part \in SUBSET queue :
       /\ part # {}
       /\ res' = part /\ queue' = queue \ part
       /\ watched' = WatchedAfter(part)
  /\ pc' = "woken"
  /\ UNCHANGED <<watching, here, forced, todo, pending, ages, unsynced, asked,
                 sinceSync>>

-----------------------------------------------------------------------------
\* Awake.

CooldownOver == sinceWatch \in {Never, MinInterval}

\* The targets of _watch_sync.
WatchTargets(dirty, rediscover) ==
  IF rediscover \/ ScopeFull THEN here ELSE dirty \cap here

DirtyIn(events) == {e.target : e \in {d \in events : d.sort = "dirty"}}
RediscoverIn(events) == \E e \in events : IsRediscover(e)

\* SIGHUP or overflow: forced is reset before the sync begins.
WakeForced ==
  /\ pc = "woken"
  /\ forced \/ Overflow \in res
  /\ forced' = FALSE /\ asked' = FALSE
  /\ pc' = "full" /\ res' = {} /\ todo' = here
  /\ UNCHANGED <<watching, here, watched, queue, pending, ages, unsynced,
                 sinceSync>>

NotForced == ~forced /\ Overflow \notin res

WakeSync ==
  /\ pc = "woken" /\ NotForced
  /\ res # {} /\ CooldownOver
  /\ todo' = WatchTargets(DirtyIn(res) \cup pendingDirty, RediscoverIn(res) \/ pendingRediscover)
  /\ pendingDirty' = {} /\ pendingRediscover' = FALSE
  /\ pc' = "watch" /\ res' = {}
  /\ sinceSync' = 0
  /\ UNCHANGED <<watching, here, watched, queue, forced, ages, unsynced, asked>>

\* merge_pending
Merge_DropsRediscover ==
  /\ pendingDirty' = pendingDirty \cup DirtyIn(res)
  /\ UNCHANGED pendingRediscover
Merge ==
  /\ pendingDirty' = pendingDirty \cup DirtyIn(res)
  /\ pendingRediscover' = (pendingRediscover \/ RediscoverIn(res))

WakeMerge ==
  /\ pc = "woken" /\ NotForced
  /\ res # {} /\ ~CooldownOver
  /\ Merge
  /\ pc' = "dns" /\ res' = {}
  /\ UNCHANGED <<watching, here, watched, queue, forced, todo, ages, unsynced,
                 asked, sinceSync>>

WakeQuiet ==
  /\ pc = "woken" /\ NotForced /\ res = {}
  /\ pc' = "dns"
  /\ UNCHANGED <<watching, here, watched, queue, forced, res, todo, pending,
                 ages, unsynced, asked, sinceSync>>

DnsWake_LocalName ==
  /\ pc = "dns"
  /\ pc' = "interval"
  /\ UNCHANGED <<watching, here, watched, queue, forced, res, todo, pending,
                 sinceWatch, ageInterval, ageDns, waited, unsynced, asked,
                 sinceSync>>

\* _dns_wake: @host drop-ins only.
DnsWake ==
  /\ pc = "dns"
  /\ ageDns' = IF DnsDue THEN 0 ELSE ageDns
  /\ pc' = "interval"
  /\ UNCHANGED <<watching, here, watched, queue, forced, res, todo, pending,
                 sinceWatch, ageInterval, waited, unsynced, asked, sinceSync>>

\* _interval_wake: due retries only, and without config-watch every target.
\* Its assignment to last_dns_at is to a local name.
IntervalWake ==
  /\ pc = "interval"
  /\ \/ IntervalDue /\ ageInterval' = 0
        /\ IF watching THEN pc' = "flush" /\ UNCHANGED todo
                    ELSE pc' = "poll" /\ todo' = here
     \/ ~IntervalDue /\ pc' = "flush" /\ UNCHANGED <<ageInterval, todo>>
  /\ UNCHANGED <<watching, here, watched, queue, forced, res, pending,
                 sinceWatch, ageDns, waited, unsynced, asked, sinceSync>>

\* The end of the loop: events kept during the cooldown.
HasPending == pendingDirty # {} \/ pendingRediscover

Flush ==
  /\ pc = "flush"
  /\ watching /\ CooldownOver /\ HasPending
  /\ todo' = WatchTargets(pendingDirty, pendingRediscover)
  /\ pendingDirty' = {} /\ pendingRediscover' = FALSE
  /\ pc' = "late"
  /\ sinceSync' = 0
  /\ UNCHANGED <<watching, here, watched, queue, forced, res, ages, unsynced,
                 asked>>

Again == pc' = "wait" /\ waited' = FALSE

NoFlush ==
  /\ pc = "flush"
  /\ ~(watching /\ CooldownOver /\ HasPending)
  /\ Again
  /\ UNCHANGED <<watching, here, watched, queue, forced, res, todo, pending,
                 sinceWatch, ageInterval, ageDns, unsynced, asked, sinceSync>>

-----------------------------------------------------------------------------
\* Passes.

Passes == {"full", "watch", "poll", "late"}

\* sync_target_cycle of one target; targets come in any order.
SyncTarget ==
  /\ pc \in Passes
  /\ \E t \in todo : todo' = todo \ {t} /\ unsynced' = unsynced \ {t}
  /\ UNCHANGED <<watching, here, watched, queue, forced, pc, res, pending, ages,
                 asked, sinceSync>>

EndFull_ResetsFlag ==
  /\ pc = "full" /\ todo = {}
  /\ forced' = FALSE
  /\ ageInterval' = 0 /\ ageDns' = 0
  /\ Again
  /\ UNCHANGED <<watching, here, watched, queue, res, todo, pending, sinceWatch,
                 unsynced, asked, sinceSync>>

EndFull ==
  /\ pc = "full" /\ todo = {}
  /\ ageInterval' = 0 /\ ageDns' = 0
  /\ Again
  /\ UNCHANGED <<watching, here, watched, queue, forced, res, todo, pending,
                 sinceWatch, unsynced, asked, sinceSync>>

\* note_sync
AfterWatch == pc' = "dns" /\ UNCHANGED waited

NoteSync_Missing == UNCHANGED sinceWatch
NoteSync == sinceWatch' = 0

EndWatch ==
  /\ pc = "watch" /\ todo = {}
  /\ NoteSync
  /\ AfterWatch
  /\ UNCHANGED <<watching, here, watched, queue, forced, res, todo, pending,
                 ageInterval, ageDns, unsynced, asked, sinceSync>>

EndPoll ==
  /\ pc = "poll" /\ todo = {}
  /\ pc' = "flush"
  /\ UNCHANGED <<watching, here, watched, queue, forced, res, todo, pending,
                 ages, unsynced, asked, sinceSync>>

EndLate ==
  /\ pc = "late" /\ todo = {}
  /\ NoteSync
  /\ Again
  /\ UNCHANGED <<watching, here, watched, queue, forced, res, todo, pending,
                 ageInterval, ageDns, unsynced, asked, sinceSync>>

-----------------------------------------------------------------------------
\* The surroundings.

\* inotify queues an event, or loses it and says so.
Report(e) ==
  \/ queue' = queue \cup {e}
  \/ e.sort \in MayLose /\ queue' = queue \cup {Overflow}

\* A drop-in of t is written or removed.
Edit(t) ==
  /\ t \in here
  /\ unsynced' = unsynced \cup {t}
  /\ IF t \in watched THEN Report([sort |-> "dirty", target |-> t]) ELSE UNCHANGED queue
  /\ UNCHANGED <<watching, here, watched, forced, loop, pending, ages, asked,
                 sinceSync>>

\* A chain directory appears, with drop-ins.  inotify reports it to who watches
\* its parent.
MakeDir(t) ==
  /\ t \notin here
  /\ here' = here \cup {t}
  /\ unsynced' = unsynced \cup {t}
  /\ IF watching /\ ~Explicit THEN Report([sort |-> "new", target |-> t]) ELSE UNCHANGED queue
  /\ UNCHANGED <<watching, watched, forced, loop, pending, ages, asked,
                 sinceSync>>

\* It goes, and its watch with it.
RemoveDir(t) ==
  /\ t \in here
  /\ here' = here \ {t}
  /\ watched' = watched \ {t}
  /\ unsynced' = unsynced \ {t}
  /\ IF t \in watched \/ (watching /\ ~Explicit)
       THEN Report([sort |-> "gone", target |-> t])
       ELSE UNCHANGED queue
  /\ UNCHANGED <<watching, forced, loop, pending, ages, asked, sinceSync>>

\* The handler sets a flag; a wait that it interrupts goes on (PEP 475).
Sighup ==
  /\ forced' = TRUE /\ asked' = TRUE
  /\ UNCHANGED <<watching, here, watched, queue, loop, pending, ages, unsynced,
                 sinceSync>>

-----------------------------------------------------------------------------
Loop ==
  \/ Tick \/ TimeOut \/ Read
  \/ WakeForced \/ WakeSync \/ WakeMerge \/ WakeQuiet
  \/ DnsWake \/ IntervalWake \/ Flush \/ NoFlush
  \/ SyncTarget \/ EndFull \/ EndWatch \/ EndPoll \/ EndLate

Surroundings ==
  \/ \E t \in Targets : Edit(t) \/ MakeDir(t) \/ RemoveDir(t)
  \/ Sighup

Next == Loop \/ Surroundings

Spec == Init /\ [][Next]_vars

\* The loop never stops, passes end, and time passes whenever it waits, however
\* many events wake it.
FairSpec == Spec /\ WF_vars(Loop) /\ SF_vars(Tick)

-----------------------------------------------------------------------------
\* Properties.

\* Type invariant.
TypeOK ==
  /\ watching \in BOOLEAN
  /\ here \subseteq Targets /\ watched \subseteq here
  /\ queue \subseteq Events \cup {Overflow} /\ res \subseteq Events \cup {Overflow}
  /\ forced \in BOOLEAN /\ asked \in BOOLEAN /\ waited \in BOOLEAN
  /\ pc \in Passes \cup {"wait", "woken", "dns", "interval", "flush"}
  /\ todo \subseteq Targets /\ unsynced \subseteq here
  /\ pendingDirty \subseteq Targets /\ pendingRediscover \in BOOLEAN
  /\ sinceWatch \in 0 .. MinInterval \cup {Never}
  /\ sinceSync \in 0 .. MinInterval \cup {Never}
  /\ ageInterval \in 0 .. Interval /\ ageDns \in 0 .. DnsInterval

\* An event from which a sync of t will follow.
Covers(e, t) == e = Overflow \/ IsRediscover(e) \/ e = [sort |-> "dirty", target |-> t]

\* With config-watch no edit is forgotten: of every target edited since its last
\* sync began, the queue, the result of the wait, the events kept during the
\* cooldown or the running pass still knows.
EditsKept ==
  watching => \A t \in unsynced :
    \/ t \in todo
    \/ \E e \in queue \cup res : Covers(e, t)
    \/ t \in pendingDirty
    \/ pendingRediscover

\* A SIGHUP is never lost, even in the middle of the sync that an earlier one
\* caused: until a full sync begins that is younger than it, the flag is set.
SignalKept == asked => forced

\* Syncs caused by inotify are MinInterval apart (README.md:55), whether they
\* come from the wake or from the flush at the end of the loop, and whatever full
\* syncs come between.  (A full sync after an overflow ignores the cooldown.)
WatchSyncsApart == [][WakeSync \/ Flush => sinceSync \in {Never, MinInterval}]_vars

\* Every edited target is synced at last, even one whose directory has come and
\* gone before.
EditsSynced == \A t \in Targets : t \in unsynced ~> t \notin unsynced

\* Neither events nor signals keep the timers from being served.
TimersServed ==
  /\ DnsDue ~> ~DnsDue
  /\ IntervalDue ~> ~IntervalDue

\* config_watch.py:121 "Recursive inotify on config_dir": a chain directory that
\* exists is watched, or the event that leads to its watch is in the queue.
\* Without this an edit is seen by nobody.
WatchIsRecursive ==
  watching => \A t \in here \ watched : [sort |-> "new", target |-> t] \in queue

\* README.md:274 "SIGHUP or --resync forces immediate resync (skips sleep)": no
\* time passes in a wait once the signal has come.
SighupSkipsSleep == [][forced => ~Tick]_vars

=============================================================================
