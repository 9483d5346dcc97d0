------------------------------- MODULE Targets -------------------------------
(***************************************************************************)
(* sync_target_cycle (targets.py) for one chain directory: which drop-ins  *)
(* a cycle applies, which it cleans up, and what it remembers of them in   *)
(* SyncState until the next cycle.  The daemon runs three kinds of cycle:  *)
(*   "full"  startup, SIGHUP, inotify events, inotify overflow;            *)
(*   "due"   the interval wake: drop-ins whose backoff is over             *)
(*           (sync_due_backoff_files);                                     *)
(*   "dns"   drop-ins with @host only (run_dns_pass).                      *)
(* Operators edit the directory at any time, also during a cycle.          *)
(*                                                                         *)
(* One call of sync_file is one step, with the outcomes that the module    *)
(* Apply shows it to have: `live` says which of a drop-in's static rules   *)
(* and which of its @host rules are in the chain, and whether there are    *)
(* more that it owns: old ones that were not deleted, or second ones.      *)
(* Time passes only between two cycles: its unit is longer than a cycle.   *)
(***************************************************************************)
EXTENDS Naturals, FiniteSets

CONSTANTS
  Files,       \* basenames, numbered in their sort order
  Contents,    \* contents a drop-in may have
  Absent,      \* no such file
  None,        \* no static rules; no entry in a dict
  Refused,     \* static rules with one that iptables refuses
  Statics,     \* static rules that iptables accepts
  Retry,       \* apply_failure_retry_interval, in units of time
  MayFault,    \* faults that may happen: see Faults
  MaxFaults,   \* bound on their number
  MaxEdits     \* bound on the number of edits of the directory

\* "apply": a command of sync_file fails by itself; "wipe": one of
\* delete_all_owned_comments; "raise": a cycle ends by an exception (iptables
\* cannot be started); "vanish": a file is removed while sync_file opens it;
\* "restart": the daemon restarts; "dir": the chain directory vanishes.
Faults == {"apply", "wipe", "raise", "vanish", "restart", "dir"}

Content == [static : Statics \cup {None, Refused}, hosts : BOOLEAN]
Live == [static : Statics \cup {None}, hosts : BOOLEAN, extra : BOOLEAN]
Nothing == [static |-> None, hosts |-> FALSE, extra |-> FALSE]

ASSUME FilesAssumption == Files \subseteq Nat /\ IsFiniteSet(Files)
ASSUME ContentsAssumption ==
  /\ Contents \subseteq Content
  /\ Absent \notin Content
  /\ None \notin Statics /\ Refused \notin Statics /\ None # Refused
  /\ None \notin Nat
ASSUME BoundsAssumption ==
  /\ Retry \in Nat \ {0}
  /\ MayFault \subseteq Faults
  /\ MaxFaults \in Nat /\ MaxEdits \in Nat

VARIABLES
  dir,      \* whether the chain directory exists
  disk,     \* its drop-ins
  live,     \* live[f]: the rules of the chain that f owns
  prev,     \* SyncState.prev_basenames
  backoff,  \* SyncState.apply_fail_backoff_until, as the time left
  pc,       \* "idle", "list", "clean" or "sync"
  kind,     \* the kind of the cycle
  current,  \* the drop-ins the cycle has listed
  todo,     \* those it has still to look at
  removed,  \* removed drop-ins it has still to clean up
  changed,  \* an edit since the last full cycle began: inotify events
  faults,   \* faults so far
  edits,    \* edits so far
  since,    \* history: time since the last attempt at f, if that failed
  told,     \* history: the content a full cycle last applied with True, but
            \* for a first cycle that an exception cut short
  quiet     \* history: no edit since the cycle began

disks == <<dir, disk>>
state == <<prev, backoff>>
cycle == <<pc, kind, current, todo, removed>>
history == <<since, told, quiet>>
vars == <<dir, disk, live, prev, backoff, pc, kind, current, todo, removed,
          changed, faults, edits, since, told, quiet>>

Init ==
  /\ dir = TRUE
  /\ disk \in [Files -> Contents \cup {Absent}]
  /\ live = [f \in Files |-> Nothing]
  /\ prev = {}
  /\ backoff = [f \in Files |-> None]
  /\ pc = "idle" /\ kind = "full"
  /\ current = {} /\ todo = {} /\ removed = {}
  /\ changed = TRUE
  /\ faults = 0 /\ edits = 0
  /\ since = [f \in Files |-> None]
  /\ told = [f \in Files |-> Absent]
  /\ quiet = TRUE

-----------------------------------------------------------------------------
Present == {f \in Files : disk[f] # Absent}
LiveOf(c) == [static |-> c.static, hosts |-> c.hosts, extra |-> FALSE]

\* A fault of kind e happens now.
Fault(e) == e \in MayFault /\ faults < MaxFaults /\ faults' = faults + 1

\* retry_at is set and not reached.
InBackoff(f) == backoff[f] # None /\ backoff[f] # 0
Due == {f \in Files : backoff[f] = 0}

-----------------------------------------------------------------------------
\* What one sync_file may do to the rules of drop-in f with content c.

\* True.  Rules whose @host does not resolve stay as they are, and if one of
\* them is live a static rule that -R cannot change stays as it is, too.  A -D of
\* an orphan that fails is only logged, and a -S that fails has rules appended
\* that are there already: both leave rules behind, and the result is True.
FullSucceeds(f, c) ==
  \E h \in {c.hosts, c.hosts /\ live[f].hosts}, x \in BOOLEAN :
    \/ /\ c.static # Refused
       /\ live' = [live EXCEPT ![f] = [static |-> c.static, hosts |-> h, extra |-> x]]
       /\ IF x => live[f].extra THEN UNCHANGED faults ELSE Fault("apply")
    \/ /\ c.hosts /\ live[f].hosts /\ live[f].static # None
       /\ live' = [live EXCEPT ![f] = [static |-> live[f].static, hosts |-> h, extra |-> x]]
       /\ IF c.static = Refused /\ (x => live[f].extra) THEN UNCHANGED faults
                                                      ELSE Fault("apply")

\* False, at any command: some rules are old, some new, some gone.
FullFails(f, c) ==
  /\ IF c.static = Refused THEN UNCHANGED faults ELSE Fault("apply")
  /\ \E s \in {None, live[f].static, c.static} \ {Refused},
        h \in {FALSE, live[f].hosts, c.hosts}, x \in BOOLEAN :
       live' = [live EXCEPT ![f] = [static |-> s, hosts |-> h, extra |-> x]]

\* With hosts_only the static rules are orphans: they stay only if a -D fails.
DnsSucceeds(f) ==
  \E s \in {None, live[f].static}, h \in {TRUE, live[f].hosts}, x \in BOOLEAN :
    /\ live' = [live EXCEPT ![f] = [static |-> s, hosts |-> h, extra |-> x]]
    /\ IF s = None /\ (x => live[f].extra) THEN UNCHANGED faults ELSE Fault("apply")
DnsFails(f) ==
  /\ Fault("apply")
  /\ \E s \in {None, live[f].static}, h \in BOOLEAN, x \in BOOLEAN :
       live' = [live EXCEPT ![f] = [static |-> s, hosts |-> h, extra |-> x]]

-----------------------------------------------------------------------------
\* The cycle.

BeginCycle(k) ==
  /\ pc = "idle"
  /\ k = "due" => Due # {}
  /\ kind' = k
  /\ changed' = (changed /\ k # "full")
  /\ pc' = IF dir THEN "list" ELSE "idle"
  /\ current' = {} /\ todo' = {} /\ removed' = {}
  /\ quiet' = TRUE
  /\ UNCHANGED <<disks, live, state, faults, edits, since, told>>

\* list_dropin_files: a directory that vanished after the first test is empty.
\* files_filter holds the due entries of a "due" cycle.
Removed_OfFiltered ==
  IF kind = "dns" THEN {} ELSE prev \ (IF kind = "due" THEN Present \cap Due ELSE Present)
Removed == IF kind = "full" THEN prev \ Present ELSE {}

ListDir ==
  /\ pc = "list"
  /\ current' = Present
  /\ removed' = Removed
  /\ todo' = IF kind = "due" THEN Present \cap Due ELSE Present
  /\ pc' = "clean"
  /\ UNCHANGED <<disks, live, state, kind, changed, faults, edits, history>>

\* delete_all_owned_comments, its failures ignored.
CleanRemoved ==
  /\ pc = "clean"
  /\ \E f \in removed :
       /\ \A g \in removed : f <= g
       /\ removed' = removed \ {f}
       /\ \/ live' = [live EXCEPT ![f] = Nothing] /\ UNCHANGED faults
          \/ /\ Fault("wipe")
             /\ \E s \in {None, live[f].static}, h \in {FALSE, live[f].hosts}, x \in BOOLEAN :
                  live' = [live EXCEPT ![f] = [static |-> s, hosts |-> h, extra |-> x]]
       /\ told' = [told EXCEPT ![f] = Absent]
  /\ UNCHANGED <<disks, state, pc, kind, current, todo, changed, edits, since, quiet>>

Cleaned ==
  /\ pc = "clean" /\ removed = {}
  /\ pc' = "sync"
  /\ UNCHANGED <<disks, live, state, kind, current, todo, removed, changed,
                 faults, edits, history>>

IsNext(f) == f \in todo /\ \A g \in todo : f <= g

PassedOver_NoBackoff(f) ==
  \/ disk[f] = Absent
  \/ kind = "dns" /\ disk[f] \in {c \in Contents : ~c.hosts}

\* Gone meanwhile, no @host in a DNS pass, or still in backoff.
PassedOver(f) ==
  \/ disk[f] = Absent
  \/ kind = "dns" /\ disk[f] \in {c \in Contents : ~c.hosts}
  \/ InBackoff(f)

SkipFile ==
  /\ pc = "sync"
  /\ \E f \in todo : IsNext(f) /\ PassedOver(f) /\ todo' = todo \ {f}
  /\ UNCHANGED <<disks, live, state, pc, kind, current, removed, changed,
                 faults, edits, history>>

\* The entry for the next retry; an expired one is popped by a success.
NoteResult_PopOnly(f, ok) ==
  /\ backoff' = [backoff EXCEPT ![f] = IF ok THEN None ELSE @]
  /\ since' = [since EXCEPT ![f] = IF ok THEN None ELSE 0]
NoteResult(f, ok) ==
  /\ backoff' = [backoff EXCEPT ![f] = IF ok THEN None ELSE Retry]
  /\ since' = [since EXCEPT ![f] = IF ok THEN None ELSE 0]

\* sync_file; a file that vanishes before it is read is a failure.
SyncOne ==
  /\ pc = "sync"
  /\ \E f \in todo :
       /\ IsNext(f) /\ todo' = todo \ {f}
       /\ \/ /\ ~PassedOver(f) /\ kind # "dns"
             /\ \/ /\ FullSucceeds(f, disk[f]) /\ NoteResult(f, TRUE)
                   /\ told' = [told EXCEPT ![f] = IF kind = "full" THEN disk[f] ELSE @]
                \/ FullFails(f, disk[f]) /\ NoteResult(f, FALSE) /\ UNCHANGED told
          \/ /\ ~PassedOver(f) /\ kind = "dns"
             /\ \/ DnsSucceeds(f) /\ NoteResult(f, TRUE)
                \/ DnsFails(f) /\ NoteResult(f, FALSE)
             /\ UNCHANGED told
          \/ /\ disk[f] = Absent /\ ~InBackoff(f)
             /\ kind = "dns" => \E c \in Contents : c.hosts
             /\ Fault("vanish") /\ NoteResult(f, FALSE)
             /\ UNCHANGED <<live, told>>
  /\ UNCHANGED <<disks, prev, pc, kind, current, removed, changed, edits, quiet>>

\* The cycle is over and its locals are gone.
Leave ==
  /\ pc' = "idle" /\ kind' = "full"
  /\ current' = {} /\ todo' = {} /\ removed' = {}

Remembered_OfNow == IF kind = "full" THEN Present ELSE prev
Remembered == IF kind = "full" THEN current ELSE prev

EndCycle ==
  /\ pc = "sync" /\ todo = {}
  /\ prev' = Remembered
  /\ Leave
  /\ UNCHANGED <<disks, live, backoff, changed, faults, edits, history>>

\* The callers catch it; the rest of the cycle is lost, and with it the names
\* that it was to remember.
RaiseInCycle ==
  /\ pc # "idle"
  /\ Fault("raise")
  /\ Leave
  /\ told' = [f \in Files |-> IF f \in prev THEN told[f] ELSE Absent]
  /\ UNCHANGED <<disks, live, state, changed, edits, since, quiet>>

Cycle == ListDir \/ CleanRemoved \/ Cleaned \/ SkipFile \/ SyncOne \/ EndCycle

-----------------------------------------------------------------------------
\* The surroundings.

\* Time left of every backoff; `since` grows up to Retry.
Tick ==
  /\ pc = "idle"
  /\ \E f \in Files : InBackoff(f)
  /\ backoff' = [f \in Files |-> IF InBackoff(f) THEN backoff[f] - 1 ELSE backoff[f]]
  /\ since' = [f \in Files |-> IF since[f] = None \/ since[f] = Retry
                                 THEN since[f] ELSE since[f] + 1]
  /\ UNCHANGED <<disks, live, prev, cycle, changed, faults, edits, told, quiet>>

\* An operator writes or removes a drop-in; inotify reports it.
Edit ==
  /\ dir /\ edits < MaxEdits /\ edits' = edits + 1
  /\ \E f \in Files, c \in Contents \cup {Absent} :
       disk[f] # c /\ disk' = [disk EXCEPT ![f] = c]
  /\ changed' = TRUE /\ quiet' = FALSE
  /\ UNCHANGED <<dir, live, state, cycle, faults, since, told>>

\* The chain directory is moved away and, later, comes back.
DirVanishes ==
  /\ dir /\ Fault("dir")
  /\ dir' = FALSE
  /\ disk' = [f \in Files |-> Absent]
  /\ changed' = TRUE /\ quiet' = FALSE
  /\ UNCHANGED <<live, state, cycle, edits, since, told>>

DirReturns ==
  /\ ~dir /\ dir' = TRUE
  /\ disk' \in [Files -> Contents \cup {Absent}]
  /\ changed' = TRUE /\ quiet' = FALSE
  /\ UNCHANGED <<live, state, cycle, faults, edits, since, told>>

\* The chain survives the daemon, SyncState does not.
Restart ==
  /\ Fault("restart")
  /\ prev' = {} /\ backoff' = [f \in Files |-> None]
  /\ Leave
  /\ changed' = TRUE
  /\ since' = [f \in Files |-> None]
  /\ told' = [f \in Files |-> Absent]
  /\ quiet' = TRUE
  /\ UNCHANGED <<disks, live, edits>>

Next ==
  \/ \E k \in {"full", "due", "dns"} : BeginCycle(k)
  \/ Cycle
  \/ RaiseInCycle
  \/ Tick
  \/ Edit \/ DirVanishes \/ DirReturns
  \/ Restart

Spec == Init /\ [][Next]_vars

\* A cycle runs to its end and an event leads to a full cycle.  The loop of the
\* daemon comes round to the interval wake and lets time pass however many other
\* cycles run in between: strong fairness.
Fairness ==
  /\ WF_vars(Cycle)
  /\ SF_vars(changed /\ BeginCycle("full"))
  /\ SF_vars(BeginCycle("due"))
  /\ SF_vars(Tick)

FairSpec == Spec /\ Fairness

-----------------------------------------------------------------------------
\* Properties.

\* Type invariant.
TypeOK ==
  /\ dir \in BOOLEAN
  /\ disk \in [Files -> Contents \cup {Absent}]
  /\ ~dir => Present = {}
  /\ live \in [Files -> Live]
  /\ prev \subseteq Files
  /\ backoff \in [Files -> 0 .. Retry \cup {None}]
  /\ pc \in {"idle", "list", "clean", "sync"}
  /\ kind \in {"full", "due", "dns"}
  /\ current \subseteq Files
  /\ todo \subseteq current /\ removed \subseteq Files \ current
  /\ changed \in BOOLEAN /\ quiet \in BOOLEAN
  /\ faults \in 0 .. MaxFaults /\ edits \in 0 .. MaxEdits
  /\ since \in [Files -> 0 .. Retry \cup {None}]
  /\ told \in [Files -> Contents \cup {Absent}]

\* No pass of any kind retries a drop-in before the retry interval is over
\* (README.md:182), though it may be edited, removed and written anew meanwhile.
RetryRespected ==
  [][\A f \in todo \ todo' : SyncOne => since[f] \in {None, Retry}]_vars

\* A full cycle accounts for every drop-in: at its end, if nobody edited the
\* directory meanwhile, each one has been applied in its present form or has an
\* entry for its retry (targets.py:138-165).  This is what lets the interval wake
\* look at the entries alone.
CycleAccounts ==
  [][EndCycle /\ kind = "full" /\ quiet =>
       \A f \in Present : told[f] = disk[f] \/ backoff[f] # None]_vars

\* A cycle other than the DNS pass leaves a drop-in of static rules alone that is
\* on disk and whose rules are in the chain: neither the cleanup of other files
\* nor files_filter (targets.py:131, 137) withdraws them.
UpToDateKept ==
  [][\A f \in Files :
       /\ pc # "idle" /\ kind # "dns" /\ quiet /\ faults' = faults
       /\ disk[f] # Absent /\ ~disk[f].hosts /\ live[f] = LiveOf(disk[f])
       => live'[f] = live[f]]_vars

\* What a full cycle has applied is not forgotten when the drop-in goes, even
\* in the middle of a later cycle: between two cycles its name is on disk or in
\* prev_basenames, from where the next full cycle takes what it deletes.  Only
\* a restart, or an exception in the cycle that first applied it, can lose it.
AppliedRemembered ==
  pc = "idle" => \A f \in Files : told[f] # Absent => f \in Present \cup prev

\* A full cycle has the name of f: it has listed it, or the one before it did.
Listed(f) == f \in prev \/ (kind = "full" /\ pc \in {"clean", "sync"} /\ f \in current)

\* A drop-in that a full cycle has listed loses all its rules when it is removed
\* (README.md:180), in the middle of a cycle or between two of them, unless it
\* is written anew or something fails: a failed cleanup is never repeated, and
\* prev_basenames starts empty (targets.py:131, 167).  A drop-in that was removed
\* before a full cycle listed it, though a DNS pass or a retry had applied it, has
\* no such promise: those cycles remember no names (targets.py:169).
RemovedCleaned ==
  \A f \in Files :
    disk[f] = Absent /\ Listed(f) ~> live[f] = Nothing \/ disk[f] # Absent \/ faults # 0

\* The rules of c are those of f, all of them and nothing else; where something
\* failed before, there may be more.
InForce(f, c) ==
  \/ live[f] = LiveOf(c)
  \/ live[f] = [LiveOf(c) EXCEPT !.extra = TRUE] /\ faults # 0

\* A drop-in of static rules that iptables accepts is applied at last and stays
\* applied, whatever failed before (README.md:182).  What a failed command left
\* behind of earlier rules may stay beside it: sync_file returns True all the
\* same (apply.py:190, 259) and no retry is noted.
AppliedEventually ==
  \A f \in Files, c \in Contents :
    ~c.hosts /\ c.static # Refused =>
      (<>[](disk[f] = c) => <>[]InForce(f, c))

\* README.md:180 "removed -> -D": rules whose drop-in is gone are always still
\* to be deleted by the next full cycle, whatever happened in between.
RemovedRemembered ==
  pc = "idle" => \A f \in Files : live[f] # Nothing => f \in Present \cup prev

=============================================================================
