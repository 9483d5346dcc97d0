---------------------------- MODULE DaemonProofs -----------------------------
(***************************************************************************)
(* Proofs about Daemon, for any set of targets and all intervals: no edit  *)
(* is forgotten as long as the creation of a directory is always reported. *)
(***************************************************************************)
EXTENDS Daemon, TLAPS

\* Who runs the daemon on the whole configuration, and does not lose the event
\* of a new directory.
Reported == ~Explicit /\ "new" \notin MayLose

\* What EditsKept needs: edited targets exist, each target has its watch or the
\* event that leads to it, events are events, there is nothing to sync but in a
\* pass, and the result of a wait is used up before the next one.
KeptInv ==
  /\ watching \in BOOLEAN
  /\ watched \subseteq here /\ unsynced \subseteq here /\ here \subseteq Targets
  /\ queue \subseteq Events \cup {Overflow} /\ res \subseteq Events \cup {Overflow}
  /\ pc \notin Passes => todo = {}
  /\ pc # "woken" => res = {}
  /\ WatchIsRecursive
  /\ EditsKept

-----------------------------------------------------------------------------
LEMMA KeptInit == Init => KeptInv
  BY DEF Init, KeptInv, Passes, WatchIsRecursive, EditsKept

\* Which events an edit of one target adds to the queue.
LEMMA EventKinds ==
  /\ \A e \in Events : e # Overflow
  /\ \A t \in Targets, s \in Sorts : [sort |-> s, target |-> t] \in Events
  /\ \A e \in Events : e = [sort |-> e.sort, target |-> e.target] /\ e.sort \in Sorts
<1>1. \A e \in Events : e.sort # "overflow"
  BY DEF Events, Sorts
<1>2. Overflow.sort = "overflow"
  BY DEF Overflow
<1> QED
  BY <1>1, <1>2 DEF Events

LEMMA ReportKeeps ==
  ASSUME NEW e \in Events, Report(e), queue \subseteq Events \cup {Overflow}
  PROVE  /\ queue \subseteq queue' /\ queue' \subseteq Events \cup {Overflow}
         /\ e \in queue' \/ Overflow \in queue'
         /\ e.sort \notin MayLose => e \in queue'
  BY DEF Report

\* What is known of an edit stays known when events are added to the queue.
LEMMA KnownStays ==
  ASSUME EditsKept, NEW t \in unsynced, watching,
         queue \subseteq queue', UNCHANGED <<watching, res, todo, pendingDirty, pendingRediscover>>
  PROVE  \/ t \in todo'
         \/ \E e \in queue' \cup res' : Covers(e, t)
         \/ t \in pendingDirty'
         \/ pendingRediscover'
  BY DEF EditsKept

LEMMA KeptStep == Reported /\ KeptInv /\ [Next]_vars => KeptInv'
<1> SUFFICES ASSUME Reported, KeptInv, [Next]_vars PROVE KeptInv'
  OBVIOUS
<1> USE DEF KeptInv, Passes
<1>1. CASE Tick
  BY <1>1 DEF Tick, loop, pending, WatchIsRecursive, EditsKept
<1>2. CASE TimeOut
  BY <1>2 DEF TimeOut, pending, WatchIsRecursive, EditsKept
<1>3. CASE Read
  <2>1. PICK part \in SUBSET queue : res' = part /\ queue' = queue \ part /\ watched' = WatchedAfter(part)
    BY <1>3 DEF Read
  <2>2. UNCHANGED <<watching, here, todo, pendingDirty, pendingRediscover, unsynced>> /\ pc' \notin Passes /\ todo = {}
    BY <1>3 DEF Read, pending
  <2>3. WatchIsRecursive'
    BY <2>1, <2>2 DEF WatchIsRecursive, WatchedAfter
  <2>4. EditsKept'
    BY <2>1, <2>2, <1>3 DEF Read, EditsKept
  <2>5. pc' = "woken"
    BY <1>3 DEF Read
  <2>6. watched' \subseteq here'
    BY <2>1, <2>2 DEF WatchedAfter
  <2> QED
    BY <2>1, <2>2, <2>3, <2>4, <2>5, <2>6
<1>4. CASE WakeForced
  <2>1. UNCHANGED <<watching, here, watched, queue, unsynced>> /\ res' = {} /\ todo' = here /\ pc' = "full"
    BY <1>4 DEF WakeForced
  <2>2. EditsKept' /\ WatchIsRecursive'
    BY <2>1 DEF EditsKept, WatchIsRecursive
  <2> QED
    BY <2>1, <2>2
<1>5. CASE WakeSync
  BY <1>5 DEF WakeSync, NotForced, WatchTargets, DirtyIn, RediscoverIn, WatchIsRecursive, EditsKept, Covers, IsRediscover
<1>6. CASE WakeMerge
  <2>1. /\ UNCHANGED <<watching, here, watched, queue, todo, unsynced>> /\ res' = {} /\ pc' = "dns"
        /\ todo = {} /\ Overflow \notin res
    BY <1>6 DEF WakeMerge, NotForced
  <2>2. /\ pendingDirty' = pendingDirty \cup DirtyIn(res)
        /\ pendingRediscover' = (pendingRediscover \/ RediscoverIn(res))
    BY <1>6 DEF WakeMerge, Merge
  <2>3. WatchIsRecursive'
    BY <2>1 DEF WatchIsRecursive
  <2>4. ASSUME watching, NEW t \in unsynced
        PROVE  \/ \E e \in queue' \cup res' : Covers(e, t)
               \/ t \in pendingDirty'
               \/ pendingRediscover'
    <3>1. ASSUME NEW e \in res, Covers(e, t) PROVE t \in pendingDirty' \/ pendingRediscover'
      <4>1. e # Overflow
        BY <2>1
      <4>2. CASE IsRediscover(e)
        BY <4>2, <2>2 DEF RediscoverIn
      <4>3. CASE e = [sort |-> "dirty", target |-> t]
        <5>1. t \in DirtyIn(res)
          BY <4>3 DEF DirtyIn
        <5> QED
          BY <5>1, <2>2
      <4> QED
        BY <3>1, <4>1, <4>2, <4>3 DEF Covers
    <3>2. CASE \E e \in queue : Covers(e, t)
      BY <3>2, <2>1
    <3>3. CASE t \in pendingDirty \/ pendingRediscover
      BY <3>3, <2>2
    <3> QED
      BY <2>1, <2>4, <3>1, <3>2, <3>3 DEF EditsKept
  <2>5. EditsKept'
    BY <2>1, <2>4 DEF EditsKept
  <2> QED
    BY <2>1, <2>3, <2>5
<1>7. CASE WakeQuiet
  BY <1>7 DEF WakeQuiet, pending, WatchIsRecursive, EditsKept
<1>8. CASE DnsWake
  BY <1>8 DEF DnsWake, pending, WatchIsRecursive, EditsKept
<1>9. CASE IntervalWake
  BY <1>9 DEF IntervalWake, pending, WatchIsRecursive, EditsKept
<1>10. CASE Flush
  BY <1>10 DEF Flush, WatchTargets, WatchIsRecursive, EditsKept
<1>11. CASE NoFlush
  BY <1>11 DEF NoFlush, Again, pending, WatchIsRecursive, EditsKept
<1>12. CASE SyncTarget
  BY <1>12 DEF SyncTarget, pending, WatchIsRecursive, EditsKept
<1>13. CASE EndFull
  BY <1>13 DEF EndFull, Again, pending, WatchIsRecursive, EditsKept
<1>14. CASE EndWatch
  BY <1>14 DEF EndWatch, AfterWatch, NoteSync, pending, WatchIsRecursive, EditsKept
<1>15. CASE EndPoll
  BY <1>15 DEF EndPoll, pending, WatchIsRecursive, EditsKept
<1>16. CASE EndLate
  BY <1>16 DEF EndLate, NoteSync, Again, pending, WatchIsRecursive, EditsKept
<1>17. ASSUME NEW t \in Targets, Edit(t) PROVE KeptInv'
  <2> DEFINE e == [sort |-> "dirty", target |-> t]
  <2>1. /\ UNCHANGED <<watching, here, watched, pc, res, todo, pendingDirty, pendingRediscover>>
        /\ unsynced' = unsynced \cup {t} /\ t \in here
    BY <1>17 DEF Edit, loop, pending
  <2>2. CASE t \in watched
    <3>1. e \in Events /\ Report(e)
      BY <1>17, <2>2, EventKinds DEF Edit, Sorts
    <3>2. queue \subseteq queue' /\ queue' \subseteq Events \cup {Overflow}
      BY <3>1, ReportKeeps
    <3>3. \E d \in queue' : Covers(d, t)
      BY <3>1, ReportKeeps DEF Covers
    <3>4. EditsKept'
      BY <2>1, <3>2, <3>3, KnownStays DEF EditsKept
    <3>5. WatchIsRecursive'
      BY <2>1, <3>2 DEF WatchIsRecursive
    <3> QED
      BY <2>1, <3>2, <3>4, <3>5
  <2>3. CASE t \notin watched
    <3>1. queue' = queue
      BY <1>17, <2>3 DEF Edit
    <3>2. watching => \E d \in queue' : Covers(d, t)
      <4>1. watching => [sort |-> "new", target |-> t] \in queue'
        BY <2>1, <2>3, <3>1 DEF WatchIsRecursive
      <4>2. Covers([sort |-> "new", target |-> t], t)
        BY DEF Covers, IsRediscover
      <4> QED
        BY <4>1, <4>2
    <3>3. EditsKept'
      BY <2>1, <3>1, <3>2, KnownStays DEF EditsKept
    <3>4. WatchIsRecursive'
      BY <2>1, <3>1 DEF WatchIsRecursive
    <3> QED
      BY <2>1, <3>1, <3>3, <3>4
  <2> QED
    BY <2>2, <2>3
<1>18. ASSUME NEW t \in Targets, MakeDir(t) PROVE KeptInv'
  <2> DEFINE e == [sort |-> "new", target |-> t]
  <2>1. /\ UNCHANGED <<watching, watched, pc, res, todo, pendingDirty, pendingRediscover>>
        /\ unsynced' = unsynced \cup {t} /\ here' = here \cup {t}
    BY <1>18 DEF MakeDir, loop, pending
  <2>2. e \in Events /\ e.sort \notin MayLose
    BY EventKinds DEF Sorts, Reported
  <2>3. queue \subseteq queue' /\ queue' \subseteq Events \cup {Overflow}
    BY <1>18, <2>2, ReportKeeps DEF MakeDir, Reported
  <2>4. watching => e \in queue'
    BY <1>18, <2>2, ReportKeeps DEF MakeDir, Reported
  <2>5. WatchIsRecursive'
    BY <2>1, <2>3, <2>4 DEF WatchIsRecursive
  <2>6. watching => \E d \in queue' : Covers(d, t)
    BY <2>4 DEF Covers, IsRediscover
  <2>7. EditsKept'
    BY <2>1, <2>3, <2>6, KnownStays DEF EditsKept
  <2> QED
    BY <2>1, <2>3, <2>5, <2>7
<1>19. ASSUME NEW t \in Targets, RemoveDir(t) PROVE KeptInv'
  <2> DEFINE e == [sort |-> "gone", target |-> t]
  <2>1. /\ UNCHANGED <<watching, pc, res, todo, pendingDirty, pendingRediscover>>
        /\ unsynced' = unsynced \ {t} /\ here' = here \ {t} /\ watched' = watched \ {t}
    BY <1>19 DEF RemoveDir, loop, pending
  <2>2. e \in Events
    BY EventKinds DEF Sorts
  <2>3. queue \subseteq queue' /\ queue' \subseteq Events \cup {Overflow}
    BY <1>19, <2>2, ReportKeeps DEF RemoveDir
  <2>4. WatchIsRecursive'
    BY <2>1, <2>3 DEF WatchIsRecursive
  <2>5. EditsKept'
    BY <2>1, <2>3, KnownStays DEF EditsKept
  <2> QED
    BY <2>1, <2>3, <2>4, <2>5
<1>20. CASE Sighup
  BY <1>20 DEF Sighup, loop, pending, WatchIsRecursive, EditsKept
<1>21. CASE UNCHANGED vars
  BY <1>21 DEF vars, WatchIsRecursive, EditsKept
<1> QED
  BY <1>1, <1>2, <1>3, <1>4, <1>5, <1>6, <1>7, <1>8, <1>9, <1>10, <1>11, <1>12, <1>13,
     <1>14, <1>15, <1>16, <1>17, <1>18, <1>19, <1>20, <1>21 DEF Next, Loop, Surroundings

-----------------------------------------------------------------------------
\* With config-watch no edit is forgotten (daemon.py:277-308), for any set of
\* targets, all intervals and both scopes, though the queue may lose every other
\* event: if the creation of a directory is reported, what has been edited since
\* its last sync is always in the queue, in the result of the wait, among the
\* events kept during the cooldown, or still to be synced by the running pass.
THEOREM NoEditForgotten == Reported => (Spec => []EditsKept)
<1> SUFFICES ASSUME Reported PROVE Spec => []EditsKept
  OBVIOUS
<1>1. KeptInv /\ [Next]_vars => KeptInv'
  BY KeptStep
<1>2. KeptInv => EditsKept
  BY DEF KeptInv
<1> QED
  BY KeptInit, <1>1, <1>2, PTL DEF Spec

\* Nor is a signal (daemon.py:271-274): the flag that a SIGHUP sets is still set
\* when no full sync has begun since.
THEOREM NoSignalLost == Spec => []SignalKept
<1>1. Init => SignalKept
  BY DEF Init, SignalKept
<1>2. SignalKept /\ [Next]_vars => SignalKept'
  BY DEF SignalKept, Next, Loop, Surroundings, Tick, TimeOut, Read, WakeForced, WakeSync,
     WakeMerge, WakeQuiet, DnsWake, IntervalWake, Flush, NoFlush, SyncTarget, EndFull,
     EndWatch, EndPoll, EndLate, Edit, MakeDir, RemoveDir, Sighup, vars
<1> QED
  BY <1>1, <1>2, PTL DEF Spec

\* Each directory is watched, or the event that leads to its watch is in the queue
\* (config_watch.py:121,189).
THEOREM DirectoriesWatched == Reported => (Spec => []WatchIsRecursive)
<1> SUFFICES ASSUME Reported PROVE Spec => []WatchIsRecursive
  OBVIOUS
<1>1. KeptInv /\ [Next]_vars => KeptInv'
  BY KeptStep
<1>2. KeptInv => WatchIsRecursive
  BY DEF KeptInv
<1> QED
  BY KeptInit, <1>1, <1>2, PTL DEF Spec

-----------------------------------------------------------------------------
\* The type invariant in three parts: flags and places, times, and sets.
FlagsOK ==
  /\ watching \in BOOLEAN /\ forced \in BOOLEAN /\ asked \in BOOLEAN
  /\ waited \in BOOLEAN /\ pendingRediscover \in BOOLEAN
  /\ pc \in Passes \cup {"wait", "woken", "dns", "interval", "flush"}

TimesOK ==
  /\ sinceWatch \in 0 .. MinInterval \cup {Never}
  /\ sinceSync \in 0 .. MinInterval \cup {Never}
  /\ ageInterval \in 0 .. Interval /\ ageDns \in 0 .. DnsInterval

SetsOK ==
  /\ here \subseteq Targets /\ watched \subseteq here
  /\ queue \subseteq Events \cup {Overflow} /\ res \subseteq Events \cup {Overflow}
  /\ todo \subseteq Targets /\ unsynced \subseteq here
  /\ pendingDirty \subseteq Targets

LEMMA Parts == TypeOK <=> FlagsOK /\ TimesOK /\ SetsOK
  BY DEF TypeOK, FlagsOK, TimesOK, SetsOK

LEMMA FlagsStep == FlagsOK /\ [Next]_vars => FlagsOK'
<1> SUFFICES ASSUME FlagsOK, [Next]_vars PROVE FlagsOK'
  OBVIOUS
<1> USE DEF FlagsOK
<1>1. pc' \in Passes \cup {"wait", "woken", "dns", "interval", "flush"}
  BY DEF Next, Loop, Surroundings, Tick, TimeOut, Read, WakeForced, WakeSync, WakeMerge,
     WakeQuiet, DnsWake, IntervalWake, Flush, NoFlush, SyncTarget, EndFull, EndWatch,
     EndPoll, EndLate, Edit, MakeDir, RemoveDir, Sighup, vars, loop, Again, AfterWatch, Passes
<1>2. watching' = watching
  BY DEF Next, Loop, Surroundings, Tick, TimeOut, Read, WakeForced, WakeSync, WakeMerge,
     WakeQuiet, DnsWake, IntervalWake, Flush, NoFlush, SyncTarget, EndFull, EndWatch,
     EndPoll, EndLate, Edit, MakeDir, RemoveDir, Sighup, vars
<1>3. forced' \in BOOLEAN /\ asked' \in BOOLEAN
  BY Zenon DEF Next, Loop, Surroundings, Tick, TimeOut, Read, WakeForced, WakeSync, WakeMerge,
     WakeQuiet, DnsWake, IntervalWake, Flush, NoFlush, SyncTarget, EndFull, EndWatch,
     EndPoll, EndLate, Edit, MakeDir, RemoveDir, Sighup, vars
<1>4. waited' \in BOOLEAN
  BY Zenon DEF Next, Loop, Surroundings, Tick, TimeOut, Read, WakeForced, WakeSync, WakeMerge,
     WakeQuiet, DnsWake, IntervalWake, Flush, NoFlush, SyncTarget, EndFull, EndWatch,
     EndPoll, EndLate, Edit, MakeDir, RemoveDir, Sighup, vars, ages, Again, AfterWatch
<1>5. pendingRediscover' \in BOOLEAN
  BY Zenon DEF Next, Loop, Surroundings, Tick, TimeOut, Read, WakeForced, WakeSync, WakeMerge,
     WakeQuiet, DnsWake, IntervalWake, Flush, NoFlush, SyncTarget, EndFull, EndWatch,
     EndPoll, EndLate, Edit, MakeDir, RemoveDir, Sighup, vars, pending, Merge, RediscoverIn
<1> QED
  BY <1>1, <1>2, <1>3, <1>4, <1>5, Zenon

\* A time that is counted up stays at or below its limit.
LEMMA OlderStays ==
  ASSUME NEW limit \in Nat \ {0}, NEW age \in 0 .. limit \cup {Never}
  PROVE  /\ Older(age, limit) \in 0 .. limit \cup {Never}
         /\ age # Never => Older(age, limit) \in 0 .. limit
  BY DEF Older

LEMMA TimesStep == TimesOK /\ [Next]_vars => TimesOK'
<1> SUFFICES ASSUME TimesOK, [Next]_vars PROVE TimesOK'
  OBVIOUS
<1> USE IntervalsAssumption DEF TimesOK
<1>1. CASE Tick
  BY <1>1, OlderStays DEF Tick
<1>2. CASE WakeSync \/ Flush
  BY <1>2 DEF WakeSync, Flush, ages
<1>3. CASE EndFull \/ EndWatch \/ EndLate
  BY <1>3 DEF EndFull, EndWatch, EndLate, NoteSync
<1>4. CASE DnsWake \/ IntervalWake
  BY <1>4 DEF DnsWake, IntervalWake
<1>5. CASE TimeOut \/ Read \/ WakeForced \/ WakeMerge \/ WakeQuiet \/ NoFlush \/ EndPoll
  BY <1>5 DEF TimeOut, Read, WakeForced, WakeMerge, WakeQuiet, NoFlush, EndPoll, ages
<1>6. CASE SyncTarget \/ Surroundings \/ UNCHANGED vars
  BY <1>6 DEF SyncTarget, Surroundings, Edit, MakeDir, RemoveDir, Sighup, ages, vars
<1> QED
  BY <1>1, <1>2, <1>3, <1>4, <1>5, <1>6 DEF Next, Loop

LEMMA SetsStep == SetsOK /\ [Next]_vars => SetsOK'
<1> SUFFICES ASSUME SetsOK, [Next]_vars PROVE SetsOK'
  OBVIOUS
<1> USE DEF SetsOK
<1>1. DirtyIn(res) \subseteq Targets
  BY EventKinds DEF DirtyIn, Events, Overflow
<1>2. CASE Read
  BY <1>2 DEF Read, WatchedAfter, pending
<1>3. CASE WakeForced \/ WakeSync \/ Flush
  BY <1>1, <1>3 DEF WakeForced, WakeSync, Flush, WatchTargets, pending
<1>4. CASE WakeMerge
  BY <1>1, <1>4 DEF WakeMerge, Merge
<1>5. CASE IntervalWake \/ SyncTarget
  BY <1>5 DEF IntervalWake, SyncTarget, pending
<1>6. CASE Tick \/ TimeOut \/ WakeQuiet \/ DnsWake \/ NoFlush
  BY <1>6 DEF Tick, TimeOut, WakeQuiet, DnsWake, NoFlush, loop, pending
<1>7. CASE EndFull \/ EndWatch \/ EndPoll \/ EndLate
  BY <1>7 DEF EndFull, EndWatch, EndPoll, EndLate, pending
<1>8. ASSUME NEW t \in Targets, Edit(t) PROVE SetsOK'
  <2>1. queue' \subseteq Events \cup {Overflow}
    BY <1>8, EventKinds, ReportKeeps DEF Edit, Sorts
  <2> QED
    BY <1>8, <2>1 DEF Edit, loop, pending
<1>9. ASSUME NEW t \in Targets, MakeDir(t) PROVE SetsOK'
  <2>1. queue' \subseteq Events \cup {Overflow}
    BY <1>9, EventKinds, ReportKeeps DEF MakeDir, Sorts
  <2> QED
    BY <1>9, <2>1 DEF MakeDir, loop, pending
<1>10. ASSUME NEW t \in Targets, RemoveDir(t) PROVE SetsOK'
  <2>1. queue' \subseteq Events \cup {Overflow}
    BY <1>10, EventKinds, ReportKeeps DEF RemoveDir, Sorts
  <2> QED
    BY <1>10, <2>1 DEF RemoveDir, loop, pending
<1>11. CASE Sighup \/ UNCHANGED vars
  BY <1>11 DEF Sighup, loop, pending, vars
<1> QED
  BY <1>2, <1>3, <1>4, <1>5, <1>6, <1>7, <1>8, <1>9, <1>10, <1>11
  DEF Next, Loop, Surroundings

\* The state of the loop (daemon.py:200-312) is well typed: its timers never pass
\* their limits, and only directories that exist are watched or have edits to sync.
THEOREM LoopTypeCorrect == Spec => []TypeOK
<1>1. Init => TypeOK
  <2> SUFFICES ASSUME Init PROVE TypeOK
    OBVIOUS
  <2>1. FlagsOK
    BY Zenon DEF Init, FlagsOK, Passes
  <2>2. TimesOK
    BY IntervalsAssumption DEF Init, TimesOK
  <2>3. SetsOK
    BY DEF Init, SetsOK
  <2> QED
    BY <2>1, <2>2, <2>3, Parts
<1>2. TypeOK /\ [Next]_vars => TypeOK'
  <2>1. TypeOK' <=> FlagsOK' /\ TimesOK' /\ SetsOK'
    BY DEF TypeOK, FlagsOK, TimesOK, SetsOK
  <2> QED
    BY <2>1, Parts, FlagsStep, TimesStep, SetsStep
<1> QED
  BY <1>1, <1>2, PTL DEF Spec

-----------------------------------------------------------------------------
\* last_watch_sync_at is the time of the last sync that inotify caused, but while
\* that sync runs.
ApartInv ==
  IF pc \in {"watch", "late"} THEN sinceSync = 0 ELSE sinceSync = sinceWatch

\* Syncs that inotify causes keep their distance, from the wake and from the flush
\* (config_watch.py:76-110, daemon.py:277-312).
THEOREM SyncsKeepDistance == Spec => WatchSyncsApart
<1>1. Init => ApartInv
  BY DEF Init, ApartInv
<1>2. ApartInv /\ [Next]_vars => ApartInv'
  <2> SUFFICES ASSUME ApartInv, [Next]_vars PROVE ApartInv'
    OBVIOUS
  <2> USE DEF ApartInv
  <2>1. CASE Tick
    BY <2>1 DEF Tick, loop
  <2>2. CASE WakeSync \/ Flush
    BY <2>2 DEF WakeSync, Flush
  <2>3. CASE EndWatch \/ EndLate
    BY <2>3 DEF EndWatch, EndLate, NoteSync, AfterWatch, Again
  <2>4. CASE TimeOut \/ Read \/ WakeForced \/ WakeMerge \/ WakeQuiet
    BY <2>4 DEF TimeOut, Read, WakeForced, WakeMerge, WakeQuiet, ages
  <2>5. CASE DnsWake \/ IntervalWake \/ NoFlush \/ EndFull \/ EndPoll
    BY <2>5 DEF DnsWake, IntervalWake, NoFlush, EndFull, EndPoll, Again, ages
  <2>6. CASE SyncTarget \/ Surroundings \/ UNCHANGED vars
    BY <2>6 DEF SyncTarget, Surroundings, Edit, MakeDir, RemoveDir, Sighup, loop, ages, vars
  <2> QED
    BY <2>1, <2>2, <2>3, <2>4, <2>5, <2>6 DEF Next, Loop
<1>3. ApartInv => (WakeSync \/ Flush => sinceSync \in {Never, MinInterval})
  BY DEF ApartInv, WakeSync, Flush, CooldownOver
<1> QED
  BY <1>1, <1>2, <1>3, PTL DEF Spec, WatchSyncsApart

=============================================================================
