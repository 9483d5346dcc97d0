--------------------------- MODULE TargetsProofs ----------------------------
(***************************************************************************)
(* Proofs about the cycles of one chain directory: the type invariant,     *)
(* AppliedRemembered, RetryRespected, CycleAccounts and UpToDateKept, for  *)
(* any drop-ins, any retry interval and any number of faults and edits.    *)
(***************************************************************************)
EXTENDS Targets, Descent, FiniteSetTheorems, TLAPS

USE FilesAssumption, ContentsAssumption, BoundsAssumption

\* since is the other half of backoff.
RetryInv ==
  \A f \in Files :
    IF backoff[f] = None THEN since[f] = None
    ELSE since[f] # None /\ backoff[f] + since[f] = Retry

\* An applied drop-in is in prev_basenames; in a full cycle, which is about to
\* replace those, it is among what was listed or is still to be cleaned up.
RememberInv ==
  \A f \in Files : told[f] # Absent =>
    /\ pc \in {"idle", "list"} \/ kind # "full" => f \in prev
    /\ pc = "clean" /\ kind = "full" => f \in current \cup removed
    /\ pc = "sync" /\ kind = "full" => f \in current

\* What a full cycle has to look at, and what it has dealt with.
ProgressInv ==
  /\ pc \in {"clean", "sync"} /\ quiet => current = Present
  /\ pc \in {"clean", "sync"} /\ kind # "full" => removed = {}
  /\ pc = "clean" /\ kind = "full" => todo = current
  /\ pc = "sync" /\ kind = "full" /\ quiet =>
       \A f \in current \ todo : told[f] = disk[f] \/ backoff[f] # None

Inv == TypeOK /\ RetryInv /\ RememberInv /\ ProgressInv

-----------------------------------------------------------------------------
\* What sync_file leaves in the chain.

LEMMA Retries == Retry \in 0 .. Retry /\ Retry # None /\ 0 \in 0 .. Retry
  OBVIOUS

LEMMA ContentShape ==
  ASSUME NEW c \in Contents
  PROVE  c.static \in Statics \cup {None, Refused} /\ c.hosts \in BOOLEAN /\ c # Absent
  BY DEF Content

LEMMA LiveShape ==
  ASSUME NEW s \in Statics \cup {None}, NEW h \in BOOLEAN, NEW x \in BOOLEAN
  PROVE  [static |-> s, hosts |-> h, extra |-> x] \in Live
  BY DEF Live

LEMMA PutLive ==
  ASSUME TypeOK, NEW f \in Files, NEW l \in Live, live' = [live EXCEPT ![f] = l]
  PROVE  live' \in [Files -> Live]
  BY DEF TypeOK

LEMMA LiveParts ==
  ASSUME TypeOK, NEW f \in Files
  PROVE  /\ live[f].static \in Statics \cup {None}
         /\ live[f].hosts \in BOOLEAN /\ live[f].extra \in BOOLEAN
  BY DEF TypeOK, Live

LEMMA SucceedsType ==
  ASSUME TypeOK, NEW f \in Files, NEW c \in Contents, FullSucceeds(f, c)
  PROVE  live' \in [Files -> Live] /\ faults' \in 0 .. MaxFaults
<1>1. faults' \in 0 .. MaxFaults
  BY DEF FullSucceeds, Fault, TypeOK
<1>2. PICK h \in {c.hosts, c.hosts /\ live[f].hosts}, x \in BOOLEAN :
        \/ /\ c.static # Refused
           /\ live' = [live EXCEPT ![f] = [static |-> c.static, hosts |-> h, extra |-> x]]
        \/ live' = [live EXCEPT ![f] = [static |-> live[f].static, hosts |-> h, extra |-> x]]
  BY DEF FullSucceeds
<1>3. h \in BOOLEAN
  BY ContentShape, LiveParts
<1>4. CASE /\ c.static # Refused
           /\ live' = [live EXCEPT ![f] = [static |-> c.static, hosts |-> h, extra |-> x]]
  <2>1. [static |-> c.static, hosts |-> h, extra |-> x] \in Live
    BY <1>3, <1>4, ContentShape, LiveShape
  <2> QED
    BY <1>1, <1>4, <2>1, PutLive
<1>5. CASE live' = [live EXCEPT ![f] = [static |-> live[f].static, hosts |-> h, extra |-> x]]
  <2>1. [static |-> live[f].static, hosts |-> h, extra |-> x] \in Live
    BY <1>3, LiveParts, LiveShape
  <2> QED
    BY <1>1, <1>5, <2>1, PutLive
<1> QED
  BY <1>2, <1>4, <1>5

LEMMA FailsType ==
  ASSUME TypeOK, NEW f \in Files, NEW c \in Contents, FullFails(f, c)
  PROVE  live' \in [Files -> Live] /\ faults' \in 0 .. MaxFaults
<1>1. faults' \in 0 .. MaxFaults
  BY DEF FullFails, Fault, TypeOK
<1>2. PICK s \in {None, live[f].static, c.static} \ {Refused},
           h \in {FALSE, live[f].hosts, c.hosts}, x \in BOOLEAN :
        live' = [live EXCEPT ![f] = [static |-> s, hosts |-> h, extra |-> x]]
  BY DEF FullFails
<1>3. s \in Statics \cup {None} /\ h \in BOOLEAN
  BY ContentShape, LiveParts
<1> QED
  BY <1>1, <1>2, <1>3, LiveShape, PutLive

LEMMA DnsType ==
  ASSUME TypeOK, NEW f \in Files, DnsSucceeds(f) \/ DnsFails(f)
  PROVE  live' \in [Files -> Live] /\ faults' \in 0 .. MaxFaults
<1>1. faults' \in 0 .. MaxFaults
  BY DEF DnsSucceeds, DnsFails, Fault, TypeOK
<1>2. PICK s \in {None, live[f].static}, h \in BOOLEAN, x \in BOOLEAN :
        live' = [live EXCEPT ![f] = [static |-> s, hosts |-> h, extra |-> x]]
  BY LiveParts DEF DnsSucceeds, DnsFails
<1>3. s \in Statics \cup {None}
  BY LiveParts
<1> QED
  BY <1>1, <1>2, <1>3, LiveShape, PutLive

LEMMA WipeType ==
  ASSUME TypeOK, CleanRemoved
  PROVE  live' \in [Files -> Live] /\ faults' \in 0 .. MaxFaults
<1>1. faults' \in 0 .. MaxFaults
  BY DEF CleanRemoved, Fault, TypeOK
<1>2. PICK f \in removed :
        \/ live' = [live EXCEPT ![f] = Nothing]
        \/ \E s \in {None, live[f].static}, h \in {FALSE, live[f].hosts}, x \in BOOLEAN :
             live' = [live EXCEPT ![f] = [static |-> s, hosts |-> h, extra |-> x]]
  BY DEF CleanRemoved
<1>3. f \in Files
  BY DEF TypeOK
<1>4. CASE live' = [live EXCEPT ![f] = Nothing]
  BY <1>1, <1>3, <1>4, LiveShape, PutLive DEF Nothing
<1>5. ASSUME NEW s \in {None, live[f].static}, NEW h \in {FALSE, live[f].hosts},
             NEW x \in BOOLEAN,
             live' = [live EXCEPT ![f] = [static |-> s, hosts |-> h, extra |-> x]]
      PROVE  live' \in [Files -> Live]
  <2>1. s \in Statics \cup {None} /\ h \in BOOLEAN
    BY <1>3, LiveParts
  <2> QED
    BY <1>3, <1>5, <2>1, LiveShape, PutLive
<1> QED
  BY <1>1, <1>2, <1>4, <1>5

-----------------------------------------------------------------------------
\* One call of sync_file: the drop-in, and the four ways in which it may end.
SyncFile(f) ==
  /\ f \in todo /\ todo' = todo \ {f}
  /\ ~InBackoff(f)
  /\ \/ /\ kind # "dns" /\ disk[f] \in Contents
        /\ FullSucceeds(f, disk[f]) /\ NoteResult(f, TRUE)
        /\ told' = [told EXCEPT ![f] = IF kind = "full" THEN disk[f] ELSE @]
     \/ /\ kind # "dns" /\ disk[f] \in Contents
        /\ FullFails(f, disk[f]) /\ NoteResult(f, FALSE)
        /\ UNCHANGED told
     \/ /\ kind = "dns" /\ disk[f] \in Contents
        /\ \/ DnsSucceeds(f) /\ NoteResult(f, TRUE)
           \/ DnsFails(f) /\ NoteResult(f, FALSE)
        /\ UNCHANGED told
     \/ /\ disk[f] = Absent
        /\ Fault("vanish") /\ NoteResult(f, FALSE)
        /\ UNCHANGED <<live, told>>

LEMMA SyncCases ==
  ASSUME TypeOK, SyncOne
  PROVE  /\ \E f \in Files : SyncFile(f)
         /\ pc = "sync"
         /\ UNCHANGED <<disks, prev, pc, kind, current, removed, changed, edits, quiet>>
<1>1. PICK f \in todo :
       /\ todo' = todo \ {f}
       /\ \/ /\ ~PassedOver(f) /\ kind # "dns"
             /\ \/ /\ FullSucceeds(f, disk[f]) /\ NoteResult(f, TRUE)
                   /\ told' = [told EXCEPT ![f] = IF kind = "full" THEN disk[f] ELSE @]
                \/ FullFails(f, disk[f]) /\ NoteResult(f, FALSE) /\ UNCHANGED told
          \/ /\ ~PassedOver(f) /\ kind = "dns"
             /\ \/ DnsSucceeds(f) /\ NoteResult(f, TRUE)
                \/ DnsFails(f) /\ NoteResult(f, FALSE)
             /\ UNCHANGED told
          \/ /\ disk[f] = Absent /\ ~InBackoff(f)
             /\ Fault("vanish") /\ NoteResult(f, FALSE)
             /\ UNCHANGED <<live, told>>
  BY DEF SyncOne
<1>2. f \in Files /\ disk[f] \in Contents \cup {Absent}
  BY DEF TypeOK
<1>3. ~PassedOver(f) => disk[f] \in Contents /\ ~InBackoff(f)
  BY <1>2 DEF PassedOver
<1>4. SyncFile(f)
  BY <1>1, <1>3 DEF SyncFile
<1> QED
  BY <1>2, <1>4 DEF SyncOne

LEMMA NoteType ==
  ASSUME TypeOK, NEW f \in Files, NEW ok \in BOOLEAN, NoteResult(f, ok)
  PROVE  /\ backoff' \in [Files -> 0 .. Retry \cup {None}]
         /\ since' \in [Files -> 0 .. Retry \cup {None}]
         /\ \A g \in Files \ {f} : backoff'[g] = backoff[g] /\ since'[g] = since[g]
         /\ backoff'[f] = (IF ok THEN None ELSE Retry) /\ since'[f] = (IF ok THEN None ELSE 0)
  BY Retries DEF NoteResult, TypeOK

LEMMA SyncType ==
  ASSUME TypeOK, NEW f \in Files, SyncFile(f)
  PROVE  /\ live' \in [Files -> Live] /\ faults' \in 0 .. MaxFaults
         /\ backoff' \in [Files -> 0 .. Retry \cup {None}]
         /\ since' \in [Files -> 0 .. Retry \cup {None}]
         /\ told' \in [Files -> Contents \cup {Absent}]
<1>1. live' \in [Files -> Live] /\ faults' \in 0 .. MaxFaults
  <2>1. CASE disk[f] = Absent /\ Fault("vanish") /\ UNCHANGED live
    BY <2>1 DEF Fault, TypeOK
  <2> QED
    BY <2>1, SucceedsType, FailsType, DnsType DEF SyncFile
<1>2. NoteResult(f, TRUE) \/ NoteResult(f, FALSE)
  BY DEF SyncFile
<1>3. told' \in [Files -> Contents \cup {Absent}]
  BY DEF SyncFile, TypeOK
<1> QED
  BY <1>1, <1>2, <1>3, NoteType

LEMMA InitType == Init => TypeOK
<1> SUFFICES ASSUME Init PROVE TypeOK
  OBVIOUS
<1>1. Nothing \in Live
  BY DEF Nothing, Live
<1>2. /\ dir \in BOOLEAN /\ dir /\ changed \in BOOLEAN /\ quiet \in BOOLEAN
  BY DEF Init
<1>3. /\ disk \in [Files -> Contents \cup {Absent}] /\ live \in [Files -> Live]
      /\ prev \subseteq Files
      /\ backoff \in [Files -> 0 .. Retry \cup {None}] /\ since \in [Files -> 0 .. Retry \cup {None}]
      /\ told \in [Files -> Contents \cup {Absent}]
      /\ pc \in {"idle", "list", "clean", "sync"} /\ kind \in {"full", "due", "dns"}
      /\ current \subseteq Files /\ todo \subseteq current /\ removed \subseteq Files \ current
      /\ faults \in 0 .. MaxFaults /\ edits \in 0 .. MaxEdits
  BY <1>1 DEF Init
<1> QED
  BY <1>2, <1>3, Zenon DEF TypeOK

\* A change of the directory that keeps its own variables well typed.
LEMMA EditKeepsType ==
  ASSUME TypeOK, changed' \in BOOLEAN, quiet' \in BOOLEAN,
         UNCHANGED <<live, state, cycle, since, told>>,
         dir' \in BOOLEAN, ~dir' => Present' = {},
         disk' \in [Files -> Contents \cup {Absent}],
         faults' \in 0 .. MaxFaults, edits' \in 0 .. MaxEdits
  PROVE  TypeOK'
<1>1. /\ live' \in [Files -> Live] /\ prev' \subseteq Files
      /\ backoff' \in [Files -> 0 .. Retry \cup {None}]
      /\ pc' \in {"idle", "list", "clean", "sync"} /\ kind' \in {"full", "due", "dns"}
      /\ current' \subseteq Files /\ todo' \subseteq current' /\ removed' \subseteq Files \ current'
      /\ since' \in [Files -> 0 .. Retry \cup {None}] /\ told' \in [Files -> Contents \cup {Absent}]
  BY DEF TypeOK, state, cycle
<1> QED
  BY <1>1, Zenon DEF TypeOK

LEMMA NextTypeOK == TypeOK /\ [Next]_vars => TypeOK'
<1> SUFFICES ASSUME TypeOK, [Next]_vars PROVE TypeOK'
  OBVIOUS
<1>1. ASSUME NEW k \in {"full", "due", "dns"}, BeginCycle(k) PROVE TypeOK'
  BY <1>1 DEF BeginCycle, TypeOK, Present, disks, state
<1>2. CASE ListDir
  BY <1>2 DEF ListDir, Removed, TypeOK, Present, disks, state, history
<1>3. CASE CleanRemoved
  <2>1. live' \in [Files -> Live] /\ faults' \in 0 .. MaxFaults
    BY <1>3, WipeType
  <2>2. PICK f \in removed : removed' = removed \ {f} /\ told' = [told EXCEPT ![f] = Absent]
    BY <1>3 DEF CleanRemoved
  <2> QED
    BY <1>3, <2>1, <2>2 DEF CleanRemoved, TypeOK, Present, disks, state
<1>4. CASE Cleaned
  BY <1>4 DEF Cleaned, TypeOK, Present, disks, state, history
<1>5. CASE SkipFile
  BY <1>5 DEF SkipFile, TypeOK, Present, disks, state, history
<1>6. CASE SyncOne
  <2>1. PICK f \in Files : SyncFile(f)
    BY <1>6, SyncCases
  <2>2. UNCHANGED <<disks, prev, pc, kind, current, removed, changed, edits, quiet>>
    BY <1>6, SyncCases
  <2>3. todo' \subseteq current
    BY <2>1 DEF SyncFile, TypeOK
  <2> QED
    BY <2>1, <2>2, <2>3, SyncType DEF TypeOK, Present, disks
<1>7. CASE EndCycle
  BY <1>7 DEF EndCycle, Leave, Remembered, TypeOK, Present, disks, history
<1>8. CASE RaiseInCycle
  BY <1>8 DEF RaiseInCycle, Leave, Fault, TypeOK, Present, disks, state
<1>9. CASE Tick
  BY <1>9 DEF Tick, InBackoff, TypeOK, Present, disks, cycle
<1>10. CASE Edit
  <2>1. dir' = dir /\ dir /\ changed' = TRUE /\ quiet' = FALSE
    BY <1>10 DEF Edit
  <2>2. disk' \in [Files -> Contents \cup {Absent}] /\ edits' \in 0 .. MaxEdits
    BY <1>10 DEF Edit, TypeOK
  <2>3. UNCHANGED <<live, state, cycle, faults, since, told>>
    BY <1>10 DEF Edit
  <2>4. dir' \in BOOLEAN /\ dir' /\ changed' \in BOOLEAN /\ quiet' \in BOOLEAN
    BY <2>1 DEF TypeOK
  <2>5. UNCHANGED <<live, state, cycle, since, told>> /\ faults' \in 0 .. MaxFaults
    BY <2>3 DEF TypeOK
  <2> QED
    BY <2>2, <2>4, <2>5, EditKeepsType, Zenon
<1>11. CASE DirVanishes
  <2>1. dir' = FALSE /\ changed' = TRUE /\ quiet' = FALSE
    BY <1>11 DEF DirVanishes
  <2>2. /\ disk' \in [Files -> Contents \cup {Absent}] /\ faults' \in 0 .. MaxFaults
        /\ Present' = {}
    BY <1>11 DEF DirVanishes, Fault, TypeOK, Present
  <2>3. UNCHANGED <<live, state, cycle, edits, since, told>>
    BY <1>11 DEF DirVanishes
  <2>4. dir' \in BOOLEAN /\ changed' \in BOOLEAN /\ quiet' \in BOOLEAN
    BY <2>1
  <2>5. UNCHANGED <<live, state, cycle, since, told>> /\ edits' \in 0 .. MaxEdits
    BY <2>3 DEF TypeOK
  <2> QED
    BY <2>2, <2>4, <2>5, EditKeepsType, Zenon
<1>12. CASE DirReturns
  BY <1>12 DEF DirReturns, TypeOK, Present, state, cycle
<1>13. CASE Restart
  BY <1>13 DEF Restart, Leave, Fault, TypeOK, Present, disks
<1>14. CASE UNCHANGED vars
  BY <1>14 DEF vars, TypeOK, Present
<1> QED
  BY <1>1, <1>2, <1>3, <1>4, <1>5, <1>6, <1>7, <1>8, <1>9, <1>10, <1>11, <1>12, <1>13, <1>14
     DEF Next, Cycle

-----------------------------------------------------------------------------
\* The inductive invariant.

LEMMA RetryStep == TypeOK /\ RetryInv /\ [Next]_vars => RetryInv'
<1> SUFFICES ASSUME TypeOK, RetryInv, [Next]_vars PROVE RetryInv'
  OBVIOUS
<1>1. CASE UNCHANGED <<backoff, since>>
  BY <1>1 DEF RetryInv
<1>2. CASE SyncOne
  <2>1. PICK f \in Files : SyncFile(f)
    BY <1>2, SyncCases
  <2>2. NoteResult(f, TRUE) \/ NoteResult(f, FALSE)
    BY <2>1 DEF SyncFile
  <2>3. \A g \in Files \ {f} : backoff'[g] = backoff[g] /\ since'[g] = since[g]
    BY <2>2, NoteType
  <2>4. \/ backoff'[f] = None /\ since'[f] = None
        \/ backoff'[f] = Retry /\ since'[f] = 0
    BY <2>2, NoteType
  <2> QED
    BY <2>3, <2>4, Retries DEF RetryInv
<1>3. CASE Tick
  <2> SUFFICES ASSUME NEW f \in Files
               PROVE IF backoff'[f] = None THEN since'[f] = None
                     ELSE since'[f] # None /\ backoff'[f] + since'[f] = Retry
    BY DEF RetryInv
  <2>1. /\ backoff'[f] = IF InBackoff(f) THEN backoff[f] - 1 ELSE backoff[f]
        /\ since'[f] = IF since[f] = None \/ since[f] = Retry THEN since[f] ELSE since[f] + 1
    BY <1>3 DEF Tick
  <2>2. /\ backoff[f] \in 0 .. Retry \cup {None} /\ since[f] \in 0 .. Retry \cup {None}
        /\ IF backoff[f] = None THEN since[f] = None
           ELSE since[f] # None /\ backoff[f] + since[f] = Retry
    BY DEF TypeOK, RetryInv
  <2> QED
    BY <2>1, <2>2 DEF InBackoff
<1>4. CASE Restart
  BY <1>4 DEF Restart, Leave, RetryInv
<1> QED
  BY <1>1, <1>2, <1>3, <1>4
     DEF Next, Cycle, BeginCycle, ListDir, CleanRemoved, Cleaned, SkipFile, EndCycle, RaiseInCycle,
         Edit, DirVanishes, DirReturns, state, history, vars

LEMMA RememberStep == TypeOK /\ RememberInv /\ ProgressInv /\ [Next]_vars => RememberInv'
<1> SUFFICES ASSUME TypeOK, RememberInv, ProgressInv, [Next]_vars PROVE RememberInv'
  OBVIOUS
<1>1. ASSUME NEW k \in {"full", "due", "dns"}, BeginCycle(k) PROVE RememberInv'
  BY <1>1 DEF BeginCycle, RememberInv, TypeOK, state
<1>2. CASE ListDir
  BY <1>2 DEF ListDir, Removed, RememberInv, state, history
<1>3. CASE CleanRemoved
  <2>1. PICK f \in removed : removed' = removed \ {f} /\ told' = [told EXCEPT ![f] = Absent]
    BY <1>3 DEF CleanRemoved
  <2>2. pc = "clean" /\ UNCHANGED <<state, pc, kind, current>>
    BY <1>3 DEF CleanRemoved
  <2> QED
    BY <2>1, <2>2 DEF RememberInv, TypeOK, state
<1>4. CASE Cleaned
  BY <1>4 DEF Cleaned, RememberInv, state, history
<1>5. CASE SyncOne
  <2>1. PICK f \in Files : SyncFile(f)
    BY <1>5, SyncCases
  <2>2. pc = "sync" /\ UNCHANGED <<prev, pc, kind, current, removed>>
    BY <1>5, SyncCases
  <2>3. CASE told' = told
    BY <2>2, <2>3 DEF RememberInv
  <2>4. CASE told' = [told EXCEPT ![f] = IF kind = "full" THEN disk[f] ELSE @]
    <3>1. f \in current
      BY <2>1 DEF SyncFile, TypeOK
    <3>2. CASE kind = "full"
      BY <2>2, <2>4, <3>1, <3>2 DEF RememberInv, TypeOK
    <3>3. CASE kind # "full"
      BY <2>2, <2>4, <3>3 DEF RememberInv, TypeOK
    <3> QED
      BY <3>2, <3>3
  <2> QED
    BY <2>1, <2>3, <2>4 DEF SyncFile
<1>6. CASE EndCycle
  BY <1>6 DEF EndCycle, Leave, Remembered, RememberInv, history
<1>7. CASE RaiseInCycle
  BY <1>7 DEF RaiseInCycle, Leave, RememberInv, state
<1>8. CASE Restart
  BY <1>8 DEF Restart, Leave, RememberInv
<1>9. CASE SkipFile \/ Tick \/ Edit \/ DirVanishes \/ DirReturns \/ UNCHANGED vars
  <2>1. UNCHANGED <<prev, pc, kind, current, removed, told>>
    BY <1>9 DEF SkipFile, Tick, Edit, DirVanishes, DirReturns, vars, state, cycle, history
  <2> QED
    BY <2>1 DEF RememberInv
<1> QED
  BY <1>1, <1>2, <1>3, <1>4, <1>5, <1>6, <1>7, <1>8, <1>9 DEF Next, Cycle

LEMMA ProgressStep == TypeOK /\ ProgressInv /\ [Next]_vars => ProgressInv'
<1> SUFFICES ASSUME TypeOK, ProgressInv, [Next]_vars PROVE ProgressInv'
  OBVIOUS
<1>1. ASSUME NEW k \in {"full", "due", "dns"}, BeginCycle(k) PROVE ProgressInv'
  BY <1>1 DEF BeginCycle, ProgressInv
<1>2. CASE ListDir
  BY <1>2 DEF ListDir, Removed, ProgressInv, Present, disks
<1>3. CASE CleanRemoved
  BY <1>3 DEF CleanRemoved, ProgressInv, Present, disks
<1>4. CASE Cleaned
  BY <1>4 DEF Cleaned, ProgressInv, Present, disks, state, history
<1>5. CASE SkipFile
  <2>1. PICK f \in todo : PassedOver(f) /\ todo' = todo \ {f}
    BY <1>5 DEF SkipFile
  <2>2. pc = "sync" /\ UNCHANGED <<disks, state, pc, kind, current, removed, history>>
    BY <1>5 DEF SkipFile
  <2>3. f \in Present /\ kind = "full" => backoff[f] # None
    BY <2>1 DEF PassedOver, InBackoff, Present
  <2> QED
    BY <2>1, <2>2, <2>3 DEF ProgressInv, Present, disks, state, history
<1>6. CASE SyncOne
  <2>1. PICK f \in Files : SyncFile(f)
    BY <1>6, SyncCases
  <2>2. pc = "sync" /\ UNCHANGED <<disks, pc, kind, current, removed, quiet>>
    BY <1>6, SyncCases
  <2>3. /\ todo' = todo \ {f}
        /\ \A g \in Files \ {f} : backoff'[g] = backoff[g] /\ told'[g] = told[g]
    BY <2>1, NoteType DEF SyncFile, TypeOK
  <2>4. kind = "full" => disk[f] = Absent \/ told'[f] = disk[f] \/ backoff'[f] # None
    BY <2>1, NoteType, Retries DEF SyncFile, TypeOK
  <2> QED
    BY <2>2, <2>3, <2>4 DEF ProgressInv, Present, TypeOK, disks
<1>7. CASE EndCycle \/ RaiseInCycle \/ Restart
  BY <1>7 DEF EndCycle, Leave, RaiseInCycle, Restart, ProgressInv
<1>8. CASE Edit \/ DirVanishes \/ DirReturns
  <2>1. ~quiet' /\ UNCHANGED <<pc, kind, current, todo, removed>>
    BY <1>8 DEF Edit, DirVanishes, DirReturns, cycle
  <2> QED
    BY <2>1 DEF ProgressInv
<1>9. CASE Tick
  BY <1>9 DEF Tick, ProgressInv, cycle
<1>10. CASE UNCHANGED vars
  BY <1>10 DEF vars, ProgressInv, Present
<1> QED
  BY <1>1, <1>2, <1>3, <1>4, <1>5, <1>6, <1>7, <1>8, <1>9, <1>10 DEF Next, Cycle

LEMMA InitInv == Init => Inv
<1> SUFFICES ASSUME Init PROVE Inv
  OBVIOUS
<1>1. RetryInv /\ RememberInv /\ ProgressInv
  BY DEF Init, RetryInv, RememberInv, ProgressInv
<1> QED
  BY <1>1, InitType DEF Inv

LEMMA Invariant == Spec => []Inv
<1>1. Inv /\ [Next]_vars => Inv'
  BY NextTypeOK, RetryStep, RememberStep, ProgressStep DEF Inv
<1> QED
  BY <1>1, InitInv, PTL DEF Spec

-----------------------------------------------------------------------------
\* The state of a chain directory's sync is well typed.
THEOREM TypeCorrect == Spec => []TypeOK
<1>1. Inv => TypeOK
  BY DEF Inv
<1> QED
  BY <1>1, Invariant, PTL

\* Between two cycles whatever a full cycle has applied is on disk or in
\* prev_basenames (targets.py:131,167).
THEOREM AppliedKnown == Spec => []AppliedRemembered
<1>1. Inv => AppliedRemembered
  BY DEF Inv, RememberInv, AppliedRemembered
<1> QED
  BY <1>1, Invariant, PTL

\* No pass retries a drop-in before its retry interval is over (targets.py:145-158).
THEOREM RetriesWait == Spec => RetryRespected
<1> DEFINE Waits == \A f \in todo \ todo' : SyncOne => since[f] \in {None, Retry}
<1>1. Inv => Waits
  <2> SUFFICES ASSUME Inv, NEW f \in todo \ todo', SyncOne PROVE since[f] \in {None, Retry}
    OBVIOUS
  <2>1. PICK g \in Files : SyncFile(g)
    BY SyncCases DEF Inv
  <2>2. g = f /\ ~InBackoff(f)
    BY <2>1 DEF SyncFile
  <2>3. f \in Files
    BY <2>1, <2>2
  <2> QED
    BY <2>2, <2>3 DEF Inv, TypeOK, RetryInv, InBackoff
<1> QED
  BY <1>1, Invariant, PTL DEF RetryRespected

\* At its end a full cycle that nobody disturbed accounts for every drop-in: applied
\* as it is, or noted for a retry (targets.py:138-165).
THEOREM CyclesAccount == Spec => CycleAccounts
<1> DEFINE Accounts ==
      EndCycle /\ kind = "full" /\ quiet => \A f \in Present : told[f] = disk[f] \/ backoff[f] # None
<1>1. Inv => Accounts
  BY DEF Inv, ProgressInv, EndCycle
<1> QED
  BY <1>1, Invariant, PTL DEF CycleAccounts

\* A cycle leaves an unedited drop-in of static rules alone that the chain has
\* already (targets.py:131,137).
THEOREM UpToDateStays == Spec => UpToDateKept
<1> DEFINE Same(f) ==
      /\ pc # "idle" /\ kind # "dns" /\ quiet /\ faults' = faults
      /\ disk[f] # Absent /\ ~disk[f].hosts /\ live[f] = LiveOf(disk[f])
<1>1. Inv /\ [Next]_vars => [\A f \in Files : Same(f) => live'[f] = live[f]]_vars
  <2> SUFFICES ASSUME Inv, Next, NEW f \in Files, Same(f) PROVE live'[f] = live[f]
    OBVIOUS
  <2>1. CASE CleanRemoved
    <3>1. PICK g \in removed :
            \/ live' = [live EXCEPT ![g] = Nothing]
            \/ \E s \in {None, live[g].static}, h \in {FALSE, live[g].hosts}, x \in BOOLEAN :
                 live' = [live EXCEPT ![g] = [static |-> s, hosts |-> h, extra |-> x]]
      BY <2>1 DEF CleanRemoved
    <3>2. f \in current
      BY <2>1 DEF Inv, ProgressInv, Present, CleanRemoved
    <3>3. f # g
      BY <3>2 DEF Inv, TypeOK
    <3> QED
      BY <3>1, <3>3 DEF Inv, TypeOK
  <2>2. CASE SyncOne
    <3>1. PICK g \in Files : SyncFile(g)
      BY <2>2, SyncCases DEF Inv
    <3>2. live \in [Files -> Live] /\ faults \in Nat
      BY DEF Inv, TypeOK
    <3>3. ~Fault("apply") /\ ~Fault("vanish")
      BY <3>2 DEF Fault
    <3>4. CASE FullSucceeds(g, disk[g]) /\ g # f
      BY <3>2, <3>4 DEF FullSucceeds
    <3>5. CASE FullFails(g, disk[g]) /\ g # f
      BY <3>2, <3>5 DEF FullFails
    <3>6. CASE FullSucceeds(g, disk[g]) /\ g = f
      <4>1. live[f] = [static |-> disk[f].static, hosts |-> disk[f].hosts, extra |-> FALSE]
        BY DEF LiveOf
      <4>2. PICK h \in {disk[f].hosts, disk[f].hosts /\ live[f].hosts}, x \in {FALSE} :
              live' = [live EXCEPT ![f] = [static |-> disk[f].static, hosts |-> h, extra |-> x]]
        BY <3>3, <3>6, <4>1 DEF FullSucceeds
      <4>3. h = disk[f].hosts
        <5>1. disk[f].hosts \in BOOLEAN
          BY ContentShape DEF Inv, TypeOK
        <5> QED
          BY <5>1, <4>2
      <4> QED
        BY <3>2, <4>1, <4>2, <4>3
    <3>7. CASE FullFails(g, disk[g]) /\ g = f
      <4>1. disk[f].static = Refused
        BY <3>3, <3>7 DEF FullFails
      <4>2. live[f].static # Refused
        BY LiveParts DEF Inv
      <4> QED
        BY <4>1, <4>2 DEF LiveOf
    <3> QED
      BY <3>1, <3>3, <3>4, <3>5, <3>6, <3>7 DEF SyncFile
  <2>3. CASE ~CleanRemoved /\ ~SyncOne
    BY <2>3 DEF Next, Cycle, BeginCycle, ListDir, Cleaned, SkipFile, EndCycle, RaiseInCycle, Tick,
                Edit, DirVanishes, DirReturns, Restart
  <2> QED
    BY <2>1, <2>2, <2>3
<1> QED
  BY <1>1, Invariant, PTL DEF Spec, UpToDateKept

-----------------------------------------------------------------------------
(***************************************************************************)
(* The end of a cycle.  It cleans up, then looks at, each drop-in of a     *)
(* list once.                                                              *)
(***************************************************************************)

StageOf(p) == CASE p = "list" -> 3 [] p = "clean" -> 2 [] p = "sync" -> 1 [] OTHER -> 0

Stage == StageOf(pc)
Remaining ==
  CASE pc = "clean" -> Cardinality(removed)
    [] pc = "sync" -> Cardinality(todo)
    [] OTHER -> 0

Left == <<Stage, Remaining>>

LEMMA ListsFinite ==
  TypeOK => /\ IsFiniteSet(todo) /\ Cardinality(todo) \in Nat
            /\ IsFiniteSet(removed) /\ Cardinality(removed) \in Nat
<1> SUFFICES ASSUME TypeOK
             PROVE  /\ IsFiniteSet(todo) /\ Cardinality(todo) \in Nat
                    /\ IsFiniteSet(removed) /\ Cardinality(removed) \in Nat
  OBVIOUS
<1>1. todo \subseteq Files /\ removed \subseteq Files
  BY DEF TypeOK
<1>2. IsFiniteSet(todo) /\ IsFiniteSet(removed)
  BY <1>1, FS_Subset
<1> QED BY <1>2, FS_CardinalityType

LEMMA FewerLeft ==
  ASSUME NEW S, IsFiniteSet(S), NEW x \in S
  PROVE  Cardinality(S \ {x}) < Cardinality(S)
<1>1. Cardinality(S) \in Nat
  BY FS_CardinalityType
<1>2. Cardinality(S \ {x}) = Cardinality(S) - 1
  BY FS_RemoveElement
<1> QED BY <1>1, <1>2

\* A later stage, or one drop-in less.
LEMMA ShorterLeft ==
  TypeOK /\ TypeOK' /\ (Stage' < Stage \/ (Stage' = Stage /\ Remaining' < Remaining))
    => <<Left', Left>> \in Shorter
<1> DEFINE T == Stage \in Nat /\ Remaining \in Nat
<1>1. TypeOK => T
  <2>1. TypeOK => Stage \in Nat
    BY DEF TypeOK, Stage, StageOf
  <2>2. TypeOK => Remaining \in Nat
    BY ListsFinite DEF Remaining
  <2> QED BY <2>1, <2>2
<1> HIDE DEF T
<1>2. TypeOK' => T'
  BY <1>1, PTL
<1> QED BY <1>1, <1>2, ShorterPair DEF Left, T

LEMMA CycleShortens ==
  ASSUME TypeOK, Cycle \/ RaiseInCycle
  PROVE  Stage' < Stage \/ (Stage' = Stage /\ Remaining' < Remaining)
<1>1. CASE ListDir \/ Cleaned \/ EndCycle
  BY <1>1 DEF ListDir, Cleaned, EndCycle, Leave, Stage, StageOf
<1>2. CASE RaiseInCycle
  BY <1>2 DEF RaiseInCycle, Leave, TypeOK, Stage, StageOf
<1>3. CASE CleanRemoved
  <2>1. pc = "clean" /\ pc' = "clean"
    BY <1>3 DEF CleanRemoved
  <2>2. PICK f \in removed : removed' = removed \ {f}
    BY <1>3 DEF CleanRemoved
  <2>3. Cardinality(removed') < Cardinality(removed)
    BY <2>2, ListsFinite, FewerLeft
  <2> QED BY <2>1, <2>3 DEF Stage, Remaining
<1>4. CASE SkipFile \/ SyncOne
  <2>1. pc = "sync" /\ pc' = "sync"
    BY <1>4 DEF SkipFile, SyncOne
  <2>2. PICK f \in todo : todo' = todo \ {f}
    BY <1>4 DEF SkipFile, SyncOne
  <2>3. Cardinality(todo') < Cardinality(todo)
    BY <2>2, ListsFinite, FewerLeft
  <2> QED BY <2>1, <2>3 DEF Stage, Remaining
<1> QED BY <1>1, <1>2, <1>3, <1>4 DEF Cycle

\* A cycle ends (targets.py:91-170): each of its steps, sync_file succeeding or not,
\* brings <<Stage, Remaining>> down in a well-founded order, and operators, who may edit
\* the directory at any time, have no way to bring it up again: a cycle looks at what it
\* listed.
THEOREM CycleGetsShorter ==
  Spec => [][ /\ Cycle \/ RaiseInCycle => <<Left', Left>> \in Shorter
              /\ Edit \/ DirVanishes \/ DirReturns => Left' = Left ]_vars
<1> DEFINE A == /\ Cycle \/ RaiseInCycle => <<Left', Left>> \in Shorter
                /\ Edit \/ DirVanishes \/ DirReturns => Left' = Left
<1>1. TypeOK /\ TypeOK' /\ [Next]_vars => [A]_vars
  <2> SUFFICES ASSUME TypeOK, TypeOK', Next PROVE A
    OBVIOUS
  <2>1. ASSUME Cycle \/ RaiseInCycle PROVE <<Left', Left>> \in Shorter
    BY <2>1, CycleShortens, ShorterLeft
  <2>2. ASSUME Edit \/ DirVanishes \/ DirReturns PROVE Left' = Left
    <3>1. pc' = pc /\ todo' = todo /\ removed' = removed
      BY <2>2 DEF Edit, DirVanishes, DirReturns, cycle
    <3> QED BY <3>1 DEF Left, Stage, Remaining
  <2> QED BY <2>1, <2>2
<1> HIDE DEF A
<1>2. Spec => [][A]_vars
  BY <1>1, TypeCorrect, PTL DEF Spec
<1> QED BY <1>2 DEF A

=============================================================================
