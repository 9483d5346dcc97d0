---------------------------- MODULE PartsProofs -----------------------------
(***************************************************************************)
(* Proofs about the parts that MCParts puts side by side: the lock file,   *)
(* the alerts, /metrics and --test, each for any values of its constants,  *)
(* and at the end what holds of all of them side by side.  The watch has   *)
(* WatchProofs, the parser of drop-ins has DropInProofs.                   *)
(***************************************************************************)
EXTENDS MCParts, WatchProofs, DropInProofs, FiniteSetTheorems, TLAPS

-----------------------------------------------------------------------------
(***************************************************************************)
(* The lock file.                                                          *)
(***************************************************************************)

\* Stages in which a daemon has the flock.
HasLock == {"locked", "blank", "named", "loop", "closing"}

\* The flock belongs to the one daemon that is in such a stage.
FlockInv ==
  /\ \A p \in Pids : at[p] \in HasLock => flock = p
  /\ flock # NoPid => at[flock] \in HasLock

\* The PID is in the file from its writing to the truncation; what else is there was
\* left by a kill.
FileInv ==
  /\ \A p \in Pids : at[p] \in {"named", "loop"} => pidfile = p
  /\ pidfile \notin {NoPid, left} => at[pidfile] \in {"named", "loop"}

\* Every daemon past its first stage handles SIGHUP.
HandlerInv ==
  /\ \A p \in Pids : at[p] \in Stages \ {"boot"} => p \in handles
  /\ sure => asked \in handles

LockInv == LockTypeOK /\ FlockInv /\ FileInv /\ HandlerInv

LEMMA LockInitInv == LockInit => LockInv
<1> SUFFICES ASSUME LockInit PROVE LockInv
  OBVIOUS
<1> USE DEF LockInit, Stages
<1>1. sure \in BOOLEAN /\ ~sure
  OBVIOUS
<1>2. LockTypeOK
  <2> HIDE <1>1
  <2>1. /\ at \in [Pids -> Stages \cup {"none", "other"}]
        /\ handles \subseteq {p \in Pids : Running(p)} /\ signals \subseteq handles
        /\ deaths \in 0 .. MaxDeaths
    BY DeathsAssumption
  <2>2. /\ flock \in Pids \cup {NoPid} /\ pidfile \in Pids \cup {NoPid}
        /\ asked \in Pids \cup {NoPid} /\ left \in Pids \cup {NoPid}
    OBVIOUS
  <2> QED
    BY <1>1, <2>1, <2>2, Zenon DEF LockTypeOK
<1>3. \A p \in Pids : at[p] = "none"
  OBVIOUS
<1>4. FlockInv /\ FileInv
  BY <1>3 DEF FlockInv, FileInv, HasLock
<1>5. HandlerInv
  BY <1>1, <1>3 DEF HandlerInv
<1> QED
  BY <1>2, <1>4, <1>5 DEF LockInv

LEMMA LockNextType == LockTypeOK /\ [LockNext]_lockVars => LockTypeOK'
<1> SUFFICES ASSUME LockTypeOK, [LockNext]_lockVars PROVE LockTypeOK'
  OBVIOUS
<1> USE PidsAssumption, DeathsAssumption DEF LockTypeOK, Stages, Running
<1>1. ASSUME NEW p \in Pids, StartDaemon(p) PROVE LockTypeOK'
  BY <1>1 DEF StartDaemon, lockFile, resync
<1>2. ASSUME NEW p \in Pids, Advance(p) PROVE LockTypeOK'
  BY <1>2 DEF Advance, Prepare, Lock, Refused, Truncate, WritePid, Enter, SeeSignal, Unlock,
              Exit, Goes, Ends, lockFile, resync, HandlerStage
<1>3. ASSUME NEW p \in Pids, Leave(p) PROVE LockTypeOK'
  BY <1>3 DEF Leave, Goes, lockFile, resync, HandlerStage
<1>4. ASSUME NEW p \in Pids, Kill(p) PROVE LockTypeOK'
  BY <1>4 DEF Kill, Ends
<1>5. ASSUME NEW p \in Pids, Reload(p) PROVE LockTypeOK'
  BY <1>5 DEF Reload, Hup
<1>6. ASSUME NEW p \in Pids, OtherStarts(p) PROVE LockTypeOK'
  BY <1>6 DEF OtherStarts, lockFile, resync
<1>7. ASSUME NEW p \in Pids, OtherEnds(p) PROVE LockTypeOK'
  BY <1>7 DEF OtherEnds, Ends
<1>8. CASE ReadPid
  BY <1>8 DEF ReadPid, lockFile
<1>9. CASE SendHup
  <2>1. /\ at' \in [Pids -> Stages \cup {"none", "other"}]
        /\ handles' \subseteq {p \in Pids : Running(p)'} /\ signals' \subseteq handles'
        /\ flock' \in Pids \cup {NoPid} /\ pidfile' \in Pids \cup {NoPid}
        /\ asked' \in Pids \cup {NoPid} /\ left' \in Pids \cup {NoPid}
        /\ deaths' \in 0 .. MaxDeaths
    BY <1>9 DEF SendHup, Hup
  <2>2. sure' = FALSE
    BY <1>9 DEF SendHup
  <2> QED
    BY <2>1, <2>2, Zenon
<1>10. CASE UNCHANGED lockVars
  BY <1>10 DEF lockVars, lockFile, resync
<1> QED
  BY <1>1, <1>2, <1>3, <1>4, <1>5, <1>6, <1>7, <1>8, <1>9, <1>10 DEF LockNext

LEMMA LockNextInv == LockInv /\ [LockNext]_lockVars => (FlockInv /\ FileInv /\ HandlerInv)'
<1> SUFFICES ASSUME LockInv, [LockNext]_lockVars PROVE (FlockInv /\ FileInv /\ HandlerInv)'
  OBVIOUS
<1> DEFINE Goal == (FlockInv /\ FileInv /\ HandlerInv)'
<1> USE PidsAssumption, DeathsAssumption DEF LockInv, LockTypeOK, FlockInv, FileInv, HandlerInv, Stages, Running, HasLock
<1>1. ASSUME NEW p \in Pids, StartDaemon(p) PROVE Goal
  BY <1>1 DEF StartDaemon, lockFile, resync
<1>2. ASSUME NEW p \in Pids, Advance(p) PROVE Goal
  <2> USE DEF Goes, Ends, lockFile, resync, HandlerStage, MayLock
  <2>1. CASE Prepare(p)
    BY <2>1 DEF Prepare
  <2>2. CASE Lock(p)
    BY <2>2 DEF Lock
  <2>3. CASE Refused(p)
    BY <2>3 DEF Refused
  <2>4. CASE Truncate(p)
    BY <2>4 DEF Truncate
  <2>5. CASE WritePid(p)
    BY <2>5 DEF WritePid
  <2>6. CASE Enter(p)
    BY <2>6 DEF Enter
  <2>7. CASE SeeSignal(p)
    BY <2>7 DEF SeeSignal
  <2>8. CASE Unlock(p)
    BY <2>8 DEF Unlock
  <2>9. CASE Exit(p)
    BY <2>9 DEF Exit
  <2> QED
    BY <1>2, <2>1, <2>2, <2>3, <2>4, <2>5, <2>6, <2>7, <2>8, <2>9 DEF Advance
<1>3. ASSUME NEW p \in Pids, Leave(p) PROVE Goal
  BY <1>3 DEF Leave, Goes, lockFile, resync, HandlerStage
<1>4. ASSUME NEW p \in Pids, Kill(p) PROVE Goal
  BY <1>4 DEF Kill, Ends
<1>5. ASSUME NEW p \in Pids, Reload(p) PROVE Goal
  BY <1>5 DEF Reload, Hup
<1>6. ASSUME NEW p \in Pids, OtherStarts(p) PROVE Goal
  BY <1>6 DEF OtherStarts, lockFile, resync
<1>7. ASSUME NEW p \in Pids, OtherEnds(p) PROVE Goal
  BY <1>7 DEF OtherEnds, Ends
<1>8. CASE ReadPid
  BY <1>8 DEF ReadPid, lockFile
<1>9. CASE SendHup
  BY <1>9 DEF SendHup, Hup
<1>10. CASE UNCHANGED lockVars
  BY <1>10 DEF lockVars, lockFile, resync
<1> QED
  BY <1>1, <1>2, <1>3, <1>4, <1>5, <1>6, <1>7, <1>8, <1>9, <1>10 DEF LockNext

LEMMA LockInvariant == LockSpec => []LockInv
<1>1. LockInv /\ [LockNext]_lockVars => LockInv'
  BY LockNextType, LockNextInv DEF LockInv
<1> QED
  BY <1>1, LockInitInv, PTL DEF LockSpec

\* The state of the lock is well typed (locking.py:12-42): only daemons past their start
\* handle SIGHUP, and only those have one pending.
THEOREM LockTypeCorrect == LockSpec => []LockTypeOK
<1>1. LockInv => LockTypeOK
  BY DEF LockInv
<1> QED
  BY <1>1, LockInvariant, PTL

\* One daemon at most is in the loop, and the lock file names nobody else but a PID
\* that a kill has left (locking.py:28-42).
THEOREM FileTruthful == LockSpec => []PidFileTruthful
<1>1. LockInv => PidFileTruthful
  BY DEF LockInv, FileInv, PidFileTruthful
<1> QED
  BY <1>1, LockInvariant, PTL

\* A --resync that has read the PID of a running daemon does not end it (main.py:172,268).
THEOREM ResyncSafe == LockSpec => []ResyncSpares
<1>1. LockInv => ResyncSpares
  BY DEF LockInv, HandlerInv, ResyncSpares
<1> QED
  BY <1>1, LockInvariant, PTL

-----------------------------------------------------------------------------
(***************************************************************************)
(* The alerts.                                                             *)
(***************************************************************************)

\* The two flags of an episode are one, and tell whether the rule's last pass was
\* bad; a finished episode is as good as new.
FlagsInv ==
  \A kind \in Kinds, r \in Rules :
    IF Bad(answers[r][2], kind)
    THEN episodes[kind][r].failing /\ episodes[kind][r].alert_sent
    ELSE episodes[kind][r] = Fresh

\* While it lasts, last_hourly_error is the time since the last message.
AgeInv ==
  \A kind \in Kinds, r \in Rules :
    Bad(answers[r][2], kind) => quiet[kind][r] = episodes[kind][r].last

HostLogInv == HostLogTypeOK /\ FlagsInv /\ AgeInv /\ AlertsOnChange

USE HourAssumption

LEMMA FreshType == Fresh \in Episode /\ Fresh.failing = FALSE /\ Fresh.alert_sent = FALSE /\ Fresh.last = Hour
  BY DEF Fresh, Episode

LEMMA GrownType == ASSUME NEW age \in 0 .. Hour PROVE Grown(age) \in 0 .. Hour
  BY DEF Grown

\* A pass with trouble: an episode that is new begins with an ALERT, one that lasts
\* keeps silent or repeats an ERROR, by its age.
LEMMA LevelFresh == LevelOf(Fresh) = "ALERT"
  BY FreshType DEF LevelOf, Opened, Fresh

LEMMA LevelLasting ==
  ASSUME NEW e \in Episode, e.failing, e.alert_sent
  PROVE  LevelOf(e) = IF e.last = Hour THEN "ERROR" ELSE "silent"
  BY DEF LevelOf, Opened

LEMMA LevelType == ASSUME NEW e PROVE LevelOf(e) \in {"ALERT", "ERROR", "silent"}
  BY DEF LevelOf

LEMMA RaisedEpisode ==
  ASSUME NEW e \in Episode
  PROVE  /\ Raised(e) \in Episode /\ Raised(e).failing /\ Raised(e).alert_sent
         /\ Raised(e).last = IF LevelOf(e) = "silent" THEN Opened(e).last ELSE 0
<1>1. Opened(e) \in Episode /\ Opened(e).failing
  BY FreshType DEF Opened, Fresh, Episode
<1>2. 0 \in 0 .. Hour
  OBVIOUS
<1> QED
  BY <1>1, <1>2 DEF Raised, Episode

\* The messages of one pass.
LEMMA Logging ==
  ASSUME HostLogInv, NEW r \in Rules, NEW answer \in Answers, Notify(r, answer),
         NEW m \in logged'
  PROVE  /\ m[1] = r /\ m[2] \in Kinds /\ m[3] \in {"ALERT", "ERROR", "silent"}
         /\ Bad(answer, m[2])
         /\ m[3] = "ALERT" <=> answers[r][2] # answer
         /\ m[3] = "ERROR" <=> answers[r][2] = answer /\ quiet[m[2]][r] = Hour
<1> DEFINE e(kind) == episodes[kind][r]
<1>1. PICK kind \in Kinds : Bad(answer, kind) /\ m = <<r, kind, LevelOf(e(kind))>>
  BY DEF Notify, Key
<1>2. e(kind) \in Episode /\ answers[r][2] \in Answers
  BY DEF HostLogInv, HostLogTypeOK
<1>3. Bad(answers[r][2], kind) <=> answers[r][2] = answer
  BY <1>1, <1>2 DEF Bad, Answers, Kinds
<1>4. CASE answers[r][2] = answer
  <2>1. /\ e(kind).failing /\ e(kind).alert_sent
        /\ quiet[kind][r] = e(kind).last
    BY <1>3, <1>4 DEF HostLogInv, FlagsInv, AgeInv
  <2>2. LevelOf(e(kind)) = IF e(kind).last = Hour THEN "ERROR" ELSE "silent"
    BY <1>2, <2>1, LevelLasting
  <2> HIDE DEF e
  <2> QED
    BY <1>1, <1>4, <2>1, <2>2
<1>5. CASE answers[r][2] # answer
  <2>1. e(kind) = Fresh
    BY <1>3, <1>5 DEF HostLogInv, FlagsInv
  <2> HIDE DEF e
  <2> QED
    BY <1>1, <1>5, <2>1, LevelFresh
<1> QED
  BY <1>4, <1>5

LEMMA HostLogInitInv == HostLogInit => HostLogInv
<1> SUFFICES ASSUME HostLogInit PROVE HostLogInv
  OBVIOUS
<1>1. /\ \A kind \in Kinds, r \in Rules : episodes[kind][r] = Fresh
      /\ \A r \in Rules : answers[r] = <<"one", "one">>
  BY DEF HostLogInit
<1>2. HostLogTypeOK
  BY FreshType DEF HostLogInit, HostLogTypeOK, Answers
<1>3. \A kind \in Kinds : ~Bad("one", kind)
  BY DEF Bad
<1>4. FlagsInv /\ AgeInv
  BY <1>1, <1>3 DEF FlagsInv, AgeInv
<1>5. AlertsOnChange
  BY DEF HostLogInit, AlertsOnChange
<1> QED
  BY <1>2, <1>4, <1>5 DEF HostLogInv

LEMMA NotifyInv ==
  ASSUME HostLogInv, NEW r \in Rules, NEW answer \in Answers, Notify(r, answer)
  PROVE  HostLogInv'
<1> USE DEF HostLogInv
<1>1. /\ \A q \in Rules : answers'[q] = IF q = r THEN <<answers[r][2], answer>> ELSE answers[q]
      /\ answers' \in [Rules -> Answers \X Answers]
  BY DEF HostLogTypeOK, Notify
<1>2. \A kind \in Kinds, q \in Rules :
        /\ q # r => episodes'[kind][q] = episodes[kind][q] /\ quiet'[kind][q] = quiet[kind][q]
        /\ episodes'[kind][r] = After(answer, kind, episodes[kind][r])
        /\ quiet'[kind][r] = IF Bad(answer, kind) /\ LevelOf(episodes[kind][r]) # "silent"
                             THEN 0 ELSE quiet[kind][r]
  BY DEF HostLogTypeOK, Notify, Key
<1>3. \A kind \in Kinds : After(answer, kind, episodes[kind][r]) \in Episode
  BY RaisedEpisode, FreshType DEF HostLogTypeOK, After
<1>4. HostLogTypeOK'
  <2>1. logged' \subseteq Rules \X Kinds \X {"ALERT", "ERROR", "silent"}
    BY LevelType DEF Notify
  <2>2. episodes' \in [Kinds -> [Rules -> Episode]]
    BY <1>3 DEF HostLogTypeOK, Notify, Key
  <2>3. quiet' \in [Kinds -> [Rules -> 0 .. Hour]]
    BY DEF HostLogTypeOK, Notify
  <2> QED
    BY <1>1, <2>1, <2>2, <2>3 DEF HostLogTypeOK, Notify
<1>5. FlagsInv'
  <2> SUFFICES ASSUME NEW kind \in Kinds, NEW q \in Rules
               PROVE IF Bad(answers'[q][2], kind)
                     THEN episodes'[kind][q].failing /\ episodes'[kind][q].alert_sent
                     ELSE episodes'[kind][q] = Fresh
    BY DEF FlagsInv
  <2>1. CASE q # r
    BY <1>1, <1>2, <2>1 DEF FlagsInv
  <2>2. CASE q = r
    <3>1. episodes[kind][r] \in Episode
      BY DEF HostLogTypeOK
    <3>2. answers'[q][2] = answer
      BY <1>1, <2>2
    <3> QED
      BY <1>2, <2>2, <3>1, <3>2, RaisedEpisode DEF After
  <2> QED
    BY <2>1, <2>2
<1>6. AgeInv'
  <2> SUFFICES ASSUME NEW kind \in Kinds, NEW q \in Rules, Bad(answers'[q][2], kind)
               PROVE quiet'[kind][q] = episodes'[kind][q].last
    BY DEF AgeInv
  <2>1. CASE q # r
    BY <1>1, <1>2, <2>1 DEF AgeInv
  <2>2. CASE q = r
    <3> DEFINE e == episodes[kind][r]
    <3>1. e \in Episode /\ answers[r][2] \in Answers
      BY DEF HostLogTypeOK
    <3>2. answers'[q][2] = answer
      BY <1>1, <2>2
    <3>3. episodes'[kind][r] = Raised(e)
      BY <1>2, <2>2, <3>2 DEF After
    <3>4. CASE LevelOf(e) # "silent"
      BY <1>2, <2>2, <3>1, <3>2, <3>3, <3>4, RaisedEpisode
    <3>5. CASE LevelOf(e) = "silent"
      <4>1. Bad(answers[r][2], kind)
        BY <3>5, LevelFresh DEF FlagsInv
      <4>2. e.failing /\ quiet[kind][r] = e.last
        BY <4>1 DEF FlagsInv, AgeInv
      <4>3. Opened(e) = e
        BY <4>2 DEF Opened
      <4> QED
        BY <1>2, <2>2, <3>1, <3>3, <3>5, <4>2, <4>3, RaisedEpisode
    <3> QED
      BY <3>4, <3>5
  <2> QED
    BY <2>1, <2>2
<1>7. AlertsOnChange'
  <2> SUFFICES ASSUME NEW m \in logged'
               PROVE m[3] = "ALERT" <=> answers'[m[1]][1] # answers'[m[1]][2]
    BY DEF AlertsOnChange
  <2>1. m[1] = r /\ (m[3] = "ALERT" <=> answers[r][2] # answer)
    BY Logging
  <2>2. answers'[r][1] = answers[r][2] /\ answers'[r][2] = answer
    BY <1>1
  <2> QED
    BY <2>1, <2>2
<1> QED
  BY <1>4, <1>5, <1>6, <1>7

\* An episode a unit of time later.
Older(e) == [e EXCEPT !.last = Grown(@)]

LEMMA OlderEpisode ==
  ASSUME NEW e \in Episode
  PROVE  /\ Older(e) \in Episode
         /\ Older(e).failing = e.failing /\ Older(e).alert_sent = e.alert_sent
         /\ Older(e).last = Grown(e.last)
<1>1. Grown(e.last) \in 0 .. Hour
  BY GrownType DEF Episode
<1> QED
  BY <1>1 DEF Episode, Older

LEMMA TimeInv == HostLogInv /\ TimePasses => HostLogInv'
<1> SUFFICES ASSUME HostLogInv, TimePasses PROVE HostLogInv'
  OBVIOUS
<1> USE DEF HostLogInv
<1>1. ASSUME NEW kind \in Kinds, NEW r \in Rules
      PROVE  /\ episodes[kind][r] \in Episode
             /\ episodes'[kind][r] = Older(episodes[kind][r])
             /\ quiet'[kind][r] = Grown(quiet[kind][r])
  BY DEF TimePasses, HostLogTypeOK, Older
<1>2. ASSUME NEW kind \in Kinds, NEW r \in Rules
      PROVE  /\ episodes'[kind][r] \in Episode
             /\ episodes'[kind][r].failing = episodes[kind][r].failing
             /\ episodes'[kind][r].alert_sent = episodes[kind][r].alert_sent
             /\ episodes'[kind][r].last = Grown(episodes[kind][r].last)
  BY <1>1, OlderEpisode
<1>3. HostLogTypeOK'
  <2>1. episodes' \in [Kinds -> [Rules -> Episode]]
    BY <1>2 DEF TimePasses
  <2>2. quiet' \in [Kinds -> [Rules -> 0 .. Hour]]
    BY GrownType DEF TimePasses, HostLogTypeOK
  <2> QED
    BY <2>1, <2>2 DEF TimePasses, HostLogTypeOK
<1>4. Older(Fresh) = Fresh
  BY DEF Fresh, Grown, Older
<1>5. answers' = answers /\ logged' = {}
  BY DEF TimePasses
<1>6. FlagsInv'
  BY <1>1, <1>2, <1>4, <1>5 DEF FlagsInv
<1>7. AgeInv'
  <2> SUFFICES ASSUME NEW kind \in Kinds, NEW r \in Rules, Bad(answers'[r][2], kind)
               PROVE quiet'[kind][r] = episodes'[kind][r].last
    BY DEF AgeInv
  <2>1. quiet[kind][r] = episodes[kind][r].last
    BY <1>5 DEF AgeInv
  <2> QED
    BY <1>1, <1>2, <2>1
<1>8. AlertsOnChange'
  BY <1>5 DEF AlertsOnChange
<1> QED
  BY <1>3, <1>6, <1>7, <1>8

LEMMA OtherStepsInv ==
  HostLogInv /\ (EditRules \/ RestartLog \/ UNCHANGED hostLogVars) => HostLogInv'
<1> SUFFICES ASSUME HostLogInv, EditRules \/ RestartLog \/ UNCHANGED hostLogVars
             PROVE HostLogInv'
  OBVIOUS
<1>1. CASE EditRules
  BY <1>1 DEF EditRules, HostLogInv, HostLogTypeOK, FlagsInv, AgeInv, AlertsOnChange
<1>2. CASE RestartLog
  <2> USE <1>2 DEF RestartLog, ForgetAll
  <2>1. /\ \A kind \in Kinds, r \in Rules : episodes'[kind][r] = Fresh
        /\ \A r \in Rules : answers'[r] = <<"one", "one">>
    OBVIOUS
  <2>2. HostLogTypeOK'
    BY FreshType DEF HostLogInv, HostLogTypeOK, Answers
  <2>3. \A kind \in Kinds : ~Bad("one", kind)
    BY DEF Bad
  <2>4. FlagsInv' /\ AgeInv'
    BY <2>1, <2>3 DEF FlagsInv, AgeInv
  <2>5. AlertsOnChange'
    BY DEF AlertsOnChange
  <2> QED
    BY <2>2, <2>4, <2>5 DEF HostLogInv
<1>3. CASE UNCHANGED hostLogVars
  BY <1>3 DEF hostLogVars, HostLogInv, HostLogTypeOK, FlagsInv, AgeInv, AlertsOnChange
<1> QED
  BY <1>1, <1>2, <1>3

LEMMA HostLogInvariant == HostLogSpec => []HostLogInv
<1>1. HostLogInv /\ [HostLogNext]_hostLogVars => HostLogInv'
  BY NotifyInv, TimeInv, OtherStepsInv DEF HostLogNext
<1> QED
  BY <1>1, HostLogInitInv, PTL DEF HostLogSpec

\* The episodes and the messages are well typed (host_resolve.py:131-145), for any rules
\* and any length of an hour.
THEOREM HostLogTypeCorrect == HostLogSpec => []HostLogTypeOK
<1>1. HostLogInv => HostLogTypeOK
  BY DEF HostLogInv
<1> QED
  BY <1>1, HostLogInvariant, PTL

\* A rule is alerted about exactly when its trouble begins or becomes another
\* (host_resolve.py:164-209).
THEOREM AlertsCorrect == HostLogSpec => []AlertsOnChange
<1>1. HostLogInv => AlertsOnChange
  BY DEF HostLogInv
<1> QED
  BY <1>1, HostLogInvariant, PTL

\* While the trouble lasts it is repeated once an hour (host_resolve.py:164-209).
THEOREM RemindersCorrect == HostLogSpec => RemindedHourly
<1> DEFINE Reminded ==
      \A m \in logged' :
        LET r == m[1]
            lasts == answers[r][2] = answers'[r][2]
        IN m[3] = "ERROR" <=> lasts /\ quiet[m[2]][r] = Hour
<1>1. HostLogInv /\ [HostLogNext]_hostLogVars => [Reminded]_hostLogVars
  <2> SUFFICES ASSUME HostLogInv, HostLogNext PROVE Reminded
    OBVIOUS
  <2>1. ASSUME NEW r \in Rules, NEW answer \in Answers, Notify(r, answer) PROVE Reminded
    <3>1. answers'[r][2] = answer
      BY <2>1 DEF HostLogInv, HostLogTypeOK, Notify
    <3> QED
      BY <2>1, <3>1, Logging
  <2>2. CASE TimePasses \/ EditRules \/ RestartLog
    BY <2>2 DEF TimePasses, EditRules, RestartLog, ForgetAll
  <2> QED
    BY <2>1, <2>2 DEF HostLogNext
<1> QED
  BY <1>1, HostLogInvariant, PTL DEF HostLogSpec, RemindedHourly

HIDE HourAssumption

-----------------------------------------------------------------------------
(***************************************************************************)
(* /metrics.                                                               *)
(***************************************************************************)

IsFun(f) == f = [l \in DOMAIN f |-> f[l]]
Totals == [cycles : Nat, errors : Nat]

\* /metrics and what the exporter remembers have the same labels, the numbers shown
\* are the remembered ones, and none is outside the seen labels.
SurfaceInv ==
  /\ IsFun(gauge) /\ IsFun(sample)
  /\ gauge = prev
  /\ DOMAIN activity = DOMAIN gauge
  /\ DOMAIN gauge \subseteq seen

\* The two counters are those of the last push.
TotalsInv ==
  /\ total \in Totals /\ last \in Totals
  /\ last.cycles <= total.cycles /\ last.errors <= total.errors
  /\ exported = last
  /\ phase \in {"remove", "set", "idle"} => exported = total

\* What the push has set so far is from the sample.
PushInv ==
  phase \in {"set", "idle"} =>
    /\ seen = DOMAIN sample /\ unset \subseteq seen
    /\ \A l \in seen \ unset : l \in DOMAIN gauge /\ gauge[l] = sample[l]
    /\ phase = "idle" => unset = {}

MetricsInv == SurfaceInv /\ TotalsInv /\ PushInv

LEMMA CollectedFun == IsFun(Collected) /\ IsFun(NoLabels) /\ DOMAIN NoLabels = {}
<1>1. IsFun(NoLabels) /\ DOMAIN NoLabels = {}
  BY DEF NoLabels, IsFun
<1>2. CASE DOMAIN hits = {}
  BY <1>1, <1>2 DEF Collected
<1>3. CASE DOMAIN hits # {}
  <2>1. Collected = Putting(Restrict(hits, DOMAIN hits \cap Owned), "chain", Cardinality(Counted))
    BY <1>3 DEF Collected
  <2>2. IsFun(Collected)
    BY <2>1 DEF Putting, IsFun
  <2> QED
    BY <1>1, <2>2
<1> QED
  BY <1>1, <1>2, <1>3

LEMMA MetricsInitInv == MetricsInit => MetricsInv
<1> SUFFICES ASSUME MetricsInit PROVE MetricsInv
  OBVIOUS
<1>1. SurfaceInv /\ PushInv
  BY CollectedFun DEF MetricsInit, SurfaceInv, PushInv
<1>2. TotalsInv
  BY DEF MetricsInit, TotalsInv, Totals, Zero
<1> QED
  BY <1>1, <1>2 DEF MetricsInv

-----------------------------------------------------------------------------
\* The steps that move the surface.

LEMMA RemoveInv == MetricsInv /\ RemoveLabel => MetricsInv'
<1> SUFFICES ASSUME MetricsInv, RemoveLabel PROVE MetricsInv'
  OBVIOUS
<1>1. PICK l \in Outdated :
        /\ gauge' = Dropping(gauge, l) /\ activity' = Dropping(activity, l) /\ prev' = Dropping(prev, l)
  BY DEF RemoveLabel
<1>2. phase = "remove" /\ UNCHANGED <<totals, sample, seen, phase>>
  BY DEF RemoveLabel
<1>3. SurfaceInv'
  BY <1>1, <1>2 DEF IsFun, Dropping, Restrict, MetricsInv, SurfaceInv
<1>4. TotalsInv' /\ PushInv'
  BY <1>2 DEF MetricsInv, TotalsInv, PushInv, totals
<1> QED
  BY <1>3, <1>4 DEF MetricsInv

LEMMA EndRemoveInv == MetricsInv /\ EndRemove => MetricsInv'
<1> SUFFICES ASSUME MetricsInv, EndRemove PROVE MetricsInv'
  OBVIOUS
<1>1. DOMAIN gauge \subseteq DOMAIN sample
  BY DEF MetricsInv, SurfaceInv, EndRemove, Outdated
<1>2. SurfaceInv' /\ PushInv'
  BY <1>1 DEF MetricsInv, SurfaceInv, PushInv, EndRemove, surface
<1>3. TotalsInv'
  BY DEF MetricsInv, TotalsInv, EndRemove, totals
<1> QED
  BY <1>2, <1>3 DEF MetricsInv

LEMMA SetInv == MetricsInv /\ SetLabel => MetricsInv'
<1> SUFFICES ASSUME MetricsInv, SetLabel PROVE MetricsInv'
  OBVIOUS
<1>1. PICK l \in unset :
        /\ gauge' = Putting(gauge, l, sample[l])
        /\ activity' = IF Moved(l) \/ l \notin DOMAIN activity THEN Putting(activity, l, now) ELSE activity
        /\ prev' = Putting(prev, l, sample[l])
        /\ unset' = unset \ {l}
  BY DEF SetLabel
<1>2. phase = "set" /\ UNCHANGED <<totals, sample, seen, phase>>
  BY DEF SetLabel
<1>3. /\ IsFun(gauge') /\ DOMAIN gauge' = DOMAIN gauge \cup {l}
      /\ gauge'[l] = sample[l] /\ \A k \in DOMAIN gauge \ {l} : gauge'[k] = gauge[k]
  BY <1>1 DEF Putting, IsFun
<1>4. l \in seen
  BY <1>2 DEF MetricsInv, PushInv
<1>5. SurfaceInv'
  <2>1. DOMAIN activity' = DOMAIN activity \cup {l}
    BY <1>1 DEF Putting, IsFun
  <2> QED
    BY <1>1, <1>2, <1>3, <1>4, <2>1 DEF MetricsInv, SurfaceInv
<1>6. PushInv'
  BY <1>1, <1>2, <1>3 DEF MetricsInv, PushInv
<1>7. TotalsInv'
  BY <1>2 DEF MetricsInv, TotalsInv, totals
<1> QED
  BY <1>5, <1>6, <1>7 DEF MetricsInv

LEMMA PushTotalsInv == MetricsInv /\ PushTotals => MetricsInv'
<1> SUFFICES ASSUME MetricsInv, PushTotals PROVE MetricsInv'
  OBVIOUS
<1>1. last' = total /\ total' = total /\ phase' = "remove"
  BY DEF PushTotals
<1>2. total \in Totals /\ last \in Totals /\ exported = last
      /\ last.cycles <= total.cycles /\ last.errors <= total.errors
  BY DEF MetricsInv, TotalsInv
<1>3. \A k \in {"cycles", "errors"} : Increased(exported[k], last[k], total[k]) = total[k]
  BY <1>2 DEF Increased, Totals
<1>4. exported' = total
  BY <1>2, <1>3 DEF PushTotals, Totals
<1>5. TotalsInv'
  BY <1>1, <1>2, <1>4 DEF TotalsInv, Totals
<1>6. SurfaceInv' /\ PushInv'
  BY <1>1 DEF MetricsInv, SurfaceInv, PushInv, PushTotals, surface
<1> QED
  BY <1>5, <1>6 DEF MetricsInv

LEMMA UpdateInv == MetricsInv /\ UpdateCycle => MetricsInv'
<1> SUFFICES ASSUME MetricsInv, UpdateCycle PROVE MetricsInv'
  OBVIOUS
<1>1. PICK errors \in 0 .. 1 :
        total' = [cycles |-> total.cycles + 1, errors |-> total.errors + errors]
  BY DEF UpdateCycle
<1>2. TotalsInv'
  BY <1>1 DEF MetricsInv, TotalsInv, Totals, UpdateCycle
<1>3. SurfaceInv' /\ PushInv'
  BY DEF MetricsInv, SurfaceInv, PushInv, UpdateCycle, surface
<1> QED
  BY <1>2, <1>3 DEF MetricsInv

LEMMA CollectInv == MetricsInv /\ Collect => MetricsInv'
<1> SUFFICES ASSUME MetricsInv, Collect PROVE MetricsInv'
  OBVIOUS
<1>1. IsFun(sample')
  BY CollectedFun DEF Collect
<1>2. SurfaceInv' /\ PushInv'
  BY <1>1 DEF MetricsInv, SurfaceInv, PushInv, Collect, surface
<1>3. TotalsInv'
  BY DEF MetricsInv, TotalsInv, Collect, totals
<1> QED
  BY <1>2, <1>3 DEF MetricsInv

LEMMA EndPushInv == MetricsInv /\ EndPush => MetricsInv'
  BY DEF MetricsInv, SurfaceInv, TotalsInv, PushInv, EndPush, totals, surface

\* Everything else leaves the exporter alone.
Outside ==
  \/ \E r \in Owned \cup Others : Packet(r) \/ PutRule(r) \/ DeleteRule(r)
  \/ MinutePasses
  \/ UNCHANGED metricsVars

LEMMA OutsideSteps == Outside => UNCHANGED <<totals, sample, seen, surface, unset, phase>>
  BY DEF Outside, Packet, PutRule, DeleteRule, MinutePasses, metricsVars

LEMMA OutsideInv == MetricsInv /\ Outside => MetricsInv'
  BY OutsideSteps DEF MetricsInv, SurfaceInv, TotalsInv, PushInv, totals, surface

LEMMA MetricsInvariant == MetricsSpec => []MetricsInv
<1>1. MetricsInv /\ [MetricsNext]_metricsVars => MetricsInv'
  BY RemoveInv, EndRemoveInv, SetInv, PushTotalsInv, UpdateInv, CollectInv, EndPushInv, OutsideInv
     DEF MetricsNext, Outside
<1> QED
  BY <1>1, MetricsInitInv, PTL DEF MetricsSpec

-----------------------------------------------------------------------------
\* The types.  The sum of a chain is a number because its rules are finitely many.

CountInv ==
  /\ DOMAIN hits \subseteq Owned \cup Others /\ IsFiniteSet(DOMAIN hits)
  /\ \A r \in DOMAIN hits : hits[r] \in 0 .. MaxHits
  /\ DOMAIN sample \subseteq Labels /\ \A l \in DOMAIN sample : sample[l] \in Nat
  /\ seen \subseteq Labels /\ unset \subseteq seen
  /\ \A l \in DOMAIN gauge : gauge[l] \in Nat /\ activity[l] \in 1 .. minute
  /\ total.cycles \in 0 .. MaxCycles /\ total.errors <= total.cycles
  /\ phase \in {"idle", "updated", "collected", "remove", "set"}
  /\ minute \in 1 .. MaxMinute /\ now \in 1 .. minute

LEMMA CollectedTypes ==
  ASSUME CountInv
  PROVE  /\ DOMAIN Collected \subseteq Labels
         /\ \A l \in DOMAIN Collected : Collected[l] \in Nat
<1>1. CASE DOMAIN hits = {}
  BY <1>1 DEF Collected, NoLabels
<1>2. CASE DOMAIN hits # {}
  <2> DEFINE mine == Restrict(hits, DOMAIN hits \cap Owned)
             sum == Cardinality(Counted)
  <2>1. DOMAIN mine = DOMAIN hits \cap Owned /\ \A r \in DOMAIN mine : mine[r] \in Nat
    BY BoundsAssumption DEF CountInv, Restrict
  <2>2. sum \in Nat
    <3>1. IsFiniteSet(1 .. MaxHits)
      BY BoundsAssumption, FS_Interval
    <3>2. IsFiniteSet((DOMAIN hits) \X (1 .. MaxHits))
      BY <3>1, FS_Product DEF CountInv
    <3>3. Counted \in SUBSET ((DOMAIN hits) \X (1 .. MaxHits))
      BY DEF Counted
    <3> HIDE DEF sum
    <3>4. IsFiniteSet(Counted)
      BY <3>2, <3>3, FS_Subset
    <3> QED
      BY <3>4, FS_CardinalityType DEF sum
  <2>3. Collected = Putting(mine, "chain", sum)
    BY <1>2 DEF Collected
  <2> HIDE DEF mine, sum
  <2>4. /\ DOMAIN Collected = DOMAIN mine \cup {"chain"} /\ Collected["chain"] = sum
        /\ \A k \in DOMAIN mine : k # "chain" => Collected[k] = mine[k]
    BY <2>3 DEF Putting
  <2> QED
    BY <2>1, <2>2, <2>4 DEF Labels
<1> QED
  BY <1>1, <1>2

LEMMA CountInit == MetricsInit => CountInv
<1> SUFFICES ASSUME MetricsInit PROVE CountInv
  OBVIOUS
<1>1. DOMAIN hits = {} /\ DOMAIN sample = {} /\ DOMAIN gauge = {} /\ total.cycles = 0 /\ total.errors = 0
  BY DEF MetricsInit, NoLabels, Zero
<1>2. minute = 1 /\ now = 1 /\ seen = {} /\ unset = {} /\ phase = "idle"
  BY DEF MetricsInit
<1> QED
  BY <1>1, <1>2, BoundsAssumption, FS_EmptySet DEF CountInv

\* The rules and the clock.
LEMMA HitsInv == CountInv /\ Outside => CountInv'
<1> SUFFICES ASSUME CountInv, Outside PROVE CountInv'
  OBVIOUS
<1>1. ASSUME NEW r \in Owned \cup Others, Packet(r) PROVE CountInv'
  BY <1>1, BoundsAssumption DEF Packet, CountInv, totals, surface
<1>2. ASSUME NEW r \in Owned \cup Others, PutRule(r) PROVE CountInv'
  <2>1. /\ DOMAIN hits' = DOMAIN hits \cup {r} /\ hits'[r] = 0
        /\ \A k \in DOMAIN hits : k # r => hits'[k] = hits[k]
    BY <1>2 DEF PutRule, Putting
  <2>2. IsFiniteSet(DOMAIN hits')
    BY <2>1, FS_AddElement DEF CountInv
  <2>3. \A k \in DOMAIN hits' : hits'[k] \in 0 .. MaxHits
    BY <2>1, BoundsAssumption DEF CountInv
  <2> QED
    BY <1>2, <2>1, <2>2, <2>3 DEF PutRule, CountInv, totals, surface
<1>3. ASSUME NEW r \in Owned \cup Others, DeleteRule(r) PROVE CountInv'
  <2>1. DOMAIN hits' = DOMAIN hits \ {r} /\ \A k \in DOMAIN hits' : hits'[k] = hits[k]
    BY <1>3 DEF DeleteRule, Dropping, Restrict
  <2>2. IsFiniteSet(DOMAIN hits')
    BY <2>1, FS_RemoveElement DEF CountInv
  <2> QED
    BY <1>3, <2>1, <2>2 DEF DeleteRule, CountInv, totals, surface
<1>4. CASE MinutePasses
  <2>1. minute \in Nat /\ minute' = minute + 1 /\ minute' \in 1 .. MaxMinute /\ now' \in 1 .. minute'
    BY <1>4, BoundsAssumption DEF MinutePasses, CountInv
  <2>2. \A k \in DOMAIN gauge : activity[k] \in 1 .. minute'
    BY <2>1 DEF CountInv
  <2>3. UNCHANGED <<hits, total, sample, seen, gauge, activity, unset, phase>>
    BY <1>4 DEF MinutePasses, totals, surface
  <2> QED
    BY <2>1, <2>2, <2>3 DEF CountInv
<1>5. CASE UNCHANGED metricsVars
  BY <1>5 DEF metricsVars, CountInv, totals, surface
<1> QED
  BY <1>1, <1>2, <1>3, <1>4, <1>5 DEF Outside

\* The pass.
LEMMA CountNext == MetricsInv /\ CountInv /\ [MetricsNext]_metricsVars => CountInv'
<1> SUFFICES ASSUME MetricsInv, CountInv, [MetricsNext]_metricsVars PROVE CountInv'
  OBVIOUS
<1>1. CASE UpdateCycle
  <2>1. PICK errors \in 0 .. 1 :
          total' = [cycles |-> total.cycles + 1, errors |-> total.errors + errors]
    BY <1>1 DEF UpdateCycle
  <2>2. total'.cycles \in 0 .. MaxCycles /\ total'.errors <= total'.cycles
    BY <1>1, <2>1, BoundsAssumption DEF UpdateCycle, CountInv, MetricsInv, TotalsInv, Totals
  <2> QED
    BY <1>1, <2>2 DEF UpdateCycle, CountInv, surface
<1>2. CASE Collect
  BY <1>2, CollectedTypes DEF Collect, CountInv, NoLabels, totals, surface
<1>3. CASE PushTotals
  BY <1>3 DEF PushTotals, CountInv, surface
<1>4. CASE RemoveLabel
  <2>1. PICK l \in Outdated : gauge' = Dropping(gauge, l) /\ activity' = Dropping(activity, l)
    BY <1>4 DEF RemoveLabel
  <2>2. /\ DOMAIN gauge' = DOMAIN gauge \ {l} /\ DOMAIN activity = DOMAIN gauge
        /\ \A k \in DOMAIN gauge \ {l} : gauge'[k] = gauge[k] /\ activity'[k] = activity[k]
    BY <2>1 DEF Dropping, Restrict, MetricsInv, SurfaceInv
  <2> QED
    BY <1>4, <2>2 DEF RemoveLabel, CountInv, totals
<1>5. CASE EndRemove
  BY <1>5 DEF EndRemove, CountInv, totals, surface
<1>6. CASE SetLabel
  <2>1. PICK l \in unset :
          /\ gauge' = Putting(gauge, l, sample[l])
          /\ activity' = IF Moved(l) \/ l \notin DOMAIN activity THEN Putting(activity, l, now) ELSE activity
          /\ unset' = unset \ {l}
    BY <1>6 DEF SetLabel
  <2>2. l \in DOMAIN sample /\ DOMAIN activity = DOMAIN gauge
    BY <1>6 DEF SetLabel, MetricsInv, PushInv, SurfaceInv
  <2>3. /\ DOMAIN gauge' = DOMAIN gauge \cup {l} /\ gauge'[l] = sample[l]
        /\ \A k \in DOMAIN gauge : k # l => gauge'[k] = gauge[k]
    BY <2>1 DEF Putting
  <2>4. \A k \in DOMAIN gauge' : activity'[k] = now \/ (k \in DOMAIN gauge /\ activity'[k] = activity[k])
    BY <2>1, <2>2, <2>3 DEF Putting
  <2>5. UNCHANGED <<hits, minute, total, sample, seen, now, phase>>
    BY <1>6 DEF SetLabel, totals
  <2>6. \A k \in DOMAIN gauge' : gauge'[k] \in Nat /\ activity'[k] \in 1 .. minute
    BY <2>2, <2>3, <2>4 DEF CountInv
  <2> QED
    BY <2>1, <2>5, <2>6 DEF CountInv
<1>7. CASE EndPush
  BY <1>7 DEF EndPush, CountInv, totals, surface
<1>8. CASE Outside
  BY <1>8, HitsInv
<1> QED
  BY <1>1, <1>2, <1>3, <1>4, <1>5, <1>6, <1>7, <1>8 DEF MetricsNext, Outside

\* The counters, the labels and the clock are well typed (metrics.py:27-143), whatever
\* rules come and go between the passes.
THEOREM MetricsTypeCorrect == MetricsSpec => []MetricsTypeOK
<1>1. MetricsInv /\ CountInv => MetricsTypeOK
  <2> SUFFICES ASSUME MetricsInv, CountInv PROVE MetricsTypeOK
    OBVIOUS
  <2>1. \A f \in {total, last, exported} : f.cycles \in 0 .. MaxCycles /\ f.errors \in 0 .. MaxCycles
    BY BoundsAssumption DEF MetricsInv, TotalsInv, Totals, CountInv
  <2>2. /\ DOMAIN gauge \subseteq Labels /\ DOMAIN activity = DOMAIN gauge
        /\ DOMAIN prev = DOMAIN gauge
    BY DEF MetricsInv, SurfaceInv, CountInv
  <2> QED
    BY <2>1, <2>2 DEF CountInv, MetricsTypeOK
<1> QED
  BY <1>1, CountInit, CountNext, MetricsInvariant, PTL DEF MetricsSpec

-----------------------------------------------------------------------------
\* After a push /metrics shows the last sample, and the two counters are those of
\* MetricsState (metrics.py:158-186).
THEOREM PushShowsSample == MetricsSpec => []PushComplete
<1>1. MetricsInv => PushComplete
  <2> SUFFICES ASSUME MetricsInv, phase = "idle" PROVE gauge = sample /\ exported = total
    BY DEF PushComplete
  <2>1. /\ IsFun(gauge) /\ IsFun(sample)
        /\ DOMAIN gauge = DOMAIN sample /\ \A l \in DOMAIN sample : gauge[l] = sample[l]
    BY DEF MetricsInv, SurfaceInv, PushInv
  <2>2. gauge = sample
    BY <2>1 DEF IsFun
  <2> QED
    BY <2>2 DEF MetricsInv, TotalsInv
<1> QED
  BY <1>1, MetricsInvariant, PTL

\* A scrape at any moment finds every label that the new sample has and the old one
\* had (metrics.py:178).
THEOREM PushLeavesNoGap == MetricsSpec => NoGap
<1> DEFINE Kept == \A l \in DOMAIN gauge \ DOMAIN gauge' : l \notin DOMAIN sample
<1>1. [MetricsNext]_metricsVars => [Kept]_metricsVars
  <2> SUFFICES ASSUME MetricsNext PROVE Kept
    OBVIOUS
  <2>1. CASE RemoveLabel
    <3>1. PICK l \in Outdated : gauge' = Dropping(gauge, l)
      BY <2>1 DEF RemoveLabel
    <3> QED
      BY <3>1 DEF Dropping, Restrict, Outdated
  <2>2. CASE SetLabel
    <3>1. PICK l \in unset : gauge' = Putting(gauge, l, sample[l])
      BY <2>2 DEF SetLabel
    <3> QED
      BY <3>1 DEF Putting
  <2>3. CASE Outside
    BY <2>3, OutsideSteps DEF surface
  <2>4. CASE UpdateCycle \/ Collect \/ PushTotals \/ EndRemove \/ EndPush
    BY <2>4 DEF UpdateCycle, Collect, PushTotals, EndRemove, EndPush, surface
  <2> QED
    BY <2>1, <2>2, <2>3, <2>4 DEF MetricsNext, Outside
<1> QED
  BY <1>1, PTL DEF MetricsSpec, NoGap

\* The activity time of a label that stays moves exactly when its counter does
\* (metrics.py:203-215).
THEOREM ActivityCorrect == MetricsSpec => ActivityMeansChange
<1> DEFINE Told ==
      \A l \in DOMAIN gauge \cap DOMAIN gauge' :
        activity'[l] = IF gauge'[l] # gauge[l] THEN now ELSE activity[l]
<1>1. MetricsInv /\ [MetricsNext]_metricsVars => [Told]_metricsVars
  <2> SUFFICES ASSUME MetricsInv, MetricsNext PROVE Told
    OBVIOUS
  <2>1. CASE RemoveLabel
    <3>1. PICK l \in Outdated : gauge' = Dropping(gauge, l) /\ activity' = Dropping(activity, l)
      BY <2>1 DEF RemoveLabel
    <3> QED
      BY <3>1 DEF Dropping, Restrict, MetricsInv, SurfaceInv
  <2>2. CASE SetLabel
    <3>1. PICK l \in unset :
            /\ gauge' = Putting(gauge, l, sample[l])
            /\ activity' = IF Moved(l) \/ l \notin DOMAIN activity
                           THEN Putting(activity, l, now) ELSE activity
      BY <2>2 DEF SetLabel
    <3>2. gauge = prev /\ DOMAIN activity = DOMAIN gauge
      BY DEF MetricsInv, SurfaceInv
    <3>3. ASSUME NEW k \in DOMAIN gauge, k # l PROVE gauge'[k] = gauge[k] /\ activity'[k] = activity[k]
      BY <3>1, <3>2, <3>3 DEF Putting
    <3>4. ASSUME l \in DOMAIN gauge
          PROVE activity'[l] = IF gauge'[l] # gauge[l] THEN now ELSE activity[l]
      <4>1. Moved(l) <=> gauge[l] # sample[l]
        BY <3>2, <3>4 DEF Moved
      <4>2. gauge'[l] = sample[l]
        BY <3>1 DEF Putting
      <4> QED
        BY <3>1, <3>2, <3>4, <4>1, <4>2 DEF Putting
    <3> QED
      BY <3>3, <3>4
  <2>3. CASE Outside
    BY <2>3, OutsideSteps DEF surface
  <2>4. CASE UpdateCycle \/ Collect \/ PushTotals \/ EndRemove \/ EndPush
    BY <2>4 DEF UpdateCycle, Collect, PushTotals, EndRemove, EndPush, surface
  <2> QED
    BY <2>1, <2>2, <2>3, <2>4 DEF MetricsNext, Outside
<1> QED
  BY <1>1, MetricsInvariant, PTL DEF MetricsSpec, ActivityMeansChange

-----------------------------------------------------------------------------
(***************************************************************************)
(* --test.                                                                 *)
(***************************************************************************)

USE SizesAssumption

ShapeInv ==
  /\ DOMAIN drops \subseteq Places
  /\ target \in 0 .. TestTargets
  /\ doing \in {"targets", "files", "read", "check", "exited"}
  /\ doing = "exited" => target = TestTargets

\* In the target under test nothing bad has been found before the drop-in whose
\* rules are being checked; fileOk tells of that one, testOk of all the others.
BadInv ==
  /\ \A n \in bad : n[1] \in 0 .. target
  /\ doing \in {"files", "read"} => \A n \in bad : n[1] < target
  /\ doing = "check" =>
       /\ \A n \in bad : n[1] < target \/ n = Name
       /\ fileOk <=> Name \notin bad
       /\ testOk <=> \A n \in bad : n = Name
  /\ doing # "check" => (testOk <=> bad = {})

\* A drop-in that is still there has been looked at, or its turn will come, unless
\* a failure has cut its target short.
CoverInv ==
  \A n \in DOMAIN drops :
    /\ n[1] < target => (testOk => n \in tested)
    /\ n[1] = target =>
         /\ doing \in {"targets", "exited"} => (testOk => n \in tested)
         /\ doing = "files" => n \in tested \/ n[2] \in current
         /\ doing \in {"read", "check"} => n \in tested \/ n[2] \in current \/ n = Name

TestInv == ShapeInv /\ BadInv /\ CoverInv

LEMMA PlaceShape ==
  ASSUME NEW n \in Places
  PROVE  n = <<n[1], n[2]>> /\ n[1] \in 1 .. TestTargets /\ n[2] \in 1 .. TestFiles
  BY DEF Places

LEMMA TestInitInv == TestInit => TestInv
<1> SUFFICES ASSUME TestInit PROVE TestInv
  OBVIOUS
<1>1. DOMAIN drops \subseteq Places
  BY DEF TestInit
<1>2. ShapeInv
  BY <1>1 DEF TestInit, ShapeInv
<1>3. BadInv
  BY DEF TestInit, BadInv
<1>4. \A n \in DOMAIN drops : n[1] > 0
  BY <1>1, PlaceShape
<1>5. CoverInv
  BY <1>1, <1>4, PlaceShape DEF TestInit, CoverInv
<1> QED
  BY <1>2, <1>3, <1>5 DEF TestInv

LEMMA NextTargetInv == TestInv /\ NextTarget => TestInv'
<1> SUFFICES ASSUME TestInv, NextTarget PROVE TestInv'
  OBVIOUS
<1> USE DEF TestInv, ShapeInv, NextTarget
<1>1. ShapeInv'
  OBVIOUS
<1>2. BadInv'
  BY DEF BadInv
<1>3. CoverInv'
  BY PlaceShape DEF CoverInv
<1> QED
  BY <1>1, <1>2, <1>3

LEMMA NextFileInv == TestInv /\ NextFile => TestInv'
<1> SUFFICES ASSUME TestInv, NextFile PROVE TestInv'
  OBVIOUS
<1>1. PICK f \in current :
        /\ file' = f /\ current' = current \ {f}
        /\ doing' = IF <<target, f>> \in DOMAIN drops THEN "read" ELSE "files"
  BY DEF NextFile
<1>2. doing = "files" /\ UNCHANGED <<drops, target, rules, fileOk, testOk, bad, tested>>
  BY DEF NextFile
<1>3. ShapeInv' /\ BadInv'
  BY <1>1, <1>2 DEF TestInv, ShapeInv, BadInv
<1>4. CoverInv'
  BY <1>1, <1>2, PlaceShape DEF TestInv, ShapeInv, CoverInv, Name
<1> QED
  BY <1>3, <1>4 DEF TestInv

LEMMA EndTargetInv == TestInv /\ EndTarget => TestInv'
  BY PlaceShape DEF TestInv, ShapeInv, BadInv, CoverInv, EndTarget

LEMMA ReadFailsInv == TestInv /\ ReadFails => TestInv'
<1> SUFFICES ASSUME TestInv, ReadFails PROVE TestInv'
  OBVIOUS
<1>1. /\ doing = "read" /\ doing' = "targets" /\ ~testOk'
      /\ bad' = bad \cup {Name} /\ tested' = tested \cup {Name}
      /\ drops' = drops /\ target' = target
  BY DEF ReadFails, Fails
<1>2. Name[1] = target
  BY DEF Name
<1>3. ShapeInv' /\ BadInv'
  BY <1>1, <1>2 DEF TestInv, ShapeInv, BadInv
<1>4. CoverInv'
  BY <1>1 DEF CoverInv
<1> QED
  BY <1>3, <1>4 DEF TestInv

LEMMA ReadFileInv == TestInv /\ ReadFile => TestInv'
<1> SUFFICES ASSUME TestInv, ReadFile PROVE TestInv'
  OBVIOUS
<1>1. /\ doing = "read" /\ doing' = "check" /\ fileOk'
      /\ UNCHANGED <<drops, target, current, file, testOk, bad, tested>>
  BY DEF ReadFile
<1>2. Name' = Name /\ Name[1] = target
  BY <1>1 DEF Name
<1>3. Name \notin bad
  BY <1>1, <1>2 DEF TestInv, ShapeInv, BadInv
<1>4. ShapeInv' /\ BadInv'
  BY <1>1, <1>2, <1>3 DEF TestInv, ShapeInv, BadInv
<1>5. CoverInv'
  BY <1>1, <1>2 DEF TestInv, CoverInv
<1> QED
  BY <1>4, <1>5 DEF TestInv

LEMMA CheckOneInv == TestInv /\ CheckOne => TestInv'
<1> SUFFICES ASSUME TestInv, CheckOne PROVE TestInv'
  OBVIOUS
<1>1. PICK result \in Outcomes(Head(rules)) :
        /\ fileOk' = (fileOk /\ result \in Accepted)
        /\ bad' = IF result \in Accepted THEN bad ELSE bad \cup {Name}
  BY DEF CheckOne, OkAfter
<1>2. doing = "check" /\ UNCHANGED <<drops, target, current, file, testOk, doing, tested>>
  BY DEF CheckOne
<1>3. Name' = Name /\ Name[1] = target
  BY <1>2 DEF Name
<1>4. ShapeInv' /\ BadInv'
  <2>1. CASE result \in Accepted
    <3>1. bad' = bad /\ (fileOk' <=> fileOk)
      BY <1>1, <2>1
    <3> QED
      BY <1>2, <1>3, <3>1 DEF TestInv, ShapeInv, BadInv
  <2>2. CASE result \notin Accepted
    <3>1. bad' = bad \cup {Name} /\ ~fileOk'
      BY <1>1, <2>2
    <3> QED
      BY <1>2, <1>3, <3>1 DEF TestInv, ShapeInv, BadInv
  <2> QED
    BY <2>1, <2>2
<1>5. CoverInv'
  BY <1>2, <1>3 DEF TestInv, CoverInv
<1> QED
  BY <1>4, <1>5 DEF TestInv

LEMMA EndFileInv == TestInv /\ EndFile => TestInv'
<1> SUFFICES ASSUME TestInv, EndFile PROVE TestInv'
  OBVIOUS
<1>1. /\ doing = "check" /\ tested' = tested \cup {Name}
      /\ UNCHANGED <<drops, target, current, file, bad>>
  BY DEF EndFile
<1>2. Name' = Name /\ Name[1] = target
  BY <1>1 DEF Name
<1>3. CASE fileOk /\ doing' = "files" /\ UNCHANGED testOk
  <2>1. ShapeInv' /\ BadInv'
    BY <1>1, <1>2, <1>3 DEF TestInv, ShapeInv, BadInv
  <2>2. CoverInv'
    BY <1>1, <1>2, <1>3 DEF TestInv, CoverInv
  <2> QED
    BY <2>1, <2>2 DEF TestInv
<1>4. CASE ~fileOk /\ Fails
  <2>1. ~testOk' /\ doing' = "targets"
    BY <1>4 DEF Fails
  <2>2. ShapeInv' /\ BadInv'
    BY <1>1, <1>2, <1>4, <2>1 DEF TestInv, ShapeInv, BadInv
  <2>3. CoverInv'
    BY <1>1, <2>1 DEF CoverInv
  <2> QED
    BY <2>2, <2>3 DEF TestInv
<1> QED
  BY <1>3, <1>4 DEF EndFile

LEMMA ExitInv == TestInv /\ ExitTest => TestInv'
  BY DEF TestInv, ShapeInv, BadInv, CoverInv, ExitTest

LEMMA RemoveDropInInv == TestInv /\ RemoveDropIn => TestInv'
<1> SUFFICES ASSUME TestInv, RemoveDropIn PROVE TestInv'
  OBVIOUS
<1>1. /\ DOMAIN drops' \subseteq DOMAIN drops
      /\ UNCHANGED <<target, current, file, rules, fileOk, testOk, doing, bad, tested>>
  BY DEF RemoveDropIn
<1>2. Name' = Name
  BY <1>1 DEF Name
<1>3. ShapeInv' /\ BadInv'
  BY <1>1, <1>2 DEF TestInv, ShapeInv, BadInv
<1>4. CoverInv'
  BY <1>1, <1>2 DEF TestInv, CoverInv
<1> QED
  BY <1>3, <1>4 DEF TestInv

LEMMA TestStutters == TestInv /\ UNCHANGED testVars => TestInv'
  BY DEF TestInv, ShapeInv, BadInv, CoverInv, Name, testVars

-----------------------------------------------------------------------------
\* The types.

\* A drop-in is tested only once something has been listed, and what it has that is
\* not in order is known to be tested once the drop-in is done with.
StateInv ==
  /\ \A n \in DOMAIN drops : drops[n] \in Contents \cup {Broken}
  /\ current \subseteq 1 .. TestFiles /\ file \in 0 .. TestFiles
  /\ doing \in {"read", "check"} => Name \in Places
  /\ doing \notin {"targets", "exited"} => target > 0
  /\ rules \in Seq(RuleSorts) /\ fileOk \in BOOLEAN /\ testOk \in BOOLEAN
  /\ tested \subseteq Places
  /\ bad \subseteq tested \cup (IF doing = "check" THEN {Name} ELSE {})

LEMMA StateInit == TestInit => StateInv
<1> SUFFICES ASSUME TestInit PROVE StateInv
  OBVIOUS
<1>1. fileOk \in BOOLEAN /\ testOk \in BOOLEAN
  BY DEF TestInit
<1>2. rules \in Seq(RuleSorts) /\ 0 \in 0 .. TestFiles
  BY DEF TestInit
<1>3. \A n \in DOMAIN drops : drops[n] \in Contents \cup {Broken}
  BY DEF TestInit
<1> HIDE <1>1
<1>4. StateInv
  BY <1>1, <1>2, <1>3 DEF TestInit, StateInv
<1> QED
  BY <1>4

LEMMA StateNext == TestInv /\ StateInv /\ [TestNext]_testVars => StateInv'
<1> SUFFICES ASSUME TestInv, StateInv, [TestNext]_testVars PROVE StateInv'
  OBVIOUS
<1> USE DEF TestInv, ShapeInv, StateInv
<1>1. CASE NextTarget
  BY <1>1 DEF NextTarget, Name
<1>2. CASE NextFile
  <2>1. PICK f \in current :
          /\ file' = f /\ current' = current \ {f}
          /\ doing' = IF <<target, f>> \in DOMAIN drops THEN "read" ELSE "files"
    BY <1>2 DEF NextFile
  <2> QED
    BY <1>2, <2>1 DEF NextFile, Name
<1>3. CASE EndTarget
  BY <1>3 DEF EndTarget, Name
<1>4. CASE ReadFails
  <2>1. testOk' \in BOOLEAN
    BY <1>4 DEF ReadFails, Fails
  <2> QED
    BY <1>4, <2>1 DEF ReadFails, Fails, Name
<1>5. CASE ReadFile
  <2>1. fileOk' \in BOOLEAN
    BY <1>5 DEF ReadFile
  <2>2. rules' \in Seq(RuleSorts)
    BY <1>5, ContentsAssumption DEF ReadFile
  <2> QED
    BY <1>5, <2>1, <2>2 DEF ReadFile, Name
<1>6. CASE CheckOne
  <2>1. PICK result \in Outcomes(Head(rules)) :
          /\ fileOk' = OkAfter(result)
          /\ bad' = IF result \in Accepted THEN bad ELSE bad \cup {Name}
    BY <1>6 DEF CheckOne
  <2>2. fileOk' \in BOOLEAN
    BY <2>1 DEF OkAfter
  <2>3. rules' \in Seq(RuleSorts)
    BY <1>6 DEF CheckOne
  <2> QED
    BY <1>6, <2>1, <2>2, <2>3 DEF CheckOne, Name
<1>7. CASE EndFile
  <2>1. testOk' \in BOOLEAN
    BY <1>7 DEF EndFile, Fails
  <2>2. doing' \in {"files", "targets"} /\ (doing' = "files" => target > 0)
    BY <1>7 DEF EndFile, Fails
  <2> QED
    BY <1>7, <2>1, <2>2 DEF EndFile, Name
<1>8. CASE ExitTest
  BY <1>8 DEF ExitTest, Name
<1>9. CASE RemoveDropIn
  <2>1. PICK n \in DOMAIN drops : drops' = [m \in DOMAIN drops \ {n} |-> drops[m]]
    BY <1>9 DEF RemoveDropIn
  <2>2. \A m \in DOMAIN drops' : drops'[m] \in Contents \cup {Broken}
    BY <2>1
  <2> QED
    BY <1>9, <2>2 DEF RemoveDropIn, Name
<1>10. CASE UNCHANGED testVars
  BY <1>10 DEF testVars, Name
<1> QED
  BY <1>1, <1>2, <1>3, <1>4, <1>5, <1>6, <1>7, <1>8, <1>9, <1>10 DEF TestNext

LEMMA TestInvariant == TestSpec => [](TestInv /\ StateInv)
<1>1. TestInv /\ [TestNext]_testVars => TestInv'
  BY NextTargetInv, NextFileInv, EndTargetInv, ReadFailsInv, ReadFileInv, CheckOneInv,
     EndFileInv, ExitInv, RemoveDropInInv, TestStutters DEF TestNext
<1> QED
  BY <1>1, TestInitInv, StateInit, StateNext, PTL DEF TestSpec

-----------------------------------------------------------------------------
\* The state of --test is well typed (main.py:208, targets.py:129, apply.py:294), and it
\* records as tested only drop-ins that its targets have.
THEOREM TestTypeCorrect == TestSpec => []TestTypeOK
<1>1. TestInv /\ StateInv => TestTypeOK
  BY DEF TestInv, ShapeInv, StateInv, TestTypeOK
<1> QED
  BY <1>1, TestInvariant, PTL

\* With status 0 every drop-in that is still there has been looked at and nothing is
\* out of order, with status 2 something is (main.py:208-225).
THEOREM StatusCorrect == TestSpec => []StatusTruthful
<1>1. TestInv => StatusTruthful
  <2> SUFFICES ASSUME TestInv, doing = "exited"
               PROVE (testOk <=> bad = {}) /\ (testOk => DOMAIN drops \subseteq tested)
    BY DEF StatusTruthful
  <2>1. testOk <=> bad = {}
    BY DEF TestInv, BadInv
  <2>2. ASSUME testOk, NEW n \in DOMAIN drops PROVE n \in tested
    BY <2>2, PlaceShape DEF TestInv, ShapeInv, CoverInv
  <2> QED
    BY <2>1, <2>2
<1> QED
  BY <1>1, TestInvariant, PTL

HIDE SizesAssumption

-----------------------------------------------------------------------------
(***************************************************************************)
(* The parts together.                                                     *)
(***************************************************************************)

\* Each behavior of the parts side by side is a behavior of every part.
LEMMA PartsCompose ==
  Spec => LockSpec /\ HostLogSpec /\ MetricsSpec /\ TestSpec /\ WatchSpec /\ DropInSpec
<1>1. Init => LockInit /\ HostLogInit /\ MetricsInit /\ TestInit /\ WatchInit /\ DropInInit
  BY DEF Init
<1>2. [Next]_vars => [LockNext]_lockVars
  BY DEF Next, vars
<1>3. [Next]_vars => [HostLogNext]_hostLogVars
  BY DEF Next, vars
<1>4. [Next]_vars => [MetricsNext]_metricsVars
  BY DEF Next, vars
<1>5. [Next]_vars => [TestNext]_testVars
  BY DEF Next, vars
<1>6. [Next]_vars => [WatchNext]_watchVars
  BY DEF Next, vars
<1>7. [Next]_vars => [DropInNext]_dropInVars
  BY DEF Next, vars
<1> QED
  BY <1>1, <1>2, <1>3, <1>4, <1>5, <1>6, <1>7, PTL
     DEF Spec, LockSpec, HostLogSpec, MetricsSpec, TestSpec, WatchSpec, DropInSpec

\* The state of every part is well typed (locking.py:12, host_resolve.py:131,
\* metrics.py:27, main.py:208, config_watch.py:123, dropin.py:36).
THEOREM PartsTypeCorrect == Spec => []TypeOK
  BY PartsCompose, LockTypeCorrect, HostLogTypeCorrect, MetricsTypeCorrect, TestTypeCorrect,
     WatchTypeCorrect, DropInTypeCorrect, PTL DEF TypeOK

\* And the safety properties that the runs check of the whole hold there: of the lock
\* file, the alerts, the metrics, the status of --test, the watches and the tags.
THEOREM PartsSafe ==
  Spec => /\ []( /\ PidFileTruthful /\ ResyncSpares /\ AlertsOnChange /\ PushComplete
                 /\ StatusTruthful /\ RestWatched /\ RestSynced
                 /\ TagsDistinct /\ TagsDocumented /\ NotesUsedOnce /\ DnsPassSeesHosts )
          /\ RemindedHourly /\ NoGap /\ ActivityMeansChange
  BY PartsCompose, FileTruthful, ResyncSafe, AlertsCorrect, PushShowsSample, StatusCorrect,
     WatchedAtRest, SyncedAtRest, RemindersCorrect, PushLeavesNoGap, ActivityCorrect,
     Distinct, Documented, NotesOnce, HostsSeen, PTL

=============================================================================
