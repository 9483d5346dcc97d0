------------------------------ MODULE Locking -------------------------------
(***************************************************************************)
(* One daemon at a time, and --resync: acquire_single_instance_lock        *)
(* (locking.py) and main (main.py).  Daemons start, end by themselves or   *)
(* are killed at any point; SIGTERM is such a kill, for main handles only  *)
(* SIGHUP.  The kernel frees the flock of whoever dies, but the PID stays  *)
(* in the lock file, and the kernel gives PIDs out again.                  *)
(***************************************************************************)
EXTENDS Naturals

CONSTANTS
  Pids,       \* PIDs, each free or in use
  NoPid,
  MaxDeaths   \* bound: kills by a signal

ASSUME PidsAssumption == NoPid \notin Pids
ASSUME DeathsAssumption == MaxDeaths \in Nat

VARIABLES
  at,       \* at[p]: how far the process with PID p has come
  handles,  \* PIDs whose process has installed _on_sighup
  flock,    \* who holds the flock of the lock file
  pidfile,  \* the content of the lock file
  signals,  \* forced["now"] of each daemon
  asked,    \* the PID that a running --resync has read
  deaths,   \* kills so far
  left,     \* history: the PID that a killed daemon has left in the file
  sure      \* history: the process that --resync has read of runs since then

lockFile == <<flock, pidfile, left>>
resync == <<asked, sure>>
lockVars == <<at, handles, lockFile, signals, resync, deaths>>

\* "boot" until the handler is installed, "ready" to lock, "locked", "blank" once
\* the file is truncated, "named" once it holds the PID, in the "loop", "closing"
\* once the file is truncated again, "leaving" once it is unlocked.
Stages == {"boot", "ready", "locked", "blank", "named", "loop", "closing", "leaving"}
Running(p) == at[p] \in Stages

LockInit ==
  /\ at = [p \in Pids |-> "none"]
  /\ handles = {} /\ signals = {}
  /\ flock = NoPid /\ pidfile = NoPid
  /\ asked = NoPid /\ sure = FALSE
  /\ deaths = 0 /\ left = NoPid

-----------------------------------------------------------------------------
\* One daemon.

\* The stage whose end is the call of signal.signal.
HandlerStage_InLock == "named"
HandlerStage == "boot"

Goes(p, from, to) ==
  /\ at[p] = from
  /\ at' = [at EXCEPT ![p] = to]
  /\ handles' = IF from = HandlerStage THEN handles \cup {p} ELSE handles

\* The process with PID p is no more.
Ends(p) ==
  /\ at' = [at EXCEPT ![p] = "none"]
  /\ handles' = handles \ {p} /\ signals' = signals \ {p}
  /\ flock' = IF flock = p THEN NoPid ELSE flock
  /\ sure' = (sure /\ asked # p)

StartDaemon(p) ==
  /\ at[p] = "none"
  /\ at' = [at EXCEPT ![p] = "boot"]
  /\ UNCHANGED <<handles, lockFile, signals, resync, deaths>>

Prepare(p) == Goes(p, "boot", "ready") /\ UNCHANGED <<lockFile, signals, resync, deaths>>

MayLock_ByContent == flock = NoPid /\ pidfile = NoPid
MayLock == flock = NoPid

\* LOCK_NB: a second daemon raises RuntimeError.
Lock(p) ==
  /\ MayLock
  /\ Goes(p, "ready", "locked")
  /\ flock' = p
  /\ UNCHANGED <<pidfile, left, signals, resync, deaths>>
Refused(p) ==
  /\ at[p] = "ready" /\ ~MayLock
  /\ Ends(p)
  /\ UNCHANGED <<pidfile, left, asked, deaths>>

Truncate(p) ==
  /\ Goes(p, "locked", "blank")
  /\ pidfile' = NoPid /\ left' = NoPid
  /\ UNCHANGED <<flock, signals, resync, deaths>>
WritePid(p) ==
  /\ Goes(p, "blank", "named")
  /\ pidfile' = p
  /\ UNCHANGED <<flock, left, signals, resync, deaths>>
Enter(p) == Goes(p, "named", "loop") /\ UNCHANGED <<lockFile, signals, resync, deaths>>

\* The loop sees the flag (its full sync is a part of Daemon).
SeeSignal(p) ==
  /\ at[p] = "loop" /\ p \in signals
  /\ signals' = signals \ {p}
  /\ UNCHANGED <<at, handles, lockFile, resync, deaths>>

\* An exception or SIGINT ends the loop: the finally clause.
Leave(p) ==
  /\ Goes(p, "loop", "closing")
  /\ pidfile' = NoPid /\ left' = NoPid
  /\ UNCHANGED <<flock, signals, resync, deaths>>
Unlock(p) ==
  /\ Goes(p, "closing", "leaving")
  /\ flock' = NoPid
  /\ UNCHANGED <<pidfile, left, signals, resync, deaths>>
Exit_TruncatesLate(p) ==
  /\ at[p] = "leaving"
  /\ Ends(p)
  /\ pidfile' = NoPid /\ left' = NoPid
  /\ UNCHANGED <<asked, deaths>>
Exit(p) == at[p] = "leaving" /\ Ends(p) /\ UNCHANGED <<pidfile, left, asked, deaths>>

-----------------------------------------------------------------------------
\* Signals.

\* A killed daemon leaves its PID behind.
Kill(p) ==
  /\ Running(p)
  /\ deaths < MaxDeaths /\ deaths' = deaths + 1
  /\ Ends(p)
  /\ left' = IF pidfile = p THEN p ELSE left
  /\ UNCHANGED <<pidfile, asked>>

\* What SIGHUP does to the process with PID p: the flag is set, or, with no
\* handler yet, the process ends.  Another program handles it as it likes.
Hup(p) ==
  \/ /\ p \in handles /\ signals' = signals \cup {p}
     /\ UNCHANGED <<at, handles, flock, left, deaths>>
  \/ /\ Running(p) /\ p \notin handles
     /\ deaths < MaxDeaths /\ deaths' = deaths + 1
     /\ at' = [at EXCEPT ![p] = "none"]
     /\ flock' = IF flock = p THEN NoPid ELSE flock
     /\ left' = IF pidfile = p THEN p ELSE left
     /\ UNCHANGED <<handles, signals>>
  \/ ~Running(p) /\ UNCHANGED <<at, handles, flock, left, signals, deaths>>

\* systemctl reload: ExecReload of the unit.
Reload(p) ==
  /\ Running(p)
  /\ Hup(p)
  /\ asked' = asked /\ sure' = (sure /\ (asked # p \/ p \in handles))
  /\ UNCHANGED pidfile

\* --resync reads the PID; a file that is empty or missing ends it with status 2.
ReadPid ==
  /\ asked = NoPid /\ pidfile # NoPid
  /\ asked' = pidfile /\ sure' = (pidfile # left)
  /\ UNCHANGED <<at, handles, lockFile, signals, deaths>>

\* os.kill, in the time of which the process may have become another.
SendHup ==
  /\ asked # NoPid /\ asked' = NoPid /\ sure' = FALSE
  /\ Hup(asked)
  /\ UNCHANGED pidfile

\* Another program gets a free PID.  Bound: one of them at a time.
OtherStarts(p) ==
  /\ at[p] = "none" /\ \A q \in Pids : at[q] # "other"
  /\ at' = [at EXCEPT ![p] = "other"]
  /\ UNCHANGED <<handles, lockFile, signals, resync, deaths>>
OtherEnds(p) == at[p] = "other" /\ Ends(p) /\ UNCHANGED <<pidfile, left, asked, deaths>>

-----------------------------------------------------------------------------
Advance(p) ==
  \/ Prepare(p) \/ Lock(p) \/ Refused(p) \/ Truncate(p) \/ WritePid(p) \/ Enter(p)
  \/ SeeSignal(p) \/ Unlock(p) \/ Exit(p)

LockNext ==
  \/ \E p \in Pids :
       \/ StartDaemon(p) \/ Advance(p) \/ Leave(p)
       \/ Kill(p) \/ Reload(p) \/ OtherStarts(p) \/ OtherEnds(p)
  \/ ReadPid \/ SendHup

LockSpec == LockInit /\ [][LockNext]_lockVars

-----------------------------------------------------------------------------
\* Properties.

\* Type invariant.
LockTypeOK ==
  /\ at \in [Pids -> Stages \cup {"none", "other"}]
  /\ handles \subseteq {p \in Pids : Running(p)}
  /\ signals \subseteq handles
  /\ flock \in Pids \cup {NoPid} /\ pidfile \in Pids \cup {NoPid}
  /\ asked \in Pids \cup {NoPid} /\ left \in Pids \cup {NoPid}
  /\ deaths \in 0 .. MaxDeaths
  /\ sure \in BOOLEAN

\* Whoever is in the loop is named in the file, so there is one at most; and who
\* is named there is in the loop or about to enter it, unless it was killed
\* (locking.py:28-42).  It depends on the order of truncation and flock at either
\* end.
PidFileTruthful ==
  /\ \A p \in Pids : at[p] = "loop" => pidfile = p
  /\ pidfile \notin {NoPid, left} => at[pidfile] \in {"named", "loop"}

\* A --resync ends no process: the one it has read of handles SIGHUP, unless that
\* was a PID left behind by a kill, or has ended meanwhile (main.py:174,274).
ResyncSpares == sure => asked \in handles

\* No kill, at whatever point, keeps the next daemon from its loop: once one has got
\* as far as the lock, some daemon will be in the loop; what is left in the lock file
\* locks nobody out (locking.py:29).
DaemonReturns ==
  \A p \in Pids : at[p] = "ready" ~> \E q \in Pids : at[q] = "loop"

=============================================================================
