------------------------------ MODULE MCParts -------------------------------
(***************************************************************************)
(* The parts that share no state, in one run: in each behavior one of them *)
(* moves and the others stay as they were, so that TLC explores the sum of *)
(* their states and not the product.                                       *)
(***************************************************************************)
EXTENDS Locking, HostLog, Metrics, TestMode, Watch, DropIn

CONSTANT MaxLines  \* of a drop-in that is parsed

VARIABLE part

vars ==
  <<part, lockVars, hostLogVars, metricsVars, testVars, watchVars, dropInVars>>

SomeContents == {<<"plain">>, <<"hosts", "plain">>}

\* All files of up to MaxLines lines.
Note(hosts, name) == [kind |-> "note", hosts |-> hosts, name |-> name]
Plain(kind) == [kind |-> kind, hosts |-> {}, name |-> NoName]
SomeLines ==
  {Note(Hosts, NoName)} \cup {Note({}, n) : n \in Names \cup {BadName}}
    \cup {Plain(kind) : kind \in LineKinds \ {"note"}}
MCInputs == UNION {[1 .. k -> SomeLines] : k \in 0 .. MaxLines}

\* A part that does not move has one initial state.
Init ==
  /\ part \in {"lock", "hosts", "metrics", "test", "watch", "dropin"}
  /\ LockInit /\ HostLogInit /\ MetricsInit /\ TestInit /\ WatchInit
  /\ part # "hosts" => present = {}
  /\ part # "test" => DOMAIN drops = {}
  /\ part # "watch" => tree = Empty /\ staged = Empty
  /\ IF part = "dropin" THEN DropInInit ELSE lines = <<>> /\ DropInInit

Next ==
  /\ UNCHANGED part
  /\ \/ /\ part = "lock" /\ LockNext
        /\ UNCHANGED <<hostLogVars, metricsVars, testVars, watchVars, dropInVars>>
     \/ /\ part = "hosts" /\ HostLogNext
        /\ UNCHANGED <<lockVars, metricsVars, testVars, watchVars, dropInVars>>
     \/ /\ part = "metrics" /\ MetricsNext
        /\ UNCHANGED <<lockVars, hostLogVars, testVars, watchVars, dropInVars>>
     \/ /\ part = "test" /\ TestNext
        /\ UNCHANGED <<lockVars, hostLogVars, metricsVars, watchVars, dropInVars>>
     \/ /\ part = "watch" /\ WatchNext
        /\ UNCHANGED <<lockVars, hostLogVars, metricsVars, testVars, dropInVars>>
     \/ /\ part = "dropin" /\ DropInNext
        /\ UNCHANGED <<lockVars, hostLogVars, metricsVars, testVars, watchVars>>

\* Processes run, the service manager starts the daemon again (Restart=always in
\* iptablesman.service), and the daemon goes on reading and syncing, whatever
\* operators do.
Spec ==
  /\ Init /\ [][Next]_vars
  /\ \A p \in Pids : WF_lockVars(part = "lock" /\ Advance(p))
  /\ WF_lockVars(part = "lock" /\ \E p \in Pids : StartDaemon(p))
  /\ WF_watchVars(part = "watch" /\ WatcherStep)

\* The type invariants of the parts.
TypeOK ==
  /\ LockTypeOK /\ HostLogTypeOK /\ MetricsTypeOK /\ TestTypeOK /\ WatchTypeOK
  /\ DropInTypeOK

=============================================================================
