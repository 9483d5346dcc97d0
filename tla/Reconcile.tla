----------------------------- MODULE Reconcile ------------------------------
(***************************************************************************)
(* What a chain may expect of iptablesman: the specification that Apply    *)
(* implements.  A pass has a goal for each comment tag of the drop-in:     *)
(* {b} (a rule with body b), {} (no rule) or Keep (its @host does not      *)
(* resolve: leave the rule alone).  It brings one tag after the other to   *)
(* its goal, may withdraw rules to add them again, and may give up at any  *)
(* time, but reports success only when every goal is reached.  It never    *)
(* touches the rules of others nor their order.                            *)
(***************************************************************************)
EXTENDS Naturals, Sequences

CONSTANTS
  Tags,     \* comments owned by the drop-in
  Bodies,   \* rule bodies, as the kernel spells them
  Keep,     \* the goal of a rule without an address
  Others    \* rules of other programs

VARIABLES
  owned,    \* owned[t]: the bodies of the rules with tag t
  foreign,  \* the rules of other programs, in order
  busy,     \* a pass is running
  goal,     \* its goals
  ok        \* what the last pass reported

vars == <<owned, foreign, busy, goal, ok>>

Goals == [Tags -> {Keep, {}} \cup {{b} : b \in Bodies}]
NoGoal == [t \in Tags |-> {}]

Init ==
  /\ owned = [t \in Tags |-> {}]
  /\ foreign = <<>>
  /\ busy = FALSE /\ goal = NoGoal /\ ok = TRUE

Start ==
  /\ ~busy /\ busy' = TRUE
  /\ goal' \in Goals
  /\ UNCHANGED <<owned, foreign, ok>>

Withdraw(t) ==
  /\ busy /\ goal[t] # Keep
  /\ owned' = [owned EXCEPT ![t] = {}]
  /\ UNCHANGED <<foreign, busy, goal, ok>>

Put(t) ==
  /\ busy /\ goal[t] \notin {Keep, {}}
  /\ owned' = [owned EXCEPT ![t] = goal[t]]
  /\ UNCHANGED <<foreign, busy, goal, ok>>

\* The one exception of the code: a rule that the kernel refuses to replace stays
\* in its old form while a rule of the file must be kept.
Excused(t) == owned[t] # {} /\ \E k \in Tags : goal[k] = Keep /\ owned[k] # {}
Reached(t) == goal[t] = Keep \/ owned[t] = goal[t] \/ (goal[t] # {} /\ Excused(t))

Succeed ==
  /\ busy /\ busy' = FALSE
  /\ \A t \in Tags : Reached(t)
  /\ ok' = TRUE /\ goal' = NoGoal
  /\ UNCHANGED <<owned, foreign>>

\* Also a file that cannot be read, for which no pass starts, and a DNS pass that
\* finds nothing to do.
GiveUp == busy' = FALSE /\ ok' = FALSE /\ goal' = NoGoal /\ UNCHANGED <<owned, foreign>>
Idle == ~busy /\ ok' = TRUE /\ UNCHANGED <<owned, foreign, busy, goal>>

\* Other programs edit between two passes; a flush also takes the owned rules.
Surroundings ==
  /\ ~busy
  /\ foreign' \in Seq(Others)
  /\ owned' \in {owned, [t \in Tags |-> {}]}
  /\ UNCHANGED <<busy, goal, ok>>

Next ==
  \/ Start \/ Succeed \/ GiveUp \/ Idle
  \/ \E t \in Tags : Withdraw(t) \/ Put(t)
  \/ Surroundings

Spec == Init /\ [][Next]_vars

=============================================================================
