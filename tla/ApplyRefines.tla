---------------------------- MODULE ApplyRefines ----------------------------
(***************************************************************************)
(* Apply implements Reconcile, as long as listings and deletions do not    *)
(* fail and nobody edits the chain during a pass.                          *)
(***************************************************************************)
EXTENDS Apply

\* The mark of a tag whose rule is kept is no goal of a tag whose rule is not.
ASSUME KeepAssumption == NoAddress \notin {{}} \cup {{b} : b \in Bodies}

Busy == pc \notin {"idle", "resolve"}

\* The goals of a pass: tags that it does not want, among them the static rules of
\* a DNS pass, are to go.
Goal(wanted, t) ==
  LET K == {k \in DOMAIN wanted : wanted[k].tag = t /\ wanted[k].active} IN
    IF \E k \in K : ~wanted[k].ok THEN NoAddress ELSE {Kernel[wanted[k].body] : k \in K}

\* What a chain holds of each tag, and the rules of others in their order.
BodiesOf(rules, t) == {rules[n].body : n \in {m \in DOMAIN rules : rules[m].tag = t}}
Owned(rules) == [t \in Tags |-> BodiesOf(rules, t)]

Places(rules) == {n \in DOMAIN rules : rules[n].tag \in Foreign}
Rank(P, n) == Cardinality({m \in P : m <= n})
Ranked(P, k) == CHOOSE n \in P : Rank(P, n) = k
ForeignOf(rules) ==
  LET P == Places(rules) IN [k \in 1 .. Cardinality(P) |-> rules[Ranked(P, k)]]

GoalNow == [t \in Tags |-> IF Busy THEN Goal(want, t) ELSE {}]

Abstract ==
  INSTANCE Reconcile WITH
    Keep <- NoAddress,
    Others <- [tag : Foreign, body : Bodies],
    owned <- Owned(chain),
    foreign <- ForeignOf(chain),
    busy <- Busy,
    goal <- GoalNow,
    ok <- result

\* Refinement: every step of a pass is a step of Reconcile or changes nothing it
\* speaks of (apply.py:30-281).
ImplementsReconcile == Abstract!Spec

=============================================================================
