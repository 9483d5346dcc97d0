------------------------------ MODULE Descent -------------------------------
(***************************************************************************)
(* The order in which the loops of a pass and of a cycle run down: pairs   *)
(* of a stage and of what remains of it, the stage first.                  *)
(***************************************************************************)
EXTENDS Naturals, WellFoundedInduction, TLAPS

Below == OpToRel(<, Nat)
Shorter == LexPairOrdering(Below, Below, Nat, Nat)

\* There is no endless descent: what goes down with every step of a pass of sync_file
\* (apply.py:147-281), or of a cycle (targets.py:91-170), comes to an end.
THEOREM ShorterWellFounded == IsWellFoundedOn(Shorter, Nat \X Nat)
BY NatLessThanWellFounded, WFLexPairOrdering DEF Shorter, Below

\* What a step has to do to the pair.
LEMMA ShorterPair ==
  ASSUME NEW a \in Nat, NEW b \in Nat, NEW c \in Nat, NEW d \in Nat,
         c < a \/ (c = a /\ d < b)
  PROVE  <<<<c, d>>, <<a, b>>>> \in Shorter
BY DEF Shorter, Below, OpToRel, LexPairOrdering

=============================================================================
