----------------------------- MODULE MCTargets -----------------------------
(***************************************************************************)
(* Small instances of Targets for TLC.                                     *)
(***************************************************************************)
EXTENDS Targets

CONSTANTS a, b    \* static rules

StaticOf(s) == [static |-> s, hosts |-> FALSE]
MixedOf(s) == [static |-> s, hosts |-> TRUE]

\* A file of static rules, and one with @host rules and a static rule that
\* iptables refuses.
TwoSorts == {StaticOf(a), MixedOf(Refused)}
OnlyStatic == {StaticOf(a), StaticOf(b)}

\* A file of static rules, and one of @host rules only.
StaticOrHosts == {StaticOf(a), MixedOf(None)}

=============================================================================
