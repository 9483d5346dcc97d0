------------------------------ MODULE MCApply ------------------------------
(***************************************************************************)
(* Small instances of Apply for TLC.                                       *)
(***************************************************************************)
EXTENDS ApplyRefines, TLC

CONSTANTS t1, t2, t3,    \* tags of the drop-in's basename
          f1,            \* the comment of another program's rule
          x, y, ky, z,   \* bodies; iptables -S prints y as ky
          g              \* the body of a rule whose line shlex refuses

MCTags == {t1, t2, t3}
MCForeign == {f1}
MCBodies == {x, y, ky, z, g}
MCKernel == x :> x @@ y :> ky @@ ky :> ky @@ z :> z @@ g :> g
MCRejected == {z}
MCForeignRules == {[tag |-> f1, body |-> x]}
SomeGarbled == {[tag |-> f1, body |-> b] : b \in {x, g}}
AllCommands == Commands

Static(t, b) == [tag |-> t, hosts |-> FALSE, bodies |-> {b}]
Hosts(t) == [tag |-> t, hosts |-> TRUE, bodies |-> {x, y}]

\* Two static rules; the same file after an edit that drops t2 and changes t1;
\* files that mix static rules with @host rules, one with a rule that iptables
\* refuses.
TwoStatic == <<Static(t1, x), Static(t2, y)>>
Edited == <<Static(t1, y), Static(t3, x)>>
Mixed == <<Static(t1, y), Hosts(t2), Hosts(t3)>>
Broken == <<Static(t1, z), Hosts(t2)>>

MCDropIns == {TwoStatic, Edited, Mixed, Broken}
MCMixedOnly == {Edited, Mixed}
MCShared == {Edited, <<Static(t1, z), [Hosts(t2) EXCEPT !.bodies = {x}]>>}

=============================================================================
