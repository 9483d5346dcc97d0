------------------------------ MODULE TestMode ------------------------------
(***************************************************************************)
(* --test: main (main.py), sync_target_cycle (targets.py) and sync_file    *)
(* (apply.py) with test_mode, target by target and drop-in by drop-in.     *)
(* Every rule is put to iptables -C; the first drop-in that fails ends its *)
(* target.  Operators may remove drop-ins meanwhile.                       *)
(***************************************************************************)
EXTENDS Naturals, Sequences

CONSTANTS
  TestTargets,  \* targets 1, 2, ... in their order
  TestFiles,    \* drop-ins 1, 2, ... of each, in the order of their names
  Contents,     \* sequences of rules that a drop-in may hold
  Broken        \* a name or a content that sync_file refuses

\* A rule with @host may have no address.  Otherwise -C ends with 0 (the rule is
\* there), 1 (it is not, or is not accepted) or 2 (a failure of another sort).
RuleSorts == {"plain", "hosts"}
Outcomes(rule) == {"0", "1", "2"} \cup (IF rule = "hosts" THEN {"unresolved"} ELSE {})

ASSUME SizesAssumption == TestTargets \in Nat /\ TestFiles \in Nat
ASSUME ContentsAssumption == Contents \subseteq Seq(RuleSorts) /\ Broken \notin Contents

Places == (1 .. TestTargets) \X (1 .. TestFiles)

VARIABLES
  drops,    \* the drop-ins on disk, with their contents
  target,   \* the target under test, 0 before the first
  current,  \* its drop-ins that are still to be tested
  file,     \* the drop-in under test
  rules,    \* its rules still to be put to -C
  fileOk,   \* ok of _validate_desired_rules_test_mode
  testOk,   \* test_ok of main
  doing,    \* "targets", "files", "read", "check", "exited"
  bad,      \* history: drop-ins with something that is not in order
  tested    \* history: drop-ins of which everything has been looked at

testVars == <<drops, target, current, file, rules, fileOk, testOk, doing, bad, tested>>

TestInit ==
  /\ \E names \in SUBSET Places : drops \in [names -> Contents \cup {Broken}]
  /\ target = 0 /\ current = {} /\ file = 0 /\ rules = <<>>
  /\ fileOk = TRUE /\ testOk = TRUE
  /\ doing = "targets"
  /\ bad = {} /\ tested = {}

Name == <<target, file>>

-----------------------------------------------------------------------------
\* The next target: its directory is listed.
NextTarget ==
  /\ doing = "targets" /\ target < TestTargets
  /\ target' = target + 1
  /\ current' = {f \in 1 .. TestFiles : <<target + 1, f>> \in DOMAIN drops}
  /\ doing' = "files"
  /\ UNCHANGED <<drops, file, rules, fileOk, testOk, bad, tested>>

\* The next drop-in, unless it is no file any more.
NextFile ==
  /\ doing = "files"
  /\ \E f \in current :
       /\ \A g \in current : f <= g
       /\ file' = f /\ current' = current \ {f}
       /\ doing' = IF <<target, f>> \in DOMAIN drops THEN "read" ELSE "files"
  /\ UNCHANGED <<drops, target, rules, fileOk, testOk, bad, tested>>

EndTarget ==
  /\ doing = "files" /\ current = {}
  /\ doing' = "targets"
  /\ UNCHANGED <<drops, target, current, file, rules, fileOk, testOk, bad, tested>>

\* sync_file returns False: RuntimeError, which main catches.
Fails == testOk' = FALSE /\ doing' = "targets"

ReadFails ==
  /\ doing = "read"
  /\ Name \in DOMAIN drops => drops[Name] = Broken
  /\ bad' = bad \cup {Name} /\ tested' = tested \cup {Name}
  /\ Fails
  /\ UNCHANGED <<drops, target, current, file, rules, fileOk>>

ReadFile ==
  /\ doing = "read" /\ Name \in DOMAIN drops /\ drops[Name] # Broken
  /\ rules' = drops[Name] /\ fileOk' = TRUE
  /\ doing' = "check"
  /\ UNCHANGED <<drops, target, current, file, testOk, bad, tested>>

Accepted == {"0", "1"}

\* One rule; those after it are looked at in any case.
OkAfter_LastRule(outcome) == outcome \in Accepted
OkAfter(outcome) == fileOk /\ outcome \in Accepted

CheckOne ==
  /\ doing = "check" /\ rules # <<>>
  /\ \E outcome \in Outcomes(Head(rules)) :
       /\ fileOk' = OkAfter(outcome)
       /\ bad' = IF outcome \in Accepted THEN bad ELSE bad \cup {Name}
  /\ rules' = Tail(rules)
  /\ UNCHANGED <<drops, target, current, file, testOk, doing, tested>>

EndFile ==
  /\ doing = "check" /\ rules = <<>>
  /\ tested' = tested \cup {Name}
  /\ \/ fileOk /\ doing' = "files" /\ UNCHANGED testOk
     \/ ~fileOk /\ Fails
  /\ UNCHANGED <<drops, target, current, file, rules, fileOk, bad>>

\* The end of main's loop; its status is 0 if testOk, else 2.
ExitTest ==
  /\ doing = "targets" /\ target = TestTargets
  /\ doing' = "exited"
  /\ UNCHANGED <<drops, target, current, file, rules, fileOk, testOk, bad, tested>>

\* An operator.
RemoveDropIn ==
  /\ doing # "exited"
  /\ \E n \in DOMAIN drops : drops' = [m \in DOMAIN drops \ {n} |-> drops[m]]
  /\ UNCHANGED <<target, current, file, rules, fileOk, testOk, doing, bad, tested>>

-----------------------------------------------------------------------------
TestNext ==
  \/ NextTarget \/ NextFile \/ EndTarget \/ ReadFails \/ ReadFile
  \/ CheckOne \/ EndFile \/ ExitTest \/ RemoveDropIn

TestSpec == TestInit /\ [][TestNext]_testVars

-----------------------------------------------------------------------------
\* Properties.

\* Type invariant.
TestTypeOK ==
  /\ DOMAIN drops \subseteq Places
  /\ target \in 0 .. TestTargets
  /\ current \subseteq 1 .. TestFiles /\ file \in 0 .. TestFiles
  /\ rules \in Seq(RuleSorts)
  /\ fileOk \in BOOLEAN /\ testOk \in BOOLEAN
  /\ doing \in {"targets", "files", "read", "check", "exited"}
  /\ bad \subseteq tested \cup {Name} /\ tested \subseteq Places

\* The exit status tells the truth (README.md:209): 2 exactly if something was found
\* that is not in order, and with 0 every drop-in of every target that is still
\* there has been looked at to its last rule, though a failure cuts a target short
\* and one target's failure does not stop the others.
StatusTruthful ==
  doing = "exited" =>
    /\ testOk <=> bad = {}
    /\ testOk => DOMAIN drops \subseteq tested

=============================================================================
