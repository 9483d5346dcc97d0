------------------------------- MODULE Apply -------------------------------
(***************************************************************************)
(* sync_file (apply.py) and delete_all_owned_comments (owned_rules.py):    *)
(* one drop-in file is applied to one iptables chain.  Every iptables      *)
(* command is a process of its own that may fail, and other programs       *)
(* (UFW, fail2ban, an operator) edit the same chain between two commands.  *)
(*                                                                         *)
(* A rule is its comment tag and its body.  `Tags` are the comments that   *)
(* comment_owned_by_basename accepts for the drop-in; every other rule of  *)
(* the chain, with or without a comment, has a tag of `Foreign`.  The pass *)
(* knows a rule only by the line that iptables -S prints of it, and does   *)
(* not read every line: see Quoted and Garbled.                            *)
(*                                                                         *)
(* Operators with an underscore in their name (X_Variant) are faulty       *)
(* variants of the definition X that follows them; nothing uses them.  A   *)
(* property is worth its run only if some variant breaks it.               *)
(***************************************************************************)
EXTENDS Naturals, Sequences, FiniteSets

CONSTANTS
  Tags,          \* comments owned by the basename of the drop-in
  Foreign,       \* comments of all other rules of the chain
  Bodies,        \* rule bodies, in the spelling of a drop-in or of iptables -S
  Kernel,        \* Kernel[b]: how iptables -S spells a rule added with body b
  Rejected,      \* bodies that iptables refuses to add
  Quoted,        \* owned comments that iptables -S prints in quotes
  Garbled,       \* bodies that iptables -S prints so that shlex refuses the line
  ForeignRules,  \* rules that other programs insert
  DropIns,       \* contents the file may have: sequences of blocks
  NoAddress,     \* the answer of DNS for a block with an unresolved @host
  NoCreateChain, \* --no-create-chain
  MayFail,       \* commands that may fail though the kernel could do them
  Concurrent,    \* other programs also edit the chain during a pass
  MaxRules,      \* no pass starts, and nothing is inserted, beyond this length
  DeleteMax      \* iterations of delete_all_owned_comments (512)

Commands == {"N", "S", "C", "R", "A", "Dnum", "Dspec"}

Rule == [tag : Tags \cup Foreign, body : Bodies]

\* A block of a drop-in: a static rule has one body, a rule with @host one
\* body for each address its hosts may resolve to.
Block == [tag : Tags, hosts : BOOLEAN, bodies : SUBSET Bodies]

DistinctTags(s) == \A i, j \in DOMAIN s : s[i].tag = s[j].tag => i = j

ASSUME TagsAssumption == Tags \cap Foreign = {}
ASSUME BodiesAssumption ==
  /\ Kernel \in [Bodies -> Bodies]
  /\ \A b \in Bodies : Kernel[Kernel[b]] = Kernel[b]
  /\ Rejected \subseteq Bodies
  /\ NoAddress \notin Bodies
ASSUME ReadingAssumption == Quoted \subseteq Tags /\ Garbled \subseteq Bodies
ASSUME ForeignAssumption == ForeignRules \subseteq [tag : Foreign, body : Bodies]
ASSUME DropInsAssumption ==
  /\ DropIns \subseteq Seq(Block)
  /\ \A d \in DropIns : DistinctTags(d)
ASSUME SwitchAssumption ==
  /\ NoCreateChain \in BOOLEAN
  /\ Concurrent \in BOOLEAN
  /\ MayFail \subseteq Commands
  /\ MaxRules \in Nat
  /\ DeleteMax \in Nat \ {0}

VARIABLES
  chain,    \* the rules of the chain, in order
  exists,   \* whether the chain exists
  pc,       \* the next command of the pass, "idle" between two passes
  mode,     \* "full", "hosts" (hosts_only) or "removed" (cleanup of the file)
  file,     \* the blocks the pass has read
  want,     \* host_ok_list, the tags and desired_tokens_list, zipped
  listing,  \* what the last iptables -S printed
  doomed,   \* orphan_nums still to delete
  idx,      \* position in the loop of the pass
  result,   \* what the last pass returned
  stale     \* history: the chain was edited by others since the last -S

vars == <<chain, exists, pc, mode, file, want, listing, doomed, idx, result, stale>>
locals == <<file, mode, want, listing, doomed, idx>>

Phases == {"idle", "resolve", "orphan_list", "orphans", "apply", "replace",
           "wipe", "wipe_delete", "append_all"}

Wanted == [tag : Tags, active : BOOLEAN, ok : BOOLEAN, body : Bodies \cup {NoAddress}]

Init ==
  /\ chain = <<>>
  /\ exists \in BOOLEAN
  /\ pc = "idle"
  /\ mode = "full"
  /\ file = <<>>
  /\ want = <<>>
  /\ listing = <<>>
  /\ doomed = {}
  /\ idx = 1
  /\ result = TRUE
  /\ stale = FALSE

-----------------------------------------------------------------------------
\* Reading a listing.

\* A quote is part of what the regular expression takes for the comment, which
\* then belongs to no basename.
ReadsOwned(r) == r.tag \in Tags \ Quoted

\* chain_snapshot_owned passes over a line that shlex refuses, and counts on.
Readable(r) == r.body \notin Garbled

OwnedTags(rules) ==
  {rules[n].tag : n \in {m \in DOMAIN rules : ReadsOwned(rules[m]) /\ Readable(rules[m])}}

\* Of several rules with one tag the first is the one the snapshot keeps.
RulePlace(rules, tag) ==
  CHOOSE n \in DOMAIN rules :
    /\ rules[n].tag = tag /\ Readable(rules[n])
    /\ \A m \in DOMAIN rules : rules[m].tag = tag /\ Readable(rules[m]) => n <= m

\* Its number for -D and -R: the lines read so far.
RuleNum(rules, tag) == Cardinality({m \in 1 .. RulePlace(rules, tag) : Readable(rules[m])})

\* The first rule that delete_all_owned_comments takes for its own.
FirstOwned(rules) ==
  CHOOSE n \in DOMAIN rules :
    /\ ReadsOwned(rules[n])
    /\ \A m \in DOMAIN rules : ReadsOwned(rules[m]) => n <= m

Without(rules, n) == SubSeq(rules, 1, n - 1) \o SubSeq(rules, n + 1, Len(rules))
With(rules, n, r) == SubSeq(rules, 1, n - 1) \o <<r>> \o SubSeq(rules, n, Len(rules))

\* A rule as the kernel keeps it once it has been added for entry w.
RuleOf(w) == [tag |-> w.tag, body |-> Kernel[w.body]]

InChain(r) == \E n \in DOMAIN chain : chain[n] = r

ConfigTags_Resolved == {want[k].tag : k \in {j \in DOMAIN want : want[j].active /\ want[j].ok}}
ConfigTags == {want[k].tag : k \in {j \in DOMAIN want : want[j].active}}

Gated(k) == want[k].active /\ ~want[k].ok

\* gated_live: some tag without an address has a rule in the second snapshot.
GatedLive == \E k \in DOMAIN want : Gated(k) /\ want[k].tag \in OwnedTags(listing)

-----------------------------------------------------------------------------
\* Outcomes of commands.

CanFail(command) == command \in MayFail

\* iptables -N, its exit code ignored.
EnsureChain ==
  \/ ~NoCreateChain /\ exists' = TRUE
  \/ (NoCreateChain \/ CanFail("N")) /\ exists' = exists

\* iptables -S: a failure prints nothing and looks like an empty chain.
List ==
  /\ \/ exists /\ listing' = chain
     \/ (~exists \/ CanFail("S")) /\ listing' = <<>>
  /\ stale' = FALSE

\* iptables -A
AddSucceeds(w) ==
  /\ exists
  /\ w.body \notin Rejected
  /\ chain' = Append(chain, RuleOf(w))
AddFails(w) ==
  /\ ~exists \/ w.body \in Rejected \/ CanFail("A")
  /\ UNCHANGED chain

\* iptables -C: some rule of the chain is the desired one.
CheckSucceeds(w) == exists /\ InChain(RuleOf(w))
CheckFails(w) == ~CheckSucceeds(w) \/ CanFail("C")

\* iptables -R by rule number
ReplaceSucceeds(n, w) ==
  /\ exists /\ n \in DOMAIN chain
  /\ w.body \notin Rejected
  /\ chain' = [chain EXCEPT ![n] = RuleOf(w)]
ReplaceFails(n, w) ==
  /\ ~exists \/ n \notin DOMAIN chain \/ w.body \in Rejected \/ CanFail("R")
  /\ UNCHANGED chain

\* iptables -D by rule number
DeleteNumSucceeds(n) ==
  /\ exists /\ n \in DOMAIN chain
  /\ chain' = Without(chain, n)
DeleteNumFails(n) ==
  /\ ~exists \/ n \notin DOMAIN chain \/ CanFail("Dnum")
  /\ UNCHANGED chain

\* iptables -D by specification deletes the first rule that equals r.
DeleteSpecSucceeds(r) ==
  /\ exists
  /\ \E n \in DOMAIN chain :
       /\ chain[n] = r
       /\ \A m \in DOMAIN chain : chain[m] = r => n <= m
       /\ chain' = Without(chain, n)
DeleteSpecFails(r) ==
  /\ ~exists \/ ~InChain(r) \/ CanFail("Dspec")
  /\ UNCHANGED chain

Return(ok) == pc' = "idle" /\ result' = ok

-----------------------------------------------------------------------------
\* The pass.

\* A bad basename, an unreadable file or a fatal line: nothing is touched.
Refuse ==
  /\ pc = "idle"
  /\ Return(FALSE)
  /\ mode' \in {"full", "hosts"}
  /\ file' = <<>> /\ want' = <<>>
  /\ UNCHANGED <<chain, exists, listing, doomed, idx, stale>>

Begin(op, d) ==
  /\ pc = "idle"
  /\ Len(chain) <= MaxRules
  /\ EnsureChain
  /\ mode' = op
  /\ file' = d
  /\ pc' = "resolve"
  /\ want' = <<>> /\ listing' = <<>> /\ doomed' = {} /\ idx' = 1
  /\ UNCHANGED <<chain, result, stale>>

\* sync_target_cycle for a file that is gone: delete_all_owned_comments.
BeginRemoved ==
  /\ pc = "idle"
  /\ Len(chain) <= MaxRules
  /\ EnsureChain
  /\ mode' = "removed"
  /\ pc' = "wipe"
  /\ file' = <<>> /\ want' = <<>> /\ listing' = <<>> /\ doomed' = {} /\ idx' = 1
  /\ UNCHANGED <<chain, result, stale>>

Answers(b) == IF b.hosts THEN b.bodies \cup {NoAddress} ELSE b.bodies

\* With hosts_only the blocks without @host are passed over (not active).
Desired(b, answer) ==
  [tag |-> b.tag, active |-> mode = "full" \/ b.hosts,
   ok |-> answer # NoAddress, body |-> answer]

Resolve ==
  /\ pc = "resolve"
  /\ \E answer \in [DOMAIN file -> Bodies \cup {NoAddress}] :
       /\ \A k \in DOMAIN file : answer[k] \in Answers(file[k])
       /\ want' = [k \in DOMAIN file |-> Desired(file[k], answer[k])]
  /\ IF mode = "hosts" /\ \A k \in DOMAIN file : ~file[k].hosts
       THEN Return(TRUE)
       ELSE pc' = "orphan_list" /\ UNCHANGED result
  /\ UNCHANGED <<chain, exists, mode, file, listing, doomed, idx, stale>>

ListOrphans ==
  /\ pc = "orphan_list"
  /\ List
  /\ doomed' = {RuleNum(listing', t) : t \in OwnedTags(listing') \ ConfigTags}
  /\ pc' = "orphans"
  /\ UNCHANGED <<chain, exists, mode, file, want, idx, result>>

\* Rule numbers in descending order; a failure is only logged.
IsNextOrphan_Ascending(n) == \A m \in doomed : n <= m
IsNextOrphan(n) == \A m \in doomed : m <= n

DeleteOrphan ==
  /\ pc = "orphans"
  /\ \E n \in doomed :
       /\ IsNextOrphan(n)
       /\ DeleteNumSucceeds(n) \/ DeleteNumFails(n)
       /\ doomed' = doomed \ {n}
  /\ UNCHANGED <<exists, pc, mode, file, want, listing, idx, result, stale>>

ListLive ==
  /\ pc = "orphans" /\ doomed = {}
  /\ List
  /\ pc' = "apply"
  /\ idx' = 1
  /\ UNCHANGED <<chain, exists, mode, file, want, doomed, result>>

Here == want[idx]
InLoop == pc = "apply" /\ idx \in DOMAIN want
IsLive == Here.tag \in OwnedTags(listing)
LiveNum == RuleNum(listing, Here.tag)
LiveBody == listing[RulePlace(listing, Here.tag)].body

\* Nothing to do: passed over, no address, or the tokens are equal.
Skipped ==
  \/ ~Here.active
  \/ ~Here.ok
  \/ IsLive /\ LiveBody = Here.body

SkipRule ==
  /\ InLoop /\ Skipped
  /\ idx' = idx + 1
  /\ UNCHANGED <<chain, exists, pc, mode, file, want, listing, doomed, result, stale>>

\* The tokens differ: -C asks the kernel before anything is replaced.
CheckRule_TokensOnly ==
  /\ InLoop /\ ~Skipped /\ IsLive
  /\ pc' = "replace"
  /\ UNCHANGED <<chain, exists, mode, file, want, listing, doomed, idx, result, stale>>

CheckRule ==
  /\ InLoop /\ ~Skipped /\ IsLive
  /\ \/ CheckSucceeds(Here) /\ idx' = idx + 1 /\ UNCHANGED pc
     \/ CheckFails(Here) /\ pc' = "replace" /\ UNCHANGED idx
  /\ UNCHANGED <<chain, exists, mode, file, want, listing, doomed, result, stale>>

\* A failed -R is passed over while a tag without an address is live;
\* otherwise everything the basename owns is deleted and appended again.
AfterFailedReplace_IgnoresGated == pc' = "wipe" /\ idx' = 1
AfterFailedReplace_NoDelete ==
  IF GatedLive THEN pc' = "apply" /\ idx' = idx + 1
               ELSE pc' = "append_all" /\ idx' = 1
AfterFailedReplace ==
  IF GatedLive THEN pc' = "apply" /\ idx' = idx + 1
               ELSE pc' = "wipe" /\ idx' = 1

ReplaceRule ==
  /\ pc = "replace"
  /\ \/ ReplaceSucceeds(LiveNum, Here) /\ pc' = "apply" /\ idx' = idx + 1
     \/ ReplaceFails(LiveNum, Here) /\ AfterFailedReplace
  /\ UNCHANGED <<exists, mode, file, want, listing, doomed, result, stale>>

AppendRule_GoesOn ==
  /\ InLoop /\ ~Skipped /\ ~IsLive
  /\ AddSucceeds(Here) \/ AddFails(Here)
  /\ idx' = idx + 1
  /\ UNCHANGED <<exists, pc, result, mode, file, want, listing, doomed, stale>>

AppendRule ==
  /\ InLoop /\ ~Skipped /\ ~IsLive
  /\ \/ AddSucceeds(Here) /\ idx' = idx + 1 /\ UNCHANGED <<pc, result>>
     \/ AddFails(Here) /\ Return(FALSE) /\ UNCHANGED idx
  /\ UNCHANGED <<exists, mode, file, want, listing, doomed, stale>>

Finish ==
  /\ pc \in {"apply", "append_all"} /\ idx \notin DOMAIN want
  /\ Return(TRUE)
  /\ UNCHANGED <<chain, exists, locals, stale>>

\* delete_all_owned_comments.  idx counts its iterations; it ends when there is
\* nothing to delete, at a line that shlex refuses, and at a -D that fails.
AfterWipe_ZeroBased ==
  IF mode = "removed" THEN Return(TRUE) /\ UNCHANGED idx
                      ELSE pc' = "append_all" /\ idx' = 0 /\ UNCHANGED result

AfterWipe ==
  IF mode = "removed" THEN Return(TRUE) /\ UNCHANGED idx
                      ELSE pc' = "append_all" /\ idx' = 1 /\ UNCHANGED result

WipeList ==
  /\ pc = "wipe"
  /\ \/ /\ idx <= DeleteMax
        /\ List
        /\ IF OwnedTags(listing') = {} \/ ~Readable(listing'[FirstOwned(listing')])
             THEN AfterWipe
             ELSE pc' = "wipe_delete" /\ UNCHANGED <<idx, result>>
     \/ idx > DeleteMax /\ AfterWipe /\ UNCHANGED <<listing, stale>>
  /\ UNCHANGED <<chain, exists, mode, file, want, doomed>>

WipeDelete_TriesAgain ==
  /\ pc = "wipe_delete"
  /\ LET r == listing[FirstOwned(listing)] IN
       \/ DeleteSpecSucceeds(r) /\ idx' = idx + 1
       \/ DeleteSpecFails(r) /\ UNCHANGED idx
  /\ pc' = "wipe"
  /\ UNCHANGED <<exists, result, mode, file, want, listing, doomed, stale>>

WipeDelete ==
  /\ pc = "wipe_delete"
  /\ LET r == listing[FirstOwned(listing)] IN
       \/ DeleteSpecSucceeds(r) /\ pc' = "wipe" /\ idx' = idx + 1 /\ UNCHANGED result
       \/ DeleteSpecFails(r) /\ AfterWipe
  /\ UNCHANGED <<exists, mode, file, want, listing, doomed, stale>>

AppendAll ==
  /\ pc = "append_all" /\ idx \in DOMAIN want
  /\ \/ (~Here.active \/ ~Here.ok) /\ idx' = idx + 1 /\ UNCHANGED <<chain, pc, result>>
     \/ /\ Here.active /\ Here.ok
        /\ \/ AddSucceeds(Here) /\ idx' = idx + 1 /\ UNCHANGED <<pc, result>>
           \/ AddFails(Here) /\ Return(FALSE) /\ UNCHANGED idx
  /\ UNCHANGED <<exists, mode, file, want, listing, doomed, stale>>

-----------------------------------------------------------------------------
\* Other programs.

MayIntrude == pc = "idle" \/ Concurrent

ForeignInsert ==
  /\ MayIntrude /\ exists /\ Len(chain) < MaxRules
  /\ \E r \in ForeignRules, n \in 1 .. Len(chain) + 1 :
       chain' = With(chain, n, r)
  /\ stale' = TRUE
  /\ UNCHANGED <<exists, pc, locals, result>>

ForeignDelete ==
  /\ MayIntrude
  /\ \E n \in DOMAIN chain : chain[n].tag \in Foreign /\ chain' = Without(chain, n)
  /\ stale' = TRUE
  /\ UNCHANGED <<exists, pc, locals, result>>

\* A firewall reload: -F, perhaps with -X.
ForeignFlush ==
  /\ MayIntrude /\ exists
  /\ chain' = <<>>
  /\ exists' \in BOOLEAN
  /\ stale' = TRUE
  /\ UNCHANGED <<pc, locals, result>>

-----------------------------------------------------------------------------
Pass ==
  \/ Refuse
  \/ \E op \in {"full", "hosts"}, d \in DropIns : Begin(op, d)
  \/ BeginRemoved
  \/ Resolve
  \/ ListOrphans
  \/ DeleteOrphan
  \/ ListLive
  \/ SkipRule
  \/ CheckRule
  \/ ReplaceRule
  \/ AppendRule
  \/ Finish
  \/ WipeList
  \/ WipeDelete
  \/ AppendAll

Intruder == ForeignInsert \/ ForeignDelete \/ ForeignFlush

Next == Pass \/ Intruder

Spec == Init /\ [][Next]_vars

\* A pass that has begun runs on: sync_file never waits for anything but the
\* command it has started.
FairSpec == Spec /\ WF_vars(Pass /\ pc # "idle")

-----------------------------------------------------------------------------
\* Properties.

\* Type invariant.
TypeOK ==
  /\ chain \in Seq(Rule)
  /\ exists \in BOOLEAN
  /\ ~exists => chain = <<>>
  /\ pc \in Phases
  /\ mode \in {"full", "hosts", "removed"}
  /\ file \in Seq(Block) /\ DistinctTags(file)
  /\ want \in Seq(Wanted) /\ DistinctTags(want)
  /\ \A k \in DOMAIN want : want[k].ok => want[k].body \in Bodies
  /\ listing \in Seq(Rule)
  /\ doomed \in SUBSET (Nat \ {0})
  /\ idx \in Nat \ {0}
  /\ pc = "replace" => idx \in DOMAIN want /\ Here.ok /\ IsLive
  /\ pc = "wipe_delete" => OwnedTags(listing) # {} /\ Readable(listing[FirstOwned(listing)])
  /\ result \in BOOLEAN
  /\ stale \in BOOLEAN

\* Every step of a pass changes one of these, no step of another program does.
PassStep == <<pc, idx, doomed>>' # <<pc, idx, doomed>>

\* What a command may do to the chain: add a rule of its own at the end, remove
\* one of its own, or put another body under the tag a rule has.
OwnedEdit ==
  \/ chain' = chain
  \/ \E r \in [tag : Tags, body : Bodies] : chain' = Append(chain, r)
  \/ \E n \in DOMAIN chain :
       /\ chain[n].tag \in Tags
       /\ \/ chain' = Without(chain, n)
          \/ \E b \in Bodies :
               chain' = [chain EXCEPT ![n] = [tag |-> chain[n].tag, body |-> b]]

\* The numbers of a listing are those of the chain if shlex could split its lines.
AllRead == \A n \in DOMAIN listing : Readable(listing[n])
NumbersExact == pc \in {"orphans", "replace"} => AllRead

\* As long as nobody else edits the chain between a listing and the commands
\* that use its rule numbers, and shlex can split the lines of that listing, a
\* pass touches no rule it does not own, whatever commands fail: the numbers of
\* -D and -R (apply.py:184, 224) still name the rules they named in the listing,
\* and -D by specification (owned_rules.py:132) only ever finds an owned rule.
OnlyOwnedRulesEdited == [][PassStep /\ ~stale /\ NumbersExact => OwnedEdit]_vars

\* A rule with @host whose name does not resolve now stays in the chain as it
\* is, under the same conditions: neither the orphan deletion nor a failed -R of
\* another rule of the file (apply.py:201-244) removes or rewrites it.
GatedRuleKept ==
  [][PassStep /\ ~stale /\ NumbersExact /\ pc # "idle" =>
       \A k \in DOMAIN want, n \in DOMAIN chain :
         Gated(k) /\ chain[n].tag = want[k].tag =>
           \E m \in DOMAIN chain' : chain'[m] = chain[n]]_vars

\* The chain never holds two rules with one owned tag (README.md:171): neither
\* new tags, nor a retry after a failed -A or -R, nor the delete-and-append path
\* adds a second one.  That is so only where -S and the -D of the deletion loop
\* do what they are asked to (iptables_exec.py:36 and owned_rules.py:137 go on
\* to append what is still there: see NeverSecondRule), where its lines can be
\* read, where the loop is long enough for the tags, and where nobody edits the
\* chain during a pass.
NoDuplicateTag ==
  \A m, n \in DOMAIN chain :
    chain[m].tag \in Tags /\ chain[m].tag = chain[n].tag => m = n

\* The owned tags of a chain, whether or not a pass can read them.
TagsOf(rules) == {rules[n].tag : n \in DOMAIN rules} \cap Tags

\* A full pass that returns True has done its work: the owned rules of the chain
\* carry tags of the file, and every rule with an address is in the chain with
\* its desired body, unless a rule without an address kept the file from being
\* appended anew (apply.py:235).
PassApplied ==
  pc = "idle" /\ mode = "full" /\ result /\ ~stale /\ exists =>
    /\ TagsOf(chain) \subseteq ConfigTags
    /\ \A k \in DOMAIN want : want[k].ok =>
         InChain(RuleOf(want[k])) \/ (GatedLive /\ want[k].tag \in TagsOf(chain))

\* -R, which resets the counters of a rule, is only ever used when the kernel
\* does not have the desired rule yet, even if it spells it differently
\* (apply.py:213-222).
ReplaceOnlyChanged == pc = "replace" /\ ~stale => ~InChain(RuleOf(Here))

\* A pass ends, whatever fails and whoever else edits the chain: the deletion
\* loop is bounded and every other loop runs over the drop-in.
PassEnds == pc # "idle" ~> pc = "idle"

\* README.md:171 "Does not add a second rule for the same tag" holds without any
\* condition.  (NoDuplicateTag, checked where iptables -S, or a -D by
\* specification, may fail.)
NeverSecondRule == NoDuplicateTag

\* README.md:51 "@host DNS-only pass (no static rule reconcile)": a pass over the
\* @host rules leaves the static rules of the file alone.
HostsPassKeepsStatic ==
  [][PassStep /\ ~stale /\ mode = "hosts" /\ pc # "idle" =>
       \A k \in DOMAIN file, n \in DOMAIN chain :
         ~file[k].hosts /\ chain[n].tag = file[k].tag =>
           \E m \in DOMAIN chain' : chain'[m] = chain[n]]_vars

=============================================================================
