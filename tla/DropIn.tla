------------------------------- MODULE DropIn --------------------------------
(***************************************************************************)
(* parse_dropin_blocks (dropin.py) and assign_comment_tags                 *)
(* (annotations.py): from the lines of a drop-in to its rule blocks and to *)
(* the comment tag of each.  The tags decide which live rule a block owns, *)
(* so two blocks must never share one.                                     *)
(*                                                                         *)
(* A line is what the parser can tell of it.  A tag is what follows the    *)
(* basename in the comment: <<>> is "b", <<n>> is "b/n", <<n, 2>> "b/n/2". *)
(***************************************************************************)
EXTENDS Naturals, Sequences, FiniteSets

CONSTANTS
  Names,    \* values of @name that are valid
  BadName,  \* one that is not: another character in it, or digits only
  NoName,   \* no @name
  Hosts,    \* values of @host and @hosts
  Inputs    \* the files: sequences of lines

\* "note": a line that starts with #; "rule": one that parses; "broken": one that
\* shlex refuses; "meta": one with a shell metacharacter.
LineKinds == {"note", "blank", "rule", "broken", "meta"}
Line == [kind : LineKinds, hosts : SUBSET Hosts, name : Names \cup {BadName, NoName}]
Block == [hosts : SUBSET Hosts, name : Names \cup {NoName}]

\* Digits only are never a valid name: no name is a number.
ASSUME NamesAssumption ==
  /\ Names \cap Nat = {}
  /\ BadName \notin Names /\ NoName \notin Names /\ BadName # NoName
ASSUME InputsAssumption == Inputs \subseteq Seq(Line)

VARIABLES
  lines,    \* the file
  lineNo,   \* the next line
  pending,  \* annotations read since the last rule
  blocks,   \* the blocks so far
  parsing,  \* "parse", "assign", "done" or "fatal"
  count,    \* name_occurrence
  seq,      \* unnamed_seq
  tags,     \* the tags of the first blocks
  notes,    \* history: the lines of the pending annotations
  source    \* history: source[k]: the lines of block k's annotations, its own last

dropInVars == <<lines, lineNo, pending, blocks, parsing, count, seq, tags, notes, source>>

NoNotes == [hosts |-> {}, name |-> NoName]

DropInInit ==
  /\ lines \in Inputs
  /\ lineNo = 1
  /\ pending = NoNotes
  /\ blocks = <<>>
  /\ parsing = "parse"
  /\ count = [n \in Names |-> 0] /\ seq = 0
  /\ tags = <<>>
  /\ notes = {} /\ source = <<>>

-----------------------------------------------------------------------------
\* Parsing, line by line.

Reading(kinds) ==
  /\ parsing = "parse" /\ lineNo \in DOMAIN lines
  /\ lines[lineNo].kind \in kinds
  /\ lineNo' = lineNo + 1

\* Annotations of several lines are merged; of several names the last counts.
Merged(old, line) ==
  [hosts |-> old.hosts \cup line.hosts,
   name |-> IF line.name = NoName THEN old.name ELSE line.name]

ReadNote ==
  /\ Reading({"note"})
  /\ pending' = Merged(pending, lines[lineNo])
  /\ notes' = notes \cup {lineNo}
  /\ UNCHANGED <<lines, blocks, parsing, count, seq, tags, source>>

\* Blank and broken lines are passed over; pending annotations stay.
PassOver ==
  /\ Reading({"blank", "broken"})
  /\ UNCHANGED <<lines, pending, blocks, parsing, count, seq, tags, notes, source>>

BlockOf(p) == [hosts |-> p.hosts, name |-> IF p.name = BadName THEN NoName ELSE p.name]

ReadRule_KeepsPending ==
  /\ Reading({"rule"})
  /\ blocks' = Append(blocks, BlockOf(pending))
  /\ source' = Append(source, notes \cup {lineNo})
  /\ UNCHANGED <<lines, pending, notes, parsing, count, seq, tags>>

ReadRule ==
  /\ Reading({"rule"})
  /\ blocks' = Append(blocks, BlockOf(pending))
  /\ pending' = NoNotes
  /\ source' = Append(source, notes \cup {lineNo}) /\ notes' = {}
  /\ UNCHANGED <<lines, parsing, count, seq, tags>>

ReadMeta_TagsLeft ==
  /\ Reading({"meta"})
  /\ parsing' = "fatal"
  /\ blocks' = <<>> /\ pending' = pending
  /\ tags' = Append(tags, <<>>)
  /\ UNCHANGED <<lines, count, seq, notes, source>>

\* The whole file is refused.
ReadMeta ==
  /\ Reading({"meta"})
  /\ parsing' = "fatal"
  /\ blocks' = <<>>
  /\ UNCHANGED <<lines, pending, count, seq, tags, notes, source>>

EndOfFile ==
  /\ parsing = "parse" /\ lineNo \notin DOMAIN lines
  /\ parsing' = "assign"
  /\ UNCHANGED <<lines, lineNo, pending, blocks, count, seq, tags, notes, source>>

-----------------------------------------------------------------------------
\* Tags, block by block.

Here == blocks[Len(tags) + 1]
Assigning == parsing = "assign" /\ Len(tags) < Len(blocks)

AssignNamed ==
  /\ Assigning /\ Here.name # NoName
  /\ count' = [count EXCEPT ![Here.name] = @ + 1]
  /\ tags' = Append(tags, IF count[Here.name] = 0 THEN <<Here.name>>
                          ELSE <<Here.name, count[Here.name] + 1>>)
  /\ UNCHANGED <<lines, lineNo, pending, blocks, parsing, seq, notes, source>>

AssignUnnamed_ByPosition ==
  /\ Assigning /\ Here.name = NoName
  /\ IF Len(blocks) = 1
       THEN tags' = Append(tags, <<>>) /\ UNCHANGED seq
       ELSE seq' = seq + 1 /\ tags' = Append(tags, <<Len(tags) + 1>>)
  /\ UNCHANGED <<lines, lineNo, pending, blocks, parsing, count, notes, source>>

AssignUnnamed_NotCounted ==
  /\ Assigning /\ Here.name = NoName
  /\ tags' = Append(tags, IF Len(blocks) = 1 THEN <<>> ELSE <<seq + 1>>)
  /\ UNCHANGED <<lines, lineNo, pending, blocks, parsing, count, seq, notes, source>>

AssignUnnamed ==
  /\ Assigning /\ Here.name = NoName
  /\ IF Len(blocks) = 1
       THEN tags' = Append(tags, <<>>) /\ UNCHANGED seq
       ELSE seq' = seq + 1 /\ tags' = Append(tags, <<seq + 1>>)
  /\ UNCHANGED <<lines, lineNo, pending, blocks, parsing, count, notes, source>>

Finished ==
  /\ parsing = "assign" /\ Len(tags) = Len(blocks)
  /\ parsing' = "done"
  /\ UNCHANGED <<lines, lineNo, pending, blocks, count, seq, tags, notes, source>>

DropInNext ==
  \/ ReadNote \/ PassOver \/ ReadRule \/ ReadMeta \/ EndOfFile
  \/ AssignNamed \/ AssignUnnamed \/ Finished

DropInSpec == DropInInit /\ [][DropInNext]_dropInVars

-----------------------------------------------------------------------------
\* dropin_has_hosts: whether the DNS pass looks at the file.
HasHosts_NextLine == \E k \in DOMAIN lines :
  /\ lines[k].kind = "note" /\ lines[k].hosts # {}
  /\ k + 1 \in DOMAIN lines /\ lines[k + 1].kind = "rule"
HasHosts == \E k \in DOMAIN lines : lines[k].kind = "note" /\ lines[k].hosts # {}

-----------------------------------------------------------------------------
\* Properties.

\* Type invariant.
DropInTypeOK ==
  /\ lines \in Seq(Line)
  /\ lineNo \in Nat \ {0} /\ lineNo <= Len(lines) + 1
  /\ pending \in [hosts : SUBSET Hosts, name : Names \cup {BadName, NoName}]
  /\ blocks \in Seq(Block)
  /\ parsing \in {"parse", "assign", "done", "fatal"}
  /\ count \in [Names -> Nat] /\ seq \in Nat
  /\ Len(tags) <= Len(blocks)
  /\ notes \subseteq Nat /\ source \in Seq(SUBSET Nat)

\* Two blocks of a file never get the same tag, whatever names they carry and
\* how often: otherwise each pass would replace the one's rule by the other's.
TagsDistinct == \A i, j \in DOMAIN tags : tags[i] = tags[j] => i = j

\* What README.md says of tags: the first block of a name gets the name, the k-th
\* one name/k; the k-th block without a name gets k, or nothing if it is alone.
DocumentedTag(i) ==
  LET k == Cardinality({j \in 1 .. i : blocks[j].name = blocks[i].name})
      n == blocks[i].name
  IN IF n # NoName THEN (IF k = 1 THEN <<n>> ELSE <<n, k>>)
                   ELSE (IF Len(blocks) = 1 THEN <<>> ELSE <<k>>)
TagsDocumented == parsing = "done" => tags = [i \in DOMAIN blocks |-> DocumentedTag(i)]

\* An annotation belongs to one rule: no two blocks take theirs from one line.
NotesUsedOnce ==
  \A i, j \in DOMAIN source : i # j => source[i] \cap source[j] = {}

\* The DNS pass never passes over a file with a gated block: dropin_has_hosts
\* reads the lines anew and must not miss what the parser has found.
DnsPassSeesHosts ==
  parsing = "done" /\ (\E k \in DOMAIN blocks : blocks[k].hosts # {}) => HasHosts

=============================================================================
