---------------------------- MODULE DropInProofs -----------------------------
(***************************************************************************)
(* Proofs about DropIn, for every file and any number of names: the state  *)
(* is well typed, the tags are distinct and as documented, an annotation   *)
(* feeds one rule, and the DNS pass sees every file with a gated block.    *)
(***************************************************************************)
EXTENDS DropIn, SequenceTheorems, FiniteSetTheorems, TLAPS

AnyTag ==
  {<<>>} \cup {<<p>> : p \in Names \cup Nat} \cup {<<n, k>> : n \in Names, k \in Nat}

\* The tags given so far, as the two counters bound them.
NamedTag(t, n) ==
  \/ t = <<n>> /\ count[n] >= 1
  \/ \E k \in Nat : k <= count[n] /\ t = <<n, k>>
UnnamedTag(t) ==
  \/ t = <<>> /\ Len(blocks) = 1
  \/ \E k \in Nat : k <= seq /\ t = <<k>> /\ Len(blocks) # 1

TagsCounted ==
  \A i \in DOMAIN tags :
    \/ blocks[i].name = NoName /\ UnnamedTag(tags[i])
    \/ blocks[i].name \in Names /\ NamedTag(tags[i], blocks[i].name)

\* What the parser leaves to the assignment of tags: no tag yet.
Base ==
  /\ DropInTypeOK
  /\ tags \in Seq(AnyTag)
  /\ parsing \in {"parse", "fatal"} => tags = <<>>

\* The invariant: tags are distinct because each is below its counter.
DistinctInv == Base /\ TagsCounted /\ TagsDistinct

-----------------------------------------------------------------------------
LEMMA BaseInit == DropInInit => Base
<1> SUFFICES ASSUME DropInInit PROVE Base
  OBVIOUS
<1>1. lines \in Seq(Line)
  BY InputsAssumption DEF DropInInit
<1> QED
  BY <1>1 DEF DropInInit, Base, DropInTypeOK, NoNotes

LEMMA BaseStep == Base /\ [DropInNext]_dropInVars => Base'
<1> SUFFICES ASSUME Base, [DropInNext]_dropInVars PROVE Base'
  OBVIOUS
<1> USE DEF Base, DropInTypeOK
<1>1. CASE ReadNote
  <2>1. lines[lineNo] \in Line
    BY <1>1 DEF ReadNote, Reading
  <2>2. pending' \in [hosts : SUBSET Hosts, name : Names \cup {BadName, NoName}]
    BY <1>1, <2>1 DEF ReadNote, Merged, Line
  <2>3. lineNo' \in Nat \ {0} /\ lineNo' <= Len(lines') + 1
    BY <1>1 DEF ReadNote, Reading
  <2> QED
    BY <1>1, <2>2, <2>3 DEF ReadNote
<1>2. CASE PassOver
  BY <1>2 DEF PassOver, Reading
<1>3. CASE ReadRule
  <2>1. BlockOf(pending) \in Block
    BY DEF BlockOf, Block
  <2>2. blocks' \in Seq(Block) /\ Len(blocks') = Len(blocks) + 1
    BY <1>3, <2>1 DEF ReadRule
  <2>3. source' \in Seq(SUBSET Nat) /\ notes' \subseteq Nat
    BY <1>3 DEF ReadRule
  <2>4. lineNo' \in Nat \ {0} /\ lineNo' <= Len(lines') + 1
    BY <1>3 DEF ReadRule, Reading
  <2> QED
    BY <1>3, <2>2, <2>3, <2>4 DEF ReadRule, NoNotes
<1>4. CASE ReadMeta
  <2>1. lineNo' \in Nat \ {0} /\ lineNo' <= Len(lines') + 1
    BY <1>4 DEF ReadMeta, Reading
  <2> QED
    BY <1>4, <2>1 DEF ReadMeta, Reading
<1>5. CASE EndOfFile
  BY <1>5 DEF EndOfFile
<1>6. CASE AssignNamed
  <2>1. Len(tags) \in Nat /\ Len(tags) < Len(blocks)
    BY <1>6 DEF AssignNamed, Assigning
  <2>2. Here \in Block
    BY <2>1 DEF Here
  <2>3. Here.name \in Names
    BY <1>6, <2>2 DEF AssignNamed, Block
  <2>4. count' \in [Names -> Nat]
    BY <1>6, <2>3 DEF AssignNamed
  <2>5. <<Here.name>> \in AnyTag /\ <<Here.name, count[Here.name] + 1>> \in AnyTag
    BY <2>3 DEF AnyTag
  <2>6. tags' \in Seq(AnyTag) /\ Len(tags') <= Len(blocks')
    BY <1>6, <2>1, <2>5 DEF AssignNamed
  <2> QED
    BY <1>6, <2>4, <2>6 DEF AssignNamed, Assigning
<1>7. CASE AssignUnnamed
  <2>1. Len(tags) \in Nat /\ Len(tags) < Len(blocks)
    BY <1>7 DEF AssignUnnamed, Assigning
  <2>2. <<>> \in AnyTag /\ <<seq + 1>> \in AnyTag
    BY DEF AnyTag
  <2>3. seq' \in Nat /\ blocks' = blocks
    BY <1>7 DEF AssignUnnamed
  <2>4. PICK t \in AnyTag : tags' = Append(tags, t)
    BY <1>7, <2>2 DEF AssignUnnamed
  <2>5. tags' \in Seq(AnyTag) /\ Len(tags') <= Len(blocks')
    BY <2>1, <2>3, <2>4
  <2> QED
    BY <1>7, <2>3, <2>5 DEF AssignUnnamed, Assigning
<1>8. CASE Finished
  BY <1>8 DEF Finished
<1>9. CASE UNCHANGED dropInVars
  BY <1>9 DEF dropInVars
<1> QED
  BY <1>1, <1>2, <1>3, <1>4, <1>5, <1>6, <1>7, <1>8, <1>9 DEF DropInNext

\* A tag that is added to the tags so far keeps them distinct if it is new.
LEMMA AppendDistinct ==
  ASSUME NEW t, TagsDistinct, tags \in Seq(AnyTag), t \in AnyTag, tags' = Append(tags, t),
         \A i \in DOMAIN tags : tags[i] # t
  PROVE  TagsDistinct'
<1> SUFFICES ASSUME NEW i \in DOMAIN tags', NEW j \in DOMAIN tags', tags'[i] = tags'[j]
             PROVE  i = j
  BY DEF TagsDistinct
<1>1. DOMAIN tags' = 1 .. Len(tags) + 1 /\ DOMAIN tags = 1 .. Len(tags) /\ Len(tags) \in Nat
  OBVIOUS
<1>2. \A k \in DOMAIN tags : tags'[k] = tags[k]
  OBVIOUS
<1>3. tags'[Len(tags) + 1] = t
  OBVIOUS
<1> QED
  BY <1>1, <1>2, <1>3 DEF TagsDistinct

\* A step that gives no tag and leaves the blocks alone, or that gives none when
\* there is none yet, changes nothing that the invariant speaks of.
LEMMA KeepTags ==
  ASSUME DistinctInv, tags' = tags, tags = <<>> \/ UNCHANGED <<blocks, count, seq>>
  PROVE  TagsCounted' /\ TagsDistinct'
<1>1. TagsDistinct'
  BY DEF DistinctInv, TagsDistinct
<1>2. CASE tags = <<>>
  BY <1>1, <1>2 DEF TagsCounted
<1>3. CASE UNCHANGED <<blocks, count, seq>>
  BY <1>1, <1>3 DEF DistinctInv, TagsCounted, NamedTag, UnnamedTag
<1> QED
  BY <1>2, <1>3

LEMMA NamedStep == DistinctInv /\ AssignNamed => TagsCounted' /\ TagsDistinct'
<1> SUFFICES ASSUME DistinctInv, AssignNamed PROVE TagsCounted' /\ TagsDistinct'
  OBVIOUS
<1> DEFINE n == Here.name
           t == IF count[n] = 0 THEN <<n>> ELSE <<n, count[n] + 1>>
<1>1. Len(tags) \in Nat /\ Len(tags) < Len(blocks) /\ blocks \in Seq(Block)
  BY DEF AssignNamed, Assigning, DistinctInv, Base, DropInTypeOK
<1>2. Here \in Block
  BY <1>1 DEF Here
<1>3. n \in Names
  BY <1>2 DEF AssignNamed, Block
<1>4. count \in [Names -> Nat] /\ count[n] \in Nat /\ n \notin Nat
  BY <1>3, NamesAssumption DEF DistinctInv, Base, DropInTypeOK
<1>5. /\ count' = [count EXCEPT ![n] = count[n] + 1]
      /\ tags' = Append(tags, t) /\ blocks' = blocks /\ seq' = seq
  BY DEF AssignNamed
<1>6. t \in AnyTag /\ tags \in Seq(AnyTag)
  BY <1>3, <1>4 DEF AnyTag, DistinctInv, Base
<1>7. ASSUME NEW i \in DOMAIN tags PROVE tags[i] # t
  <2>1. CASE UnnamedTag(tags[i])
    BY <2>1, <1>3, <1>4 DEF UnnamedTag
  <2>2. CASE blocks[i].name \in Names /\ NamedTag(tags[i], blocks[i].name)
    BY <2>2, <1>3, <1>4 DEF NamedTag
  <2> QED
    BY <2>1, <2>2 DEF DistinctInv, TagsCounted
<1> HIDE DEF t, n
<1>8. TagsDistinct'
  BY <1>5, <1>6, <1>7, AppendDistinct DEF DistinctInv
<1>9. ASSUME NEW i \in DOMAIN tags'
      PROVE  \/ blocks'[i].name = NoName /\ UnnamedTag(tags[i])'
             \/ blocks'[i].name \in Names /\ NamedTag(tags[i], blocks[i].name)'
  <2>1. CASE i \in DOMAIN tags
    <3>1. tags'[i] = tags[i]
      BY <2>1, <1>5, <1>6
    <3>2. CASE blocks[i].name = NoName /\ UnnamedTag(tags[i])
      BY <3>1, <3>2, <1>5 DEF UnnamedTag
    <3>3. CASE blocks[i].name \in Names /\ NamedTag(tags[i], blocks[i].name)
      <4>1. count'[blocks[i].name] \in Nat /\ count'[blocks[i].name] >= count[blocks[i].name]
        BY <3>3, <1>3, <1>4, <1>5
      <4>2. count[blocks[i].name] \in Nat
        BY <3>3, <1>4
      <4> QED
        BY <3>1, <3>3, <4>1, <4>2, <1>5 DEF NamedTag
    <3> QED
      BY <2>1, <3>2, <3>3 DEF DistinctInv, TagsCounted
  <2>2. CASE i \notin DOMAIN tags
    <3>1. i = Len(tags) + 1 /\ tags'[i] = t /\ blocks'[i].name = n
      BY <2>2, <1>1, <1>5, <1>6 DEF n, Here
    <3>2. count'[n] = count[n] + 1
      BY <1>3, <1>4, <1>5
    <3> QED
      BY <3>1, <3>2, <1>3, <1>4 DEF NamedTag, t
  <2> QED
    BY <2>1, <2>2
<1> QED
  BY <1>8, <1>9 DEF TagsCounted

LEMMA UnnamedStep == DistinctInv /\ AssignUnnamed => TagsCounted' /\ TagsDistinct'
<1> SUFFICES ASSUME DistinctInv, AssignUnnamed PROVE TagsCounted' /\ TagsDistinct'
  OBVIOUS
<1> DEFINE t == IF Len(blocks) = 1 THEN <<>> ELSE <<seq + 1>>
<1>1. /\ Len(tags) \in Nat /\ Len(tags) < Len(blocks) /\ Len(blocks) \in Nat
      /\ Here.name = NoName
  BY DEF AssignUnnamed, Assigning, DistinctInv, Base, DropInTypeOK
<1>2. seq \in Nat /\ Names \cap Nat = {}
  BY NamesAssumption DEF DistinctInv, Base, DropInTypeOK
<1>3. /\ tags' = Append(tags, t) /\ blocks' = blocks /\ count' = count
      /\ seq' = IF Len(blocks) = 1 THEN seq ELSE seq + 1
  BY DEF AssignUnnamed
<1>4. t \in AnyTag /\ tags \in Seq(AnyTag)
  BY <1>2 DEF AnyTag, DistinctInv, Base
<1>5. ASSUME NEW i \in DOMAIN tags PROVE tags[i] # t
  <2>1. CASE UnnamedTag(tags[i])
    <3>1. CASE Len(blocks) = 1
      \* There is one block, and it has no tag yet.
      BY <3>1, <1>1, <1>4
    <3>2. CASE Len(blocks) # 1
      BY <2>1, <3>2, <1>2 DEF UnnamedTag
    <3> QED
      BY <3>1, <3>2
  <2>2. CASE blocks[i].name \in Names /\ NamedTag(tags[i], blocks[i].name)
    <3>1. blocks[i].name # seq + 1
      BY <2>2, <1>2
    <3>2. <<blocks[i].name>> # t
      BY <3>1
    <3>3. ASSUME NEW k \in Nat PROVE <<blocks[i].name, k>> # t
      OBVIOUS
    <3> QED
      BY <2>2, <3>2, <3>3 DEF NamedTag
  <2> QED
    BY <2>1, <2>2 DEF DistinctInv, TagsCounted
<1> HIDE DEF t
<1>6. TagsDistinct'
  BY <1>3, <1>4, <1>5, AppendDistinct DEF DistinctInv
<1>7. ASSUME NEW i \in DOMAIN tags'
      PROVE  \/ blocks'[i].name = NoName /\ UnnamedTag(tags[i])'
             \/ blocks'[i].name \in Names /\ NamedTag(tags[i], blocks[i].name)'
  <2>1. CASE i \in DOMAIN tags
    <3>1. tags'[i] = tags[i]
      BY <2>1, <1>3, <1>4
    <3>2. CASE blocks[i].name = NoName /\ UnnamedTag(tags[i])
      BY <3>1, <3>2, <1>2, <1>3 DEF UnnamedTag
    <3>3. CASE blocks[i].name \in Names /\ NamedTag(tags[i], blocks[i].name)
      BY <3>1, <3>3, <1>3 DEF NamedTag
    <3> QED
      BY <2>1, <3>2, <3>3 DEF DistinctInv, TagsCounted
  <2>2. CASE i \notin DOMAIN tags
    <3>1. i = Len(tags) + 1 /\ tags'[i] = t /\ blocks'[i].name = NoName
      BY <2>2, <1>1, <1>3, <1>4 DEF Here
    <3> QED
      BY <3>1, <1>2, <1>3 DEF UnnamedTag, t
  <2> QED
    BY <2>1, <2>2
<1> QED
  BY <1>6, <1>7 DEF TagsCounted

LEMMA DistinctStep == DistinctInv /\ [DropInNext]_dropInVars => DistinctInv'
<1> SUFFICES ASSUME DistinctInv, [DropInNext]_dropInVars PROVE TagsCounted' /\ TagsDistinct'
  BY BaseStep DEF DistinctInv
<1>1. CASE ReadNote
  BY <1>1, KeepTags DEF ReadNote
<1>2. CASE PassOver
  BY <1>2, KeepTags DEF PassOver
<1>3. CASE ReadRule
  <2>1. tags = <<>> /\ tags' = tags
    BY <1>3 DEF ReadRule, Reading, DistinctInv, Base
  <2> QED
    BY <2>1, KeepTags
<1>4. CASE ReadMeta
  <2>1. tags = <<>> /\ tags' = tags
    BY <1>4 DEF ReadMeta, Reading, DistinctInv, Base
  <2> QED
    BY <2>1, KeepTags
<1>5. CASE EndOfFile
  BY <1>5, KeepTags DEF EndOfFile
<1>6. CASE AssignNamed
  BY <1>6, NamedStep
<1>7. CASE AssignUnnamed
  BY <1>7, UnnamedStep
<1>8. CASE Finished
  BY <1>8, KeepTags DEF Finished
<1>9. CASE UNCHANGED dropInVars
  BY <1>9, KeepTags DEF dropInVars
<1> QED
  BY <1>1, <1>2, <1>3, <1>4, <1>5, <1>6, <1>7, <1>8, <1>9 DEF DropInNext

-----------------------------------------------------------------------------
\* The state of the parser and of the assignment of tags is well typed, for
\* every file: the counters are numbers and no block is numbered that is not
\* there.
THEOREM DropInTypeCorrect == DropInSpec => []DropInTypeOK
<1>1. Base => DropInTypeOK
  BY DEF Base
<1> QED
  BY BaseInit, BaseStep, <1>1, PTL DEF DropInSpec

\* No two blocks of a drop-in ever get the same comment tag (annotations.py:115),
\* for every file and every choice of names.
THEOREM Distinct == DropInSpec => []TagsDistinct
<1>1. DropInInit => DistinctInv
  BY BaseInit DEF DropInInit, DistinctInv, TagsCounted, TagsDistinct
<1>2. DistinctInv => TagsDistinct
  BY DEF DistinctInv
<1> QED
  BY <1>1, <1>2, DistinctStep, PTL DEF DropInSpec

-----------------------------------------------------------------------------
\* Annotations.

\* The lines of the blocks so far and of the pending annotations are distinct, and
\* the next line is none of them.
NotesApart ==
  /\ \A n \in notes : n < lineNo
  /\ \A i \in DOMAIN source :
       source[i] \cap notes = {} /\ \A n \in source[i] : n < lineNo
  /\ NotesUsedOnce

NotesInv == DropInTypeOK /\ NotesApart

LEMMA NotesReadRule == NotesInv /\ ReadRule => NotesApart'
<1> SUFFICES ASSUME NotesInv, ReadRule PROVE NotesApart'
  OBVIOUS
<1> DEFINE own == notes \cup {lineNo}
<1>1. /\ source \in Seq(SUBSET Nat) /\ lineNo \in Nat /\ notes \subseteq Nat
      /\ lineNo' = lineNo + 1 /\ notes' = {} /\ source' = Append(source, own)
      /\ \A n \in notes : n < lineNo
      /\ \A i \in DOMAIN source : source[i] \cap notes = {} /\ \A n \in source[i] : n < lineNo
  BY DEF NotesInv, NotesApart, DropInTypeOK, ReadRule, Reading
<1>2. own \in SUBSET Nat /\ \A n \in own : n < lineNo + 1
  BY <1>1
<1>3. \A i \in DOMAIN source : source[i] \subseteq Nat /\ source[i] \cap own = {}
  BY <1>1, LenProperties
<1> HIDE DEF own
<1>4. /\ Len(source) \in Nat /\ DOMAIN source = 1 .. Len(source)
      /\ DOMAIN source' = 1 .. Len(source) + 1
      /\ \A i \in DOMAIN source : source'[i] = source[i]
      /\ source'[Len(source) + 1] = own
  BY <1>1, <1>2, AppendProperties, LenProperties
<1>5. \A i \in DOMAIN source' : i \in DOMAIN source \/ i = Len(source) + 1
  BY <1>4
<1>6. ASSUME NEW i \in DOMAIN source', NEW n \in source'[i] PROVE n < lineNo'
  <2>1. CASE i \in DOMAIN source
    <3>1. n \in source[i] /\ n \in Nat /\ n < lineNo
      BY <1>1, <1>3, <1>4, <1>6, <2>1
    <3> QED BY <1>1, <3>1
  <2>2. CASE i = Len(source) + 1
    BY <1>1, <1>2, <1>4, <1>6, <2>2
  <2> QED BY <1>5, <2>1, <2>2
<1>7. NotesUsedOnce'
  <2> SUFFICES ASSUME NEW i \in DOMAIN source', NEW j \in DOMAIN source', i # j
               PROVE  source'[i] \cap source'[j] = {}
    BY DEF NotesUsedOnce
  <2>1. CASE i \in DOMAIN source /\ j \in DOMAIN source
    BY <1>4, <2>1 DEF NotesInv, NotesApart, NotesUsedOnce
  <2>2. CASE i = Len(source) + 1 /\ j \in DOMAIN source
    <3>1. source'[i] = own /\ source'[j] = source[j] /\ source[j] \cap own = {}
      BY <1>3, <1>4, <2>2
    <3> QED BY <3>1
  <2>3. CASE j = Len(source) + 1 /\ i \in DOMAIN source
    <3>1. source'[j] = own /\ source'[i] = source[i] /\ source[i] \cap own = {}
      BY <1>3, <1>4, <2>3
    <3> QED BY <3>1
  <2> QED BY <1>5, <2>1, <2>2, <2>3
<1> QED BY <1>1, <1>6, <1>7 DEF NotesApart

LEMMA NotesStep == NotesInv /\ DropInTypeOK' /\ [DropInNext]_dropInVars => NotesInv'
<1> SUFFICES ASSUME NotesInv, [DropInNext]_dropInVars PROVE NotesApart'
  BY DEF NotesInv
<1>1. CASE ReadNote
  <2>1. /\ lineNo \in Nat /\ notes \subseteq Nat /\ source \in Seq(SUBSET Nat)
        /\ lineNo' = lineNo + 1 /\ notes' = notes \cup {lineNo} /\ source' = source
    BY <1>1 DEF NotesInv, DropInTypeOK, ReadNote, Reading
  <2>2. \A i \in DOMAIN source : source[i] \subseteq Nat
    BY <2>1, LenProperties
  <2>3. \A n \in notes' : n < lineNo'
    BY <2>1 DEF NotesInv, NotesApart
  <2>4. \A i \in DOMAIN source : lineNo \notin source[i] /\ \A n \in source[i] : n < lineNo'
    BY <2>1, <2>2 DEF NotesInv, NotesApart
  <2> QED BY <2>1, <2>3, <2>4 DEF NotesInv, NotesApart, NotesUsedOnce
<1>2. CASE ReadRule
  BY <1>2, NotesReadRule
<1>3. CASE PassOver \/ ReadMeta
  <2>1. /\ lineNo \in Nat /\ notes \subseteq Nat /\ source \in Seq(SUBSET Nat)
        /\ lineNo' = lineNo + 1 /\ UNCHANGED <<notes, source>>
    BY <1>3 DEF NotesInv, DropInTypeOK, PassOver, ReadMeta, Reading
  <2>2. \A i \in DOMAIN source : source[i] \subseteq Nat
    BY <2>1, LenProperties
  <2>3. \A n \in notes' : n < lineNo'
    BY <2>1 DEF NotesInv, NotesApart
  <2>4. \A i \in DOMAIN source : \A n \in source[i] : n < lineNo'
    BY <2>1, <2>2 DEF NotesInv, NotesApart
  <2> QED BY <2>1, <2>3, <2>4 DEF NotesInv, NotesApart, NotesUsedOnce
<1>4. CASE UNCHANGED <<lineNo, notes, source>>
  BY <1>4 DEF NotesInv, NotesApart, NotesUsedOnce
<1> QED
  BY <1>1, <1>2, <1>3, <1>4
  DEF DropInNext, EndOfFile, AssignNamed, AssignUnnamed, Finished, dropInVars

\* Hosts that the parser has found are in a line that dropin_has_hosts finds.
HostsFound ==
  pending.hosts # {} \/ (\E k \in DOMAIN blocks : blocks[k].hosts # {}) => HasHosts

HostsInv == DropInTypeOK /\ HostsFound

LEMMA HostsStep == HostsInv /\ DropInTypeOK' /\ [DropInNext]_dropInVars => HostsInv'
<1> SUFFICES ASSUME HostsInv, [DropInNext]_dropInVars PROVE HostsFound'
  BY DEF HostsInv
<1>1. HasHosts' = HasHosts
  BY DEF HasHosts, DropInNext, ReadNote, PassOver, ReadRule, ReadMeta, EndOfFile, AssignNamed,
         AssignUnnamed, Finished, dropInVars
<1>2. CASE ReadNote
  <2>1. pending'.hosts = pending.hosts \cup lines[lineNo].hosts /\ blocks' = blocks
    BY <1>2 DEF ReadNote, Merged
  <2>2. lines[lineNo].hosts # {} => HasHosts
    BY <1>2 DEF ReadNote, Reading, HasHosts
  <2> QED BY <1>1, <2>1, <2>2 DEF HostsInv, HostsFound
<1>3. CASE ReadRule
  <2>1. /\ blocks \in Seq(Block) /\ BlockOf(pending) \in Block
        /\ blocks' = Append(blocks, BlockOf(pending))
        /\ pending'.hosts = {} /\ BlockOf(pending).hosts = pending.hosts
    BY <1>3 DEF ReadRule, HostsInv, DropInTypeOK, BlockOf, Block, NoNotes
  <2>2. /\ Len(blocks) \in Nat /\ DOMAIN blocks = 1 .. Len(blocks)
        /\ DOMAIN blocks' = 1 .. Len(blocks) + 1
        /\ \A k \in DOMAIN blocks : blocks'[k] = blocks[k]
        /\ blocks'[Len(blocks) + 1] = BlockOf(pending)
    BY <2>1, AppendProperties, LenProperties
  <2>3. \A k \in DOMAIN blocks' : k \in DOMAIN blocks \/ k = Len(blocks) + 1
    BY <2>2
  <2> QED BY <1>1, <2>1, <2>2, <2>3 DEF HostsInv, HostsFound
<1>4. CASE ReadMeta
  BY <1>1, <1>4, EmptySeq, LenProperties DEF ReadMeta, HostsInv, HostsFound
<1>5. CASE UNCHANGED <<pending, blocks>>
  BY <1>1, <1>5 DEF HostsInv, HostsFound
<1> QED
  BY <1>2, <1>3, <1>4, <1>5
  DEF DropInNext, PassOver, EndOfFile, AssignNamed, AssignUnnamed, Finished, dropInVars

-----------------------------------------------------------------------------
\* Tags are as documented.

\* The blocks up to number m with the name n.
Alike(n, m) == {j \in 1 .. m : blocks[j].name = n}

\* name_occurrence and unnamed_seq count what README.md speaks of.
CountersExact ==
  /\ \A n \in Names : count[n] = Cardinality(Alike(n, Len(tags)))
  /\ Len(blocks) # 1 => seq = Cardinality(Alike(NoName, Len(tags)))

TagsExact == \A i \in DOMAIN tags : tags[i] = DocumentedTag(i)

ExactInv ==
  /\ Base
  /\ parsing \in {"assign", "done"} => CountersExact /\ TagsExact
  /\ parsing \in {"parse", "fatal"} => count = [n \in Names |-> 0] /\ seq = 0
  /\ parsing = "done" => Len(tags) = Len(blocks)

LEMMA AlikeGrows ==
  ASSUME NEW n, NEW m \in Nat
  PROVE  /\ IsFiniteSet(Alike(n, m)) /\ Cardinality(Alike(n, m)) \in Nat
         /\ Alike(n, 0) = {} /\ Cardinality(Alike(n, 0)) = 0
         /\ Cardinality(Alike(n, m + 1)) =
              IF blocks[m + 1].name = n THEN Cardinality(Alike(n, m)) + 1
                                        ELSE Cardinality(Alike(n, m))
<1>1. IsFiniteSet(1 .. m) /\ Alike(n, m) \subseteq 1 .. m
  BY FS_Interval DEF Alike
<1>2. IsFiniteSet(Alike(n, m)) /\ Cardinality(Alike(n, m)) \in Nat
  BY <1>1, FS_Subset, FS_CardinalityType
<1>3. Alike(n, 0) = {} /\ Cardinality(Alike(n, 0)) = 0
  BY FS_EmptySet DEF Alike
<1>4. 1 .. m + 1 = (1 .. m) \cup {m + 1} /\ m + 1 \notin 1 .. m
  OBVIOUS
<1>5. CASE blocks[m + 1].name = n
  <2>1. Alike(n, m + 1) = Alike(n, m) \cup {m + 1} /\ m + 1 \notin Alike(n, m)
    BY <1>4, <1>5 DEF Alike
  <2> QED BY <1>2, <1>3, <1>5, <2>1, FS_AddElement
<1>6. CASE blocks[m + 1].name # n
  <2>1. Alike(n, m + 1) = Alike(n, m)
    BY <1>4, <1>6 DEF Alike
  <2> QED BY <1>2, <1>3, <1>6, <2>1
<1> QED BY <1>5, <1>6

\* A step that gives a tag keeps the tags given before.
LEMMA ExactAppend ==
  ASSUME NEW t \in AnyTag, tags \in Seq(AnyTag), TagsExact, tags' = Append(tags, t),
         UNCHANGED blocks, t = DocumentedTag(Len(tags) + 1)
  PROVE  TagsExact' /\ Len(tags') = Len(tags) + 1
<1>1. /\ Len(tags) \in Nat /\ DOMAIN tags = 1 .. Len(tags)
      /\ DOMAIN tags' = 1 .. Len(tags) + 1 /\ Len(tags') = Len(tags) + 1
      /\ \A i \in DOMAIN tags : tags'[i] = tags[i]
      /\ tags'[Len(tags) + 1] = t
  BY AppendProperties, LenProperties
<1>2. \A i \in DOMAIN tags' : DocumentedTag(i)' = DocumentedTag(i)
  BY DEF DocumentedTag
<1>3. \A i \in DOMAIN tags' : i \in DOMAIN tags \/ i = Len(tags) + 1
  BY <1>1
<1> QED BY <1>1, <1>2, <1>3 DEF TagsExact

LEMMA ExactNamed == ExactInv /\ AssignNamed => CountersExact' /\ TagsExact'
<1> SUFFICES ASSUME ExactInv, AssignNamed PROVE CountersExact' /\ TagsExact'
  OBVIOUS
<1> DEFINE n == Here.name
           m == Len(tags)
           t == IF count[n] = 0 THEN <<n>> ELSE <<n, count[n] + 1>>
<1>1. /\ m \in Nat /\ m < Len(blocks) /\ blocks \in Seq(Block) /\ tags \in Seq(AnyTag)
      /\ CountersExact /\ TagsExact /\ n # NoName /\ n = blocks[m + 1].name
      /\ count \in [Names -> Nat] /\ seq \in Nat
  BY DEF AssignNamed, Assigning, ExactInv, Base, DropInTypeOK, Here
<1>2. n \in Names
  <2>1. Here \in Block
    BY <1>1 DEF Here
  <2> QED
    BY <2>1, <1>1 DEF Block
<1>3. /\ count' = [count EXCEPT ![n] = count[n] + 1] /\ tags' = Append(tags, t)
      /\ UNCHANGED <<blocks, seq>>
  BY DEF AssignNamed
<1>4. count[n] \in Nat /\ count[n] = Cardinality(Alike(n, m))
  BY <1>1, <1>2 DEF CountersExact
<1>5. t \in AnyTag
  BY <1>2, <1>4 DEF AnyTag
<1> HIDE DEF m, n
<1>6. Cardinality(Alike(n, m + 1)) = count[n] + 1
  BY <1>1, <1>4, AlikeGrows
<1>7. t = DocumentedTag(m + 1)
  BY <1>1, <1>4, <1>6 DEF DocumentedTag, Alike
<1> HIDE DEF t
<1>8. TagsExact' /\ Len(tags') = m + 1
  BY <1>1, <1>3, <1>5, <1>7, ExactAppend DEF m
<1>9. \A a, b : Alike(a, b)' = Alike(a, b)
  BY <1>3 DEF Alike
<1>10. ASSUME NEW a \in Names PROVE count'[a] = Cardinality(Alike(a, m + 1))
  <2>1. count[a] = Cardinality(Alike(a, m))
    BY <1>1 DEF CountersExact, m
  <2>2. Cardinality(Alike(a, m + 1)) = IF n = a THEN Cardinality(Alike(a, m)) + 1
                                                 ELSE Cardinality(Alike(a, m))
    BY <1>1, AlikeGrows
  <2> QED BY <1>1, <1>2, <1>3, <2>1, <2>2
<1>11. Len(blocks) # 1 => seq = Cardinality(Alike(NoName, m + 1))
  <2>1. Cardinality(Alike(NoName, m + 1)) = Cardinality(Alike(NoName, m))
    BY <1>1, AlikeGrows
  <2> QED BY <1>1, <2>1 DEF CountersExact, m
<1>12. CountersExact'
  BY <1>3, <1>8, <1>9, <1>10, <1>11 DEF CountersExact
<1> QED BY <1>8, <1>12

LEMMA ExactUnnamed == ExactInv /\ AssignUnnamed => CountersExact' /\ TagsExact'
<1> SUFFICES ASSUME ExactInv, AssignUnnamed PROVE CountersExact' /\ TagsExact'
  OBVIOUS
<1> DEFINE m == Len(tags)
           t == IF Len(blocks) = 1 THEN <<>> ELSE <<seq + 1>>
<1>1. /\ m \in Nat /\ m < Len(blocks) /\ blocks \in Seq(Block) /\ tags \in Seq(AnyTag)
      /\ CountersExact /\ TagsExact /\ blocks[m + 1].name = NoName
      /\ count \in [Names -> Nat] /\ seq \in Nat
  BY DEF AssignUnnamed, Assigning, ExactInv, Base, DropInTypeOK, Here
<1>2. /\ tags' = Append(tags, t) /\ UNCHANGED <<blocks, count>>
      /\ seq' = IF Len(blocks) = 1 THEN seq ELSE seq + 1
  BY DEF AssignUnnamed
<1>3. t \in AnyTag
  BY <1>1 DEF AnyTag
<1> HIDE DEF m
<1>4. Len(blocks) # 1 => /\ seq = Cardinality(Alike(NoName, m))
                          /\ Cardinality(Alike(NoName, m + 1)) = seq + 1
  <2>1. Cardinality(Alike(NoName, m + 1)) = Cardinality(Alike(NoName, m)) + 1
    BY <1>1, AlikeGrows
  <2> QED BY <1>1, <2>1 DEF CountersExact, m
<1>5. t = DocumentedTag(m + 1)
  BY <1>1, <1>4 DEF DocumentedTag, Alike
<1> HIDE DEF t
<1>6. TagsExact' /\ Len(tags') = m + 1
  BY <1>1, <1>2, <1>3, <1>5, ExactAppend DEF m
<1>7. \A a, b : Alike(a, b)' = Alike(a, b)
  BY <1>2 DEF Alike
<1>8. ASSUME NEW a \in Names PROVE count[a] = Cardinality(Alike(a, m + 1))
  <2>1. count[a] = Cardinality(Alike(a, m)) /\ a # NoName
    BY <1>1, NamesAssumption DEF CountersExact, m
  <2>2. Cardinality(Alike(a, m + 1)) = Cardinality(Alike(a, m))
    BY <1>1, <2>1, AlikeGrows
  <2> QED BY <2>1, <2>2
<1>9. CountersExact'
  BY <1>2, <1>4, <1>6, <1>7, <1>8 DEF CountersExact
<1> QED BY <1>6, <1>9

LEMMA ExactStep == ExactInv /\ [DropInNext]_dropInVars => ExactInv'
<1> SUFFICES ASSUME ExactInv, [DropInNext]_dropInVars PROVE ExactInv'
  OBVIOUS
<1>1. Base' /\ Base
  BY BaseStep DEF ExactInv
<1>2. CASE ReadNote \/ PassOver \/ ReadRule \/ ReadMeta
  <2>1. parsing = "parse" /\ parsing' \in {"parse", "fatal"} /\ UNCHANGED <<count, seq>>
    BY <1>2 DEF ReadNote, PassOver, ReadRule, ReadMeta, Reading
  <2> QED BY <1>1, <2>1 DEF ExactInv
<1>3. CASE EndOfFile
  <2>1. /\ parsing = "parse" /\ parsing' = "assign" /\ UNCHANGED <<count, seq, tags, blocks>>
        /\ tags = <<>> /\ count = [n \in Names |-> 0] /\ seq = 0
    BY <1>3 DEF EndOfFile, ExactInv, Base
  <2>2. Len(tags') = 0 /\ DOMAIN tags' = {}
    BY <2>1, EmptySeq, LenProperties
  <2>3. \A n : Cardinality(Alike(n, 0))' = 0
    BY FS_EmptySet DEF Alike
  <2> QED BY <1>1, <2>1, <2>2, <2>3 DEF ExactInv, CountersExact, TagsExact
<1>4. CASE AssignNamed \/ AssignUnnamed
  <2>1. CountersExact' /\ TagsExact'
    BY <1>4, ExactNamed, ExactUnnamed
  <2>2. parsing' = "assign"
    BY <1>4 DEF AssignNamed, AssignUnnamed, Assigning
  <2> QED BY <1>1, <2>1, <2>2 DEF ExactInv
<1>5. CASE Finished \/ UNCHANGED dropInVars
  <2>1. UNCHANGED <<blocks, tags, count, seq>>
    BY <1>5 DEF Finished, dropInVars
  <2>2. CountersExact' = CountersExact /\ TagsExact' = TagsExact
    BY <2>1 DEF CountersExact, TagsExact, Alike, DocumentedTag
  <2> QED BY <1>1, <1>5, <2>1, <2>2 DEF ExactInv, Finished, dropInVars
<1> QED BY <1>2, <1>3, <1>4, <1>5 DEF DropInNext

-----------------------------------------------------------------------------
\* An annotation feeds one rule (dropin.py:36-66), in every file.
THEOREM NotesOnce == DropInSpec => []NotesUsedOnce
<1>1. DropInInit => NotesInv
  <2>1. DropInInit => DropInTypeOK
    BY BaseInit DEF Base
  <2>2. DropInInit => NotesApart
    BY EmptySeq, LenProperties DEF DropInInit, NotesApart, NotesUsedOnce
  <2> QED BY <2>1, <2>2 DEF NotesInv
<1>2. NotesInv => NotesUsedOnce
  BY DEF NotesInv, NotesApart
<1> QED BY <1>1, <1>2, NotesStep, DropInTypeCorrect, PTL DEF DropInSpec

\* The DNS pass looks at every file in which the parser has found a gated block
\* (dropin_hosts.py:10), though it reads the lines by itself.
THEOREM HostsSeen == DropInSpec => []DnsPassSeesHosts
<1>1. DropInInit => HostsInv
  <2>1. DropInInit => DropInTypeOK
    BY BaseInit DEF Base
  <2>2. DropInInit => HostsFound
    BY EmptySeq, LenProperties DEF DropInInit, HostsFound, NoNotes
  <2> QED BY <2>1, <2>2 DEF HostsInv
<1>2. HostsInv => DnsPassSeesHosts
  BY DEF HostsInv, HostsFound, DnsPassSeesHosts
<1> QED BY <1>1, <1>2, HostsStep, DropInTypeCorrect, PTL DEF DropInSpec

\* Every tag is what README.md says: the name, name/k for its k-th block, or the
\* number among the blocks without a name (annotations.py:115-140).
THEOREM Documented == DropInSpec => []TagsDocumented
<1>1. DropInInit => ExactInv
  BY BaseInit DEF DropInInit, ExactInv
<1>2. ExactInv => TagsDocumented
  <2> SUFFICES ASSUME ExactInv, parsing = "done"
               PROVE  tags = [i \in DOMAIN blocks |-> DocumentedTag(i)]
    BY DEF TagsDocumented
  <2>1. tags \in Seq(AnyTag) /\ blocks \in Seq(Block) /\ Len(tags) = Len(blocks) /\ TagsExact
    BY DEF ExactInv, Base, DropInTypeOK
  <2>2. DOMAIN tags = DOMAIN blocks /\ tags = [i \in DOMAIN tags |-> tags[i]]
    BY <2>1, LenProperties
  <2> QED BY <2>1, <2>2 DEF TagsExact
<1> QED BY <1>1, <1>2, ExactStep, PTL DEF DropInSpec

=============================================================================
