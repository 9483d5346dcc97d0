---------------------------- MODULE ApplyProofs ----------------------------
(***************************************************************************)
(* Theorems about Apply, for every chain, drop-in, failing command and     *)
(* interleaving with other programs.                                       *)
(***************************************************************************)
EXTENDS Apply, Descent, SequenceTheorems, FiniteSetTheorems, WellFoundedInduction, TLAPS

-----------------------------------------------------------------------------
\* Sequences: what Without and With return.

LEMMA WithoutProperties ==
  ASSUME NEW S, NEW s \in Seq(S), NEW n \in DOMAIN s
  PROVE  /\ Without(s, n) \in Seq(S)
         /\ Len(Without(s, n)) = Len(s) - 1
         /\ DOMAIN Without(s, n) = 1 .. Len(s) - 1
         /\ \A i \in 1 .. n - 1 : Without(s, n)[i] = s[i]
         /\ \A i \in n .. Len(s) - 1 : Without(s, n)[i] = s[i + 1]
<1> DEFINE a == SubSeq(s, 1, n - 1)
           b == SubSeq(s, n + 1, Len(s))
<1>1. /\ Len(s) \in Nat /\ DOMAIN s = 1 .. Len(s) /\ n \in 1 .. Len(s)
      /\ \A i \in 1 .. Len(s) : s[i] \in S
  BY LenProperties
<1>2. a \in Seq(S) /\ Len(a) = n - 1 /\ \A i \in 1 .. n - 1 : a[i] = s[i]
  BY <1>1, SubSeqProperties
<1>3. b \in Seq(S) /\ Len(b) = Len(s) - n /\ \A i \in 1 .. Len(s) - n : b[i] = s[n + i]
  BY <1>1, SubSeqProperties
<1>4. Without(s, n) = a \o b
  BY DEF Without
<1> HIDE DEF a, b
<1>5. /\ a \o b \in Seq(S)
      /\ Len(a \o b) = Len(s) - 1
      /\ \A i \in 1 .. n - 1 : (a \o b)[i] = s[i]
      /\ \A i \in n .. Len(s) - 1 : (a \o b)[i] = s[i + 1]
  <2>1. /\ a \o b \in Seq(S) /\ Len(a \o b) = Len(a) + Len(b)
        /\ \A i \in 1 .. Len(a) + Len(b) :
             (a \o b)[i] = IF i <= Len(a) THEN a[i] ELSE b[i - Len(a)]
    BY <1>2, <1>3, ConcatProperties
  <2>2. Len(a) = n - 1 /\ Len(b) = Len(s) - n /\ Len(a) + Len(b) = Len(s) - 1
    BY <1>1, <1>2, <1>3
  <2>3. ASSUME NEW i \in 1 .. n - 1 PROVE (a \o b)[i] = s[i]
    BY <1>1, <1>2, <2>1, <2>2
  <2>4. ASSUME NEW i \in n .. Len(s) - 1 PROVE (a \o b)[i] = s[i + 1]
    <3>1. i \in 1 .. Len(s) - 1 /\ ~(i <= n - 1) /\ i - (n - 1) \in 1 .. Len(s) - n
          /\ n + (i - (n - 1)) = i + 1
      BY <1>1
    <3> QED BY <1>3, <2>1, <2>2, <3>1
  <2> QED BY <2>1, <2>2, <2>3, <2>4
<1> QED BY <1>1, <1>4, <1>5, LenProperties

LEMMA WithProperties ==
  ASSUME NEW s \in Seq(Rule), NEW n \in 1 .. Len(s) + 1, NEW r \in Rule
  PROVE  /\ With(s, n, r) \in Seq(Rule)
         /\ DOMAIN With(s, n, r) = 1 .. Len(s) + 1
         /\ \A i \in 1 .. Len(s) + 1 :
              \/ i = n /\ With(s, n, r)[i] = r
              \/ i \in DOMAIN s /\ With(s, n, r)[i] = s[i]
              \/ i - 1 \in DOMAIN s /\ With(s, n, r)[i] = s[i - 1]
         /\ \A i \in 1 .. n - 1 : With(s, n, r)[i] = s[i]
         /\ With(s, n, r)[n] = r
         /\ \A i \in n + 1 .. Len(s) + 1 : With(s, n, r)[i] = s[i - 1]
<1> DEFINE a == SubSeq(s, 1, n - 1)
           b == SubSeq(s, n, Len(s))
           u == <<r>>
           ar == a \o u
<1>1. /\ Len(s) \in Nat /\ DOMAIN s = 1 .. Len(s)
      /\ \A i \in 1 .. Len(s) : s[i] \in Rule
  BY LenProperties
<1>2. a \in Seq(Rule) /\ Len(a) = n - 1 /\ \A i \in 1 .. n - 1 : a[i] = s[i]
  BY <1>1, SubSeqProperties
<1>3. /\ b \in Seq(Rule) /\ Len(b) = Len(s) - n + 1
      /\ \A i \in 1 .. Len(s) - n + 1 : b[i] = s[n + i - 1]
  BY <1>1, SubSeqProperties
<1>4. With(s, n, r) = ar \o b
  BY DEF With
<1> HIDE DEF a, b
<1>5. u \in Seq(Rule) /\ Len(u) = 1 /\ u[1] = r
  OBVIOUS
<1> HIDE DEF u
<1>6. /\ ar \in Seq(Rule) /\ Len(ar) = n
      /\ \A i \in 1 .. n - 1 : ar[i] = s[i]
      /\ ar[n] = r
  <2>1. /\ a \o u \in Seq(Rule) /\ Len(a \o u) = Len(a) + Len(u)
        /\ \A i \in 1 .. Len(a) + Len(u) :
             (a \o u)[i] = IF i <= Len(a) THEN a[i] ELSE u[i - Len(a)]
    BY <1>2, <1>5, ConcatProperties
  <2>2. n \in Nat \ {0} /\ Len(a) = n - 1 /\ Len(a) + Len(u) = n
        /\ n - (n - 1) = 1
    BY <1>1, <1>2, <1>5
  <2>3. ASSUME NEW i \in 1 .. n - 1 PROVE (a \o u)[i] = s[i]
    BY <1>1, <1>2, <2>1, <2>2
  <2>4. (a \o u)[n] = u[n - (n - 1)]
    BY <2>1, <2>2
  <2> QED BY <1>5, <2>1, <2>2, <2>3, <2>4
<1> HIDE DEF ar
<1>7. /\ ar \o b \in Seq(Rule)
      /\ Len(ar \o b) = Len(s) + 1
      /\ \A i \in 1 .. n : (ar \o b)[i] = ar[i]
      /\ \A i \in n + 1 .. Len(s) + 1 : (ar \o b)[i] = s[i - 1]
  <2>1. /\ ar \o b \in Seq(Rule) /\ Len(ar \o b) = Len(ar) + Len(b)
        /\ \A i \in 1 .. Len(ar) + Len(b) :
             (ar \o b)[i] = IF i <= Len(ar) THEN ar[i] ELSE b[i - Len(ar)]
    BY <1>3, <1>6, ConcatProperties
  <2>2. Len(ar) + Len(b) = Len(s) + 1 /\ n \in Nat \ {0} /\ n <= Len(s) + 1
    BY <1>1, <1>3, <1>6
  <2>3. ASSUME NEW i \in n + 1 .. Len(s) + 1 PROVE (ar \o b)[i] = s[i - 1]
    <3>1. i \in 1 .. Len(s) + 1 /\ ~(i <= n) /\ i - n \in 1 .. Len(s) - n + 1
          /\ n + (i - n) - 1 = i - 1
      BY <1>1, <2>2
    <3> QED BY <1>3, <1>6, <2>1, <2>2, <3>1
  <2>4. ASSUME NEW i \in 1 .. n PROVE (ar \o b)[i] = ar[i]
    BY <1>1, <1>6, <2>1, <2>2
  <2> QED BY <2>1, <2>2, <2>3, <2>4
<1>8. ASSUME NEW i \in 1 .. Len(s) + 1
      PROVE  \/ i = n /\ (ar \o b)[i] = r
             \/ i \in DOMAIN s /\ (ar \o b)[i] = s[i]
             \/ i - 1 \in DOMAIN s /\ (ar \o b)[i] = s[i - 1]
  BY <1>1, <1>6, <1>7
<1>9. (ar \o b)[n] = r
  BY <1>1, <1>6, <1>7
<1>10. ASSUME NEW i \in 1 .. n - 1 PROVE (ar \o b)[i] = s[i]
  <2>1. i \in 1 .. n /\ (ar \o b)[i] = ar[i]
    BY <1>1, <1>7
  <2> QED BY <2>1, <1>6
<1> QED BY <1>1, <1>4, <1>7, <1>8, <1>9, <1>10, LenProperties

\* A set of positions that is not empty has a least one.
LEMMA LeastPosition ==
  ASSUME NEW P \in SUBSET Nat, P # {}
  PROVE  \E n \in P : \A m \in P : n <= m
<1> DEFINE R == OpToRel(<, Nat)
<1>1. IsWellFoundedOn(R, Nat)
  BY NatLessThanWellFounded
<1>2. ASSUME NEW m \in Nat, NEW k \in Nat, m < k
      PROVE  <<m, k>> \in R
  BY <1>2 DEF OpToRel
<1> HIDE DEF R
<1>3. PICK n \in P : \A m \in P : ~ (<<m, n>> \in R)
  BY <1>1, WFMin
<1>4. \A m \in P : ~(m < n)
  BY <1>2, <1>3
<1> QED BY <1>4

-----------------------------------------------------------------------------
\* Listings and chains.

\* Without removes one rule and keeps the others.
LEMMA WithoutKeeps ==
  ASSUME NEW s \in Seq(Rule), NEW n \in DOMAIN s
  PROVE  /\ Without(s, n) \in Seq(Rule)
         /\ OwnedTags(Without(s, n)) \subseteq OwnedTags(s)
         /\ \A m \in DOMAIN s : m # n =>
              \E i \in DOMAIN Without(s, n) : Without(s, n)[i] = s[m]
         /\ \A m \in DOMAIN s : m < n =>
              m \in DOMAIN Without(s, n) /\ Without(s, n)[m] = s[m]
<1> DEFINE w == Without(s, n)
<1>1. /\ w \in Seq(Rule)
      /\ DOMAIN w = 1 .. Len(s) - 1
      /\ \A i \in 1 .. n - 1 : w[i] = s[i]
      /\ \A i \in n .. Len(s) - 1 : w[i] = s[i + 1]
  BY WithoutProperties
<1>2. Len(s) \in Nat /\ DOMAIN s = 1 .. Len(s)
  BY LenProperties
<1> HIDE DEF w
<1>3. ASSUME NEW i \in DOMAIN w PROVE \E m \in DOMAIN s : w[i] = s[m]
  <2>1. CASE i < n
    BY <2>1, <1>1, <1>2
  <2>2. CASE ~(i < n)
    <3>1. i \in n .. Len(s) - 1 /\ i + 1 \in DOMAIN s
      BY <2>2, <1>1, <1>2
    <3> QED BY <3>1, <1>1
  <2> QED BY <2>1, <2>2
<1>4. ASSUME NEW m \in DOMAIN s, m < n PROVE m \in DOMAIN w /\ w[m] = s[m]
  BY <1>1, <1>2, <1>4
<1>5. ASSUME NEW m \in DOMAIN s, m # n PROVE \E i \in DOMAIN w : w[i] = s[m]
  <2>1. CASE m < n
    BY <2>1, <1>4
  <2>2. CASE ~(m < n)
    <3>1. m - 1 \in n .. Len(s) - 1 /\ m - 1 \in DOMAIN w /\ (m - 1) + 1 = m
      BY <2>2, <1>1, <1>2, <1>5
    <3> QED BY <3>1, <1>1
  <2> QED BY <2>1, <2>2
<1>6. OwnedTags(w) \subseteq OwnedTags(s)
  BY <1>3 DEF OwnedTags
<1> QED BY <1>1, <1>4, <1>5, <1>6 DEF w

\* With adds one rule; if it is not owned, it adds no owned tag.
LEMMA WithTags ==
  ASSUME NEW s \in Seq(Rule), NEW n \in 1 .. Len(s) + 1, NEW r \in Rule, r.tag \notin Tags
  PROVE  OwnedTags(With(s, n, r)) \subseteq OwnedTags(s)
<1> DEFINE w == With(s, n, r)
<1>1. DOMAIN w = 1 .. Len(s) + 1
  BY WithProperties
<1>2. \A i \in 1 .. Len(s) + 1 :
        \/ i = n /\ w[i] = r
        \/ i \in DOMAIN s /\ w[i] = s[i]
        \/ i - 1 \in DOMAIN s /\ w[i] = s[i - 1]
  BY WithProperties
<1> HIDE DEF w
<1>3. \A i \in DOMAIN w : w[i].tag \in Tags => \E m \in DOMAIN s : s[m] = w[i]
  BY <1>1, <1>2
<1>4. OwnedTags(w) \subseteq OwnedTags(s)
  BY <1>3 DEF OwnedTags, ReadsOwned
<1> QED BY <1>4 DEF w

\* The snapshot's place of a tag is a rule with that tag, and its number is that
\* place unless a line was passed over.
LEMMA RuleNumNames ==
  ASSUME NEW s \in Seq(Rule), NEW t \in OwnedTags(s)
  PROVE  /\ RulePlace(s, t) \in DOMAIN s /\ s[RulePlace(s, t)].tag = t
         /\ RuleNum(s, t) \in DOMAIN s
         /\ (\A n \in DOMAIN s : Readable(s[n])) => RuleNum(s, t) = RulePlace(s, t)
<1> DEFINE P == {n \in DOMAIN s : s[n].tag = t /\ Readable(s[n])}
           p == RulePlace(s, t)
           Q == {m \in 1 .. p : Readable(s[m])}
<1>1. P \in SUBSET Nat /\ P # {}
  BY LenProperties DEF OwnedTags
<1>2. \E n \in P : \A m \in P : n <= m
  BY <1>1, LeastPosition
<1>3. p \in DOMAIN s /\ s[p].tag = t /\ Readable(s[p])
  BY <1>2 DEF RulePlace
<1>4. p \in Nat \ {0} /\ p <= Len(s) /\ DOMAIN s = 1 .. Len(s) /\ Len(s) \in Nat
  BY <1>3, LenProperties
<1>5. RuleNum(s, t) = Cardinality(Q)
  BY DEF RuleNum
<1> HIDE DEF p, P
<1>6. IsFiniteSet(1 .. p) /\ Cardinality(1 .. p) = p
  <2>1. IsFiniteSet(1 .. p) /\ Cardinality(1 .. p) = IF 1 > p THEN 0 ELSE p - 1 + 1
    BY <1>4, FS_Interval
  <2> QED BY <1>4, <2>1
<1>7. Q \subseteq 1 .. p /\ p \in Q
  BY <1>3, <1>4
<1> HIDE DEF Q
<1>8. IsFiniteSet(Q) /\ Cardinality(Q) <= p /\ Cardinality(Q) \in Nat /\ Cardinality(Q) # 0
  <2>1. Q \in SUBSET (1 .. p) /\ Q # {}
    BY <1>7
  <2>2. IsFiniteSet(Q) /\ Cardinality(Q) <= Cardinality(1 .. p)
    BY <1>6, <2>1, FS_Subset
  <2>3. Cardinality(Q) \in Nat /\ Cardinality(Q) # 0
    BY <2>1, <2>2, FS_EmptySet, FS_CardinalityType
  <2> QED BY <1>6, <2>2, <2>3
<1>9. Cardinality(Q) \in DOMAIN s
  BY <1>4, <1>8
<1>10. ASSUME \A n \in DOMAIN s : Readable(s[n]) PROVE Q = 1 .. p
  BY <1>4, <1>10 DEF Q
<1> QED BY <1>3, <1>5, <1>6, <1>9, <1>10 DEF p

\* The first owned rule is owned.
LEMMA FirstOwnedIsOwned ==
  ASSUME NEW s \in Seq(Rule), OwnedTags(s) # {}
  PROVE  /\ FirstOwned(s) \in DOMAIN s /\ ReadsOwned(s[FirstOwned(s)])
         /\ s[FirstOwned(s)].tag \in Tags
<1> DEFINE P == {n \in DOMAIN s : ReadsOwned(s[n])}
<1>1. P \in SUBSET Nat /\ P # {}
  BY LenProperties DEF OwnedTags
<1>2. \E n \in P : \A m \in P : n <= m
  BY <1>1, LeastPosition
<1>3. FirstOwned(s) \in DOMAIN s /\ ReadsOwned(s[FirstOwned(s)])
  BY <1>2 DEF FirstOwned
<1> QED BY <1>3 DEF ReadsOwned

\* A rule added for an entry with an address is a rule, and carries its tag.
LEMMA RuleOfType ==
  ASSUME NEW w \in Wanted, w.body \in Bodies
  PROVE  /\ RuleOf(w) \in Rule /\ RuleOf(w).tag = w.tag
         /\ RuleOf(w) \in [tag : Tags, body : Bodies]
BY BodiesAssumption DEF RuleOf, Rule, Wanted

-----------------------------------------------------------------------------
\* Type correctness.

\* Refuse and the two ways a pass begins.
LEMMA TypeBegin ==
  ASSUME TypeOK,
         Refuse \/ BeginRemoved
           \/ \E op \in {"full", "hosts"}, d \in DropIns : Begin(op, d)
  PROVE  TypeOK'
<1>1. /\ <<>> \in Seq(Block) /\ <<>> \in Seq(Wanted) /\ <<>> \in Seq(Rule)
        /\ DOMAIN <<>> = {}
  BY EmptySeq, LenProperties
<1>2. ASSUME NEW d \in DropIns PROVE d \in Seq(Block) /\ DistinctTags(d)
  BY DropInsAssumption
<1>3. CASE Refuse
  BY <1>1, <1>3 DEF TypeOK, Refuse, Return, Phases, DistinctTags
<1>4. ASSUME EnsureChain, UNCHANGED chain
      PROVE  exists' \in BOOLEAN /\ (~exists' => chain' = <<>>)
  BY <1>4 DEF EnsureChain, TypeOK
<1>5. CASE BeginRemoved
  <2> USE <1>5 DEF BeginRemoved
  <2>1. exists' \in BOOLEAN /\ (~exists' => chain' = <<>>)
    BY <1>4
  <2>2. want' = <<>> /\ file' = <<>> /\ listing' = <<>> /\ pc' = "wipe" /\ mode' = "removed"
    OBVIOUS
  <2>3. doomed' = {} /\ idx' = 1 /\ UNCHANGED <<chain, result, stale>>
    OBVIOUS
  <2> QED BY <1>1, <2>1, <2>2, <2>3 DEF TypeOK, Phases, DistinctTags
<1>6. ASSUME NEW op \in {"full", "hosts"}, NEW d \in DropIns, Begin(op, d)
      PROVE  TypeOK'
  <2> USE <1>6 DEF Begin
  <2>1. exists' \in BOOLEAN /\ (~exists' => chain' = <<>>)
    BY <1>4
  <2>2. want' = <<>> /\ file' = d /\ listing' = <<>> /\ pc' = "resolve" /\ mode' = op
    OBVIOUS
  <2>3. doomed' = {} /\ idx' = 1 /\ UNCHANGED <<chain, result, stale>>
    OBVIOUS
  <2> QED BY <1>1, <1>2, <2>1, <2>2, <2>3 DEF TypeOK, Phases, DistinctTags
<1> QED BY <1>3, <1>5, <1>6

LEMMA TypeResolve == TypeOK /\ Resolve => TypeOK'
<1> SUFFICES ASSUME TypeOK, Resolve PROVE TypeOK'
  OBVIOUS
<1>1. PICK answer \in [DOMAIN file -> Bodies \cup {NoAddress}] :
        want' = [k \in DOMAIN file |-> Desired(file[k], answer[k])]
  BY DEF Resolve
<1>2. Len(file) \in Nat /\ DOMAIN file = 1 .. Len(file)
      /\ \A k \in DOMAIN file : file[k] \in Block
  BY LenProperties DEF TypeOK
<1>3. ASSUME NEW k \in DOMAIN file
      PROVE  /\ Desired(file[k], answer[k]) \in Wanted
             /\ Desired(file[k], answer[k]).tag = file[k].tag
             /\ Desired(file[k], answer[k]).ok => Desired(file[k], answer[k]).body \in Bodies
  BY <1>2 DEF Desired, Wanted, Block
<1>4. want' \in Seq(Wanted) /\ DOMAIN want' = DOMAIN file
  <2>1. want' \in [1 .. Len(file) -> Wanted]
    BY <1>1, <1>2, <1>3
  <2> QED BY <1>1, <1>2, <2>1
<1>5. DistinctTags(want')
  BY <1>1, <1>3, <1>4 DEF TypeOK, DistinctTags
<1>6. \A k \in DOMAIN want' : want'[k].ok => want'[k].body \in Bodies
  BY <1>1, <1>3, <1>4
<1> QED BY <1>4, <1>5, <1>6 DEF TypeOK, Resolve, Return, Phases

\* What a listing returns.
LEMMA ListType ==
  ASSUME TypeOK, List
  PROVE  listing' \in Seq(Rule) /\ stale' = FALSE /\ (listing' = chain \/ listing' = <<>>)
BY EmptySeq DEF List, TypeOK

\* Where delete_all_owned_comments leaves the pass.
LEMMA AfterWipeResult ==
  ASSUME AfterWipe
  PROVE  /\ result \in BOOLEAN => result' \in BOOLEAN
         /\ (idx' = idx \/ idx' = 1)
         /\ \/ pc' = "idle"
            \/ pc' = "append_all" /\ mode # "removed"
<1>1. CASE mode = "removed"
  BY <1>1, Zenon DEF AfterWipe, Return
<1>2. CASE mode # "removed"
  BY <1>2, Zenon DEF AfterWipe
<1> QED BY <1>1, <1>2

LEMMA TypeList ==
  ASSUME TypeOK, ListOrphans \/ ListLive \/ WipeList
  PROVE  TypeOK'
<1>1. CASE ListOrphans
  <2>1. listing' \in Seq(Rule) /\ stale' \in BOOLEAN
    BY <1>1, ListType DEF ListOrphans
  <2>2. \A t \in OwnedTags(listing') : RuleNum(listing', t) \in DOMAIN listing'
    BY <2>1, RuleNumNames
  <2>3. DOMAIN listing' \subseteq Nat \ {0}
    BY <2>1, LenProperties
  <2>4. doomed' \in SUBSET (Nat \ {0})
    BY <1>1, <2>2, <2>3 DEF ListOrphans
  <2> QED BY <1>1, <2>1, <2>4 DEF TypeOK, ListOrphans, Phases
<1>2. CASE ListLive
  <2>1. listing' \in Seq(Rule) /\ stale' \in BOOLEAN
    BY <1>2, ListType DEF ListLive
  <2>2. pc' = "apply" /\ idx' = 1
        /\ UNCHANGED <<chain, exists, mode, file, want, doomed, result>>
    BY <1>2 DEF ListLive
  <2> QED BY <2>1, <2>2 DEF TypeOK, Phases
<1>3. CASE WipeList
  <2>1. listing' \in Seq(Rule) /\ stale' \in BOOLEAN
    BY <1>3, ListType DEF WipeList, TypeOK
  <2>2. pc' \in Phases \ {"replace"} /\ result' \in BOOLEAN /\ idx' \in Nat \ {0}
    <3>1. AfterWipe \/ (UNCHANGED <<idx, result>> /\ pc' = "wipe_delete")
      BY <1>3 DEF WipeList
    <3>2. idx \in Nat \ {0} /\ result \in BOOLEAN
      BY DEF TypeOK
    <3>3. result' \in BOOLEAN
      BY <3>1, <3>2, AfterWipeResult
    <3>4. idx' \in Nat \ {0}
      BY <3>1, <3>2, AfterWipeResult
    <3>5. pc' \in Phases \ {"replace"}
      BY <3>1, AfterWipeResult DEF Phases
    <3> QED BY <3>3, <3>4, <3>5
  <2>3. pc' = "wipe_delete" =>
          OwnedTags(listing') # {} /\ Readable(listing'[FirstOwned(listing')])
    BY <1>3 DEF WipeList, AfterWipe, Return
  <2> QED BY <1>3, <2>1, <2>2, <2>3 DEF TypeOK, WipeList
<1> QED BY <1>1, <1>2, <1>3

\* Adding, replacing and deleting keep a chain of rules.
LEMMA TypeChain ==
  ASSUME TypeOK
  PROVE  /\ \A w \in Wanted : w.body \in Bodies /\ AddSucceeds(w) => chain' \in Seq(Rule)
         /\ \A w \in Wanted, n \in Nat :
              w.body \in Bodies /\ ReplaceSucceeds(n, w) => chain' \in Seq(Rule)
         /\ \A n \in Nat : DeleteNumSucceeds(n) => chain' \in Seq(Rule)
         /\ \A r \in Rule : DeleteSpecSucceeds(r) => chain' \in Seq(Rule)
<1>1. chain \in Seq(Rule) /\ DOMAIN chain = 1 .. Len(chain)
  BY LenProperties DEF TypeOK
<1>2. ASSUME NEW w \in Wanted, w.body \in Bodies, AddSucceeds(w)
      PROVE  chain' \in Seq(Rule)
  <2>1. RuleOf(w) \in Rule
    BY <1>2, RuleOfType
  <2> QED BY <1>1, <1>2, <2>1, AppendProperties DEF AddSucceeds
<1>3. ASSUME NEW w \in Wanted, NEW n \in Nat, w.body \in Bodies, ReplaceSucceeds(n, w)
      PROVE  chain' \in Seq(Rule)
  <2>1. RuleOf(w) \in Rule
    BY <1>3, RuleOfType
  <2> QED BY <1>1, <1>3, <2>1, ExceptSeq DEF ReplaceSucceeds
<1>4. ASSUME NEW n \in Nat, DeleteNumSucceeds(n) PROVE chain' \in Seq(Rule)
  BY <1>1, <1>4, WithoutKeeps DEF DeleteNumSucceeds
<1>5. ASSUME NEW r \in Rule, DeleteSpecSucceeds(r) PROVE chain' \in Seq(Rule)
  BY <1>1, <1>5, WithoutKeeps DEF DeleteSpecSucceeds
<1> QED BY <1>2, <1>3, <1>4, <1>5

\* The entry the loop stands at.
LEMMA HereType ==
  ASSUME TypeOK, idx \in DOMAIN want
  PROVE  Here \in Wanted /\ (Here.ok => Here.body \in Bodies) /\ idx + 1 \in Nat \ {0}
BY LenProperties DEF TypeOK, Here

LEMMA TypeApply ==
  ASSUME TypeOK, DeleteOrphan \/ SkipRule \/ CheckRule \/ ReplaceRule
  PROVE  TypeOK'
<1>1. CASE DeleteOrphan
  <2>1. chain' \in Seq(Rule) /\ (exists \/ UNCHANGED chain)
    BY <1>1, TypeChain DEF DeleteOrphan, DeleteNumSucceeds, DeleteNumFails, TypeOK
  <2> QED BY <1>1, <2>1 DEF TypeOK, DeleteOrphan
<1>2. CASE SkipRule
  BY <1>2, HereType DEF TypeOK, SkipRule, InLoop
<1>3. CASE CheckRule
  <2>1. Here.ok /\ IsLive /\ idx \in DOMAIN want
    BY <1>3 DEF CheckRule, InLoop, Skipped
  <2>2. pc' \in Phases /\ idx' \in Nat \ {0} /\ (pc' = "replace" => idx' = idx)
        /\ pc' # "wipe_delete"
    BY <1>3, <2>1, HereType DEF CheckRule, InLoop, TypeOK, Phases
  <2> QED BY <1>3, <2>1, <2>2 DEF TypeOK, CheckRule, Here, IsLive
<1>4. CASE ReplaceRule
  <2>1. Here \in Wanted /\ Here.body \in Bodies /\ idx + 1 \in Nat \ {0}
    BY <1>4, HereType DEF ReplaceRule, TypeOK
  <2>2. LiveNum \in Nat
    BY <1>4, RuleNumNames, LenProperties DEF ReplaceRule, TypeOK, LiveNum, IsLive
  <2>3. chain' \in Seq(Rule) /\ (exists \/ UNCHANGED chain)
    BY <1>4, <2>1, <2>2, TypeChain DEF ReplaceRule, ReplaceSucceeds, ReplaceFails, TypeOK
  <2>4. pc' \in {"apply", "wipe"} /\ idx' \in Nat \ {0}
    BY <1>4, <2>1 DEF ReplaceRule, AfterFailedReplace
  <2> QED BY <1>4, <2>3, <2>4 DEF TypeOK, ReplaceRule, Phases
<1> QED BY <1>1, <1>2, <1>3, <1>4

LEMMA TypeAppend ==
  ASSUME TypeOK, AppendRule \/ AppendAll \/ Finish \/ WipeDelete
  PROVE  TypeOK'
<1>1. ASSUME idx \in DOMAIN want, Here.ok, AddSucceeds(Here) \/ AddFails(Here)
      PROVE  chain' \in Seq(Rule) /\ (exists \/ UNCHANGED chain)
  BY <1>1, TypeChain, HereType DEF AddSucceeds, AddFails, TypeOK
<1>2. CASE AppendRule
  <2>1. idx \in DOMAIN want /\ Here.ok
    BY <1>2 DEF AppendRule, InLoop, Skipped
  <2>2. chain' \in Seq(Rule) /\ (exists \/ UNCHANGED chain)
    BY <1>1, <1>2, <2>1 DEF AppendRule
  <2>3. pc' \in {"apply", "idle"} /\ idx' \in Nat \ {0} /\ result' \in BOOLEAN
    BY <1>2, <2>1, HereType DEF AppendRule, InLoop, Return, TypeOK
  <2> QED BY <1>2, <2>2, <2>3 DEF TypeOK, AppendRule, Phases
<1>3. CASE AppendAll
  <2>1. chain' \in Seq(Rule) /\ (exists \/ UNCHANGED chain)
    BY <1>1, <1>3 DEF AppendAll, TypeOK
  <2>2. pc' \in {"append_all", "idle"} /\ idx' \in Nat \ {0} /\ result' \in BOOLEAN
    BY <1>3, HereType DEF AppendAll, Return, TypeOK
  <2> QED BY <1>3, <2>1, <2>2 DEF TypeOK, AppendAll, Phases
<1>4. CASE Finish
  BY <1>4 DEF TypeOK, Finish, Return, locals, Phases
<1>5. CASE WipeDelete
  <2>1. listing[FirstOwned(listing)] \in Rule
    BY <1>5, FirstOwnedIsOwned, LenProperties DEF WipeDelete, TypeOK
  <2>2. chain' \in Seq(Rule) /\ (exists \/ UNCHANGED chain)
    BY <1>5, <2>1, TypeChain DEF WipeDelete, DeleteSpecSucceeds, DeleteSpecFails, TypeOK
  <2>3. pc' \in {"wipe", "idle", "append_all"} /\ idx' \in Nat \ {0} /\ result' \in BOOLEAN
    <3>1. AfterWipe \/ (pc' = "wipe" /\ idx' = idx + 1 /\ UNCHANGED result)
      BY <1>5 DEF WipeDelete
    <3>2. idx \in Nat \ {0} /\ idx + 1 \in Nat \ {0} /\ result \in BOOLEAN
      BY DEF TypeOK
    <3>3. result' \in BOOLEAN
      BY <3>1, <3>2, AfterWipeResult
    <3>4. idx' \in Nat \ {0}
      BY <3>1, <3>2, AfterWipeResult
    <3>5. pc' \in {"wipe", "idle", "append_all"}
      BY <3>1, AfterWipeResult
    <3> QED BY <3>3, <3>4, <3>5
  <2> QED BY <1>5, <2>2, <2>3 DEF TypeOK, WipeDelete, Phases
<1> QED BY <1>2, <1>3, <1>4, <1>5

LEMMA TypeIntruder ==
  ASSUME TypeOK, Intruder
  PROVE  TypeOK'
<1>1. chain' \in Seq(Rule)
  <2>1. CASE ForeignInsert
    <3>1. ForeignRules \subseteq Rule
      BY ForeignAssumption DEF Rule
    <3> QED BY <2>1, <3>1, WithProperties DEF ForeignInsert, TypeOK
  <2>2. CASE ForeignDelete
    BY <2>2, WithoutKeeps DEF ForeignDelete, TypeOK
  <2>3. CASE ForeignFlush
    BY <2>3, EmptySeq DEF ForeignFlush
  <2> QED BY <2>1, <2>2, <2>3 DEF Intruder
<1>2. exists' \in BOOLEAN /\ stale' \in BOOLEAN /\ UNCHANGED <<pc, locals, result>>
  BY DEF Intruder, ForeignInsert, ForeignDelete, ForeignFlush, TypeOK
<1>3. ~exists' => chain' = <<>>
  <2>1. chain = <<>> => DOMAIN chain = {}
    BY EmptySeq, LenProperties
  <2> QED BY <2>1 DEF Intruder, ForeignInsert, ForeignDelete, ForeignFlush, TypeOK
<1> QED BY <1>1, <1>2, <1>3 DEF TypeOK, locals, Here, IsLive

LEMMA TypeStep == TypeOK /\ [Next]_vars => TypeOK'
<1>1. ASSUME TypeOK, Next PROVE TypeOK'
  BY <1>1, TypeBegin, TypeResolve, TypeList, TypeApply, TypeAppend, TypeIntruder
  DEF Next, Pass
<1>2. ASSUME TypeOK, UNCHANGED vars PROVE TypeOK'
  BY <1>2 DEF TypeOK, vars, Here, IsLive
<1> QED BY <1>1, <1>2

LEMMA TypeInit == Init => TypeOK
<1> SUFFICES ASSUME Init PROVE TypeOK
  OBVIOUS
<1>1. /\ <<>> \in Seq(Block) /\ <<>> \in Seq(Wanted) /\ <<>> \in Seq(Rule)
      /\ DOMAIN <<>> = {}
  BY EmptySeq, LenProperties
<1>2. exists \in BOOLEAN /\ result \in BOOLEAN /\ stale \in BOOLEAN
  BY Zenon DEF Init
<1> QED BY <1>1, <1>2 DEF Init, TypeOK, Phases, DistinctTags

\* Every state of a run has the types of TypeOK; in particular the loop index,
\* the rule numbers and the entry under -R are always in range.
THEOREM TypeCorrect == Spec => []TypeOK
BY TypeInit, TypeStep, PTL DEF Spec

-----------------------------------------------------------------------------
\* Rule numbers.

\* As long as nobody else has edited the chain since the listing, and each of its
\* lines could be read, the numbers still to be deleted are rules of tags that left
\* the file, and every number of the listing still carries the tag it had there.
NumbersValid ==
  /\ pc = "orphans" /\ ~stale /\ AllRead =>
       \A n \in doomed : n \in DOMAIN chain /\ chain[n].tag \in Tags \ ConfigTags
  /\ pc \in {"apply", "replace"} /\ ~stale /\ AllRead =>
       \A n \in DOMAIN listing : n \in DOMAIN chain /\ chain[n].tag = listing[n].tag

NumInv == TypeOK /\ NumbersValid

\* The rule that -R names is the rule of the entry's own tag.
LEMMA ReplacedTag ==
  ASSUME NumInv, pc = "replace", ~stale, AllRead
  PROVE  /\ LiveNum \in DOMAIN chain
         /\ chain[LiveNum].tag = Here.tag
         /\ Here \in Wanted /\ Here.body \in Bodies
<1>1. LiveNum \in DOMAIN listing /\ listing[LiveNum].tag = Here.tag
  BY RuleNumNames DEF NumInv, TypeOK, LiveNum, IsLive, AllRead
<1> QED BY <1>1, HereType DEF NumInv, NumbersValid, TypeOK

LEMMA NumbersListOrphans == NumInv /\ ListOrphans => NumbersValid'
<1> SUFFICES ASSUME NumInv, ListOrphans, AllRead' PROVE NumbersValid'
  BY DEF NumbersValid
<1>1. /\ listing' \in Seq(Rule) /\ (listing' = chain \/ listing' = <<>>)
      /\ chain' = chain /\ want' = want /\ pc' = "orphans"
  BY ListType DEF NumInv, ListOrphans
<1>2. ASSUME NEW t \in OwnedTags(listing') \ ConfigTags
      PROVE  /\ RuleNum(listing', t) \in DOMAIN chain
             /\ chain[RuleNum(listing', t)].tag \in Tags \ ConfigTags
  <2>1. RuleNum(listing', t) \in DOMAIN listing' /\ listing'[RuleNum(listing', t)].tag = t
    BY <1>1, RuleNumNames DEF AllRead
  <2>2. listing' = chain
    BY <1>1, <2>1, EmptySeq, LenProperties
  <2> QED BY <2>1, <2>2 DEF OwnedTags, ReadsOwned
<1>3. ConfigTags' = ConfigTags
  BY <1>1 DEF ConfigTags
<1>4. \A n \in doomed' : n \in DOMAIN chain' /\ chain'[n].tag \in Tags \ ConfigTags'
  BY <1>1, <1>2, <1>3 DEF ListOrphans
<1> QED BY <1>1, <1>4 DEF NumbersValid

LEMMA NumbersDeleteOrphan == NumInv /\ DeleteOrphan => NumbersValid'
<1> SUFFICES ASSUME NumInv, DeleteOrphan, ~stale, AllRead
             PROVE  \A m \in doomed' : m \in DOMAIN chain' /\ chain'[m].tag \in Tags \ ConfigTags'
  BY DEF NumbersValid, DeleteOrphan, AllRead
<1>1. PICK n \in doomed : /\ \A m \in doomed : m <= n
                          /\ DeleteNumSucceeds(n) \/ DeleteNumFails(n)
                          /\ doomed' = doomed \ {n}
  BY DEF DeleteOrphan, IsNextOrphan
<1>2. /\ \A m \in doomed : m \in DOMAIN chain /\ chain[m].tag \in Tags \ ConfigTags
      /\ ConfigTags' = ConfigTags /\ doomed \subseteq Nat
  BY DEF NumInv, NumbersValid, TypeOK, DeleteOrphan, ConfigTags
<1>3. CASE DeleteNumSucceeds(n)
  <2>1. \A m \in DOMAIN chain : m < n => m \in DOMAIN chain' /\ chain'[m] = chain[m]
    BY <1>2, <1>3, WithoutKeeps DEF DeleteNumSucceeds, NumInv, TypeOK
  <2>2. \A m \in doomed' : m \in doomed /\ m < n
    BY <1>1, <1>2
  <2> QED BY <1>2, <2>1, <2>2
<1>4. CASE DeleteNumFails(n)
  BY <1>1, <1>2, <1>4 DEF DeleteNumFails
<1> QED BY <1>1, <1>3, <1>4

LEMMA NumbersListLive == NumInv /\ ListLive => NumbersValid'
<1> SUFFICES ASSUME NumInv, ListLive PROVE NumbersValid'
  OBVIOUS
<1>1. /\ listing' = chain \/ listing' = <<>>
      /\ chain' = chain /\ pc' = "apply"
  BY ListType DEF NumInv, ListLive
<1>2. DOMAIN <<>> = {}
  BY EmptySeq, LenProperties
<1> QED BY <1>1, <1>2 DEF NumbersValid

LEMMA NumbersReplace == NumInv /\ ReplaceRule => NumbersValid'
<1> SUFFICES ASSUME NumInv, ReplaceRule, ~stale, AllRead
             PROVE  \A n \in DOMAIN listing : n \in DOMAIN chain' /\ chain'[n].tag = listing[n].tag
  BY DEF NumbersValid, ReplaceRule, AfterFailedReplace, AllRead
<1>1. \A n \in DOMAIN listing : n \in DOMAIN chain /\ chain[n].tag = listing[n].tag
  BY DEF NumInv, NumbersValid, ReplaceRule
<1>2. CASE ReplaceSucceeds(LiveNum, Here)
  <2>1. chain[LiveNum].tag = Here.tag /\ RuleOf(Here).tag = Here.tag
    BY ReplacedTag, RuleOfType DEF ReplaceRule
  <2>2. DOMAIN chain' = DOMAIN chain
        /\ \A n \in DOMAIN chain : chain'[n].tag = chain[n].tag
    BY <1>2, <2>1 DEF ReplaceSucceeds
  <2> QED BY <1>1, <2>2
<1>3. CASE ReplaceFails(LiveNum, Here)
  BY <1>1, <1>3 DEF ReplaceFails
<1> QED BY <1>2, <1>3 DEF ReplaceRule

LEMMA NumbersAppend == NumInv /\ AppendRule => NumbersValid'
<1>0. ASSUME AppendRule
      PROVE  pc' \in {"apply", "idle"} /\ listing' = listing /\ stale' = stale
  BY <1>0 DEF AppendRule, InLoop, Return
<1> SUFFICES ASSUME NumInv, AppendRule, ~stale, AllRead
             PROVE  \A n \in DOMAIN listing : n \in DOMAIN chain' /\ chain'[n].tag = listing[n].tag
  BY <1>0 DEF NumbersValid, AllRead
<1>1. \A n \in DOMAIN listing : n \in DOMAIN chain /\ chain[n].tag = listing[n].tag
  BY DEF NumInv, NumbersValid, AppendRule, InLoop
<1>2. CASE AddSucceeds(Here)
  <2>1. RuleOf(Here) \in Rule
    BY HereType, RuleOfType DEF NumInv, AppendRule, InLoop, Skipped
  <2>2. \A n \in DOMAIN chain : n \in DOMAIN chain' /\ chain'[n] = chain[n]
    BY <1>2, <2>1, AppendProperties, LenProperties DEF AddSucceeds, NumInv, TypeOK
  <2> QED BY <1>1, <2>2
<1>3. CASE AddFails(Here)
  BY <1>1, <1>3 DEF AddFails
<1> QED BY <1>2, <1>3 DEF AppendRule

LEMMA NumbersStep == NumInv /\ [Next]_vars => NumInv'
<1> SUFFICES ASSUME NumInv, [Next]_vars PROVE NumbersValid'
  BY TypeStep DEF NumInv
<1>1. CASE Refuse \/ BeginRemoved \/ Resolve
  BY <1>1 DEF NumbersValid, Refuse, BeginRemoved, Resolve, Return
<1>2. CASE \E op \in {"full", "hosts"}, d \in DropIns : Begin(op, d)
  BY <1>2 DEF NumbersValid, Begin
<1>3. CASE SkipRule
  BY <1>3 DEF NumInv, NumbersValid, AllRead, SkipRule, InLoop
<1>4. CASE CheckRule
  BY <1>4 DEF NumInv, NumbersValid, AllRead, CheckRule, InLoop
<1>5. CASE Finish \/ AppendAll
  BY <1>5 DEF NumbersValid, Finish, AppendAll, Return
<1>6. CASE WipeList \/ WipeDelete
  <2>1. pc' \in {"wipe", "wipe_delete", "append_all", "idle"}
    BY <1>6, AfterWipeResult DEF WipeList, WipeDelete
  <2> QED BY <2>1 DEF NumbersValid
<1>7. CASE Intruder
  BY <1>7 DEF NumbersValid, Intruder, ForeignInsert, ForeignDelete, ForeignFlush
<1>8. CASE UNCHANGED vars
  BY <1>8 DEF NumInv, NumbersValid, AllRead, vars, ConfigTags
<1> QED
  BY <1>1, <1>2, <1>3, <1>4, <1>5, <1>6, <1>7, <1>8, NumbersListOrphans,
     NumbersDeleteOrphan, NumbersListLive, NumbersReplace, NumbersAppend
  DEF Next, Pass

LEMMA NumbersInvariant == Spec => []NumInv
<1>1. Init => NumbersValid
  BY DEF Init, NumbersValid
<1>2. Init => NumInv
  BY <1>1, TypeInit DEF NumInv
<1> QED BY <1>2, NumbersStep, PTL DEF Spec

\* With valid numbers a step of a pass edits only owned rules.
LEMMA StepEditsOwned ==
  ASSUME NumInv, Next, PassStep, ~stale, NumbersExact
  PROVE  OwnedEdit
<1>1. ASSUME idx \in DOMAIN want, Here.ok, AddSucceeds(Here) PROVE OwnedEdit
  <2>1. RuleOf(Here) \in [tag : Tags, body : Bodies]
    BY <1>1, HereType, RuleOfType DEF NumInv
  <2> QED BY <1>1, <2>1 DEF AddSucceeds, OwnedEdit
<1>2. CASE DeleteOrphan
  <2>1. PICK n \in doomed : DeleteNumSucceeds(n) \/ DeleteNumFails(n)
    BY <1>2 DEF DeleteOrphan
  <2>2. n \in DOMAIN chain /\ chain[n].tag \in Tags
    BY <1>2 DEF DeleteOrphan, NumInv, NumbersValid, NumbersExact
  <2> QED BY <2>1, <2>2 DEF OwnedEdit, DeleteNumSucceeds, DeleteNumFails
<1>3. CASE ReplaceRule
  <2>1. CASE ReplaceSucceeds(LiveNum, Here)
    <3>1. /\ LiveNum \in DOMAIN chain /\ chain[LiveNum].tag = Here.tag
          /\ Here.tag \in Tags /\ Kernel[Here.body] \in Bodies
      BY <1>3, ReplacedTag, BodiesAssumption DEF ReplaceRule, Wanted, NumbersExact
    <3>2. chain' = [chain EXCEPT ![LiveNum] =
                      [tag |-> chain[LiveNum].tag, body |-> Kernel[Here.body]]]
      BY <2>1, <3>1 DEF ReplaceSucceeds, RuleOf
    <3> QED BY <3>1, <3>2 DEF OwnedEdit
  <2>2. CASE ReplaceFails(LiveNum, Here)
    BY <2>2 DEF ReplaceFails, OwnedEdit
  <2> QED BY <1>3, <2>1, <2>2 DEF ReplaceRule
<1>4. CASE AppendRule
  BY <1>1, <1>4 DEF AppendRule, InLoop, Skipped, AddFails, OwnedEdit
<1>5. CASE AppendAll
  BY <1>1, <1>5 DEF AppendAll, AddFails, OwnedEdit
<1>6. CASE WipeDelete
  <2>1. listing[FirstOwned(listing)].tag \in Tags
    BY <1>6, FirstOwnedIsOwned DEF WipeDelete, NumInv, TypeOK
  <2> QED BY <1>6, <2>1 DEF WipeDelete, DeleteSpecSucceeds, DeleteSpecFails, OwnedEdit
<1>7. CASE Intruder
  BY <1>7 DEF PassStep, Intruder, ForeignInsert, ForeignDelete, ForeignFlush, locals
<1>8. CASE Refuse \/ BeginRemoved \/ Resolve \/ ListOrphans \/ ListLive \/ SkipRule
           \/ CheckRule \/ Finish \/ WipeList
  BY <1>8 DEF OwnedEdit, Refuse, BeginRemoved, Resolve, ListOrphans, ListLive, SkipRule,
              CheckRule, Finish, WipeList
<1>9. CASE \E op \in {"full", "hosts"}, d \in DropIns : Begin(op, d)
  BY <1>9 DEF OwnedEdit, Begin
<1> QED BY <1>2, <1>3, <1>4, <1>5, <1>6, <1>7, <1>8, <1>9 DEF Next, Pass

\* For every chain, drop-in and pattern of failing commands: a pass whose chain
\* nobody else edits under its hands, and that can read the lines it takes its rule
\* numbers from, touches no rule that it does not own.
THEOREM OwnedOnly == Spec => OnlyOwnedRulesEdited
<1>1. NumInv /\ [Next]_vars => [PassStep /\ ~stale /\ NumbersExact => OwnedEdit]_vars
  BY StepEditsOwned
<1> QED BY <1>1, NumbersInvariant, PTL DEF Spec, OnlyOwnedRulesEdited

-----------------------------------------------------------------------------
\* Rules whose @host does not resolve.

GatedTags == {want[k].tag : k \in {j \in DOMAIN want : Gated(j)}}

\* gated_live is computed from the listing: a tag without an address that is in
\* the chain is in the listing too, unless the listing failed and nothing is
\* replaced.  So once the pass deletes everything it owns, no such rule is left.
GatedSafe ==
  /\ pc \in {"apply", "replace"} /\ listing # <<>> =>
       GatedTags \cap OwnedTags(chain) \subseteq OwnedTags(listing)
  /\ pc \in {"wipe", "wipe_delete", "append_all"} =>
       GatedTags \cap OwnedTags(chain) = {}

GatedInv == NumInv /\ GatedSafe

\* A tag with an address is not a tag without one.
LEMMA HereNotGated ==
  ASSUME TypeOK, idx \in DOMAIN want, Here.ok
  PROVE  Here.tag \notin GatedTags
BY DEF TypeOK, GatedTags, Gated, Here, DistinctTags

LEMMA AddedTags ==
  ASSUME TypeOK, idx \in DOMAIN want, Here.ok, AddSucceeds(Here)
  PROVE  /\ OwnedTags(chain') \subseteq OwnedTags(chain) \cup {Here.tag}
         /\ \A n \in DOMAIN chain : n \in DOMAIN chain' /\ chain'[n] = chain[n]
<1>1. RuleOf(Here) \in Rule /\ RuleOf(Here).tag = Here.tag
  BY HereType, RuleOfType
<1>2. /\ chain' \in Seq(Rule) /\ Len(chain') = Len(chain) + 1
      /\ \A n \in 1 .. Len(chain) : chain'[n] = chain[n]
      /\ chain'[Len(chain) + 1] = RuleOf(Here)
  BY <1>1, AppendProperties DEF TypeOK, AddSucceeds
<1>3. /\ Len(chain) \in Nat /\ DOMAIN chain = 1 .. Len(chain)
      /\ DOMAIN chain' = 1 .. Len(chain) + 1
  BY <1>2, LenProperties DEF TypeOK
<1>4. \A n \in DOMAIN chain' : n \in DOMAIN chain \/ n = Len(chain) + 1
  BY <1>3
<1>5. OwnedTags(chain') \subseteq OwnedTags(chain) \cup {Here.tag}
  BY <1>1, <1>2, <1>3, <1>4 DEF OwnedTags
<1> QED BY <1>2, <1>3, <1>5

LEMMA ReplacedTags ==
  ASSUME TypeOK, idx \in DOMAIN want, Here.ok, NEW n, ReplaceSucceeds(n, Here)
  PROVE  OwnedTags(chain') \subseteq OwnedTags(chain) \cup {Here.tag}
<1>1. RuleOf(Here).tag = Here.tag
  BY HereType, RuleOfType
<1>2. DOMAIN chain' = DOMAIN chain
      /\ \A m \in DOMAIN chain : chain'[m] = chain[m] \/ chain'[m] = RuleOf(Here)
  BY DEF ReplaceSucceeds
<1> QED BY <1>1, <1>2 DEF OwnedTags

\* Nobody but a pass adds a rule with an owned tag.
LEMMA IntruderTags ==
  ASSUME TypeOK, Intruder
  PROVE  OwnedTags(chain') \subseteq OwnedTags(chain)
<1>1. CASE ForeignInsert
  <2>1. PICK r \in ForeignRules, n \in 1 .. Len(chain) + 1 : chain' = With(chain, n, r)
    BY <1>1 DEF ForeignInsert
  <2>2. r \in Rule /\ r.tag \notin Tags
    BY ForeignAssumption, TagsAssumption DEF Rule
  <2>3. chain \in Seq(Rule)
    BY DEF TypeOK
  <2> QED BY <2>1, <2>2, <2>3, WithTags
<1>2. CASE ForeignDelete
  BY <1>2, WithoutKeeps DEF ForeignDelete, TypeOK
<1>3. CASE ForeignFlush
  BY <1>3, EmptySeq, LenProperties DEF ForeignFlush, OwnedTags
<1> QED BY <1>1, <1>2, <1>3 DEF Intruder

LEMMA GatedReplace == GatedInv /\ ReplaceRule => GatedSafe'
<1> SUFFICES ASSUME GatedInv, ReplaceRule PROVE GatedSafe'
  OBVIOUS
<1>1. /\ idx \in DOMAIN want /\ Here.ok /\ IsLive /\ listing # <<>>
      /\ GatedTags' = GatedTags /\ listing' = listing /\ TypeOK
  <2>1. TypeOK /\ pc = "replace" /\ UNCHANGED <<want, listing>>
    BY DEF GatedInv, NumInv, ReplaceRule
  <2>2. listing # <<>>
    BY <2>1, EmptySeq, LenProperties DEF TypeOK, IsLive, OwnedTags
  <2> QED BY <2>1, <2>2 DEF TypeOK, GatedTags, Gated
<1>2. GatedTags \cap OwnedTags(chain) \subseteq OwnedTags(listing)
  BY <1>1 DEF GatedInv, GatedSafe, ReplaceRule
<1>3. CASE ReplaceSucceeds(LiveNum, Here) /\ pc' = "apply"
  <2>1. OwnedTags(chain') \subseteq OwnedTags(chain) \cup {Here.tag}
    BY <1>1, <1>3, ReplacedTags
  <2> QED BY <1>1, <1>2, <1>3, <2>1, HereNotGated DEF GatedSafe
<1>4. CASE ReplaceFails(LiveNum, Here) /\ AfterFailedReplace
  <2>1. CASE GatedLive
    BY <1>1, <1>2, <1>4, <2>1 DEF GatedSafe, AfterFailedReplace, ReplaceFails
  <2>2. CASE ~GatedLive
    <3>1. GatedTags \cap OwnedTags(listing) = {}
      BY <2>2 DEF GatedLive, GatedTags
    <3> QED BY <1>1, <1>2, <1>4, <2>2, <3>1 DEF GatedSafe, AfterFailedReplace, ReplaceFails
  <2> QED BY <2>1, <2>2
<1> QED BY <1>3, <1>4 DEF ReplaceRule

LEMMA GatedAppend == GatedInv /\ (AppendRule \/ AppendAll) => GatedSafe'
<1> SUFFICES ASSUME GatedInv, AppendRule \/ AppendAll PROVE GatedSafe'
  OBVIOUS
<1>1. TypeOK /\ GatedTags' = GatedTags /\ listing' = listing /\ idx \in DOMAIN want
  BY DEF GatedInv, NumInv, AppendRule, AppendAll, InLoop, GatedTags, Gated
<1>2. GatedTags \cap OwnedTags(chain') \subseteq GatedTags \cap OwnedTags(chain)
  <2>1. CASE UNCHANGED chain
    BY <2>1
  <2>2. CASE Here.ok /\ AddSucceeds(Here)
    BY <1>1, <2>2, AddedTags, HereNotGated
  <2> QED BY <2>1, <2>2 DEF AppendRule, AppendAll, Skipped, AddFails
<1>3. CASE AppendRule
  <2>1. pc = "apply" /\ pc' \in {"apply", "idle"}
    BY <1>3 DEF AppendRule, InLoop, Return
  <2> QED BY <1>1, <1>2, <2>1 DEF GatedInv, GatedSafe
<1>4. CASE AppendAll
  <2>1. pc = "append_all" /\ pc' \in {"append_all", "idle"}
    BY <1>4 DEF AppendAll, Return
  <2> QED BY <1>1, <1>2, <2>1 DEF GatedInv, GatedSafe
<1> QED BY <1>3, <1>4

LEMMA GatedWipe == GatedInv /\ (WipeList \/ WipeDelete) => GatedSafe'
<1> SUFFICES ASSUME GatedInv, WipeList \/ WipeDelete PROVE GatedSafe'
  OBVIOUS
<1>1. /\ TypeOK /\ GatedTags' = GatedTags
      /\ GatedTags \cap OwnedTags(chain) = {}
      /\ pc' \in {"wipe", "wipe_delete", "append_all", "idle"}
  <2>1. pc' \in {"wipe", "wipe_delete", "append_all", "idle"}
    BY AfterWipeResult DEF WipeList, WipeDelete
  <2> QED BY <2>1 DEF GatedInv, NumInv, GatedSafe, WipeList, WipeDelete, GatedTags, Gated
<1>2. OwnedTags(chain') \subseteq OwnedTags(chain)
  <2>1. CASE UNCHANGED chain
    BY <2>1
  <2>2. CASE \E r : DeleteSpecSucceeds(r)
    BY <1>1, <2>2, WithoutKeeps DEF DeleteSpecSucceeds, TypeOK
  <2> QED BY <2>1, <2>2 DEF WipeList, WipeDelete, DeleteSpecFails
<1> QED BY <1>1, <1>2 DEF GatedSafe

LEMMA GatedStep == GatedInv /\ [Next]_vars => GatedInv'
<1> SUFFICES ASSUME GatedInv, [Next]_vars PROVE GatedSafe'
  BY NumbersStep DEF GatedInv
<1>1. CASE Refuse \/ Resolve \/ ListOrphans \/ DeleteOrphan \/ Finish
  BY <1>1 DEF GatedSafe, Refuse, Resolve, ListOrphans, DeleteOrphan, Finish, Return
<1>2. CASE \E op \in {"full", "hosts"}, d \in DropIns : Begin(op, d)
  BY <1>2 DEF GatedSafe, Begin
<1>3. CASE BeginRemoved
  <2>1. GatedTags' = {}
    BY <1>3, EmptySeq, LenProperties DEF BeginRemoved, GatedTags
  <2> QED BY <1>3, <2>1 DEF GatedSafe, BeginRemoved
<1>4. CASE ListLive
  <2>1. listing' = chain \/ listing' = <<>>
    BY <1>4, ListType DEF GatedInv, NumInv, ListLive
  <2> QED BY <1>4, <2>1 DEF GatedSafe, ListLive
<1>5. CASE SkipRule
  BY <1>5 DEF GatedInv, GatedSafe, SkipRule, InLoop, GatedTags, Gated
<1>6. CASE CheckRule
  BY <1>6 DEF GatedInv, GatedSafe, CheckRule, InLoop, GatedTags, Gated
<1>7. CASE Intruder
  <2>1. OwnedTags(chain') \subseteq OwnedTags(chain)
    BY <1>7, IntruderTags DEF GatedInv, NumInv
  <2>2. UNCHANGED <<pc, want, listing>>
    BY <1>7 DEF Intruder, ForeignInsert, ForeignDelete, ForeignFlush, locals
  <2> QED BY <2>1, <2>2 DEF GatedInv, GatedSafe, GatedTags, Gated
<1>8. CASE UNCHANGED vars
  BY <1>8 DEF GatedInv, GatedSafe, vars, GatedTags, Gated
<1> QED
  BY <1>1, <1>2, <1>3, <1>4, <1>5, <1>6, <1>7, <1>8, GatedReplace, GatedAppend, GatedWipe
  DEF Next, Pass

\* With the gating invariant a step of a pass keeps the rules without address.
LEMMA StepKeepsGated ==
  ASSUME GatedInv, Next, PassStep, ~stale, NumbersExact, pc # "idle",
         NEW k \in DOMAIN want, NEW n \in DOMAIN chain,
         Gated(k), chain[n].tag = want[k].tag
  PROVE  \E m \in DOMAIN chain' : chain'[m] = chain[n]
<1>1. /\ TypeOK /\ chain \in Seq(Rule)
      /\ want[k].tag \in GatedTags /\ want[k].tag \in Tags /\ want[k].tag \in ConfigTags
  <2>1. TypeOK /\ chain \in Seq(Rule) /\ want \in Seq(Wanted)
    BY DEF GatedInv, NumInv, TypeOK
  <2>2. want[k] \in Wanted
    BY <2>1, LenProperties
  <2>3. want[k].tag \in Tags
    BY <2>2 DEF Wanted
  <2> QED BY <2>1, <2>3 DEF GatedTags, ConfigTags, Gated
<1>2. CASE UNCHANGED chain
  BY <1>2
<1>3. CASE DeleteOrphan
  <2>1. PICK d \in doomed : DeleteNumSucceeds(d) \/ DeleteNumFails(d)
    BY <1>3 DEF DeleteOrphan
  <2>2. chain[d].tag \notin ConfigTags
    BY <1>3 DEF DeleteOrphan, GatedInv, NumInv, NumbersValid, NumbersExact
  <2>3. d # n
    BY <1>1, <2>2
  <2> QED BY <1>1, <2>1, <2>3, WithoutKeeps DEF DeleteNumSucceeds, DeleteNumFails
<1>4. CASE ReplaceRule
  <2>1. CASE ReplaceSucceeds(LiveNum, Here)
    <3>1. chain[LiveNum].tag = Here.tag /\ Here.tag \notin GatedTags
      BY <1>1, <1>4, ReplacedTag, HereNotGated DEF ReplaceRule, GatedInv, TypeOK, NumbersExact
    <3>2. LiveNum # n
      BY <1>1, <3>1
    <3> QED BY <2>1, <3>2 DEF ReplaceSucceeds
  <2>2. CASE ReplaceFails(LiveNum, Here)
    BY <2>2 DEF ReplaceFails
  <2> QED BY <1>4, <2>1, <2>2 DEF ReplaceRule
<1>5. CASE AppendRule \/ AppendAll
  <2>1. CASE idx \in DOMAIN want /\ Here.ok /\ AddSucceeds(Here)
    BY <1>1, <2>1, AddedTags
  <2> QED BY <1>5, <2>1 DEF AppendRule, AppendAll, InLoop, Skipped, AddFails
<1>6. CASE WipeDelete
  <2> DEFINE r == listing[FirstOwned(listing)]
  <2>1. ReadsOwned(r) /\ Readable(r)
    BY <1>6, FirstOwnedIsOwned DEF WipeDelete, GatedInv, NumInv, TypeOK
  <2> HIDE DEF r
  <2>2. CASE DeleteSpecSucceeds(r)
    <3>1. PICK d \in DOMAIN chain : chain[d] = r /\ chain' = Without(chain, d)
      BY <2>2 DEF DeleteSpecSucceeds
    <3>2. r.tag \in OwnedTags(chain)
      BY <2>1, <3>1 DEF OwnedTags
    <3>3. r.tag \notin GatedTags
      BY <1>6, <3>2 DEF WipeDelete, GatedInv, GatedSafe
    <3>4. d # n
      BY <1>1, <3>1, <3>3
    <3> QED BY <1>1, <3>1, <3>4, WithoutKeeps
  <2>3. CASE DeleteSpecFails(r)
    BY <2>3 DEF DeleteSpecFails
  <2> QED BY <1>6, <2>2, <2>3 DEF WipeDelete, r
<1>7. CASE Intruder
  BY <1>7 DEF PassStep, Intruder, ForeignInsert, ForeignDelete, ForeignFlush, locals
<1>8. CASE Refuse \/ BeginRemoved \/ Resolve \/ ListOrphans \/ ListLive \/ SkipRule
           \/ CheckRule \/ Finish \/ WipeList
  BY <1>2, <1>8 DEF Refuse, BeginRemoved, Resolve, ListOrphans, ListLive, SkipRule,
                    CheckRule, Finish, WipeList
<1>9. CASE \E op \in {"full", "hosts"}, d \in DropIns : Begin(op, d)
  BY <1>2, <1>9 DEF Begin
<1> QED BY <1>3, <1>4, <1>5, <1>6, <1>7, <1>8, <1>9 DEF Next, Pass

LEMMA GatedInit == Init => GatedInv
<1>1. Init => NumInv
  BY TypeInit DEF NumInv, NumbersValid, Init
<1> QED BY <1>1 DEF GatedInv, GatedSafe, Init

\* A rule whose @host does not resolve survives every pass over its file, for
\* every drop-in, chain and pattern of failing commands, under the same conditions.
THEOREM GatedKept == Spec => GatedRuleKept
<1>1. Spec => []GatedInv
  BY GatedInit, GatedStep, PTL DEF Spec
<1>2. GatedInv /\ [Next]_vars =>
        [PassStep /\ ~stale /\ NumbersExact /\ pc # "idle" =>
           \A k \in DOMAIN want, n \in DOMAIN chain :
             Gated(k) /\ chain[n].tag = want[k].tag =>
               \E m \in DOMAIN chain' : chain'[m] = chain[n]]_vars
  BY StepKeepsGated
<1> QED BY <1>1, <1>2, PTL DEF Spec, GatedRuleKept

-----------------------------------------------------------------------------
\* -R only for rules that changed.

\* The kernel has no rule in a chain that does not exist.
LEMMA NotInMissingChain ==
  ASSUME TypeOK, ~exists, NEW r
  PROVE  ~InChain(r)
BY EmptySeq, LenProperties DEF TypeOK, InChain

LEMMA ReplaceChangedStep ==
  ASSUME "C" \notin MayFail, NumInv, ReplaceOnlyChanged, [Next]_vars
  PROVE  ReplaceOnlyChanged'
<1>1. CASE CheckRule
  <2> SUFFICES ASSUME pc' = "replace" PROVE ~InChain(RuleOf(Here))'
    BY DEF ReplaceOnlyChanged
  <2>1. CheckFails(Here) /\ UNCHANGED <<chain, want, idx>>
    BY <1>1 DEF CheckRule, InLoop
  <2>2. ~InChain(RuleOf(Here))
    BY <2>1, NotInMissingChain DEF CheckFails, CheckSucceeds, CanFail, NumInv
  <2> QED BY <2>1, <2>2 DEF InChain, RuleOf, Here
<1>2. CASE Intruder
  BY <1>2 DEF ReplaceOnlyChanged, Intruder, ForeignInsert, ForeignDelete, ForeignFlush
<1>3. CASE Refuse \/ BeginRemoved \/ Resolve \/ ListOrphans \/ DeleteOrphan \/ ListLive
           \/ SkipRule \/ AppendRule \/ Finish \/ AppendAll
  <2>1. pc' # "replace"
    BY <1>3 DEF Refuse, BeginRemoved, Resolve, ListOrphans, DeleteOrphan, ListLive,
                SkipRule, AppendRule, Finish, AppendAll, InLoop, Return
  <2> QED BY <2>1 DEF ReplaceOnlyChanged
<1>4. CASE \E op \in {"full", "hosts"}, d \in DropIns : Begin(op, d)
  BY <1>4 DEF ReplaceOnlyChanged, Begin
<1>5. CASE ReplaceRule
  BY <1>5 DEF ReplaceOnlyChanged, ReplaceRule, AfterFailedReplace
<1>6. CASE WipeList \/ WipeDelete
  <2>1. pc' \in {"wipe", "wipe_delete", "append_all", "idle"}
    BY <1>6, AfterWipeResult DEF WipeList, WipeDelete
  <2> QED BY <2>1 DEF ReplaceOnlyChanged
<1>7. CASE UNCHANGED vars
  BY <1>7 DEF ReplaceOnlyChanged, vars, InChain, RuleOf, Here
<1> QED BY <1>1, <1>2, <1>3, <1>4, <1>5, <1>6, <1>7 DEF Next, Pass

\* Where iptables -C answers what the kernel has, -R never resets the counters
\* of a rule that is already as the drop-in wants it, however it is spelt.
THEOREM OnlyChangedReplaced == "C" \notin MayFail => (Spec => []ReplaceOnlyChanged)
<1> SUFFICES ASSUME "C" \notin MayFail PROVE Spec => []ReplaceOnlyChanged
  OBVIOUS
<1>1. Init => ReplaceOnlyChanged
  BY DEF Init, ReplaceOnlyChanged
<1>2. NumInv /\ ReplaceOnlyChanged /\ [Next]_vars => ReplaceOnlyChanged'
  BY ReplaceChangedStep
<1> QED BY <1>1, <1>2, NumbersInvariant, PTL DEF Spec

-----------------------------------------------------------------------------
\* One rule for each tag.

\* What the property needs of the world during a pass: nobody else edits the
\* chain, a listing is what the chain is and a rule that was just listed can be
\* deleted (apply_list_fails and apply_wipe_fails show why), its lines can be
\* read, and the deletion loop is long enough.
OwnChain ==
  /\ ~Concurrent
  /\ {"S", "Dspec"} \cap MayFail = {}
  /\ Quoted = {} /\ Garbled = {}
  /\ IsFiniteSet(Tags) /\ Cardinality(Tags) <= DeleteMax

\* Then a pass sees every owned rule of a listing.
LEMMA ReadsAll ==
  ASSUME OwnChain, NEW s, NEW t
  PROVE  t \in OwnedTags(s) <=> t \in Tags /\ \E n \in DOMAIN s : s[n].tag = t
BY DEF OwnChain, OwnedTags, ReadsOwned, Readable

LEMMA TagsRead == ASSUME OwnChain, NEW s PROVE OwnedTags(s) = TagsOf(s)
BY DEF OwnChain, OwnedTags, ReadsOwned, Readable, TagsOf

LEMMA LinesRead == ASSUME OwnChain PROVE AllRead /\ \A r : Readable(r)
BY DEF OwnChain, AllRead, Readable

OnePerTag(rules) ==
  \A m, n \in DOMAIN rules :
    rules[m].tag \in Tags /\ rules[m].tag = rules[n].tag => m = n

Passed == {want[k].tag : k \in {j \in DOMAIN want : j < idx}}

\* Every owned rule of the chain was listed, or was appended for an entry that
\* the loop has passed; and a wipe still has as many iterations as there are
\* owned rules.
OnceSafe ==
  /\ OnePerTag(chain)
  /\ pc \in {"apply", "replace"} =>
       ~stale /\ OwnedTags(chain) \subseteq OwnedTags(listing) \cup Passed
  /\ pc = "wipe_delete" => listing = chain
  /\ pc \in {"wipe", "wipe_delete"} =>
       Cardinality(OwnedTags(chain)) + idx <= DeleteMax + 1
  /\ pc = "append_all" => OwnedTags(chain) \subseteq Passed

OnceInv == NumInv /\ OnceSafe

LEMMA OnceWithout ==
  ASSUME OwnChain, NEW s \in Seq(Rule), OnePerTag(s), NEW n \in DOMAIN s
  PROVE  /\ OnePerTag(Without(s, n))
         /\ s[n].tag \in Tags => OwnedTags(Without(s, n)) = OwnedTags(s) \ {s[n].tag}
<1> DEFINE w == Without(s, n)
           at(i) == IF i < n THEN i ELSE i + 1
<1>1. /\ DOMAIN w = 1 .. Len(s) - 1
      /\ \A i \in 1 .. n - 1 : w[i] = s[i]
      /\ \A i \in n .. Len(s) - 1 : w[i] = s[i + 1]
      /\ \A m \in DOMAIN s : m # n => \E i \in DOMAIN w : w[i] = s[m]
      /\ Len(s) \in Nat /\ DOMAIN s = 1 .. Len(s)
  BY WithoutProperties, WithoutKeeps, LenProperties
<1> HIDE DEF w
<1>2. ASSUME NEW i \in DOMAIN w
      PROVE  at(i) \in DOMAIN s /\ at(i) # n /\ w[i] = s[at(i)]
  <2>1. CASE i < n
    BY <2>1, <1>1
  <2>2. CASE ~(i < n)
    <3>1. i \in n .. Len(s) - 1 /\ i + 1 \in DOMAIN s /\ i + 1 # n
      BY <2>2, <1>1
    <3> QED BY <2>2, <3>1, <1>1
  <2> QED BY <2>1, <2>2
<1>3. ASSUME NEW i \in DOMAIN w, NEW j \in DOMAIN w, at(i) = at(j) PROVE i = j
  BY <1>1, <1>3
<1> HIDE DEF at
<1>4. OnePerTag(w)
  <2> SUFFICES ASSUME NEW i \in DOMAIN w, NEW j \in DOMAIN w,
                      w[i].tag \in Tags, w[i].tag = w[j].tag
               PROVE  i = j
    BY DEF OnePerTag
  <2>1. at(i) = at(j)
    BY <1>2 DEF OnePerTag
  <2> QED BY <1>3, <2>1
<1>5. ASSUME s[n].tag \in Tags PROVE OwnedTags(w) = OwnedTags(s) \ {s[n].tag}
  <2>1. ASSUME NEW t \in OwnedTags(w) PROVE t \in OwnedTags(s) \ {s[n].tag}
    <3>1. PICK i \in DOMAIN w : w[i].tag = t
      BY ReadsAll
    <3>2. at(i) \in DOMAIN s /\ at(i) # n /\ s[at(i)].tag = t /\ t \in Tags
      BY <1>2, <3>1, ReadsAll
    <3>3. t # s[n].tag
      BY <3>2 DEF OnePerTag
    <3> QED BY <3>2, <3>3, ReadsAll
  <2>2. ASSUME NEW t \in OwnedTags(s), t # s[n].tag PROVE t \in OwnedTags(w)
    <3>1. PICK m \in DOMAIN s : s[m].tag = t /\ t \in Tags
      BY ReadsAll
    <3>2. PICK i \in DOMAIN w : w[i] = s[m]
      BY <1>1, <2>2, <3>1
    <3> QED BY <3>1, <3>2, ReadsAll
  <2> QED BY <2>1, <2>2
<1> QED BY <1>4, <1>5 DEF w

LEMMA OnceWith ==
  ASSUME NEW s \in Seq(Rule), OnePerTag(s), NEW n \in 1 .. Len(s) + 1,
         NEW r \in Rule, r.tag \notin Tags
  PROVE  OnePerTag(With(s, n, r))
<1> DEFINE w == With(s, n, r)
           at(i) == IF i < n THEN i ELSE i - 1
<1>1. /\ DOMAIN w = 1 .. Len(s) + 1
      /\ \A i \in 1 .. n - 1 : w[i] = s[i]
      /\ \A i \in n + 1 .. Len(s) + 1 : w[i] = s[i - 1]
      /\ \A i \in 1 .. Len(s) + 1 :
           \/ i = n /\ w[i] = r
           \/ i \in DOMAIN s /\ w[i] = s[i]
           \/ i - 1 \in DOMAIN s /\ w[i] = s[i - 1]
      /\ Len(s) \in Nat /\ DOMAIN s = 1 .. Len(s)
  BY WithProperties, LenProperties
<1>2. w[n] = r
  BY WithProperties
<1> HIDE DEF w
<1>3. ASSUME NEW i \in DOMAIN w, w[i].tag \in Tags
      PROVE  i # n /\ at(i) \in DOMAIN s /\ w[i] = s[at(i)]
  <2>1. i # n
    BY <1>2, <1>3
  <2>2. CASE i < n
    BY <2>2, <1>1
  <2>3. CASE i > n
    <3>1. i \in n + 1 .. Len(s) + 1 /\ i - 1 \in DOMAIN s
      BY <2>3, <1>1
    <3> QED BY <2>3, <3>1, <1>1
  <2> QED BY <2>1, <2>2, <2>3, <1>1
<1>4. ASSUME NEW i \in DOMAIN w, NEW j \in DOMAIN w, i # n, j # n, at(i) = at(j)
      PROVE  i = j
  BY <1>1, <1>4
<1> HIDE DEF at
<1>5. OnePerTag(w)
  <2> SUFFICES ASSUME NEW i \in DOMAIN w, NEW j \in DOMAIN w,
                      w[i].tag \in Tags, w[i].tag = w[j].tag
               PROVE  i = j
    BY DEF OnePerTag
  <2>1. at(i) = at(j) /\ i # n /\ j # n
    BY <1>3 DEF OnePerTag
  <2> QED BY <1>4, <2>1
<1> QED BY <1>5 DEF w

LEMMA OnceAdd ==
  ASSUME OwnChain, TypeOK, OnePerTag(chain), idx \in DOMAIN want, Here.ok, AddSucceeds(Here),
         Here.tag \notin OwnedTags(chain)
  PROVE  OnePerTag(chain')
<1>1. RuleOf(Here) \in Rule /\ RuleOf(Here).tag = Here.tag
  BY HereType, RuleOfType
<1>2. /\ chain' \in Seq(Rule) /\ Len(chain') = Len(chain) + 1
      /\ \A n \in 1 .. Len(chain) : chain'[n] = chain[n]
      /\ chain'[Len(chain) + 1] = RuleOf(Here)
  BY <1>1, AppendProperties DEF TypeOK, AddSucceeds
<1>3. /\ Len(chain) \in Nat /\ DOMAIN chain = 1 .. Len(chain)
      /\ DOMAIN chain' = 1 .. Len(chain) + 1
  BY <1>2, LenProperties DEF TypeOK
<1>4. \A n \in DOMAIN chain : chain[n].tag \in Tags => chain[n].tag # Here.tag
  BY ReadsAll
<1>5. \A n \in DOMAIN chain' : n \in DOMAIN chain \/ n = Len(chain) + 1
  BY <1>3
<1> QED BY <1>1, <1>2, <1>3, <1>4, <1>5 DEF OnePerTag

\* An entry's tag is not that of an earlier entry.
LEMMA HereNotPassed ==
  ASSUME TypeOK, idx \in DOMAIN want
  PROVE  /\ Here.tag \notin Passed
         /\ UNCHANGED want /\ idx' = idx + 1 => Passed' = Passed \cup {Here.tag}
         /\ UNCHANGED want /\ idx' = idx => Passed' = Passed
<1>1. idx \in Nat /\ DOMAIN want \subseteq Nat
  BY LenProperties DEF TypeOK
<1>2. \A j \in DOMAIN want : j < idx + 1 <=> j < idx \/ j = idx
  BY <1>1
<1> QED BY <1>1, <1>2 DEF TypeOK, DistinctTags, Passed, Here

LEMMA OwnedTagsFinite ==
  ASSUME OwnChain, NEW s
  PROVE  /\ IsFiniteSet(OwnedTags(s)) /\ Cardinality(OwnedTags(s)) \in Nat
         /\ Cardinality(OwnedTags(s)) <= DeleteMax
<1>1. OwnedTags(s) \subseteq Tags
  BY ReadsAll
<1>2. /\ IsFiniteSet(Tags) /\ Cardinality(Tags) <= DeleteMax
      /\ DeleteMax \in Nat
  BY SwitchAssumption DEF OwnChain
<1>3. /\ IsFiniteSet(OwnedTags(s)) /\ Cardinality(OwnedTags(s)) <= Cardinality(Tags)
      /\ Cardinality(Tags) \in Nat /\ Cardinality(OwnedTags(s)) \in Nat
  BY <1>1, <1>2, FS_Subset, FS_CardinalityType
<1> QED BY <1>2, <1>3

\* A listing that does not fail is the chain.
LEMMA ListExact ==
  ASSUME OwnChain, TypeOK, List
  PROVE  listing' = chain /\ stale' = FALSE
BY DEF OwnChain, TypeOK, List, CanFail

LEMMA OnceReplace == OwnChain /\ OnceInv /\ ReplaceRule => OnceSafe'
<1> SUFFICES ASSUME OwnChain, OnceInv, ReplaceRule PROVE OnceSafe'
  OBVIOUS
<1>1. /\ TypeOK /\ pc = "replace" /\ ~stale /\ idx \in DOMAIN want /\ Here.ok
      /\ OwnedTags(chain) \subseteq OwnedTags(listing) \cup Passed
      /\ OnePerTag(chain) /\ UNCHANGED <<mode, want, listing, stale>>
  BY DEF OnceInv, OnceSafe, NumInv, TypeOK, ReplaceRule
<1>2. idx' = idx + 1 => Passed \subseteq Passed'
  BY <1>1, HereNotPassed
<1>4. CASE ReplaceSucceeds(LiveNum, Here) /\ pc' = "apply" /\ idx' = idx + 1
  <2>1. chain[LiveNum].tag = Here.tag /\ RuleOf(Here).tag = Here.tag
    BY <1>1, ReplacedTag, RuleOfType, LinesRead DEF OnceInv
  <2>2. DOMAIN chain' = DOMAIN chain
        /\ \A n \in DOMAIN chain : chain'[n].tag = chain[n].tag
    BY <1>4, <2>1 DEF ReplaceSucceeds
  <2>3. OnePerTag(chain') /\ OwnedTags(chain') = OwnedTags(chain)
    <3>1. OnePerTag(chain')
      BY <1>1, <2>2 DEF OnePerTag
    <3>2. TagsOf(chain') = TagsOf(chain)
      BY <2>2 DEF TagsOf
    <3> QED BY <3>1, <3>2, TagsRead
  <2>4. OwnedTags(chain') \subseteq OwnedTags(listing') \cup Passed'
    BY <1>1, <1>2, <1>4, <2>3
  <2> QED BY <1>1, <1>4, <2>3, <2>4 DEF OnceSafe
<1>5. CASE ReplaceFails(LiveNum, Here) /\ AfterFailedReplace
  <2>1. UNCHANGED chain
    BY <1>5 DEF ReplaceFails
  <2>2. CASE pc' = "apply" /\ idx' = idx + 1
    <3>1. OwnedTags(chain') \subseteq OwnedTags(listing') \cup Passed'
      BY <1>1, <1>2, <2>1, <2>2
    <3> QED BY <1>1, <2>1, <2>2, <3>1 DEF OnceSafe
  <2>3. CASE pc' = "wipe" /\ idx' = 1
    <3>1. Cardinality(OwnedTags(chain')) + idx' <= DeleteMax + 1
      BY <2>3, OwnedTagsFinite, SwitchAssumption
    <3> QED BY <1>1, <2>1, <2>3, <3>1 DEF OnceSafe
  <2> QED BY <1>5, <2>2, <2>3 DEF AfterFailedReplace
<1> QED BY <1>4, <1>5 DEF ReplaceRule

LEMMA OnceAppend == OwnChain /\ OnceInv /\ (AppendRule \/ AppendAll) => OnceSafe'
<1> SUFFICES ASSUME OwnChain, OnceInv, AppendRule \/ AppendAll PROVE OnceSafe'
  OBVIOUS
<1>1. /\ TypeOK /\ idx \in DOMAIN want /\ OnePerTag(chain)
      /\ UNCHANGED <<mode, want, listing, stale>>
  BY DEF OnceInv, OnceSafe, NumInv, AppendRule, AppendAll, InLoop
<1>2. Here.tag \notin Passed /\ (idx' = idx + 1 => Passed' = Passed \cup {Here.tag})
  BY <1>1, HereNotPassed
<1>4. CASE AppendRule
  <2>1. /\ pc = "apply" /\ ~stale /\ Here.ok /\ Here.tag \notin OwnedTags(listing)
        /\ OwnedTags(chain) \subseteq OwnedTags(listing) \cup Passed
    BY <1>4 DEF AppendRule, InLoop, Skipped, IsLive, OnceInv, OnceSafe
  <2>2. CASE AddSucceeds(Here) /\ idx' = idx + 1 /\ UNCHANGED pc
    <3>1. OnePerTag(chain')
      BY <1>1, <1>2, <2>1, <2>2, OnceAdd
    <3>2. OwnedTags(chain') \subseteq OwnedTags(chain) \cup {Here.tag}
      BY <1>1, <2>1, <2>2, AddedTags
    <3>3. OwnedTags(chain') \subseteq OwnedTags(listing') \cup Passed'
      BY <1>1, <1>2, <2>1, <2>2, <3>2
    <3> QED BY <1>1, <2>1, <2>2, <3>1, <3>3 DEF OnceSafe
  <2>3. CASE AddFails(Here) /\ pc' = "idle"
    BY <1>1, <2>3 DEF AddFails, OnceSafe
  <2> QED BY <1>4, <2>2, <2>3 DEF AppendRule, Return
<1>5. CASE AppendAll
  <2>1. pc = "append_all" /\ OwnedTags(chain) \subseteq Passed
    BY <1>5 DEF AppendAll, OnceInv, OnceSafe
  <2>2. CASE Here.ok /\ AddSucceeds(Here) /\ idx' = idx + 1 /\ UNCHANGED pc
    <3>1. OnePerTag(chain')
      BY <1>1, <1>2, <2>1, <2>2, OnceAdd
    <3>2. OwnedTags(chain') \subseteq OwnedTags(chain) \cup {Here.tag}
      BY <1>1, <2>2, AddedTags
    <3>3. OwnedTags(chain') \subseteq Passed'
      BY <1>2, <2>1, <2>2, <3>2
    <3> QED BY <2>1, <2>2, <3>1, <3>3 DEF OnceSafe
  <2>3. CASE AddFails(Here) /\ pc' = "idle"
    BY <1>1, <2>3 DEF AddFails, OnceSafe
  <2>4. CASE idx' = idx + 1 /\ UNCHANGED <<chain, pc>>
    <3>1. OwnedTags(chain') \subseteq Passed'
      BY <1>2, <2>1, <2>4
    <3> QED BY <1>1, <2>1, <2>4, <3>1 DEF OnceSafe
  <2> QED BY <1>5, <2>2, <2>3, <2>4 DEF AppendAll, Return
<1> QED BY <1>4, <1>5

LEMMA OnceWipe == OwnChain /\ OnceInv /\ (WipeList \/ WipeDelete) => OnceSafe'
<1> SUFFICES ASSUME OwnChain, OnceInv, WipeList \/ WipeDelete PROVE OnceSafe'
  OBVIOUS
<1>1. /\ TypeOK /\ OnePerTag(chain) /\ UNCHANGED <<mode, want>>
      /\ idx \in Nat \ {0} /\ DeleteMax \in Nat
      /\ Cardinality(OwnedTags(chain)) \in Nat
      /\ Cardinality(OwnedTags(chain)) + idx <= DeleteMax + 1
  BY OwnedTagsFinite, SwitchAssumption
  DEF OnceInv, OnceSafe, NumInv, TypeOK, WipeList, WipeDelete
<1>2. ASSUME AfterWipe, UNCHANGED chain, OwnedTags(chain) = {}
      PROVE  OnceSafe'
  <2>1. pc' = "idle" \/ (pc' = "append_all" /\ mode # "removed")
    BY <1>2, AfterWipeResult
  <2> QED BY <1>1, <1>2, <2>1 DEF OnceSafe
<1>3. CASE WipeList
  <2>1. CASE List /\ idx <= DeleteMax
    <3>1. listing' = chain /\ UNCHANGED chain
      BY <1>1, <1>3, <2>1, ListExact DEF WipeList
    <3>2. CASE OwnedTags(listing') = {}
      <4>1. AfterWipe
        BY <1>3, <1>1, <2>1, <3>2 DEF WipeList
      <4> QED BY <1>2, <3>1, <3>2, <4>1
    <3>3. CASE OwnedTags(listing') # {}
      <4>1. pc' = "wipe_delete" /\ UNCHANGED idx
        BY <1>3, <1>1, <2>1, <3>3, LinesRead DEF WipeList
      <4> QED BY <1>1, <3>1, <4>1 DEF OnceSafe
    <3> QED BY <3>2, <3>3
  <2>2. CASE idx > DeleteMax /\ AfterWipe
    <3>1. Cardinality(OwnedTags(chain)) = 0
      BY <1>1, <2>2
    <3>2. OwnedTags(chain) = {}
      BY <3>1, OwnedTagsFinite, FS_EmptySet
    <3> QED BY <1>2, <1>3, <2>2, <3>2 DEF WipeList
  <2> QED BY <1>1, <1>3, <2>1, <2>2 DEF WipeList
<1>4. CASE WipeDelete
  <2>1. /\ listing = chain /\ OwnedTags(chain) # {} /\ chain \in Seq(Rule)
    BY <1>4 DEF WipeDelete, OnceInv, OnceSafe, NumInv, TypeOK
  <2> DEFINE r == listing[FirstOwned(listing)]
  <2>2. InChain(r) /\ r.tag \in Tags
    BY <2>1, FirstOwnedIsOwned DEF InChain
  <2>3. exists
    BY <1>1, <2>2, NotInMissingChain
  <2> HIDE DEF r
  <2>4. DeleteSpecSucceeds(r) /\ pc' = "wipe" /\ idx' = idx + 1
    BY <1>4, <2>2, <2>3 DEF WipeDelete, DeleteSpecFails, OwnChain, CanFail, r
  <2>5. PICK n \in DOMAIN chain : chain[n] = r /\ chain' = Without(chain, n)
    BY <2>4 DEF DeleteSpecSucceeds
  <2>6. OnePerTag(chain') /\ OwnedTags(chain') = OwnedTags(chain) \ {r.tag}
    BY <1>1, <2>1, <2>2, <2>5, OnceWithout
  <2>7. r.tag \in OwnedTags(chain)
    BY <2>2, <2>5, ReadsAll
  <2>8. Cardinality(OwnedTags(chain')) = Cardinality(OwnedTags(chain)) - 1
    BY <2>6, <2>7, OwnedTagsFinite, FS_RemoveElement
  <2>9. Cardinality(OwnedTags(chain')) + idx' <= DeleteMax + 1
    BY <1>1, <2>4, <2>8
  <2> QED BY <2>4, <2>6, <2>9 DEF OnceSafe
<1> QED BY <1>3, <1>4

LEMMA OnceIntruder == OwnChain /\ OnceInv /\ Intruder => OnceSafe'
<1> SUFFICES ASSUME OwnChain, OnceInv, Intruder PROVE OnceSafe'
  OBVIOUS
<1>1. chain \in Seq(Rule) /\ OnePerTag(chain) /\ pc' = "idle"
  BY DEF OnceInv, OnceSafe, NumInv, TypeOK, OwnChain, Intruder, MayIntrude,
         ForeignInsert, ForeignDelete, ForeignFlush
<1>2. OnePerTag(chain')
  <2>1. CASE ForeignInsert
    <3>1. PICK r \in ForeignRules, n \in 1 .. Len(chain) + 1 : chain' = With(chain, n, r)
      BY <2>1 DEF ForeignInsert
    <3>2. r \in Rule /\ r.tag \notin Tags
      BY ForeignAssumption, TagsAssumption DEF Rule
    <3> QED BY <1>1, <3>1, <3>2, OnceWith
  <2>2. CASE ForeignDelete
    BY <1>1, <2>2, OnceWithout DEF ForeignDelete
  <2>3. CASE ForeignFlush
    BY <2>3, EmptySeq, LenProperties DEF ForeignFlush, OnePerTag
  <2> QED BY <2>1, <2>2, <2>3 DEF Intruder
<1> QED BY <1>1, <1>2 DEF OnceSafe

LEMMA OnceStep == OwnChain /\ OnceInv /\ [Next]_vars => OnceInv'
<1> SUFFICES ASSUME OwnChain, OnceInv, [Next]_vars PROVE OnceSafe'
  BY NumbersStep DEF OnceInv
<1>1. CASE Refuse \/ Resolve \/ ListOrphans \/ Finish
  BY <1>1 DEF OnceInv, OnceSafe, Refuse, Resolve, ListOrphans, Finish, Return
<1>7. CASE BeginRemoved
  <2>1. pc' = "wipe" /\ idx' = 1 /\ UNCHANGED chain
    BY <1>7 DEF BeginRemoved
  <2>2. Cardinality(OwnedTags(chain)) + 1 <= DeleteMax + 1
    BY OwnedTagsFinite, SwitchAssumption
  <2> QED BY <2>1, <2>2 DEF OnceInv, OnceSafe
<1>2. CASE \E op \in {"full", "hosts"}, d \in DropIns : Begin(op, d)
  BY <1>2 DEF OnceInv, OnceSafe, Begin
<1>3. CASE DeleteOrphan
  <2>1. PICK n \in doomed : DeleteNumSucceeds(n) \/ DeleteNumFails(n)
    BY <1>3 DEF DeleteOrphan
  <2>2. OnePerTag(chain')
    BY <2>1, OnceWithout
    DEF DeleteNumSucceeds, DeleteNumFails, OnceInv, OnceSafe, NumInv, TypeOK
  <2> QED BY <1>3, <2>2 DEF OnceSafe, DeleteOrphan
<1>4. CASE ListLive
  <2>1. listing' = chain /\ stale' = FALSE /\ UNCHANGED chain /\ pc' = "apply"
    BY <1>4, ListExact DEF ListLive, OnceInv, NumInv
  <2> QED BY <2>1 DEF OnceInv, OnceSafe
<1>5. CASE SkipRule \/ CheckRule
  <2>1. /\ TypeOK /\ idx \in DOMAIN want /\ pc = "apply" /\ pc' \in {"apply", "replace"}
        /\ idx' \in {idx, idx + 1} /\ UNCHANGED <<chain, want, listing, stale>>
    BY <1>5 DEF SkipRule, CheckRule, InLoop, OnceInv, NumInv
  <2>2. Passed \subseteq Passed'
    BY <2>1, HereNotPassed
  <2> QED BY <2>1, <2>2 DEF OnceInv, OnceSafe
<1>6. CASE UNCHANGED vars
  BY <1>6 DEF OnceInv, OnceSafe, vars, Passed
<1> QED
  BY <1>1, <1>2, <1>3, <1>4, <1>5, <1>6, <1>7, OnceReplace, OnceAppend, OnceWipe, OnceIntruder
  DEF Next, Pass

\* README.md:171 "Does not add a second rule for the same tag": for every chain
\* (with other programs editing it between the passes), every drop-in and every
\* pattern of failing -N, -C, -R, -A and -D by number, if listings do not fail.
THEOREM OneRulePerTag == OwnChain => (Spec => []NoDuplicateTag)
<1> SUFFICES ASSUME OwnChain PROVE Spec => []NoDuplicateTag
  OBVIOUS
<1>1. Init => OnceInv
  <2>1. Init => NumInv
    BY TypeInit DEF NumInv, NumbersValid, Init
  <2>2. Init => OnceSafe
    BY EmptySeq, LenProperties DEF Init, OnceSafe, OnePerTag
  <2> QED BY <2>1, <2>2 DEF OnceInv
<1>2. OnceInv /\ [Next]_vars => OnceInv'
  BY OnceStep
<1>3. OnceInv => NoDuplicateTag
  BY DEF OnceInv, OnceSafe, OnePerTag, NoDuplicateTag
<1> QED BY <1>1, <1>2, <1>3, PTL DEF Spec

-----------------------------------------------------------------------------
\* What a pass that returns True has done.

\* What the property needs besides OwnChain: a rule that was just listed can be
\* deleted by its number too (sync_file only logs it when that fails).
CalmChain == OwnChain /\ "Dnum" \notin MayFail

Orphan(r) == r.tag \in Tags \ ConfigTags

\* An entry is in the chain; or its rule could not be replaced and the chain has
\* a rule of the file without an address, which keeps the pass from a wipe.
Applied(k) == InChain(RuleOf(want[k]))
Excused(k) == GatedLive /\ want[k].tag \in TagsOf(chain)

InForce(k) == want[k].active /\ want[k].ok

KernelSpelling ==
  \A n \in DOMAIN chain : chain[n].tag \in Tags => Kernel[chain[n].body] = chain[n].body

OrphansListed ==
  pc = "orphans" => ~stale /\ \A n \in DOMAIN chain : Orphan(chain[n]) => n \in doomed

OrphansGone ==
  pc \in {"apply", "replace", "append_all"} => TagsOf(chain) \subseteq ConfigTags

\* The loop has applied what it has passed, and what lies ahead of it is still as
\* it was listed: this is why equal tokens in the listing are enough to pass over.
LoopApplies ==
  /\ pc \in {"apply", "replace"} =>
       \A k \in DOMAIN want : k < idx /\ InForce(k) => Applied(k) \/ Excused(k)
  /\ pc = "append_all" =>
       \A k \in DOMAIN want : k < idx /\ InForce(k) => Applied(k)

AheadAsListed ==
  pc \in {"apply", "replace"} =>
    \A k \in DOMAIN want, n \in DOMAIN listing :
      idx <= k /\ listing[n].tag = want[k].tag => chain[n] = listing[n]

AllActive == mode = "full" => \A k \in DOMAIN want : want[k].active

AppliedSafe ==
  /\ KernelSpelling
  /\ OrphansListed
  /\ OrphansGone
  /\ LoopApplies
  /\ AheadAsListed
  /\ AllActive
  /\ PassApplied

AppliedInv == OnceInv /\ AppliedSafe

\* Rules added by a pass are spelt as the kernel spells them.
LEMMA RuleOfSpelling ==
  ASSUME NEW w \in Wanted, w.body \in Bodies
  PROVE  Kernel[RuleOf(w).body] = RuleOf(w).body
BY BodiesAssumption DEF RuleOf

LEMMA SpellingAdd ==
  ASSUME TypeOK, KernelSpelling, idx \in DOMAIN want, Here.ok, AddSucceeds(Here)
  PROVE  /\ KernelSpelling'
         /\ \E n \in DOMAIN chain' : chain'[n] = RuleOf(Here)
<1>1. RuleOf(Here) \in Rule /\ Kernel[RuleOf(Here).body] = RuleOf(Here).body
  BY HereType, RuleOfType, RuleOfSpelling
<1>2. /\ chain' \in Seq(Rule) /\ Len(chain') = Len(chain) + 1
      /\ \A n \in 1 .. Len(chain) : chain'[n] = chain[n]
      /\ chain'[Len(chain) + 1] = RuleOf(Here)
  BY <1>1, AppendProperties DEF TypeOK, AddSucceeds
<1>3. /\ Len(chain) \in Nat /\ DOMAIN chain = 1 .. Len(chain)
      /\ DOMAIN chain' = 1 .. Len(chain) + 1
  BY <1>2, LenProperties DEF TypeOK
<1>4. \A n \in DOMAIN chain' : n \in DOMAIN chain \/ n = Len(chain) + 1
  BY <1>3
<1>5. Len(chain) + 1 \in DOMAIN chain'
  BY <1>3
<1> QED BY <1>1, <1>2, <1>3, <1>4, <1>5 DEF KernelSpelling

LEMMA SpellingWithout ==
  ASSUME TypeOK, KernelSpelling, NEW n \in DOMAIN chain, chain' = Without(chain, n)
  PROVE  KernelSpelling'
<1>1. ASSUME NEW i \in DOMAIN chain' PROVE \E m \in DOMAIN chain : chain'[i] = chain[m]
  <2>1. /\ DOMAIN chain' = 1 .. Len(chain) - 1
        /\ \A j \in 1 .. n - 1 : chain'[j] = chain[j]
        /\ \A j \in n .. Len(chain) - 1 : chain'[j] = chain[j + 1]
        /\ Len(chain) \in Nat /\ DOMAIN chain = 1 .. Len(chain)
    <3>1. chain \in Seq(Rule)
      BY DEF TypeOK
    <3> QED BY <3>1, WithoutProperties, LenProperties
  <2>2. CASE i < n
    BY <2>1, <2>2
  <2>3. CASE ~(i < n)
    <3>1. i \in n .. Len(chain) - 1 /\ i + 1 \in DOMAIN chain
      BY <2>1, <2>3
    <3> QED BY <2>1, <3>1
  <2> QED BY <2>2, <2>3
<1> QED BY <1>1 DEF KernelSpelling

LEMMA SpellingIntruder ==
  ASSUME TypeOK, KernelSpelling, Intruder
  PROVE  KernelSpelling'
<1>1. CASE ForeignInsert
  <2>1. PICK r \in ForeignRules, n \in 1 .. Len(chain) + 1 : chain' = With(chain, n, r)
    BY <1>1 DEF ForeignInsert
  <2>2. r \in Rule /\ r.tag \notin Tags /\ chain \in Seq(Rule)
    BY ForeignAssumption, TagsAssumption DEF Rule, TypeOK
  <2> DEFINE w == With(chain, n, r)
  <2>3. DOMAIN w = 1 .. Len(chain) + 1
    BY <2>2, WithProperties
  <2>4. \A i \in 1 .. Len(chain) + 1 :
          \/ i = n /\ w[i] = r
          \/ i \in DOMAIN chain /\ w[i] = chain[i]
          \/ i - 1 \in DOMAIN chain /\ w[i] = chain[i - 1]
    BY <2>2, WithProperties
  <2> HIDE DEF w
  <2>5. \A i \in DOMAIN w : w[i].tag \in Tags => Kernel[w[i].body] = w[i].body
    BY <2>2, <2>3, <2>4 DEF KernelSpelling
  <2>6. chain' = w
    BY <2>1 DEF w
  <2> QED BY <2>5, <2>6 DEF KernelSpelling
<1>2. CASE ForeignDelete
  BY <1>2, SpellingWithout DEF ForeignDelete
<1>3. CASE ForeignFlush
  BY <1>3, EmptySeq, LenProperties DEF ForeignFlush, KernelSpelling
<1> QED BY <1>1, <1>2, <1>3 DEF Intruder

\* Adding a rule takes nothing away from what is applied.
LEMMA AddKeepsApplied ==
  ASSUME TypeOK, idx \in DOMAIN want, Here.ok, AddSucceeds(Here), UNCHANGED <<want, listing>>,
         NEW k \in DOMAIN want
  PROVE  /\ Applied(k) => Applied(k)'
         /\ Excused(k) => Excused(k)'
<1>1. \A n \in DOMAIN chain : n \in DOMAIN chain' /\ chain'[n] = chain[n]
  BY AddedTags
<1>2. Applied(k) => Applied(k)'
  BY <1>1 DEF Applied, InChain, RuleOf
<1>3. TagsOf(chain) \subseteq TagsOf(chain')
  BY <1>1 DEF TagsOf
<1>4. GatedLive' = GatedLive
  BY DEF GatedLive, Gated
<1> QED BY <1>2, <1>3, <1>4 DEF Excused

LEMMA AppliedListOrphans == CalmChain /\ AppliedInv /\ ListOrphans => AppliedSafe'
<1> SUFFICES ASSUME CalmChain, AppliedInv, ListOrphans PROVE AppliedSafe'
  OBVIOUS
<1>1. /\ TypeOK /\ OnePerTag(chain) /\ pc' = "orphans" /\ UNCHANGED <<chain, want, mode>>
      /\ doomed' = {RuleNum(listing', t) : t \in OwnedTags(listing') \ ConfigTags}
      /\ KernelSpelling /\ AllActive
  BY DEF AppliedInv, AppliedSafe, OnceInv, OnceSafe, NumInv, ListOrphans
<1>2. listing' = chain /\ stale' = FALSE
  BY <1>1, ListExact DEF ListOrphans, CalmChain
<1>3. ASSUME NEW n \in DOMAIN chain, Orphan(chain[n]) PROVE n \in doomed'
  <2>1. chain[n].tag \in TagsOf(chain) \ ConfigTags
    BY <1>3 DEF Orphan, TagsOf
  <2>4. chain[n].tag \in OwnedTags(chain) /\ chain \in Seq(Rule)
    BY <1>1, <2>1, TagsRead DEF TypeOK, CalmChain
  <2>2. /\ RuleNum(chain, chain[n].tag) \in DOMAIN chain
        /\ chain[RuleNum(chain, chain[n].tag)].tag = chain[n].tag
    BY <2>4, RuleNumNames, LinesRead DEF CalmChain
  <2>3. n = RuleNum(chain, chain[n].tag)
    BY <1>3, <2>2, <1>1 DEF OnePerTag, Orphan
  <2> QED BY <1>1, <1>2, <2>1, <2>3, <2>4
<1>4. \A n \in DOMAIN chain : Orphan(chain[n])' = Orphan(chain[n])
  BY <1>1 DEF Orphan, ConfigTags
<1>5. OrphansListed'
  BY <1>1, <1>2, <1>3, <1>4 DEF OrphansListed
<1> QED BY <1>1, <1>5
    DEF AppliedSafe, KernelSpelling, OrphansGone, LoopApplies, AheadAsListed, AllActive,
        PassApplied

LEMMA AppliedDeleteOrphan == CalmChain /\ AppliedInv /\ DeleteOrphan => AppliedSafe'
<1> SUFFICES ASSUME CalmChain, AppliedInv, DeleteOrphan PROVE AppliedSafe'
  OBVIOUS
<1>1. /\ TypeOK /\ pc = "orphans" /\ ~stale /\ UNCHANGED <<pc, want, mode, stale>>
      /\ \A n \in DOMAIN chain : Orphan(chain[n]) => n \in doomed
      /\ \A n \in doomed : n \in DOMAIN chain
      /\ KernelSpelling /\ AllActive
  BY LinesRead DEF CalmChain, AppliedInv, AppliedSafe, OrphansListed, OnceInv, OnceSafe,
                   NumInv, NumbersValid, DeleteOrphan
<1>2. PICK n \in doomed : /\ \A m \in doomed : m <= n
                          /\ DeleteNumSucceeds(n) \/ DeleteNumFails(n)
                          /\ doomed' = doomed \ {n}
  BY DEF DeleteOrphan, IsNextOrphan
<1>3. exists
  BY <1>1, <1>2, EmptySeq, LenProperties DEF TypeOK
<1>4. chain' = Without(chain, n) /\ n \in DOMAIN chain
  BY <1>1, <1>2, <1>3 DEF CalmChain, DeleteNumSucceeds, DeleteNumFails, CanFail
<1>5. KernelSpelling'
  BY <1>1, <1>4, SpellingWithout
<1>6. /\ DOMAIN chain' = 1 .. Len(chain) - 1
      /\ \A i \in 1 .. n - 1 : chain'[i] = chain[i]
      /\ \A i \in n .. Len(chain) - 1 : chain'[i] = chain[i + 1]
      /\ Len(chain) \in Nat /\ DOMAIN chain = 1 .. Len(chain)
  BY <1>1, <1>4, WithoutProperties, LenProperties DEF TypeOK
<1>7. ConfigTags' = ConfigTags
  BY <1>1 DEF ConfigTags
<1>8. ASSUME NEW i \in DOMAIN chain', chain'[i].tag \in Tags \ ConfigTags
      PROVE  i \in doomed'
  <2>1. CASE i < n
    <3>1. i \in DOMAIN chain /\ chain'[i] = chain[i]
      BY <1>4, <1>6, <2>1
    <3>2. i \in doomed
      BY <1>1, <1>8, <3>1 DEF Orphan
    <3> QED BY <1>2, <1>6, <2>1, <3>1, <3>2
  <2>2. CASE ~(i < n)
    <3>1. i + 1 \in DOMAIN chain /\ chain'[i] = chain[i + 1] /\ ~(i + 1 <= n)
      BY <1>4, <1>6, <2>2
    <3>2. i + 1 \in doomed
      BY <1>1, <1>8, <3>1 DEF Orphan
    <3> QED BY <1>2, <3>1, <3>2
  <2> QED BY <2>1, <2>2
<1>9. OrphansListed'
  BY <1>1, <1>7, <1>8 DEF OrphansListed, Orphan
<1> QED BY <1>1, <1>5, <1>9
    DEF AppliedSafe, OrphansGone, LoopApplies, AheadAsListed, AllActive, PassApplied

LEMMA AppliedListLive == CalmChain /\ AppliedInv /\ ListLive => AppliedSafe'
<1> SUFFICES ASSUME CalmChain, AppliedInv, ListLive PROVE AppliedSafe'
  OBVIOUS
<1>1. /\ TypeOK /\ pc' = "apply" /\ idx' = 1 /\ UNCHANGED <<chain, want, mode>>
      /\ \A n \in DOMAIN chain : ~Orphan(chain[n])
      /\ KernelSpelling /\ AllActive
  BY DEF AppliedInv, AppliedSafe, OrphansListed, OnceInv, NumInv, ListLive
<1>2. listing' = chain
  BY <1>1, ListExact DEF ListLive, CalmChain
<1>3. OrphansGone'
  <2>1. ConfigTags' = ConfigTags
    BY <1>1 DEF ConfigTags
  <2>2. TagsOf(chain) \subseteq ConfigTags
    BY <1>1 DEF Orphan, TagsOf
  <2> QED BY <1>1, <2>1, <2>2 DEF OrphansGone
<1>4. \A k \in DOMAIN want : ~(k < 1)
  BY <1>1, LenProperties DEF TypeOK
<1>5. LoopApplies'
  BY <1>1, <1>4 DEF LoopApplies
<1>6. AheadAsListed'
  BY <1>1, <1>2 DEF AheadAsListed
<1> QED BY <1>1, <1>3, <1>5, <1>6
    DEF AppliedSafe, KernelSpelling, OrphansListed, AllActive, PassApplied

\* Entries that need no command, and entries that need -R.
LEMMA AppliedSkip == CalmChain /\ AppliedInv /\ (SkipRule \/ CheckRule) => AppliedSafe'
<1> SUFFICES ASSUME CalmChain, AppliedInv, SkipRule \/ CheckRule PROVE AppliedSafe'
  OBVIOUS
<1>1. /\ TypeOK /\ NumbersValid /\ ~stale /\ pc = "apply" /\ idx \in DOMAIN want
      /\ pc' \in {"apply", "replace"} /\ idx' \in {idx, idx + 1} /\ idx \in Nat
      /\ UNCHANGED <<chain, want, listing, mode, stale>>
      /\ KernelSpelling /\ AllActive /\ OrphansGone
      /\ \A k \in DOMAIN want : k < idx /\ InForce(k) => Applied(k) \/ Excused(k)
      /\ \A k \in DOMAIN want, n \in DOMAIN listing :
           idx <= k /\ listing[n].tag = want[k].tag => chain[n] = listing[n]
  BY DEF AppliedInv, AppliedSafe, LoopApplies, AheadAsListed, OnceInv, OnceSafe, NumInv,
         TypeOK, SkipRule, CheckRule, InLoop
<1>2. ASSUME idx' = idx + 1, InForce(idx) PROVE Applied(idx)
  <2>0. CASE CheckRule
    <3>1. InChain(RuleOf(Here))
      BY <1>1, <1>2, <2>0 DEF CheckRule, CheckSucceeds
    <3> QED BY <3>1 DEF Applied, Here
  <2>1. CASE SkipRule
    <3>0. IsLive /\ LiveBody = Here.body
      BY <1>2, <2>1 DEF SkipRule, Skipped, InForce, Here
    <3>2. /\ LiveNum \in DOMAIN listing /\ listing[LiveNum].tag = Here.tag
          /\ LiveNum = RulePlace(listing, Here.tag)
      <4>1. listing \in Seq(Rule) /\ Here.tag \in OwnedTags(listing)
        BY <1>1, <3>0 DEF TypeOK, IsLive
      <4> QED BY <4>1, RuleNumNames, LinesRead DEF CalmChain, LiveNum
    <3>1. listing[LiveNum].body = Here.body
      BY <3>0, <3>2 DEF LiveBody
    <3>3. LiveNum \in DOMAIN chain /\ chain[LiveNum] = listing[LiveNum]
      BY <1>1, <3>2, LinesRead DEF NumbersValid, CalmChain, Here
    <3>4. Here.tag \in Tags /\ chain[LiveNum].body = Here.body /\ chain[LiveNum].tag = Here.tag
          /\ Here.body \in Bodies
      BY <1>1, <1>2, <3>1, <3>2, <3>3, HereType DEF Wanted, InForce, Here
    <3>5. Kernel[Here.body] = Here.body
      BY <1>1, <3>3, <3>4 DEF KernelSpelling
    <3>6. chain[LiveNum] \in Rule
      BY <1>1, <3>3, LenProperties DEF TypeOK
    <3>7. chain[LiveNum] = RuleOf(Here)
      BY <3>4, <3>5, <3>6 DEF RuleOf, Rule
    <3> QED BY <3>3, <3>7 DEF Applied, InChain, Here
  <2> QED BY <2>0, <2>1
<1>3. \A k \in DOMAIN want : /\ Applied(k)' = Applied(k) /\ Excused(k)' = Excused(k)
                             /\ InForce(k)' = InForce(k)
  BY <1>1 DEF Applied, Excused, InForce, InChain, RuleOf, GatedLive, Gated
<1>4. DOMAIN want \subseteq Nat
  BY <1>1, LenProperties DEF TypeOK
<1>5. \A k \in DOMAIN want : k < idx' => k < idx \/ (k = idx /\ idx' = idx + 1)
  BY <1>1, <1>4
<1>6. LoopApplies'
  BY <1>1, <1>2, <1>3, <1>5 DEF LoopApplies
<1>7. AheadAsListed'
  BY <1>1, <1>4 DEF AheadAsListed
<1>8. OrphansGone'
  BY <1>1 DEF OrphansGone, ConfigTags
<1> QED BY <1>1, <1>6, <1>7, <1>8
    DEF AppliedSafe, KernelSpelling, OrphansListed, AllActive, PassApplied

LEMMA AppliedReplace == CalmChain /\ AppliedInv /\ ReplaceRule => AppliedSafe'
<1> SUFFICES ASSUME CalmChain, AppliedInv, ReplaceRule PROVE AppliedSafe'
  OBVIOUS
<1>1. /\ TypeOK /\ NumbersValid /\ ~stale /\ pc = "replace" /\ idx \in DOMAIN want
      /\ Here.ok /\ IsLive /\ idx \in Nat
      /\ UNCHANGED <<want, listing, mode, stale>>
      /\ KernelSpelling /\ AllActive /\ TagsOf(chain) \subseteq ConfigTags
      /\ \A k \in DOMAIN want : k < idx /\ InForce(k) => Applied(k) \/ Excused(k)
      /\ \A k \in DOMAIN want, n \in DOMAIN listing :
           idx <= k /\ listing[n].tag = want[k].tag => chain[n] = listing[n]
  BY DEF AppliedInv, AppliedSafe, OrphansGone, LoopApplies, AheadAsListed, OnceInv, OnceSafe,
         NumInv, TypeOK, ReplaceRule
<1>2. /\ LiveNum \in DOMAIN chain /\ chain[LiveNum].tag = Here.tag
      /\ Here \in Wanted /\ Here.body \in Bodies
  BY <1>1, ReplacedTag, LinesRead DEF AppliedInv, OnceInv, CalmChain
<1>3. /\ RuleOf(Here).tag = Here.tag /\ Kernel[RuleOf(Here).body] = RuleOf(Here).body
  BY <1>2, RuleOfType, RuleOfSpelling
<1>4. /\ ConfigTags' = ConfigTags /\ GatedLive' = GatedLive
      /\ \A k \in DOMAIN want : InForce(k)' = InForce(k)
  BY <1>1 DEF ConfigTags, GatedLive, Gated, InForce
<1>5. DOMAIN want \subseteq Nat
  BY <1>1, LenProperties DEF TypeOK
<1>6. \A k \in DOMAIN want : k # idx => want[k].tag # Here.tag
  BY <1>1 DEF TypeOK, DistinctTags, Here
<1>7. ASSUME idx' = idx + 1
      PROVE  \A k \in DOMAIN want : k < idx' => k < idx \/ k = idx
  BY <1>1, <1>5, <1>7
<1>8. CASE ReplaceSucceeds(LiveNum, Here) /\ pc' = "apply" /\ idx' = idx + 1
  <2>1. chain' = [chain EXCEPT ![LiveNum] = RuleOf(Here)]
    BY <1>8 DEF ReplaceSucceeds
  <2>2. /\ DOMAIN chain' = DOMAIN chain
        /\ chain'[LiveNum] = RuleOf(Here)
        /\ \A n \in DOMAIN chain : n # LiveNum => chain'[n] = chain[n]
        /\ \A n \in DOMAIN chain : chain'[n].tag = chain[n].tag
    BY <1>2, <1>3, <2>1
  <2>3. KernelSpelling'
    BY <1>1, <1>3, <2>2 DEF KernelSpelling
  <2>4. TagsOf(chain') = TagsOf(chain)
    BY <2>2 DEF TagsOf
  <2>5. ASSUME NEW k \in DOMAIN want, k # idx, Applied(k) PROVE Applied(k)'
    <3>1. want[k] \in Wanted /\ RuleOf(want[k]).tag = want[k].tag
      BY <1>1, LenProperties DEF TypeOK, RuleOf
    <3>2. PICK n \in DOMAIN chain : chain[n] = RuleOf(want[k])
      BY <2>5 DEF Applied, InChain
    <3>3. n # LiveNum
      BY <1>2, <1>6, <2>5, <3>1, <3>2
    <3>4. n \in DOMAIN chain' /\ chain'[n] = RuleOf(want[k])
      BY <2>2, <3>2, <3>3
    <3> QED BY <1>1, <3>4 DEF Applied, InChain, RuleOf
  <2>6. ASSUME NEW k \in DOMAIN want, k = idx PROVE Applied(k)'
    BY <1>1, <1>2, <2>2, <2>6 DEF Applied, InChain, RuleOf, Here
  <2>7. \A k \in DOMAIN want : Excused(k) => Excused(k)'
    BY <1>1, <1>4, <2>4 DEF Excused
  <2>8. \A k \in DOMAIN want : k < idx' /\ InForce(k)' => Applied(k)' \/ Excused(k)'
    BY <1>1, <1>4, <1>7, <1>8, <2>5, <2>6, <2>7
  <2>9. ASSUME NEW k \in DOMAIN want, NEW n \in DOMAIN listing,
               idx' <= k, listing[n].tag = want[k].tag
        PROVE  chain'[n] = listing[n]
    <3>1. idx <= k /\ k # idx
      BY <1>1, <1>5, <1>8, <2>9
    <3>2. n \in DOMAIN chain /\ chain[n] = listing[n]
      BY <1>1, <2>9, <3>1, LinesRead DEF NumbersValid, CalmChain
    <3>3. n # LiveNum
      BY <1>2, <1>6, <2>9, <3>1, <3>2
    <3> QED BY <2>2, <3>2, <3>3
  <2>10. LoopApplies' /\ AheadAsListed' /\ OrphansGone'
    BY <1>1, <1>4, <1>8, <2>4, <2>8, <2>9 DEF LoopApplies, AheadAsListed, OrphansGone
  <2> QED BY <1>1, <1>8, <2>3, <2>10
      DEF AppliedSafe, OrphansListed, AllActive, PassApplied
<1>9. CASE ReplaceFails(LiveNum, Here) /\ AfterFailedReplace
  <2>1. UNCHANGED chain
    BY <1>9 DEF ReplaceFails
  <2>2. KernelSpelling'
    BY <1>1, <2>1 DEF KernelSpelling
  <2>3. CASE GatedLive /\ pc' = "apply" /\ idx' = idx + 1
    <3>1. Here.tag \in TagsOf(chain)
      BY <1>2 DEF Wanted, TagsOf
    <3>2. \A k \in DOMAIN want : /\ Applied(k)' = Applied(k) /\ Excused(k)' = Excused(k)
                                 /\ k = idx => Excused(k)
      BY <1>1, <1>4, <2>1, <2>3, <3>1 DEF Applied, Excused, InChain, RuleOf, Here
    <3>3. \A k \in DOMAIN want : k < idx' /\ InForce(k)' => Applied(k)' \/ Excused(k)'
      BY <1>1, <1>4, <1>7, <2>3, <3>2
    <3>4. \A k \in DOMAIN want : idx' <= k => idx <= k
      BY <1>1, <1>5, <2>3
    <3>5. LoopApplies' /\ AheadAsListed' /\ OrphansGone'
      BY <1>1, <1>4, <2>1, <2>3, <3>3, <3>4 DEF LoopApplies, AheadAsListed, OrphansGone
    <3> QED BY <1>1, <2>2, <2>3, <3>5
        DEF AppliedSafe, OrphansListed, AllActive, PassApplied
  <2>4. CASE pc' = "wipe"
    BY <1>1, <2>2, <2>4
    DEF AppliedSafe, OrphansListed, OrphansGone, LoopApplies, AheadAsListed, AllActive,
        PassApplied
  <2> QED BY <1>9, <2>3, <2>4 DEF AfterFailedReplace
<1> QED BY <1>8, <1>9 DEF ReplaceRule

LEMMA AppliedAppend == CalmChain /\ AppliedInv /\ (AppendRule \/ AppendAll) => AppliedSafe'
<1> SUFFICES ASSUME CalmChain, AppliedInv, AppendRule \/ AppendAll PROVE AppliedSafe'
  OBVIOUS
<1>1. /\ TypeOK /\ NumbersValid /\ idx \in DOMAIN want /\ idx \in Nat
      /\ pc \in {"apply", "append_all"} /\ (pc = "apply" => ~stale)
      /\ UNCHANGED <<want, listing, mode, stale>>
      /\ KernelSpelling /\ AllActive /\ TagsOf(chain) \subseteq ConfigTags
      /\ LoopApplies /\ AheadAsListed
  BY DEF AppliedInv, AppliedSafe, OrphansGone, OnceInv, OnceSafe,
         NumInv, TypeOK, AppendRule, AppendAll, InLoop
<1>2. DOMAIN want \subseteq Nat
  BY <1>1, LenProperties DEF TypeOK
<1>3. /\ ConfigTags' = ConfigTags
      /\ \A k \in DOMAIN want : InForce(k)' = InForce(k)
  BY <1>1 DEF ConfigTags, InForce
<1>4. ASSUME InForce(idx), AddSucceeds(Here), idx' = idx + 1, UNCHANGED pc
      PROVE  AppliedSafe'
  <2>1. Here.ok /\ Here.active
    BY <1>4 DEF InForce, Here
  <2>2. KernelSpelling' /\ \E n \in DOMAIN chain' : chain'[n] = RuleOf(Here)
    BY <1>1, <1>4, <2>1, SpellingAdd
  <2>3. /\ TagsOf(chain') \subseteq TagsOf(chain) \cup {Here.tag}
        /\ \A n \in DOMAIN chain : n \in DOMAIN chain' /\ chain'[n] = chain[n]
    BY <1>1, <1>4, <2>1, AddedTags, TagsRead DEF CalmChain
  <2>4. Here.tag \in ConfigTags
    BY <1>1, <2>1 DEF ConfigTags, Here
  <2>5. TagsOf(chain') \subseteq ConfigTags'
    BY <1>1, <1>3, <2>3, <2>4
  <2>6. \A k \in DOMAIN want : /\ Applied(k) => Applied(k)'
                               /\ Excused(k) => Excused(k)'
    BY <1>1, <1>4, <2>1, AddKeepsApplied
  <2>7. \A k \in DOMAIN want : k = idx => Applied(k)'
    BY <1>1, <2>2 DEF Applied, InChain, RuleOf, Here
  <2>8. \A k \in DOMAIN want : k < idx' => k < idx \/ k = idx
    BY <1>1, <1>2, <1>4
  <2>9. LoopApplies'
    BY <1>1, <1>3, <1>4, <2>6, <2>7, <2>8 DEF LoopApplies
  <2>10. ASSUME pc = "apply", NEW k \in DOMAIN want, NEW n \in DOMAIN listing,
                idx' <= k, listing[n].tag = want[k].tag
         PROVE  chain'[n] = listing[n]
    <3>1. idx <= k
      BY <1>1, <1>2, <1>4, <2>10
    <3>2. n \in DOMAIN chain /\ chain[n] = listing[n]
      BY <1>1, <2>10, <3>1, LinesRead DEF NumbersValid, AheadAsListed, CalmChain
    <3> QED BY <2>3, <3>2
  <2>11. AheadAsListed'
    BY <1>1, <1>4, <2>10 DEF AheadAsListed
  <2>12. OrphansGone'
    BY <2>5 DEF OrphansGone
  <2> QED BY <1>1, <1>4, <2>2, <2>9, <2>11, <2>12
      DEF AppliedSafe, OrphansListed, AllActive, PassApplied
<1>5. CASE AddFails(Here) /\ Return(FALSE)
  BY <1>1, <1>5
  DEF AddFails, Return, AppliedSafe, KernelSpelling, OrphansListed, OrphansGone, LoopApplies,
      AheadAsListed, AllActive, PassApplied
<1>6. ASSUME ~InForce(idx), idx' = idx + 1, UNCHANGED <<chain, pc>>, pc = "append_all"
      PROVE  AppliedSafe'
  <2>1. \A k \in DOMAIN want : k < idx' => k < idx \/ k = idx
    BY <1>1, <1>2, <1>6
  <2>2. \A k \in DOMAIN want : Applied(k)' = Applied(k)
    BY <1>1, <1>6 DEF Applied, InChain, RuleOf
  <2>3. LoopApplies'
    BY <1>1, <1>3, <1>6, <2>1, <2>2 DEF LoopApplies
  <2>4. OrphansGone' /\ KernelSpelling'
    BY <1>1, <1>3, <1>6 DEF OrphansGone, KernelSpelling
  <2> QED BY <1>1, <1>6, <2>3, <2>4
      DEF AppliedSafe, OrphansListed, AheadAsListed, AllActive, PassApplied
<1>7. CASE AppendRule
  <2>1. InForce(idx)
    BY <1>7 DEF AppendRule, Skipped, InForce, Here
  <2> QED BY <1>4, <1>5, <1>7, <2>1 DEF AppendRule
<1>8. CASE AppendAll
  BY <1>4, <1>5, <1>6, <1>8 DEF AppendAll, InForce, Here
<1> QED BY <1>7, <1>8

LEMMA AppliedFinish == CalmChain /\ AppliedInv /\ Finish => AppliedSafe'
<1> SUFFICES ASSUME CalmChain, AppliedInv, Finish PROVE AppliedSafe'
  OBVIOUS
<1>1. /\ TypeOK /\ idx \notin DOMAIN want /\ pc \in {"apply", "append_all"} /\ pc' = "idle"
      /\ UNCHANGED <<chain, exists, want, listing, mode, stale>>
      /\ KernelSpelling /\ AllActive /\ TagsOf(chain) \subseteq ConfigTags
      /\ LoopApplies
  BY DEF AppliedInv, AppliedSafe, OrphansGone, OnceInv, NumInv, Finish, Return, locals
<1>2. ASSUME NEW k \in DOMAIN want PROVE k < idx
  <2>1. idx \in Nat \ {0} /\ DOMAIN want = 1 .. Len(want) /\ Len(want) \in Nat
    BY <1>1, LenProperties DEF TypeOK
  <2> QED BY <1>1, <2>1
<1>3. ASSUME mode = "full", NEW k \in DOMAIN want, want[k].ok
      PROVE  InChain(RuleOf(want[k])) \/ (GatedLive /\ want[k].tag \in TagsOf(chain))
  <2>1. InForce(k)
    BY <1>1, <1>3 DEF AllActive, InForce
  <2> QED BY <1>1, <1>2, <1>3, <2>1 DEF LoopApplies, Applied, Excused
<1>4. PassApplied'
  <2>1. /\ ConfigTags' = ConfigTags /\ GatedLive' = GatedLive
        /\ \A k \in DOMAIN want : InChain(RuleOf(want[k]))' = InChain(RuleOf(want[k]))
    BY <1>1 DEF ConfigTags, GatedLive, Gated, InChain, RuleOf
  <2> QED BY <1>1, <1>3, <2>1 DEF PassApplied
<1> QED BY <1>1, <1>4
    DEF AppliedSafe, KernelSpelling, OrphansListed, OrphansGone, LoopApplies, AheadAsListed,
        AllActive

LEMMA AppliedWipe == CalmChain /\ AppliedInv /\ (WipeList \/ WipeDelete) => AppliedSafe'
<1> SUFFICES ASSUME CalmChain, AppliedInv, WipeList \/ WipeDelete PROVE AppliedSafe'
  OBVIOUS
<1>1. /\ TypeOK /\ KernelSpelling /\ AllActive /\ UNCHANGED <<mode, want>>
      /\ pc \in {"wipe", "wipe_delete"} /\ OnceSafe' /\ OnceInv
  BY OnceStep DEF CalmChain, AppliedInv, AppliedSafe, OnceInv, NumInv, WipeList, WipeDelete,
                  Next, Pass
<1>2. \/ pc' \in {"wipe", "wipe_delete"}
      \/ pc' = "idle" /\ mode = "removed"
      \/ pc' = "append_all" /\ idx' = 1
  BY Zenon DEF WipeList, WipeDelete, AfterWipe, Return
<1>3. KernelSpelling'
  <2>1. CASE UNCHANGED chain
    BY <1>1, <2>1 DEF KernelSpelling
  <2>2. CASE \E n \in DOMAIN chain : chain' = Without(chain, n)
    BY <1>1, <2>2, SpellingWithout
  <2> QED BY <2>1, <2>2 DEF WipeList, WipeDelete, DeleteSpecSucceeds, DeleteSpecFails
<1>4. CASE pc' = "append_all" /\ idx' = 1
  <2>1. DOMAIN want' = DOMAIN want /\ \A k \in DOMAIN want : ~(k < 1)
    BY <1>1, LenProperties DEF TypeOK
  <2>2. TagsOf(chain') \subseteq Passed' /\ Passed' = {}
    <3>1. OwnedTags(chain') \subseteq Passed' /\ Passed' = {}
      BY <1>1, <1>4, <2>1 DEF OnceSafe, Passed
    <3> QED BY <3>1, TagsRead DEF CalmChain
  <2>3. LoopApplies' /\ OrphansGone'
    BY <1>4, <2>1, <2>2 DEF LoopApplies, OrphansGone
  <2> QED BY <1>1, <1>3, <1>4, <2>3
      DEF AppliedSafe, OrphansListed, AheadAsListed, AllActive, PassApplied
<1>5. CASE pc' \in {"wipe", "wipe_delete"} \/ (pc' = "idle" /\ mode = "removed")
  BY <1>1, <1>3, <1>5
  DEF AppliedSafe, OrphansListed, OrphansGone, LoopApplies, AheadAsListed, AllActive,
      PassApplied
<1> QED BY <1>2, <1>4, <1>5

LEMMA AppliedBegin ==
  CalmChain /\ AppliedInv /\ (Resolve \/ Refuse \/ BeginRemoved
    \/ \E op \in {"full", "hosts"}, d \in DropIns : Begin(op, d)) => AppliedSafe'
<1> SUFFICES ASSUME AppliedInv,
                    Resolve \/ Refuse \/ BeginRemoved
                      \/ \E op \in {"full", "hosts"}, d \in DropIns : Begin(op, d)
             PROVE  AppliedSafe'
  OBVIOUS
<1>1. TypeOK /\ KernelSpelling' /\ AllActive
  BY DEF AppliedInv, AppliedSafe, OnceInv, NumInv, KernelSpelling, Resolve, Refuse,
         BeginRemoved, Begin
<1>2. CASE Resolve
  <2>1. PICK answer \in [DOMAIN file -> Bodies \cup {NoAddress}] :
          want' = [k \in DOMAIN file |-> Desired(file[k], answer[k])]
    BY <1>2 DEF Resolve
  <2>2. /\ UNCHANGED mode
        /\ pc' = "orphan_list" \/ (pc' = "idle" /\ mode = "hosts")
    BY <1>2, Zenon DEF Resolve, Return
  <2>3. AllActive'
    BY <2>1, <2>2 DEF AllActive, Desired
  <2> QED BY <1>1, <2>2, <2>3
      DEF AppliedSafe, OrphansListed, OrphansGone, LoopApplies, AheadAsListed, PassApplied
<1>3. ASSUME Refuse \/ BeginRemoved
               \/ \E op \in {"full", "hosts"}, d \in DropIns : Begin(op, d)
      PROVE  AppliedSafe'
  <2>1. want' = <<>> /\ pc' \in {"idle", "wipe", "resolve"} /\ (pc' = "idle" => ~result')
    BY <1>3 DEF Refuse, BeginRemoved, Begin, Return
  <2>2. AllActive'
    BY <2>1, EmptySeq, LenProperties DEF AllActive
  <2> QED BY <1>1, <2>1, <2>2
      DEF AppliedSafe, OrphansListed, OrphansGone, LoopApplies, AheadAsListed, PassApplied
<1> QED BY <1>2, <1>3

LEMMA AppliedIntruder == CalmChain /\ AppliedInv /\ Intruder => AppliedSafe'
<1> SUFFICES ASSUME CalmChain, AppliedInv, Intruder PROVE AppliedSafe'
  OBVIOUS
<1>1. pc' = "idle" /\ stale' = TRUE /\ UNCHANGED <<want, mode>>
  BY DEF CalmChain, OwnChain, Intruder, MayIntrude, ForeignInsert, ForeignDelete, ForeignFlush,
         locals
<1>2. KernelSpelling' /\ AllActive
  BY SpellingIntruder DEF AppliedInv, AppliedSafe, OnceInv, NumInv
<1> QED BY <1>1, <1>2
    DEF AppliedSafe, OrphansListed, OrphansGone, LoopApplies, AheadAsListed, AllActive,
        PassApplied

LEMMA AppliedStep == CalmChain /\ AppliedInv /\ [Next]_vars => AppliedInv'
<1> SUFFICES ASSUME CalmChain, AppliedInv, [Next]_vars PROVE AppliedSafe'
  BY OnceStep DEF AppliedInv, CalmChain
<1>1. CASE UNCHANGED vars
  <2>1. AppliedSafe
    BY DEF AppliedInv
  <2> QED BY <1>1, <2>1
      DEF AppliedSafe, vars, KernelSpelling, OrphansListed, OrphansGone, LoopApplies,
          AheadAsListed, AllActive, PassApplied, Orphan, ConfigTags, Applied, Excused,
          InForce, InChain, RuleOf, GatedLive, Gated
<1> QED
  BY <1>1, AppliedBegin, AppliedListOrphans, AppliedDeleteOrphan, AppliedListLive, AppliedSkip,
     AppliedReplace, AppliedAppend, AppliedFinish, AppliedWipe, AppliedIntruder
  DEF Next, Pass

LEMMA AppliedInit == Init => AppliedInv
<1>1. Init => OnceInv
  <2>1. Init => NumInv
    BY TypeInit DEF NumInv, NumbersValid, Init
  <2>2. Init => OnceSafe
    BY EmptySeq, LenProperties DEF Init, OnceSafe, OnePerTag
  <2> QED BY <2>1, <2>2 DEF OnceInv
<1>2. Init => AppliedSafe
  BY EmptySeq, LenProperties
  DEF Init, AppliedSafe, KernelSpelling, OrphansListed, OrphansGone, LoopApplies,
      AheadAsListed, AllActive, PassApplied, TagsOf
<1> QED BY <1>1, <1>2 DEF AppliedInv

\* A full pass that returns True has made the chain what the drop-in says, up to
\* the named excuse: for every drop-in, chain, DNS answer and pattern of failing
\* -N, -C, -R and -A, where listings and deletions do what they say.
THEOREM TrueMeansApplied == CalmChain => (Spec => []PassApplied)
<1> SUFFICES ASSUME CalmChain PROVE Spec => []PassApplied
  OBVIOUS
<1>1. Init => AppliedInv
  BY AppliedInit
<1>2. AppliedInv /\ [Next]_vars => AppliedInv'
  BY AppliedStep
<1>3. AppliedInv => PassApplied
  BY DEF AppliedInv, AppliedSafe
<1> QED BY <1>1, <1>2, <1>3, PTL DEF Spec

-----------------------------------------------------------------------------
(***************************************************************************)
(* The end of a pass.  Every command of a pass brings it to a later stage  *)
(* or shortens the loop it is in, whatever fails and whoever edits the     *)
(* chain: <<Stage, Remaining>> goes down in a well-founded order.          *)
(***************************************************************************)

StageOf(p) ==
  CASE p = "resolve" -> 6
    [] p = "orphan_list" -> 5
    [] p = "orphans" -> 4
    [] p \in {"apply", "replace"} -> 3
    [] p \in {"wipe", "wipe_delete"} -> 2
    [] p = "append_all" -> 1
    [] OTHER -> 0

\* An iteration of a loop has a command that looks and one that changes.
Stage == StageOf(pc)
Remaining ==
  CASE pc = "orphans" -> Cardinality(doomed)
    [] pc \in {"apply", "append_all"} -> 2 * (Len(want) + 1 - idx) + 1
    [] pc = "replace" -> 2 * (Len(want) + 1 - idx)
    [] pc = "wipe" -> 2 * (DeleteMax + 1 - idx) + 1
    [] pc = "wipe_delete" -> 2 * (DeleteMax + 1 - idx)
    [] OTHER -> 0

Left == <<Stage, Remaining>>

\* The loops stay inside their bounds, and the rule numbers to delete are finitely
\* many.
LoopsBounded ==
  /\ IsFiniteSet(doomed)
  /\ pc \in {"apply", "replace", "append_all"} => idx <= Len(want) + 1
  /\ pc = "wipe" => idx <= DeleteMax + 1
  /\ pc = "wipe_delete" => idx <= DeleteMax

EndInv == TypeOK /\ LoopsBounded

LEMMA StageTypes == \A p \in Phases : StageOf(p) \in Nat
BY DEF StageOf, Phases

LEMMA RemainingType == EndInv => Stage \in Nat /\ Remaining \in Nat
<1> SUFFICES ASSUME EndInv PROVE Stage \in Nat /\ Remaining \in Nat
  OBVIOUS
<1>1. Stage \in Nat
  BY StageTypes DEF Stage, EndInv, TypeOK
<1>2. Len(want) \in Nat /\ DeleteMax \in Nat /\ idx \in Nat /\ DOMAIN want = 1 .. Len(want)
  BY SwitchAssumption, LenProperties DEF EndInv, TypeOK
<1>3. Cardinality(doomed) \in Nat
  BY FS_CardinalityType DEF EndInv, LoopsBounded
<1>4. CASE pc = "orphans"
  BY <1>1, <1>3, <1>4 DEF Remaining
<1>5. CASE pc \in {"apply", "append_all"}
  <2>1. Len(want) + 1 - idx \in Nat
    BY <1>2, <1>5 DEF EndInv, LoopsBounded
  <2> QED BY <1>1, <1>5, <2>1 DEF Remaining
<1>6. CASE pc = "replace"
  <2>1. Len(want) + 1 - idx \in Nat
    BY <1>2, <1>6 DEF EndInv, LoopsBounded
  <2> QED BY <1>1, <1>6, <2>1 DEF Remaining
<1>7. CASE pc \in {"wipe", "wipe_delete"}
  <2>1. DeleteMax + 1 - idx \in Nat
    BY <1>2, <1>7 DEF EndInv, LoopsBounded
  <2> QED BY <1>1, <1>7, <2>1 DEF Remaining
<1>8. CASE pc \in {"idle", "resolve", "orphan_list"}
  BY <1>1, <1>8 DEF Remaining
<1> QED BY <1>4, <1>5, <1>6, <1>7, <1>8 DEF EndInv, TypeOK, Phases

\* The numbers of the orphans are some of the numbers of the listing.
LEMMA DoomedFinite == ASSUME TypeOK, ListOrphans PROVE IsFiniteSet(doomed')
<1>1. listing' \in Seq(Rule)
  BY ListType DEF ListOrphans
<1>2. \A t \in OwnedTags(listing') : RuleNum(listing', t) \in DOMAIN listing'
  BY <1>1, RuleNumNames
<1>3. IsFiniteSet(DOMAIN listing')
  BY <1>1, LenProperties, FS_Interval
<1>4. doomed' \subseteq DOMAIN listing'
  BY <1>2 DEF ListOrphans
<1> QED BY <1>3, <1>4, FS_Subset

LEMMA AfterWipeGoes ==
  ASSUME AfterWipe
  PROVE  pc' = "idle" \/ (pc' = "append_all" /\ idx' = 1)
BY Zenon DEF AfterWipe, Return

LEMMA LoopsBoundedStep == EndInv /\ [Next]_vars => LoopsBounded'
<1> SUFFICES ASSUME EndInv, [Next]_vars PROVE LoopsBounded'
  OBVIOUS
<1>1. /\ Len(want) \in Nat /\ DeleteMax \in Nat \ {0} /\ idx \in Nat \ {0}
      /\ DOMAIN want = 1 .. Len(want)
      /\ IsFiniteSet(doomed)
  BY SwitchAssumption, LenProperties DEF EndInv, TypeOK, LoopsBounded
<1>2. CASE Refuse \/ BeginRemoved \/ \E op \in {"full", "hosts"}, d \in DropIns : Begin(op, d)
  <2>1. IsFiniteSet(doomed')
    BY <1>1, <1>2, FS_EmptySet DEF Refuse, BeginRemoved, Begin
  <2> QED BY <1>1, <1>2, <2>1 DEF LoopsBounded, Refuse, BeginRemoved, Begin, Return
<1>3. CASE Resolve
  <2>1. pc' \in {"idle", "orphan_list"} /\ doomed' = doomed
    BY <1>3 DEF Resolve, Return
  <2> QED BY <1>1, <2>1 DEF LoopsBounded
<1>4. CASE ListOrphans
  BY <1>4, DoomedFinite DEF LoopsBounded, EndInv, ListOrphans
<1>5. CASE DeleteOrphan
  <2>1. IsFiniteSet(doomed')
    BY <1>1, <1>5, FS_RemoveElement DEF DeleteOrphan
  <2> QED BY <1>5, <2>1 DEF LoopsBounded, DeleteOrphan
<1>6. CASE ListLive
  BY <1>1, <1>6 DEF LoopsBounded, ListLive
<1>7. CASE SkipRule \/ CheckRule
  BY <1>1, <1>7 DEF EndInv, LoopsBounded, SkipRule, CheckRule, InLoop
<1>8. CASE ReplaceRule
  <2>1. idx \in DOMAIN want /\ doomed' = doomed /\ want' = want
    BY <1>8 DEF EndInv, TypeOK, ReplaceRule
  <2>2. (pc' = "apply" /\ idx' = idx + 1) \/ (pc' = "wipe" /\ idx' = 1)
    BY <1>8, Zenon DEF ReplaceRule, AfterFailedReplace
  <2> QED BY <1>1, <2>1, <2>2 DEF LoopsBounded
<1>9. CASE AppendRule \/ AppendAll
  <2>1. idx \in DOMAIN want /\ doomed' = doomed /\ want' = want
    BY <1>9 DEF AppendRule, AppendAll, InLoop
  <2>2. pc' = "idle" \/ (pc' = pc /\ pc \in {"apply", "append_all"} /\ idx' = idx + 1)
    BY <1>9 DEF AppendRule, AppendAll, InLoop, Return
  <2> QED BY <1>1, <2>1, <2>2 DEF LoopsBounded
<1>10. CASE Finish
  BY <1>1, <1>10 DEF LoopsBounded, Finish, Return, locals
<1>11. CASE WipeList
  <2>1. doomed' = doomed /\ want' = want
    BY <1>11 DEF WipeList
  <2>2. \/ pc' = "idle" \/ (pc' = "append_all" /\ idx' = 1)
        \/ (pc' = "wipe_delete" /\ idx' = idx /\ idx <= DeleteMax)
    <3>1. AfterWipe \/ (pc' = "wipe_delete" /\ idx' = idx /\ idx <= DeleteMax)
      BY <1>11 DEF WipeList
    <3> QED BY <3>1, AfterWipeGoes
  <2> QED BY <1>1, <2>1, <2>2 DEF LoopsBounded
<1>12. CASE WipeDelete
  <2>1. doomed' = doomed /\ want' = want /\ idx <= DeleteMax
    BY <1>12 DEF WipeDelete, EndInv, LoopsBounded
  <2>2. \/ pc' = "idle" \/ (pc' = "append_all" /\ idx' = 1)
        \/ (pc' = "wipe" /\ idx' = idx + 1)
    BY <1>12, AfterWipeGoes DEF WipeDelete
  <2> QED BY <1>1, <2>1, <2>2 DEF LoopsBounded
<1>13. CASE Intruder \/ UNCHANGED vars
  <2>1. pc' = pc /\ idx' = idx /\ want' = want /\ doomed' = doomed
    BY <1>13 DEF Intruder, ForeignInsert, ForeignDelete, ForeignFlush, vars, locals
  <2> QED BY <2>1 DEF EndInv, LoopsBounded
<1> QED BY <1>2, <1>3, <1>4, <1>5, <1>6, <1>7, <1>8, <1>9, <1>10, <1>11, <1>12, <1>13
  DEF Next, Pass

LEMMA EndStep == EndInv /\ [Next]_vars => EndInv'
BY LoopsBoundedStep, TypeStep DEF EndInv

\* A later stage, or one iteration less of the same loop.
LEMMA ShorterLeft ==
  EndInv /\ EndInv' /\ (Stage' < Stage \/ (Stage' = Stage /\ Remaining' < Remaining))
    => <<Left', Left>> \in Shorter
<1> DEFINE T == Stage \in Nat /\ Remaining \in Nat
<1>1. EndInv => T
  BY RemainingType
<1> HIDE DEF T
<1>2. EndInv' => T'
  BY <1>1, PTL
<1> QED BY <1>1, <1>2, ShorterPair DEF Left, T

LEMMA PassShortens ==
  ASSUME EndInv, Pass, pc # "idle"
  PROVE  Stage' < Stage \/ (Stage' = Stage /\ Remaining' < Remaining)
<1>1. /\ Len(want) \in Nat /\ DeleteMax \in Nat \ {0} /\ idx \in Nat \ {0}
      /\ DOMAIN want = 1 .. Len(want)
      /\ IsFiniteSet(doomed)
  BY SwitchAssumption, LenProperties DEF EndInv, TypeOK, LoopsBounded
<1>2. CASE Resolve
  <2>1. pc = "resolve" /\ pc' \in {"idle", "orphan_list"}
    BY <1>2 DEF Resolve, Return
  <2> QED BY <2>1 DEF Stage, StageOf
<1>3. CASE ListOrphans \/ ListLive
  <2>1. (pc = "orphan_list" /\ pc' = "orphans") \/ (pc = "orphans" /\ pc' = "apply")
    BY <1>3 DEF ListOrphans, ListLive
  <2> QED BY <2>1 DEF Stage, StageOf
<1>4. CASE DeleteOrphan
  <2>1. pc = "orphans" /\ pc' = "orphans" /\ \E n \in doomed : doomed' = doomed \ {n}
    BY <1>4 DEF DeleteOrphan
  <2>2. Cardinality(doomed') < Cardinality(doomed)
    <3>1. PICK n \in doomed : doomed' = doomed \ {n}
      BY <2>1
    <3>2. Cardinality(doomed \ {n}) = Cardinality(doomed) - 1
      BY <1>1, <3>1, FS_RemoveElement
    <3>3. Cardinality(doomed) \in Nat
      BY <1>1, FS_CardinalityType
    <3> QED BY <3>1, <3>2, <3>3
  <2> QED BY <2>1, <2>2 DEF Stage, StageOf, Remaining
<1>5. CASE SkipRule \/ CheckRule \/ ReplaceRule
  <2>1. /\ want' = want /\ idx \in 1 .. Len(want)
        /\ \/ pc = "apply" /\ pc' = "apply" /\ idx' = idx + 1
           \/ pc = "apply" /\ pc' = "replace" /\ idx' = idx
           \/ pc = "replace" /\ pc' = "apply" /\ idx' = idx + 1
           \/ pc = "replace" /\ pc' = "wipe"
    BY <1>1, <1>5 DEF SkipRule, CheckRule, InLoop, ReplaceRule, AfterFailedReplace, EndInv, TypeOK
  <2>2. CASE pc = "apply" /\ pc' = "apply" /\ idx' = idx + 1
    BY <1>1, <2>1, <2>2 DEF Stage, StageOf, Remaining
  <2>3. CASE pc = "apply" /\ pc' = "replace" /\ idx' = idx
    BY <1>1, <2>1, <2>3 DEF Stage, StageOf, Remaining
  <2>4. CASE pc = "replace" /\ pc' = "apply" /\ idx' = idx + 1
    BY <1>1, <2>1, <2>4 DEF Stage, StageOf, Remaining
  <2>5. CASE pc = "replace" /\ pc' = "wipe"
    BY <2>5 DEF Stage, StageOf
  <2> QED BY <2>1, <2>2, <2>3, <2>4, <2>5
<1>6. CASE AppendRule \/ AppendAll
  <2>1. /\ want' = want /\ idx \in 1 .. Len(want) /\ pc \in {"apply", "append_all"}
        /\ (pc' = pc /\ idx' = idx + 1) \/ pc' = "idle"
    BY <1>1, <1>6 DEF AppendRule, AppendAll, InLoop, Return
  <2>2. CASE pc' = pc /\ idx' = idx + 1
    BY <1>1, <2>1, <2>2 DEF Stage, StageOf, Remaining
  <2>3. CASE pc' = "idle"
    BY <2>1, <2>3 DEF Stage, StageOf
  <2> QED BY <2>1, <2>2, <2>3
<1>7. CASE Finish
  <2>1. pc \in {"apply", "append_all"} /\ pc' = "idle"
    BY <1>7 DEF Finish, Return
  <2> QED BY <2>1 DEF Stage, StageOf
<1>8. CASE WipeList
  <2>1. pc = "wipe" /\ (AfterWipe \/ (pc' = "wipe_delete" /\ idx' = idx))
    BY <1>8 DEF WipeList
  <2>2. CASE AfterWipe
    BY <2>1, <2>2, AfterWipeGoes DEF Stage, StageOf
  <2>3. CASE pc' = "wipe_delete" /\ idx' = idx
    BY <1>1, <2>1, <2>3 DEF Stage, StageOf, Remaining
  <2> QED BY <2>1, <2>2, <2>3
<1>9. CASE WipeDelete
  <2>1. pc = "wipe_delete" /\ (AfterWipe \/ (pc' = "wipe" /\ idx' = idx + 1))
    BY <1>9 DEF WipeDelete
  <2>2. CASE AfterWipe
    BY <2>1, <2>2, AfterWipeGoes DEF Stage, StageOf
  <2>3. CASE pc' = "wipe" /\ idx' = idx + 1
    BY <1>1, <2>1, <2>3 DEF Stage, StageOf, Remaining
  <2> QED BY <2>1, <2>2, <2>3
<1>10. ~(Refuse \/ BeginRemoved \/ \E op \in {"full", "hosts"}, d \in DropIns : Begin(op, d))
  BY DEF Refuse, BeginRemoved, Begin
<1> QED BY <1>2, <1>3, <1>4, <1>5, <1>6, <1>7, <1>8, <1>9, <1>10 DEF Pass

\* A pass ends (apply.py:147-281, owned_rules.py:106-143): each of its commands, succeeding
\* or not, brings <<Stage, Remaining>> down in a well-founded order, and other programs,
\* which may edit the chain at any time, have no way to bring it up again.
THEOREM PassGetsShorter ==
  Spec => [][ /\ Pass /\ pc # "idle" => <<Left', Left>> \in Shorter
              /\ Intruder => Left' = Left ]_vars
<1> DEFINE A == /\ Pass /\ pc # "idle" => <<Left', Left>> \in Shorter
                /\ Intruder => Left' = Left
<1>1. Init => EndInv
  <2>1. Init => LoopsBounded
    BY FS_EmptySet DEF Init, LoopsBounded
  <2> QED BY <2>1, TypeInit DEF EndInv
<1>2. EndInv /\ [Next]_vars => EndInv'
  BY EndStep
<1>3. EndInv /\ EndInv' /\ [Next]_vars => [A]_vars
  <2> SUFFICES ASSUME EndInv, EndInv', Next PROVE A
    OBVIOUS
  <2>1. ASSUME Pass, pc # "idle" PROVE <<Left', Left>> \in Shorter
    BY <2>1, PassShortens, ShorterLeft
  <2>2. ASSUME Intruder PROVE Left' = Left
    <3>1. pc' = pc /\ idx' = idx /\ want' = want /\ doomed' = doomed
      BY <2>2 DEF Intruder, ForeignInsert, ForeignDelete, ForeignFlush, locals
    <3> QED BY <3>1 DEF Left, Stage, Remaining
  <2> QED BY <2>1, <2>2
<1> HIDE DEF A
<1>4. Spec => [][A]_vars
  BY <1>1, <1>2, <1>3, PTL DEF Spec
<1> QED BY <1>4 DEF A

=============================================================================
