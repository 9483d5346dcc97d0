---------------------------- MODULE RefineProofs ----------------------------
(***************************************************************************)
(* Apply implements Reconcile, for every drop-in, chain, DNS answer and    *)
(* pattern of failing -N, -C, -R and -A: proofs about ApplyRefines.        *)
(***************************************************************************)
EXTENDS ApplyProofs, ApplyRefines

-----------------------------------------------------------------------------
(***************************************************************************)
(* Ranks.  The rules of others in their order are what the ranks of their  *)
(* places make of them; a map between places that keeps their order keeps  *)
(* their ranks.                                                            *)
(***************************************************************************)

UpTo(P, n) == {m \in P : m <= n}

LEMMA RankProperties ==
  ASSUME NEW P \in SUBSET Nat, IsFiniteSet(P)
  PROVE  /\ Cardinality(P) \in Nat
         /\ \A n \in P : Rank(P, n) \in 1 .. Cardinality(P)
         /\ \A m, n \in P : m < n => Rank(P, m) < Rank(P, n)
         /\ \A k \in 1 .. Cardinality(P) : \E n \in P : Rank(P, n) = k
<1>1. Cardinality(P) \in Nat
  BY FS_CardinalityType
<1>2. \A n : Rank(P, n) = Cardinality(UpTo(P, n))
  BY DEF Rank, UpTo
<1>3. ASSUME NEW n \in P
      PROVE  /\ IsFiniteSet(UpTo(P, n)) /\ Cardinality(UpTo(P, n)) \in Nat
             /\ Cardinality(UpTo(P, n)) <= Cardinality(P)
             /\ Cardinality(UpTo(P, n)) # 0
  <2>1. UpTo(P, n) \subseteq P /\ n \in UpTo(P, n)
    BY DEF UpTo
  <2>2. IsFiniteSet(UpTo(P, n)) /\ Cardinality(UpTo(P, n)) <= Cardinality(P)
    BY <2>1, FS_Subset
  <2> QED BY <2>1, <2>2, FS_CardinalityType, FS_EmptySet
<1>4. \A n \in P : Rank(P, n) \in 1 .. Cardinality(P)
  BY <1>1, <1>2, <1>3
<1>5. ASSUME NEW m \in P, NEW n \in P, m < n PROVE Rank(P, m) < Rank(P, n)
  <2>1. m \in Nat /\ n \in Nat /\ \A i \in P : i \in Nat /\ (i <= m => i <= n)
    BY <1>5
  <2>2. UpTo(P, m) \subseteq UpTo(P, n)
    BY <2>1 DEF UpTo
  <2>3. n <= n /\ ~(n <= m)
    BY <1>5, <2>1
  <2>4. n \in UpTo(P, n) /\ n \notin UpTo(P, m)
    BY <2>3 DEF UpTo
  <2>5. /\ Cardinality(UpTo(P, m)) <= Cardinality(UpTo(P, n))
        /\ Cardinality(UpTo(P, m)) # Cardinality(UpTo(P, n))
    BY <1>3, <2>2, <2>4, FS_Subset
  <2> QED BY <1>2, <1>3, <2>5
<1>6. ASSUME NEW k \in 1 .. Cardinality(P) PROVE \E n \in P : Rank(P, n) = k
  <2> DEFINE f == [n \in P |-> Rank(P, n)]
             T == 1 .. Cardinality(P)
  <2>1. IsFiniteSet(T) /\ Cardinality(T) = Cardinality(P)
    BY <1>1, FS_Interval
  <2>2. f \in [P -> T] /\ \A n \in P : f[n] = Rank(P, n)
    BY <1>4
  <2>3. ASSUME NEW m \in P, NEW n \in P, m # n PROVE f[m] # f[n]
    <3>1. Rank(P, m) \in Nat /\ Rank(P, n) \in Nat /\ (m < n \/ n < m)
      BY <1>4, <2>3
    <3> QED BY <1>5, <2>2, <3>1
  <2> HIDE DEF f, T
  <2>4. f \in Injection(P, T)
    BY <2>2, <2>3 DEF Injection, IsInjective
  <2>5. f \in Surjection(P, T)
    BY <2>1, <2>4, FS_Injection
  <2>6. \E n \in P : f[n] = k
    BY <2>5 DEF Surjection, T
  <2> QED BY <2>2, <2>6
<1> QED BY <1>1, <1>4, <1>5, <1>6

\* The place of a rank is the only one of that rank.
LEMMA RankedProperties ==
  ASSUME NEW P \in SUBSET Nat, IsFiniteSet(P)
  PROVE  /\ \A k \in 1 .. Cardinality(P) : Ranked(P, k) \in P /\ Rank(P, Ranked(P, k)) = k
         /\ \A n \in P : Ranked(P, Rank(P, n)) = n
<1>1. \A k \in 1 .. Cardinality(P) : Ranked(P, k) \in P /\ Rank(P, Ranked(P, k)) = k
  BY RankProperties DEF Ranked
<1>2. ASSUME NEW n \in P PROVE Ranked(P, Rank(P, n)) = n
  <2> DEFINE m == Ranked(P, Rank(P, n))
  <2>1. Rank(P, n) \in 1 .. Cardinality(P)
    BY RankProperties
  <2>2. m \in P /\ Rank(P, m) = Rank(P, n)
    BY <1>1, <2>1
  <2>3. Rank(P, n) \in Nat
    BY <2>1, FS_CardinalityType
  <2>4. m \in P /\ Rank(P, m) = Rank(P, n) /\ Rank(P, n) \in Nat /\ m \in Nat /\ n \in Nat
    BY <2>2, <2>3
  <2> HIDE DEF m
  <2>5. ~(m < n) /\ ~(n < m)
    BY <2>4, RankProperties
  <2> QED BY <2>4, <2>5 DEF m
<1> QED BY <1>1, <1>2

LEMMA SameRanks ==
  ASSUME NEW P \in SUBSET Nat, IsFiniteSet(P), NEW Q \in SUBSET Nat, IsFiniteSet(Q),
         NEW f \in [P -> Q],
         \A m, n \in P : m < n => f[m] < f[n],
         \A q \in Q : \E n \in P : f[n] = q
  PROVE  Cardinality(Q) = Cardinality(P) /\ \A n \in P : Rank(Q, f[n]) = Rank(P, n)
<1>0. ASSUME NEW m \in P, NEW n \in P PROVE m \in Nat /\ n \in Nat /\ f[m] \in Nat /\ f[n] \in Nat
  OBVIOUS
<1>1. ASSUME NEW m \in P, NEW n \in P PROVE m <= n <=> f[m] <= f[n]
  <2>1. m < n \/ m = n \/ n < m
    BY <1>0
  <2> QED BY <1>0, <2>1
<1>2. ASSUME NEW m \in P, NEW n \in P, f[m] = f[n] PROVE m = n
  BY <1>0, <1>1, <1>2
<1>3. Cardinality(Q) = Cardinality(P)
  <2>1. f \in Bijection(P, Q)
    BY <1>2 DEF Bijection, Injection, IsInjective, Surjection
  <2> QED BY <2>1, FS_Bijection DEF ExistsBijection
<1>4. ASSUME NEW n \in P PROVE Rank(Q, f[n]) = Rank(P, n)
  <2> DEFINE S == UpTo(P, n)
             T == UpTo(Q, f[n])
             g == [m \in S |-> f[m]]
  <2>1. S \subseteq P /\ T \subseteq Q /\ \A m \in P : m \in S <=> m <= n
    BY DEF UpTo
  <2>2. \A m \in P : f[m] \in T <=> m <= n
    BY <1>1 DEF UpTo
  <2>3. g \in [S -> T] /\ \A m \in S : g[m] = f[m]
    BY <2>1, <2>2
  <2>4. IsFiniteSet(S)
    BY <2>1, FS_Subset
  <2> HIDE DEF S, T, g
  <2>5. \A q \in T : \E m \in S : g[m] = q
    BY <2>1, <2>2, <2>3
  <2>6. g \in Bijection(S, T)
    BY <1>2, <2>1, <2>3, <2>5 DEF Bijection, Injection, IsInjective, Surjection
  <2>7. Cardinality(T) = Cardinality(S)
    BY <2>4, <2>6, FS_Bijection DEF ExistsBijection
  <2> QED BY <2>7 DEF Rank, S, T, UpTo
<1> QED BY <1>3, <1>4

-----------------------------------------------------------------------------
(***************************************************************************)
(* The rules of others under the edits of a pass.                          *)
(***************************************************************************)

Others == [tag : Foreign, body : Bodies]

LEMMA PlacesFinite ==
  ASSUME NEW s \in Seq(Rule)
  PROVE  /\ Places(s) \in SUBSET Nat /\ IsFiniteSet(Places(s))
         /\ Places(s) \subseteq DOMAIN s
         /\ \A n \in Places(s) : s[n] \in Others
<1>1. Len(s) \in Nat /\ DOMAIN s = 1 .. Len(s) /\ \A n \in DOMAIN s : s[n] \in Rule
  BY LenProperties
<1>2. Places(s) \in SUBSET (1 .. Len(s))
  BY <1>1 DEF Places
<1>3. IsFiniteSet(Places(s))
  <2>1. IsFiniteSet(1 .. Len(s))
    BY <1>1, FS_Interval
  <2> QED BY <1>2, <2>1, FS_Subset
<1>4. \A n \in Places(s) : s[n] \in Others
  BY <1>1 DEF Places, Rule, Others
<1> QED BY <1>1, <1>2, <1>3, <1>4

LEMMA ForeignType ==
  ASSUME NEW s \in Seq(Rule)
  PROVE  ForeignOf(s) \in Seq(Others)
<1> DEFINE P == Places(s)
<1>1. /\ P \in SUBSET Nat /\ IsFiniteSet(P) /\ \A n \in P : s[n] \in Others
  BY PlacesFinite
<1>2. ForeignOf(s) = [k \in 1 .. Cardinality(P) |-> s[Ranked(P, k)]]
  BY DEF ForeignOf
<1> HIDE DEF P
<1>3. Cardinality(P) \in Nat
  BY <1>1, FS_CardinalityType
<1>4. \A k \in 1 .. Cardinality(P) : Ranked(P, k) \in P
  BY <1>1, RankedProperties
<1>5. [k \in 1 .. Cardinality(P) |-> s[Ranked(P, k)]] \in [1 .. Cardinality(P) -> Others]
  BY <1>1, <1>4
<1> QED BY <1>2, <1>3, <1>5

LEMMA ForeignSame ==
  ASSUME NEW s \in Seq(Rule), NEW u \in Seq(Rule), NEW f \in [Places(s) -> Places(u)],
         \A m, n \in Places(s) : m < n => f[m] < f[n],
         \A q \in Places(u) : \E n \in Places(s) : f[n] = q,
         \A n \in Places(s) : u[f[n]] = s[n]
  PROVE  ForeignOf(u) = ForeignOf(s)
<1> DEFINE P == Places(s)
           Q == Places(u)
<1>1. /\ P \in SUBSET Nat /\ IsFiniteSet(P)
      /\ Q \in SUBSET Nat /\ IsFiniteSet(Q)
  BY PlacesFinite
<1>2. /\ ForeignOf(s) = [k \in 1 .. Cardinality(P) |-> s[Ranked(P, k)]]
      /\ ForeignOf(u) = [k \in 1 .. Cardinality(Q) |-> u[Ranked(Q, k)]]
  BY DEF ForeignOf
<1>3. /\ f \in [P -> Q]
      /\ \A m, n \in P : m < n => f[m] < f[n]
      /\ \A q \in Q : \E n \in P : f[n] = q
      /\ \A n \in P : u[f[n]] = s[n]
  OBVIOUS
<1> HIDE DEF P, Q
<1>4. Cardinality(Q) = Cardinality(P) /\ \A n \in P : Rank(Q, f[n]) = Rank(P, n)
  BY <1>1, <1>3, SameRanks
<1>5. ASSUME NEW k \in 1 .. Cardinality(P) PROVE u[Ranked(Q, k)] = s[Ranked(P, k)]
  <2>1. Ranked(P, k) \in P /\ Rank(P, Ranked(P, k)) = k
    BY <1>1, RankedProperties
  <2>2. f[Ranked(P, k)] \in Q /\ Rank(Q, f[Ranked(P, k)]) = k
    BY <1>3, <1>4, <2>1
  <2>3. Ranked(Q, k) = f[Ranked(P, k)]
    BY <1>1, <2>2, RankedProperties
  <2> QED BY <1>3, <2>1, <2>3
<1> QED BY <1>2, <1>4, <1>5

LEMMA ForeignAppend ==
  ASSUME NEW s \in Seq(Rule), NEW r \in Rule, r.tag \in Tags
  PROVE  ForeignOf(Append(s, r)) = ForeignOf(s)
<1> DEFINE u == Append(s, r)
           f == [n \in Places(s) |-> n]
<1>1. /\ u \in Seq(Rule) /\ Len(u) = Len(s) + 1
      /\ \A n \in 1 .. Len(s) : u[n] = s[n]
      /\ u[Len(s) + 1] = r
  BY AppendProperties
<1>2. Len(s) \in Nat /\ DOMAIN s = 1 .. Len(s) /\ DOMAIN u = 1 .. Len(s) + 1
  BY <1>1, LenProperties
<1> HIDE DEF u
<1>3. r.tag \notin Foreign /\ \A n \in DOMAIN u : n \in DOMAIN s \/ n = Len(s) + 1
  BY <1>2, TagsAssumption
<1>4. Places(u) = Places(s)
  BY <1>1, <1>2, <1>3 DEF Places
<1>5. /\ f \in [Places(s) -> Places(u)] /\ \A n \in Places(s) : f[n] = n /\ u[n] = s[n]
  BY <1>1, <1>2, <1>4 DEF Places
<1> HIDE DEF f
<1>6. ForeignOf(u) = ForeignOf(s)
  BY <1>1, <1>4, <1>5, ForeignSame
<1> QED BY <1>6 DEF u

LEMMA ForeignReplace ==
  ASSUME NEW s \in Seq(Rule), NEW n \in DOMAIN s, NEW r \in Rule,
         s[n].tag \in Tags, r.tag \in Tags
  PROVE  ForeignOf([s EXCEPT ![n] = r]) = ForeignOf(s)
<1> DEFINE u == [s EXCEPT ![n] = r]
           f == [m \in Places(s) |-> m]
<1>1. Len(s) \in Nat /\ DOMAIN s = 1 .. Len(s) /\ s \in [1 .. Len(s) -> Rule]
  BY LenProperties
<1>2. /\ u \in [1 .. Len(s) -> Rule] /\ DOMAIN u = DOMAIN s
      /\ u[n] = r /\ \A m \in DOMAIN s : m # n => u[m] = s[m]
  BY <1>1
<1> HIDE DEF u
<1>3. u \in Seq(Rule)
  BY <1>1, <1>2
<1>4. r.tag \notin Foreign /\ s[n].tag \notin Foreign
  BY TagsAssumption
<1>5. Places(u) = Places(s)
  BY <1>2, <1>4 DEF Places
<1>6. /\ f \in [Places(s) -> Places(u)] /\ \A m \in Places(s) : f[m] = m /\ u[m] = s[m]
  BY <1>2, <1>4, <1>5 DEF Places
<1> HIDE DEF f
<1>7. ForeignOf(u) = ForeignOf(s)
  BY <1>3, <1>5, <1>6, ForeignSame
<1> QED BY <1>7 DEF u

LEMMA ForeignWithout ==
  ASSUME NEW s \in Seq(Rule), NEW n \in DOMAIN s, s[n].tag \in Tags
  PROVE  ForeignOf(Without(s, n)) = ForeignOf(s)
<1> DEFINE u == Without(s, n)
           to(m) == IF m < n THEN m ELSE m - 1
           f == [m \in Places(s) |-> to(m)]
<1>1. /\ u \in Seq(Rule)
      /\ DOMAIN u = 1 .. Len(s) - 1
      /\ \A i \in 1 .. n - 1 : u[i] = s[i]
      /\ \A i \in n .. Len(s) - 1 : u[i] = s[i + 1]
  BY WithoutProperties
<1>2. Len(s) \in Nat /\ DOMAIN s = 1 .. Len(s) /\ n \in 1 .. Len(s)
  BY LenProperties
<1> HIDE DEF u
<1>3. s[n].tag \notin Foreign /\ Places(s) \subseteq DOMAIN s \ {n}
  BY TagsAssumption DEF Places
<1>4. ASSUME NEW m \in DOMAIN s, m # n
      PROVE  to(m) \in DOMAIN u /\ u[to(m)] = s[m]
  <2>1. CASE m < n
    <3>1. m \in 1 .. n - 1 /\ m \in 1 .. Len(s) - 1 /\ to(m) = m
      BY <1>2, <2>1
    <3> QED BY <1>1, <3>1
  <2>2. CASE ~(m < n)
    <3>1. m - 1 \in n .. Len(s) - 1 /\ m - 1 \in 1 .. Len(s) - 1 /\ m - 1 + 1 = m /\ to(m) = m - 1
      BY <1>2, <1>4, <2>2
    <3> QED BY <1>1, <3>1
  <2> QED BY <2>1, <2>2
<1>5. ASSUME NEW i \in DOMAIN u PROVE \E m \in DOMAIN s : m # n /\ to(m) = i
  <2>1. CASE i < n
    <3>1. i \in DOMAIN s /\ i # n /\ to(i) = i
      BY <1>1, <1>2, <2>1
    <3> QED BY <3>1
  <2>2. CASE ~(i < n)
    <3>1. i + 1 \in DOMAIN s /\ i + 1 # n /\ to(i + 1) = i
      BY <1>1, <1>2, <2>2
    <3> QED BY <3>1
  <2> QED BY <2>1, <2>2
<1>6. ASSUME NEW m \in DOMAIN s \ {n}, NEW k \in DOMAIN s \ {n}, m < k PROVE to(m) < to(k)
  BY <1>2, <1>6
<1> HIDE DEF to
<1>7. \A m \in Places(s) : f[m] = to(m) /\ u[f[m]] = s[m] /\ f[m] \in Places(u)
  BY <1>3, <1>4 DEF Places
<1>8. f \in [Places(s) -> Places(u)]
  BY <1>7
<1> HIDE DEF f
<1>9. ASSUME NEW q \in Places(u) PROVE \E m \in Places(s) : f[m] = q
  <2>1. q \in DOMAIN u /\ u[q].tag \in Foreign
    BY DEF Places
  <2>2. PICK m \in DOMAIN s : m # n /\ to(m) = q
    BY <1>5, <2>1
  <2>3. m \in Places(s)
    BY <1>4, <2>1, <2>2 DEF Places
  <2> QED BY <1>7, <2>2, <2>3
<1>10. \A m, k \in Places(s) : m < k => f[m] < f[k]
  BY <1>3, <1>6, <1>7
<1>11. ForeignOf(u) = ForeignOf(s)
  BY <1>1, <1>7, <1>8, <1>9, <1>10, ForeignSame
<1> QED BY <1>11 DEF u

-----------------------------------------------------------------------------
(***************************************************************************)
(* The bodies that a chain holds of each tag.                              *)
(***************************************************************************)

LEMMA BodiesNone ==
  ASSUME NEW s, NEW t \in Tags
  PROVE  BodiesOf(s, t) = {} <=> t \notin TagsOf(s)
BY DEF BodiesOf, TagsOf

LEMMA BodiesOne ==
  ASSUME NEW s, OnePerTag(s), NEW n \in DOMAIN s, s[n].tag \in Tags
  PROVE  BodiesOf(s, s[n].tag) = {s[n].body}
<1>1. ASSUME NEW m \in DOMAIN s, s[m].tag = s[n].tag PROVE m = n
  BY <1>1 DEF OnePerTag
<1> QED BY <1>1 DEF BodiesOf

\* What Without leaves was there before.
LEMMA WithoutFrom ==
  ASSUME NEW s \in Seq(Rule), NEW n \in DOMAIN s, NEW i \in DOMAIN Without(s, n)
  PROVE  \E m \in DOMAIN s : s[m] = Without(s, n)[i]
<1> DEFINE u == Without(s, n)
<1>1. /\ DOMAIN u = 1 .. Len(s) - 1
      /\ \A k \in 1 .. n - 1 : u[k] = s[k]
      /\ \A k \in n .. Len(s) - 1 : u[k] = s[k + 1]
  BY WithoutProperties
<1>2. Len(s) \in Nat /\ DOMAIN s = 1 .. Len(s) /\ i \in DOMAIN u
  BY LenProperties
<1> HIDE DEF u
<1>3. CASE i < n
  <2>1. i \in 1 .. n - 1 /\ i \in DOMAIN s
    BY <1>1, <1>2, <1>3
  <2> QED BY <1>1, <2>1 DEF u
<1>4. CASE ~(i < n)
  <2>1. i \in n .. Len(s) - 1 /\ i + 1 \in DOMAIN s
    BY <1>1, <1>2, <1>4
  <2> QED BY <1>1, <2>1 DEF u
<1> QED BY <1>3, <1>4

\* The bodies of a tag are the same where the rules with that tag are.
LEMMA BodiesSame ==
  ASSUME NEW s, NEW u, NEW t,
         \A n \in DOMAIN s : s[n].tag = t => \E m \in DOMAIN u : u[m] = s[n],
         \A m \in DOMAIN u : u[m].tag = t => \E n \in DOMAIN s : s[n] = u[m]
  PROVE  BodiesOf(u, t) = BodiesOf(s, t)
<1>1. ASSUME NEW n \in DOMAIN s, s[n].tag = t PROVE s[n].body \in BodiesOf(u, t)
  <2>1. PICK m \in DOMAIN u : u[m] = s[n]
    BY <1>1
  <2> QED BY <1>1, <2>1 DEF BodiesOf
<1>2. ASSUME NEW m \in DOMAIN u, u[m].tag = t PROVE u[m].body \in BodiesOf(s, t)
  <2>1. PICK n \in DOMAIN s : s[n] = u[m]
    BY <1>2
  <2> QED BY <1>2, <2>1 DEF BodiesOf
<1> QED BY <1>1, <1>2 DEF BodiesOf

LEMMA OwnedAppend ==
  ASSUME NEW s \in Seq(Rule), OnePerTag(s), NEW r \in Rule,
         r.tag \in Tags, r.tag \notin TagsOf(s)
  PROVE  Owned(Append(s, r)) = [Owned(s) EXCEPT ![r.tag] = {r.body}]
<1> DEFINE u == Append(s, r)
<1>1. /\ u \in Seq(Rule) /\ Len(u) = Len(s) + 1
      /\ \A n \in 1 .. Len(s) : u[n] = s[n]
      /\ u[Len(s) + 1] = r
  BY AppendProperties
<1>2. Len(s) \in Nat /\ DOMAIN s = 1 .. Len(s) /\ DOMAIN u = 1 .. Len(s) + 1
  BY <1>1, LenProperties
<1> HIDE DEF u
<1>3. \A n \in DOMAIN s : n \in DOMAIN u /\ u[n] = s[n] /\ s[n].tag # r.tag
  BY <1>1, <1>2 DEF TagsOf
<1>4. \A n \in DOMAIN u : n \in DOMAIN s \/ n = Len(s) + 1
  BY <1>2
<1>5. ASSUME NEW t \in Tags, t # r.tag PROVE BodiesOf(u, t) = BodiesOf(s, t)
  <2>1. \A n \in DOMAIN s : s[n].tag = t => \E m \in DOMAIN u : u[m] = s[n]
    BY <1>3
  <2>2. \A m \in DOMAIN u : u[m].tag = t => \E n \in DOMAIN s : s[n] = u[m]
    BY <1>1, <1>3, <1>4, <1>5
  <2> QED BY <2>1, <2>2, BodiesSame
<1>6. BodiesOf(u, r.tag) = {r.body}
  <2>1. Len(s) + 1 \in DOMAIN u
    BY <1>2
  <2>2. \A n \in DOMAIN u : u[n].tag = r.tag <=> n = Len(s) + 1
    BY <1>1, <1>3, <1>4, <2>1
  <2> QED BY <1>1, <2>1, <2>2 DEF BodiesOf
<1>7. Owned(u) = [Owned(s) EXCEPT ![r.tag] = {r.body}]
  BY <1>5, <1>6 DEF Owned
<1> QED BY <1>7 DEF u

LEMMA OwnedReplace ==
  ASSUME NEW s \in Seq(Rule), OnePerTag(s), NEW n \in DOMAIN s, NEW r \in Rule,
         r.tag \in Tags, s[n].tag = r.tag
  PROVE  Owned([s EXCEPT ![n] = r]) = [Owned(s) EXCEPT ![r.tag] = {r.body}]
<1> DEFINE u == [s EXCEPT ![n] = r]
<1>1. DOMAIN u = DOMAIN s /\ u[n] = r /\ \A m \in DOMAIN s : m # n => u[m] = s[m]
  BY LenProperties
<1> HIDE DEF u
<1>2. ASSUME NEW t \in Tags, t # r.tag PROVE BodiesOf(u, t) = BodiesOf(s, t)
  <2>1. \A m \in DOMAIN s : s[m].tag = t => m # n
    BY <1>2
  <2>2. \A m \in DOMAIN s : s[m].tag = t => \E i \in DOMAIN u : u[i] = s[m]
    BY <1>1, <2>1
  <2>3. \A m \in DOMAIN u : u[m].tag = t => \E i \in DOMAIN s : s[i] = u[m]
    BY <1>1, <1>2
  <2> QED BY <2>2, <2>3, BodiesSame
<1>3. \A m \in DOMAIN s : s[m].tag = r.tag => m = n
  BY DEF OnePerTag
<1>4. BodiesOf(u, r.tag) = {r.body}
  BY <1>1, <1>3 DEF BodiesOf
<1>5. Owned(u) = [Owned(s) EXCEPT ![r.tag] = {r.body}]
  BY <1>2, <1>4 DEF Owned
<1> QED BY <1>5 DEF u

LEMMA OwnedWithout ==
  ASSUME OwnChain, NEW s \in Seq(Rule), OnePerTag(s), NEW n \in DOMAIN s, s[n].tag \in Tags
  PROVE  Owned(Without(s, n)) = [Owned(s) EXCEPT ![s[n].tag] = {}]
<1> DEFINE u == Without(s, n)
           t0 == s[n].tag
<1>1. /\ \A m \in DOMAIN s : m # n => \E i \in DOMAIN u : u[i] = s[m]
      /\ OwnedTags(u) = OwnedTags(s) \ {t0}
  BY WithoutKeeps, OnceWithout
<1>2. ASSUME NEW i \in DOMAIN u PROVE \E m \in DOMAIN s : s[m] = u[i]
  BY WithoutFrom
<1> HIDE DEF u
<1>3. ASSUME NEW t \in Tags, t # t0 PROVE BodiesOf(u, t) = BodiesOf(s, t)
  <2>1. \A m \in DOMAIN s : s[m].tag = t => \E i \in DOMAIN u : u[i] = s[m]
    BY <1>1, <1>3
  <2>2. \A i \in DOMAIN u : u[i].tag = t => \E m \in DOMAIN s : s[m] = u[i]
    BY <1>2
  <2> QED BY <2>1, <2>2, BodiesSame
<1>4. BodiesOf(u, t0) = {}
  <2>1. t0 \notin TagsOf(u)
    BY <1>1, TagsRead
  <2> QED BY <2>1, BodiesNone
<1>5. Owned(u) = [Owned(s) EXCEPT ![t0] = {}]
  BY <1>3, <1>4 DEF Owned
<1> QED BY <1>5 DEF u

\* Rules of others do not matter.
LEMMA OwnedForeign ==
  ASSUME NEW s \in Seq(Rule), NEW u \in Seq(Rule),
         \/ \E n \in 1 .. Len(s) + 1, r \in Rule : r.tag \notin Tags /\ u = With(s, n, r)
         \/ \E n \in DOMAIN s : s[n].tag \notin Tags /\ u = Without(s, n)
  PROVE  Owned(u) = Owned(s)
<1>1. ASSUME NEW t \in Tags PROVE BodiesOf(u, t) = BodiesOf(s, t)
  <2>1. CASE \E n \in 1 .. Len(s) + 1, r \in Rule : r.tag \notin Tags /\ u = With(s, n, r)
    <3>1. PICK n \in 1 .. Len(s) + 1, r \in Rule : r.tag \notin Tags /\ u = With(s, n, r)
      BY <2>1
    <3> DEFINE w == With(s, n, r)
    <3>2. /\ DOMAIN w = 1 .. Len(s) + 1 /\ w[n] = r
          /\ \A i \in 1 .. n - 1 : w[i] = s[i]
          /\ \A i \in n + 1 .. Len(s) + 1 : w[i] = s[i - 1]
      BY WithProperties
    <3> HIDE DEF w
    <3>3. Len(s) \in Nat /\ DOMAIN s = 1 .. Len(s)
      BY LenProperties
    <3>4. ASSUME NEW m \in DOMAIN s PROVE \E i \in DOMAIN w : w[i] = s[m]
      <4>1. CASE m < n
        <5>1. m \in 1 .. n - 1 /\ m \in DOMAIN w
          BY <3>2, <3>3, <4>1
        <5> QED BY <3>2, <5>1
      <4>2. CASE ~(m < n)
        <5>1. m + 1 \in n + 1 .. Len(s) + 1 /\ m + 1 \in DOMAIN w /\ m + 1 - 1 = m
          BY <3>2, <3>3, <4>2
        <5> QED BY <3>2, <5>1
      <4> QED BY <4>1, <4>2
    <3>5. ASSUME NEW i \in DOMAIN w, w[i].tag = t PROVE \E m \in DOMAIN s : s[m] = w[i]
      <4>1. i # n /\ i \in 1 .. Len(s) + 1
        BY <3>1, <3>2, <3>5
      <4>2. CASE i < n
        <5>1. i \in 1 .. n - 1 /\ i \in DOMAIN s
          BY <3>3, <4>1, <4>2
        <5> QED BY <3>2, <5>1
      <4>3. CASE ~(i < n)
        <5>1. i \in n + 1 .. Len(s) + 1 /\ i - 1 \in DOMAIN s
          BY <3>3, <4>1, <4>3
        <5> QED BY <3>2, <5>1
      <4> QED BY <4>2, <4>3
    <3>6. u = w
      BY <3>1 DEF w
    <3> QED BY <3>4, <3>5, <3>6, BodiesSame
  <2>2. CASE \E n \in DOMAIN s : s[n].tag \notin Tags /\ u = Without(s, n)
    <3>1. PICK n \in DOMAIN s : s[n].tag \notin Tags /\ u = Without(s, n)
      BY <2>2
    <3>2. \A m \in DOMAIN s : m # n => \E i \in DOMAIN u : u[i] = s[m]
      BY <3>1, WithoutKeeps
    <3>3. \A m \in DOMAIN s : s[m].tag = t => \E i \in DOMAIN u : u[i] = s[m]
      BY <3>1, <3>2
    <3>4. \A i \in DOMAIN u : \E m \in DOMAIN s : s[m] = u[i]
      BY <3>1, WithoutFrom
    <3> QED BY <3>3, <3>4, BodiesSame
  <2> QED BY <2>1, <2>2
<1> QED BY <1>1 DEF Owned

-----------------------------------------------------------------------------
(***************************************************************************)
(* The goals of a pass.                                                    *)
(***************************************************************************)

\* What TypeOK says of the entries of a pass.
GoodEntries(w) ==
  /\ w \in Seq(Wanted) /\ DistinctTags(w)
  /\ \A k \in DOMAIN w : w[k].ok => w[k].body \in Bodies

LEMMA GoalWanted ==
  ASSUME NEW w, GoodEntries(w), NEW k \in DOMAIN w, w[k].active, w[k].ok
  PROVE  /\ Goal(w, w[k].tag) = {Kernel[w[k].body]}
         /\ Goal(w, w[k].tag) \notin {NoAddress, {}}
         /\ Kernel[w[k].body] \in Bodies
<1>1. \A j \in DOMAIN w : w[j].tag = w[k].tag <=> j = k
  BY DEF GoodEntries, DistinctTags
<1>2. {j \in DOMAIN w : w[j].tag = w[k].tag /\ w[j].active} = {k}
  BY <1>1
<1>3. Goal(w, w[k].tag) = {Kernel[w[k].body]}
  BY <1>2 DEF Goal
<1>4. Kernel[w[k].body] \in Bodies
  BY BodiesAssumption DEF GoodEntries
<1> QED BY <1>3, <1>4, KeepAssumption

LEMMA GoalUnwanted ==
  ASSUME NEW w, NEW t, \A k \in DOMAIN w : w[k].active => w[k].tag # t
  PROVE  Goal(w, t) = {} /\ Goal(w, t) # NoAddress
<1>1. {k \in DOMAIN w : w[k].tag = t /\ w[k].active} = {}
  OBVIOUS
<1>2. Goal(w, t) = {}
  BY <1>1 DEF Goal
<1> QED BY <1>2, KeepAssumption

LEMMA GoalGated ==
  ASSUME NEW w, NEW k \in DOMAIN w, w[k].active, ~w[k].ok
  PROVE  Goal(w, w[k].tag) = NoAddress
BY DEF Goal

LEMMA GoalType ==
  ASSUME NEW w, GoodEntries(w), NEW t \in Tags
  PROVE  Goal(w, t) \in {NoAddress, {}} \cup {{b} : b \in Bodies}
<1>1. CASE \E k \in DOMAIN w : w[k].active /\ w[k].tag = t
  <2>1. PICK k \in DOMAIN w : w[k].active /\ w[k].tag = t
    BY <1>1
  <2>2. CASE w[k].ok
    BY <2>1, <2>2, GoalWanted
  <2>3. CASE ~w[k].ok
    BY <2>1, <2>3, GoalGated
  <2> QED BY <2>2, <2>3
<1>2. CASE \A k \in DOMAIN w : w[k].active => w[k].tag # t
  BY <1>2, GoalUnwanted
<1> QED BY <1>1, <1>2

-----------------------------------------------------------------------------
(***************************************************************************)
(* The steps of Reconcile, in the words of Apply.                          *)
(***************************************************************************)

LEMMA GoalStays ==
  ASSUME UNCHANGED want, Busy' = Busy
  PROVE  GoalNow' = GoalNow
BY DEF GoalNow

LEMMA DoNothing ==
  ASSUME UNCHANGED <<chain, result>>, Busy' = Busy, UNCHANGED want \/ ~Busy
  PROVE  UNCHANGED Abstract!vars
<1>1. CASE UNCHANGED want
  BY <1>1, GoalStays DEF Abstract!vars
<1>2. CASE ~Busy
  <2>1. GoalNow' = GoalNow
    BY <1>2 DEF GoalNow
  <2> QED BY <2>1 DEF Abstract!vars
<1> QED BY <1>1, <1>2

LEMMA DoStart ==
  ASSUME ~Busy, Busy', GoodEntries(want'), UNCHANGED <<chain, result>>
  PROVE  Abstract!Next
<1>1. GoalNow' = [t \in Tags |-> Goal(want', t)]
  BY DEF GoalNow
<1>2. \A t \in Tags : Goal(want', t) \in {NoAddress, {}} \cup {{b} : b \in Bodies}
  BY GoalType
<1>3. GoalNow' \in Abstract!Goals
  BY <1>1, <1>2 DEF Abstract!Goals
<1>4. Abstract!Start
  BY <1>3 DEF Abstract!Start
<1> QED BY <1>4 DEF Abstract!Next

LEMMA DoPut ==
  ASSUME NEW t \in Tags, Busy, Busy', UNCHANGED <<want, result>>,
         ForeignOf(chain') = ForeignOf(chain),
         Goal(want, t) \notin {NoAddress, {}},
         Owned(chain') = [Owned(chain) EXCEPT ![t] = Goal(want, t)]
  PROVE  Abstract!Next
<1>1. GoalNow' = GoalNow /\ GoalNow[t] = Goal(want, t)
  BY GoalStays DEF GoalNow
<1>2. Abstract!Put(t)
  BY <1>1 DEF Abstract!Put
<1> QED BY <1>2 DEF Abstract!Next

LEMMA DoWithdraw ==
  ASSUME NEW t \in Tags, Busy, Busy', UNCHANGED <<want, result>>,
         ForeignOf(chain') = ForeignOf(chain),
         Goal(want, t) # NoAddress,
         Owned(chain') = [Owned(chain) EXCEPT ![t] = {}]
  PROVE  Abstract!Next
<1>1. GoalNow' = GoalNow /\ GoalNow[t] = Goal(want, t)
  BY GoalStays DEF GoalNow
<1>2. Abstract!Withdraw(t)
  BY <1>1 DEF Abstract!Withdraw
<1> QED BY <1>2 DEF Abstract!Next

LEMMA NoGoalNow == ~Busy' => GoalNow' = [t \in Tags |-> {}]
BY DEF GoalNow

LEMMA DoGiveUp ==
  ASSUME ~Busy', result' = FALSE, UNCHANGED chain
  PROVE  Abstract!Next
<1>1. Busy' = FALSE
  BY DEF Busy
<1>2. Abstract!GiveUp
  BY <1>1, NoGoalNow DEF Abstract!GiveUp, Abstract!NoGoal
<1> QED BY <1>2 DEF Abstract!Next

LEMMA DoIdle ==
  ASSUME ~Busy, ~Busy', result' = TRUE, UNCHANGED chain
  PROVE  Abstract!Next
<1>1. GoalNow' = GoalNow /\ Busy' = Busy
  BY DEF GoalNow, Busy
<1>2. Abstract!Idle
  BY <1>1 DEF Abstract!Idle
<1> QED BY <1>2 DEF Abstract!Next

LEMMA DoSucceed ==
  ASSUME Busy, ~Busy', result' = TRUE, UNCHANGED chain,
         \A t \in Tags :
           \/ Goal(want, t) = NoAddress
           \/ BodiesOf(chain, t) = Goal(want, t)
           \/ /\ Goal(want, t) # {} /\ BodiesOf(chain, t) # {}
              /\ \E g \in Tags : Goal(want, g) = NoAddress /\ BodiesOf(chain, g) # {}
  PROVE  Abstract!Next
<1>1. Busy' = FALSE /\ GoalNow = [t \in Tags |-> Goal(want, t)]
  BY DEF Busy, GoalNow
<1>2. \A t \in Tags : Abstract!Reached(t)
  BY <1>1 DEF Abstract!Reached, Abstract!Excused, Owned
<1>3. Abstract!Succeed
  BY <1>1, <1>2, NoGoalNow DEF Abstract!Succeed, Abstract!NoGoal
<1> QED BY <1>3 DEF Abstract!Next

LEMMA DoSurroundings ==
  ASSUME ~Busy, ~Busy', UNCHANGED result, chain' \in Seq(Rule),
         Owned(chain') \in {Owned(chain), [t \in Tags |-> {}]}
  PROVE  Abstract!Next
<1>1. GoalNow' = GoalNow /\ Busy' = Busy
  BY DEF GoalNow, Busy
<1>2. ForeignOf(chain') \in Seq([tag : Foreign, body : Bodies])
  BY ForeignType DEF Others
<1>3. Abstract!Surroundings
  BY <1>1, <1>2 DEF Abstract!Surroundings
<1> QED BY <1>3 DEF Abstract!Next

-----------------------------------------------------------------------------
(***************************************************************************)
(* Every step of Apply is one of Reconcile.                                *)
(***************************************************************************)

\* The cleanup of a removed file has no entries and goes nowhere but to its wipe; -R
\* is for entries that the pass is about.
PassShape ==
  /\ mode = "removed" => want = <<>> /\ pc \in {"idle", "wipe", "wipe_delete"}
  /\ pc = "replace" => Here.active

RefineInv == AppliedInv /\ GatedInv /\ PassShape

Simulated == Abstract!Next \/ UNCHANGED Abstract!vars

LEMMA RefineFacts ==
  ASSUME RefineInv
  PROVE  /\ TypeOK /\ OnePerTag(chain) /\ chain \in Seq(Rule) /\ GoodEntries(want)
         /\ OnceInv /\ GatedInv
<1>1. TypeOK /\ OnceInv /\ GatedInv /\ OnePerTag(chain)
  BY DEF RefineInv, AppliedInv, OnceInv, OnceSafe, NumInv
<1>2. chain \in Seq(Rule) /\ GoodEntries(want)
  BY <1>1 DEF TypeOK, GoodEntries
<1> QED BY <1>1, <1>2

LEMMA PassShapeStep == PassShape /\ [Next]_vars => PassShape'
<1> SUFFICES ASSUME PassShape, [Next]_vars PROVE PassShape'
  OBVIOUS
<1>1. CASE Refuse \/ BeginRemoved \/ \E op \in {"full", "hosts"}, d \in DropIns : Begin(op, d)
  <2>1. pc' # "replace" /\ (mode' = "removed" => want' = <<>> /\ pc' = "wipe")
    BY <1>1 DEF Refuse, BeginRemoved, Begin, Return
  <2> QED BY <2>1 DEF PassShape
<1>2. CASE WipeList \/ WipeDelete
  <2>1. /\ UNCHANGED <<mode, want>>
        /\ mode = "removed" => pc' \in {"idle", "wipe", "wipe_delete"}
        /\ pc' # "replace"
    BY <1>2, Zenon DEF WipeList, WipeDelete, AfterWipe, Return
  <2> QED BY <2>1 DEF PassShape
<1>3. CASE Intruder
  BY <1>3 DEF PassShape, Intruder, ForeignInsert, ForeignDelete, ForeignFlush, locals, Here
<1>4. CASE Resolve \/ ListOrphans \/ DeleteOrphan \/ ListLive \/ SkipRule
             \/ ReplaceRule \/ AppendRule \/ AppendAll \/ Finish
  <2>1. pc \notin {"idle", "wipe", "wipe_delete"} /\ UNCHANGED mode
    BY <1>4 DEF Resolve, ListOrphans, DeleteOrphan, ListLive, SkipRule,
                ReplaceRule, AppendRule, AppendAll, Finish, InLoop, locals
  <2>2. pc' # "replace"
    BY <1>4, Zenon DEF Resolve, ListOrphans, DeleteOrphan, ListLive, SkipRule,
                ReplaceRule, AfterFailedReplace, AppendRule, AppendAll, Finish, InLoop, Return
  <2> QED BY <2>1, <2>2 DEF PassShape
<1>6. CASE CheckRule
  <2>1. pc = "apply" /\ UNCHANGED <<mode, want>> /\ Here.active
    BY <1>6 DEF CheckRule, InLoop, Skipped
  <2>2. pc' = "apply" \/ (pc' = "replace" /\ UNCHANGED idx)
    BY <1>6 DEF CheckRule, InLoop
  <2> QED BY <2>1, <2>2 DEF PassShape, Here
<1>5. CASE UNCHANGED vars
  BY <1>5 DEF PassShape, vars, Here
<1> QED BY <1>1, <1>2, <1>3, <1>4, <1>5, <1>6 DEF Next, Pass

LEMMA SimulateBegin ==
  ASSUME RefineInv,
         Refuse \/ BeginRemoved \/ \E op \in {"full", "hosts"}, d \in DropIns : Begin(op, d)
  PROVE  Simulated
<1>1. CASE Refuse
  <2>1. ~Busy' /\ result' = FALSE /\ UNCHANGED chain
    BY <1>1 DEF Refuse, Return, Busy
  <2> QED BY <2>1, DoGiveUp DEF Simulated
<1>2. CASE BeginRemoved
  <2>1. ~Busy /\ Busy' /\ want' = <<>> /\ UNCHANGED <<chain, result>>
    BY <1>2 DEF BeginRemoved, Busy
  <2>2. GoodEntries(want')
    BY <2>1, EmptySeq, LenProperties DEF GoodEntries, DistinctTags
  <2> QED BY <2>1, <2>2, DoStart DEF Simulated
<1>3. CASE \E op \in {"full", "hosts"}, d \in DropIns : Begin(op, d)
  <2>1. ~Busy /\ ~Busy' /\ UNCHANGED <<chain, result>>
    BY <1>3 DEF Begin, Busy
  <2>2. Busy' = Busy
    BY <2>1 DEF Busy
  <2> QED BY <2>1, <2>2, DoNothing DEF Simulated
<1> QED BY <1>1, <1>2, <1>3

LEMMA SimulateResolve == ASSUME RefineInv, Resolve PROVE Simulated
<1>1. ~Busy /\ UNCHANGED chain
  BY DEF Resolve, Busy
<1>2. CASE mode = "hosts" /\ \A k \in DOMAIN file : ~file[k].hosts
  <2>1. pc' = "idle" /\ result' = TRUE
    BY <1>2 DEF Resolve, Return
  <2>2. ~Busy'
    BY <2>1 DEF Busy
  <2> QED BY <1>1, <2>1, <2>2, DoIdle DEF Simulated
<1>3. CASE ~(mode = "hosts" /\ \A k \in DOMAIN file : ~file[k].hosts)
  <2>1. pc' = "orphan_list" /\ UNCHANGED result
    BY <1>3, Zenon DEF Resolve
  <2>2. Busy'
    BY <2>1 DEF Busy
  <2>3. GoodEntries(want')
    BY RefineFacts, TypeResolve DEF TypeOK, GoodEntries
  <2> QED BY <1>1, <2>1, <2>2, <2>3, DoStart DEF Simulated
<1> QED BY <1>2, <1>3

\* Listings, rules passed over and rules found equal change nothing.
LEMMA SimulateQuiet ==
  ASSUME RefineInv, ListOrphans \/ ListLive \/ SkipRule \/ CheckRule \/ UNCHANGED vars
  PROVE  Simulated
<1>1. UNCHANGED <<chain, result, want>>
  BY DEF ListOrphans, ListLive, SkipRule, CheckRule, vars
<1>2. Busy' = Busy
  BY DEF ListOrphans, ListLive, SkipRule, CheckRule, vars, InLoop, Busy
<1> QED BY <1>1, <1>2, DoNothing DEF Simulated

LEMMA SimulateDeleteOrphan == ASSUME CalmChain, RefineInv, DeleteOrphan PROVE Simulated
<1>1. /\ Busy /\ Busy' /\ UNCHANGED <<want, result>>
  BY DEF DeleteOrphan, Busy
<1>2. Busy' = Busy
  BY DEF DeleteOrphan, Busy
<1>3. PICK n \in doomed : DeleteNumSucceeds(n) \/ DeleteNumFails(n)
  BY DEF DeleteOrphan
<1>4. CASE UNCHANGED chain
  BY <1>1, <1>2, <1>4, DoNothing DEF Simulated
<1>5. CASE n \in DOMAIN chain /\ chain' = Without(chain, n)
  <2>1. ~stale
    BY DEF RefineInv, AppliedInv, AppliedSafe, OrphansListed, DeleteOrphan
  <2>2. chain[n].tag \in Tags \ ConfigTags
    BY <2>1, RefineFacts, LinesRead DEF CalmChain, OnceInv, NumInv, NumbersValid, DeleteOrphan
  <2>3. Goal(want, chain[n].tag) # NoAddress
    BY <2>2, GoalUnwanted DEF ConfigTags
  <2>4. /\ ForeignOf(chain') = ForeignOf(chain)
        /\ Owned(chain') = [Owned(chain) EXCEPT ![chain[n].tag] = {}]
    BY <1>5, <2>2, RefineFacts, ForeignWithout, OwnedWithout DEF CalmChain
  <2> QED BY <1>1, <2>2, <2>3, <2>4, DoWithdraw DEF Simulated
<1> QED BY <1>3, <1>4, <1>5 DEF DeleteNumSucceeds, DeleteNumFails

\* The goal of the entry in hand.
LEMMA HereGoal ==
  ASSUME TypeOK, idx \in DOMAIN want, Here.ok, Here.active
  PROVE  /\ Here.tag \in Tags
         /\ RuleOf(Here) \in Rule /\ RuleOf(Here).tag = Here.tag
         /\ Goal(want, Here.tag) = {RuleOf(Here).body}
         /\ Goal(want, Here.tag) \notin {NoAddress, {}}
<1>1. Here \in Wanted /\ Here.body \in Bodies /\ GoodEntries(want)
  BY HereType DEF TypeOK, GoodEntries
<1>2. Here.tag \in Tags /\ RuleOf(Here) \in Rule /\ RuleOf(Here).tag = Here.tag
  BY <1>1, RuleOfType DEF Wanted
<1>3. RuleOf(Here).body = Kernel[Here.body]
  BY DEF RuleOf
<1>4. /\ Goal(want, Here.tag) = {Kernel[Here.body]}
      /\ Goal(want, Here.tag) \notin {NoAddress, {}}
  BY <1>1, GoalWanted DEF Here
<1> QED BY <1>2, <1>3, <1>4

LEMMA SimulateReplace == ASSUME CalmChain, RefineInv, ReplaceRule PROVE Simulated
<1>1. pc = "replace" /\ UNCHANGED <<want, result>>
  BY DEF ReplaceRule
<1>2. Busy /\ Busy' /\ Busy' = Busy
  BY DEF ReplaceRule, AfterFailedReplace, Busy
<1>3. ~stale /\ NumInv /\ idx \in DOMAIN want /\ Here.ok /\ Here.active
  BY <1>1, RefineFacts DEF OnceInv, OnceSafe, NumInv, TypeOK, RefineInv, PassShape
<1>4. CASE ReplaceFails(LiveNum, Here)
  BY <1>1, <1>2, <1>4, DoNothing DEF ReplaceFails, Simulated
<1>5. CASE ReplaceSucceeds(LiveNum, Here)
  <2>1. LiveNum \in DOMAIN chain /\ chain[LiveNum].tag = Here.tag
    BY <1>1, <1>3, ReplacedTag, LinesRead DEF CalmChain
  <2>2. chain' = [chain EXCEPT ![LiveNum] = RuleOf(Here)]
    BY <1>5 DEF ReplaceSucceeds
  <2>3. /\ Here.tag \in Tags /\ RuleOf(Here) \in Rule /\ RuleOf(Here).tag = Here.tag
        /\ Goal(want, Here.tag) = {RuleOf(Here).body}
        /\ Goal(want, Here.tag) \notin {NoAddress, {}}
    BY <1>3, RefineFacts, HereGoal
  <2>4. ForeignOf(chain') = ForeignOf(chain)
    BY <2>1, <2>2, <2>3, RefineFacts, ForeignReplace
  <2>5. Owned(chain') = [Owned(chain) EXCEPT ![Here.tag] = {RuleOf(Here).body}]
    <3> DEFINE rule == RuleOf(Here)
    <3>1. rule \in Rule /\ rule.tag \in Tags /\ chain[LiveNum].tag = rule.tag
      BY <2>1, <2>3
    <3> HIDE DEF rule
    <3>2. Owned([chain EXCEPT ![LiveNum] = rule]) = [Owned(chain) EXCEPT ![rule.tag] = {rule.body}]
      BY <2>1, <3>1, RefineFacts, OwnedReplace
    <3> QED BY <2>2, <2>3, <3>2 DEF rule
  <2> QED BY <1>1, <1>2, <2>3, <2>4, <2>5, DoPut DEF Simulated
<1> QED BY <1>4, <1>5 DEF ReplaceRule

\* Adding the rule of an entry whose tag is not in the chain.
LEMMA SimulateAdd ==
  ASSUME RefineInv, idx \in DOMAIN want, Here.ok, Here.active, AddSucceeds(Here),
         Here.tag \notin TagsOf(chain), Busy, Busy', UNCHANGED <<want, result>>
  PROVE  Simulated
<1>1. /\ Here.tag \in Tags /\ RuleOf(Here) \in Rule /\ RuleOf(Here).tag = Here.tag
      /\ Goal(want, Here.tag) = {RuleOf(Here).body}
      /\ Goal(want, Here.tag) \notin {NoAddress, {}}
  BY RefineFacts, HereGoal
<1>2. chain' = Append(chain, RuleOf(Here))
  BY DEF AddSucceeds
<1>3. ForeignOf(chain') = ForeignOf(chain)
  BY <1>1, <1>2, RefineFacts, ForeignAppend
<1>4. Owned(chain') = [Owned(chain) EXCEPT ![Here.tag] = {RuleOf(Here).body}]
  BY <1>1, <1>2, RefineFacts, OwnedAppend
<1> QED BY <1>1, <1>3, <1>4, DoPut DEF Simulated

LEMMA SimulateAppend == ASSUME CalmChain, RefineInv, AppendRule \/ AppendAll PROVE Simulated
<1>1. /\ Busy /\ UNCHANGED want /\ idx \in DOMAIN want /\ pc \in {"apply", "append_all"}
  BY DEF AppendRule, AppendAll, InLoop, Busy
<1>2. Here.tag \notin Passed
  BY <1>1, RefineFacts, HereNotPassed
<1>3. Here.tag \notin TagsOf(chain)
  <2>1. CASE AppendRule
    <3>1. pc = "apply" /\ Here.tag \notin OwnedTags(listing)
      BY <2>1 DEF AppendRule, InLoop, IsLive
    <3>2. Here.tag \notin OwnedTags(chain)
      BY <1>2, <3>1, RefineFacts DEF OnceInv, OnceSafe
    <3> QED BY <3>2, TagsRead DEF CalmChain
  <2>2. CASE AppendAll
    <3>1. Here.tag \notin OwnedTags(chain)
      BY <1>2, <2>2, RefineFacts DEF OnceInv, OnceSafe, AppendAll
    <3> QED BY <3>1, TagsRead DEF CalmChain
  <2> QED BY <2>1, <2>2
<1>4. CASE idx' = idx + 1 /\ UNCHANGED <<chain, pc, result>>
  <2>1. Busy' = Busy
    BY <1>4 DEF Busy
  <2> QED BY <1>1, <1>4, <2>1, DoNothing DEF Simulated
<1>5. CASE AddSucceeds(Here) /\ UNCHANGED <<pc, result>> /\ Here.active /\ Here.ok
  <2>1. Busy'
    BY <1>1, <1>5 DEF Busy
  <2> QED BY <1>1, <1>3, <1>5, <2>1, SimulateAdd
<1>6. CASE AddFails(Here) /\ Return(FALSE)
  <2>1. ~Busy' /\ result' = FALSE /\ UNCHANGED chain
    BY <1>6 DEF AddFails, Return, Busy
  <2> QED BY <2>1, DoGiveUp DEF Simulated
<1> QED BY <1>4, <1>5, <1>6 DEF AppendRule, AppendAll, Skipped

LEMMA SimulateFinish == ASSUME CalmChain, RefineInv, Finish PROVE Simulated
<1>1. /\ Busy /\ ~Busy' /\ result' = TRUE /\ UNCHANGED chain
      /\ pc \in {"apply", "append_all"} /\ idx \notin DOMAIN want
  BY DEF Finish, Return, Busy
<1>2. /\ TagsOf(chain) \subseteq ConfigTags /\ LoopApplies
  BY <1>1 DEF RefineInv, AppliedInv, AppliedSafe, OrphansGone
<1>3. \A k \in DOMAIN want : k < idx
  <2>1. idx \in Nat \ {0} /\ DOMAIN want = 1 .. Len(want) /\ Len(want) \in Nat
    BY RefineFacts, LenProperties DEF TypeOK
  <2> QED BY <1>1, <2>1
<1>4. ASSUME GatedLive, pc = "apply"
      PROVE  \E g \in Tags : Goal(want, g) = NoAddress /\ BodiesOf(chain, g) # {}
  <2>1. PICK k \in DOMAIN want : Gated(k) /\ want[k].tag \in OwnedTags(listing)
    BY <1>4 DEF GatedLive
  <2>2. ~stale /\ \A n \in DOMAIN listing : n \in DOMAIN chain /\ chain[n].tag = listing[n].tag
    BY <1>4, RefineFacts, LinesRead DEF CalmChain, OnceInv, OnceSafe, NumInv, NumbersValid
  <2>3. want[k].tag \in TagsOf(chain) /\ want[k].tag \in Tags
    <3>1. want[k].tag \in TagsOf(listing)
      BY <2>1, TagsRead DEF CalmChain
    <3> QED BY <2>2, <3>1 DEF TagsOf
  <2>4. Goal(want, want[k].tag) = NoAddress
    BY <2>1, GoalGated DEF Gated
  <2>5. BodiesOf(chain, want[k].tag) # {}
    BY <2>3, BodiesNone
  <2> QED BY <2>3, <2>4, <2>5
<1>5. ASSUME NEW t \in Tags
      PROVE  \/ Goal(want, t) = NoAddress
             \/ BodiesOf(chain, t) = Goal(want, t)
             \/ /\ Goal(want, t) # {} /\ BodiesOf(chain, t) # {}
                /\ \E g \in Tags : Goal(want, g) = NoAddress /\ BodiesOf(chain, g) # {}
  <2>1. CASE \A k \in DOMAIN want : want[k].active => want[k].tag # t
    <3>1. t \notin TagsOf(chain)
      BY <1>2, <2>1 DEF ConfigTags
    <3>2. BodiesOf(chain, t) = {} /\ Goal(want, t) = {}
      BY <2>1, <3>1, BodiesNone, GoalUnwanted
    <3> QED BY <3>2
  <2>2. ASSUME NEW k \in DOMAIN want, want[k].active, want[k].tag = t, ~want[k].ok
        PROVE  Goal(want, t) = NoAddress
    BY <2>2, GoalGated
  <2>3. ASSUME NEW k \in DOMAIN want, want[k].active, want[k].tag = t, want[k].ok
        PROVE  \/ BodiesOf(chain, t) = Goal(want, t)
               \/ /\ Goal(want, t) # {} /\ BodiesOf(chain, t) # {}
                  /\ \E g \in Tags : Goal(want, g) = NoAddress /\ BodiesOf(chain, g) # {}
    <3>1. Goal(want, t) = {Kernel[want[k].body]} /\ Goal(want, t) # {}
      BY <2>3, RefineFacts, GoalWanted
    <3>2. Applied(k) \/ (pc = "apply" /\ Excused(k))
      BY <1>1, <1>2, <1>3, <2>3 DEF LoopApplies, InForce
    <3>3. CASE Applied(k)
      <4>1. PICK n \in DOMAIN chain : chain[n] = RuleOf(want[k])
        BY <3>3 DEF Applied, InChain
      <4>2. chain[n].tag = t /\ chain[n].body = Kernel[want[k].body]
        BY <2>3, <4>1 DEF RuleOf
      <4>3. BodiesOf(chain, t) = {Kernel[want[k].body]}
        BY <4>2, RefineFacts, BodiesOne
      <4> QED BY <3>1, <4>3
    <3>4. CASE pc = "apply" /\ Excused(k)
      <4>1. GatedLive /\ t \in TagsOf(chain)
        BY <2>3, <3>4 DEF Excused
      <4>2. BodiesOf(chain, t) # {}
        BY <4>1, BodiesNone
      <4> QED BY <1>4, <3>1, <3>4, <4>1, <4>2
    <3> QED BY <3>2, <3>3, <3>4
  <2> QED BY <2>1, <2>2, <2>3
<1> QED BY <1>1, <1>5, DoSucceed DEF Simulated

LEMMA SimulateWipe == ASSUME CalmChain, RefineInv, WipeList PROVE Simulated
<1>1. Busy /\ UNCHANGED <<chain, want>> /\ pc = "wipe"
  BY DEF WipeList, Busy
<1>2. CASE AfterWipe /\ OwnedTags(chain) = {}
  <2>1. CASE mode = "removed"
    <3>1. pc' = "idle" /\ result' = TRUE /\ want = <<>>
      BY <1>2, <2>1 DEF AfterWipe, Return, RefineInv, PassShape
    <3>2. \A t \in Tags : Goal(want, t) = {} /\ BodiesOf(chain, t) = {}
      <4>1. DOMAIN want = {}
        BY <3>1, EmptySeq, LenProperties
      <4>2. TagsOf(chain) = {}
        BY <1>2, TagsRead DEF CalmChain
      <4> QED BY <4>1, <4>2, GoalUnwanted, BodiesNone
    <3>3. ~Busy'
      BY <3>1 DEF Busy
    <3> QED BY <1>1, <3>1, <3>2, <3>3, DoSucceed DEF Simulated
  <2>2. CASE mode # "removed"
    <3>1. pc' = "append_all" /\ UNCHANGED result
      BY <1>2, <2>2, Zenon DEF AfterWipe
    <3>2. Busy' = Busy
      BY <1>1, <3>1 DEF Busy
    <3> QED BY <1>1, <3>1, <3>2, DoNothing DEF Simulated
  <2> QED BY <2>1, <2>2
<1>3. CASE pc' = "wipe_delete" /\ UNCHANGED result
  <2>1. Busy' = Busy
    BY <1>1, <1>3 DEF Busy
  <2> QED BY <1>1, <1>3, <2>1, DoNothing DEF Simulated
<1>4. CASE idx <= DeleteMax /\ List
  <2>1. listing' = chain
    BY <1>4, RefineFacts, ListExact DEF CalmChain
  <2>2. idx \in Nat /\ DeleteMax \in Nat
    BY RefineFacts, SwitchAssumption DEF TypeOK
  <2>3. CASE OwnedTags(listing') = {}
    <3>1. AfterWipe
      BY <1>4, <2>2, <2>3 DEF WipeList
    <3> QED BY <1>2, <2>1, <2>3, <3>1
  <2>4. CASE OwnedTags(listing') # {}
    <3>1. pc' = "wipe_delete" /\ UNCHANGED result
      BY <1>4, <2>2, <2>4, LinesRead DEF WipeList, CalmChain
    <3> QED BY <1>3, <3>1
  <2> QED BY <2>3, <2>4
<1>5. CASE idx > DeleteMax /\ AfterWipe
  <2>1. /\ Cardinality(OwnedTags(chain)) + idx <= DeleteMax + 1
        /\ Cardinality(OwnedTags(chain)) \in Nat /\ IsFiniteSet(OwnedTags(chain))
        /\ idx \in Nat /\ DeleteMax \in Nat
    BY <1>1, RefineFacts, OwnedTagsFinite, SwitchAssumption
    DEF CalmChain, OnceInv, OnceSafe, TypeOK
  <2>2. Cardinality(OwnedTags(chain)) = 0
    BY <1>5, <2>1
  <2>3. OwnedTags(chain) = {}
    BY <2>1, <2>2, FS_EmptySet
  <2> QED BY <1>2, <1>5, <2>3
<1> QED BY <1>4, <1>5 DEF WipeList

\* What the wipe deletes is not a rule to be kept.
LEMMA SimulateWipeDelete == ASSUME CalmChain, RefineInv, WipeDelete PROVE Simulated
<1>1. Busy /\ pc = "wipe_delete" /\ UNCHANGED want
  BY DEF WipeDelete, Busy
<1>2. /\ listing = chain /\ OwnedTags(chain) # {} /\ chain \in Seq(Rule)
  BY <1>1, RefineFacts DEF OnceInv, OnceSafe, TypeOK
<1> DEFINE r == listing[FirstOwned(listing)]
<1>3. InChain(r) /\ r.tag \in Tags
  BY <1>2, FirstOwnedIsOwned DEF InChain
<1>4. exists
  BY <1>3, RefineFacts, NotInMissingChain
<1>5. DeleteSpecSucceeds(r) /\ pc' = "wipe" /\ UNCHANGED result
  BY <1>3, <1>4 DEF WipeDelete, DeleteSpecFails, CalmChain, OwnChain, CanFail
<1> HIDE DEF r
<1>6. PICK n \in DOMAIN chain : chain[n] = r /\ chain' = Without(chain, n)
  BY <1>5 DEF DeleteSpecSucceeds
<1>7. r.tag \in OwnedTags(chain)
  BY <1>3, <1>6, ReadsAll DEF CalmChain
<1>8. r.tag \notin GatedTags
  BY <1>1, <1>7, RefineFacts DEF GatedInv, GatedSafe
<1>9. Goal(want, r.tag) # NoAddress
  <2>1. CASE \E k \in DOMAIN want : want[k].active /\ want[k].tag = r.tag
    <3>1. PICK k \in DOMAIN want : want[k].active /\ want[k].tag = r.tag
      BY <2>1
    <3>2. want[k].ok
      BY <1>8, <3>1 DEF GatedTags, Gated
    <3> QED BY <3>1, <3>2, RefineFacts, GoalWanted
  <2>2. CASE \A k \in DOMAIN want : want[k].active => want[k].tag # r.tag
    BY <2>2, GoalUnwanted
  <2> QED BY <2>1, <2>2
<1>10. /\ ForeignOf(chain') = ForeignOf(chain)
       /\ Owned(chain') = [Owned(chain) EXCEPT ![r.tag] = {}]
  BY <1>3, <1>6, RefineFacts, ForeignWithout, OwnedWithout DEF CalmChain
<1>11. Busy'
  BY <1>5 DEF Busy
<1> QED BY <1>1, <1>3, <1>5, <1>9, <1>10, <1>11, DoWithdraw DEF Simulated

LEMMA SimulateIntruder == ASSUME CalmChain, RefineInv, Intruder PROVE Simulated
<1>1. pc = "idle" /\ UNCHANGED <<pc, result>>
  BY DEF CalmChain, OwnChain, Intruder, MayIntrude, ForeignInsert, ForeignDelete, ForeignFlush
<1>2. ~Busy /\ ~Busy'
  BY <1>1 DEF Busy
<1>3. chain \in Seq(Rule) /\ chain' \in Seq(Rule)
  BY RefineFacts, TypeIntruder DEF TypeOK
<1>4. CASE ForeignInsert
  <2>1. PICK r \in ForeignRules, n \in 1 .. Len(chain) + 1 : chain' = With(chain, n, r)
    BY <1>4 DEF ForeignInsert
  <2>2. r \in Rule /\ r.tag \notin Tags
    BY ForeignAssumption, TagsAssumption DEF Rule
  <2>3. Owned(chain') = Owned(chain)
    BY <1>3, <2>1, <2>2, OwnedForeign
  <2> QED BY <1>1, <1>2, <1>3, <2>3, DoSurroundings DEF Simulated
<1>5. CASE ForeignDelete
  <2>1. PICK n \in DOMAIN chain : chain[n].tag \in Foreign /\ chain' = Without(chain, n)
    BY <1>5 DEF ForeignDelete
  <2>2. chain[n].tag \notin Tags
    BY <2>1, TagsAssumption
  <2>3. Owned(chain') = Owned(chain)
    BY <1>3, <2>1, <2>2, OwnedForeign
  <2> QED BY <1>1, <1>2, <1>3, <2>3, DoSurroundings DEF Simulated
<1>6. CASE ForeignFlush
  <2>1. chain' = <<>>
    BY <1>6 DEF ForeignFlush
  <2>2. TagsOf(chain') = {}
    BY <2>1, EmptySeq, LenProperties DEF TagsOf
  <2>3. Owned(chain') = [t \in Tags |-> {}]
    BY <2>2, BodiesNone DEF Owned
  <2> QED BY <1>1, <1>2, <1>3, <2>3, DoSurroundings DEF Simulated
<1> QED BY <1>4, <1>5, <1>6 DEF Intruder

\* Apply implements Reconcile: each iptables command of a pass is the withdrawal or the
\* putting of one tag's rule, its end a success with every goal reached or giving up,
\* and no step touches the rules of others (apply.py:30-281, owned_rules.py:106-143),
\* for every drop-in, chain, DNS answer and pattern of failing -N, -C, -R and -A, where
\* listings and deletions do what they say and nobody edits the chain during a pass.
THEOREM Implements == CalmChain => (Spec => ImplementsReconcile)
<1> SUFFICES ASSUME CalmChain PROVE Spec => ImplementsReconcile
  OBVIOUS
<1>1. Init => RefineInv
  <2>1. Init => AppliedInv
    BY AppliedInit
  <2>2. Init => GatedInv
    BY GatedInit
  <2>3. Init => PassShape
    BY DEF Init, PassShape
  <2> QED BY <2>1, <2>2, <2>3 DEF RefineInv
<1>2. RefineInv /\ [Next]_vars => RefineInv'
  BY AppliedStep, GatedStep, PassShapeStep DEF RefineInv
<1>3. Init => Abstract!Init
  <2> SUFFICES ASSUME Init PROVE Abstract!Init
    OBVIOUS
  <2>1. chain = <<>> /\ ~Busy /\ result = TRUE
    BY DEF Init, Busy
  <2>2. DOMAIN chain = {}
    BY <2>1, EmptySeq, LenProperties
  <2>3. Owned(chain) = [t \in Tags |-> {}]
    BY <2>2 DEF Owned, BodiesOf
  <2>4. Places(chain) = {}
    BY <2>2 DEF Places
  <2>5. Cardinality(Places(chain)) = 0
    BY <2>4, FS_EmptySet
  <2>6. ForeignOf(chain) = <<>>
    <3>1. ForeignOf(chain) = [k \in 1 .. 0 |-> chain[Ranked(Places(chain), k)]]
      BY <2>5 DEF ForeignOf
    <3> QED BY <3>1
  <2>7. GoalNow = [t \in Tags |-> {}] /\ Busy = FALSE
    BY <2>1 DEF GoalNow, Busy
  <2> QED BY <2>1, <2>3, <2>6, <2>7 DEF Abstract!Init, Abstract!NoGoal
<1>4. RefineInv /\ [Next]_vars => [Abstract!Next]_Abstract!vars
  <2> SUFFICES ASSUME RefineInv, [Next]_vars PROVE Simulated
    BY DEF Simulated
  <2> QED
    BY SimulateBegin, SimulateResolve, SimulateQuiet, SimulateDeleteOrphan, SimulateReplace,
       SimulateAppend, SimulateFinish, SimulateWipe, SimulateWipeDelete, SimulateIntruder
    DEF Next, Pass
<1> QED BY <1>1, <1>2, <1>3, <1>4, PTL DEF Spec, ImplementsReconcile, Abstract!Spec

=============================================================================
