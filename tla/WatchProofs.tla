---------------------------- MODULE WatchProofs -----------------------------
(***************************************************************************)
(* Proofs about Watch, for any names of chain directories and any number   *)
(* of changes by operators: the type invariant, RestWatched (a daemon that *)
(* waits has missed no directory) and RestSynced (nor any edit).           *)
(***************************************************************************)
EXTENDS Watch, SequenceTheorems, TLAPS

-----------------------------------------------------------------------------
\* The invariant.

DirNames == {"table"} \cup ChainDirs
Node(t, p) == IF p = "table" THEN t.table ELSE t.chains[p]

Tree == [table : Numbers \cup {NoDir}, chains : [ChainDirs -> Numbers \cup {NoDir}]]
Event == [node : {Root} \cup Numbers, sort : {"in", "out", "self", "edit"},
          name : Paths \cup {"none"}]

\* A tree: its directories are different ones, made by the changes so far, and
\* there is none below a table directory that is not there.
TreeShape(t) ==
  /\ t \in Tree
  /\ t.table = NoDir => \A c \in ChainDirs : t.chains[c] = NoDir
  /\ \A p, q \in DirNames : Node(t, p) = Node(t, q) => p = q \/ Node(t, p) = NoDir
  /\ \A p \in DirNames : Node(t, p) # NoDir => Node(t, p) < Next1

DiskInv ==
  /\ changes \in 0 .. MaxChanges
  /\ TreeShape(tree) /\ TreeShape(staged)
  /\ staged.table = NoDir => staged = Empty
  /\ \A p, q \in DirNames : Node(tree, p) = Node(staged, q) => Node(tree, p) = NoDir
  /\ unapplied \subseteq Present

\* _wd_map knows the watched directories, and chain directories as such; a new
\* directory never has the number of one it knows.
MapInv ==
  /\ watches \subseteq DOMAIN wdMap
  /\ \A d \in DOMAIN wdMap : wdMap[d] \in Paths /\ d \in {Root} \cup Numbers /\ d < Next1
  /\ \A c \in ChainDirs :
       /\ tree.chains[c] \in DOMAIN wdMap => wdMap[tree.chains[c]] \in ChainDirs
       /\ staged.chains[c] \in DOMAIN wdMap => wdMap[staged.chains[c]] \in ChainDirs

EventOK(e) ==
  /\ e.node \in DOMAIN wdMap
  /\ e.sort = "in" => e.name \in DirNames
  /\ e.sort = "edit" =>
       wdMap[e.node] \in ChainDirs /\ e.node \notin {Root, tree.table, staged.table}

QueueInv == events \in Seq(Event) /\ \A n \in DOMAIN events : EventOK(events[n])

\* Where the watcher is: it walks only at the start and after an event, and then a
\* rediscovery is due; nothing is due while it waits or syncs.
StageInv ==
  /\ stage \in {"start", "wait", "reading", "discover", "list", "sync"}
  /\ visit \in Paths \cup {"none"} /\ step \in {"check", "watch", "list"}
  /\ siblings \subseteq Paths /\ syncs \subseteq ChainDirs /\ dirty \subseteq ChainDirs
  /\ rediscover \in BOOLEAN /\ polling \in BOOLEAN
  /\ visit = "none" => siblings = {} /\ step = "check"
  /\ visit # "none" => stage \in {"start", "reading"} /\ rediscover
  /\ stage = "start" => rediscover
  /\ stage \in {"wait", "sync"} => dirty = {} /\ ~rediscover
  /\ stage # "sync" => syncs = {}

\* A directory is known under its path; or an event will lead the walk to it, or
\* to one above it; or the walk has it, or one above it, still ahead.
Above(p) == CASE p = "root" -> {} [] p = "table" -> {"root"} [] OTHER -> {"root", "table"}
Known(p) == DirAt(p) \in watches /\ wdMap[DirAt(p)] = p
Heard(p) == \E n \in DOMAIN events : events[n].sort = "in" /\ events[n].name \in {p} \cup Above(p)
Ahead(p) ==
  \/ visit = p /\ step \in {"check", "watch"}
  \/ p \in siblings
  \/ \E a \in Above(p) : visit = a \/ a \in siblings

ReachInv == ~polling => \A p \in Paths : DirAt(p) # NoDir => Known(p) \/ Heard(p) \/ Ahead(p)

\* An edit is in the pass, in what the events mapped to, or in an event that will
\* map to it; an event of any other sort has everything discovered anew.
Leads(e, c) == e.sort = "edit" => e.node = tree.chains[c] /\ wdMap[e.node] = c
Noted(c) ==
  \/ c \in syncs \/ c \in dirty \/ rediscover
  \/ \E n \in DOMAIN events : Leads(events[n], c)

SyncInv == ~polling => \A c \in unapplied : Noted(c)

WatchInv == DiskInv /\ MapInv /\ QueueInv /\ StageInv /\ ReachInv /\ SyncInv

-----------------------------------------------------------------------------
\* The queue.

\* r is q followed by those of `new` that are about a watched directory.
Lengthened(q, r, new) ==
  /\ r \in Seq(Event)
  /\ \A n \in DOMAIN q : n \in DOMAIN r /\ r[n] = q[n]
  /\ \A n \in DOMAIN r : \/ n \in DOMAIN q /\ r[n] = q[n]
                         \/ r[n] \in new /\ r[n].node \in watches
  /\ \A e \in new : e.node \in watches => \E n \in DOMAIN r : r[n] = e

LEMMA LengthenOne ==
  ASSUME NEW q \in Seq(Event), NEW a \in Event
  PROVE  Lengthened(q, q \o Queued(a), {a})
<1>1. CASE a.node \in watches
  <2>1. Queued(a) = <<a>>
    BY <1>1 DEF Queued
  <2>2. /\ <<a>> \in Seq(Event) /\ Len(<<a>>) = 1 /\ <<a>>[1] = a
        /\ Len(q) \in Nat /\ DOMAIN q = 1 .. Len(q)
    BY LenProperties
  <2>3. /\ q \o <<a>> \in Seq(Event) /\ Len(q \o <<a>>) = Len(q) + 1
        /\ \A i \in 1 .. Len(q) + 1 : (q \o <<a>>)[i] = IF i <= Len(q) THEN q[i] ELSE <<a>>[i - Len(q)]
    BY <2>2, ConcatProperties
  <2>4. DOMAIN (q \o <<a>>) = 1 .. Len(q) + 1
    BY <2>3, LenProperties
  <2> DEFINE r == q \o <<a>>
  <2>5. \A n \in DOMAIN q : n \in DOMAIN r /\ r[n] = q[n]
    BY <2>2, <2>3, <2>4
  <2>6. r[Len(q) + 1] = a /\ Len(q) + 1 \in DOMAIN r
    BY <2>2, <2>3, <2>4
  <2>7. \A n \in DOMAIN r : n \in DOMAIN q \/ n = Len(q) + 1
    BY <2>2, <2>4
  <2> QED
    BY <1>1, <2>1, <2>3, <2>5, <2>6, <2>7 DEF Lengthened
<1>2. CASE a.node \notin watches
  <2>1. Queued(a) = <<>> /\ q \o <<>> = q
    BY <1>2, ConcatEmptySeq DEF Queued
  <2> QED
    BY <1>2, <2>1 DEF Lengthened
<1> QED
  BY <1>1, <1>2

LEMMA LengthenTwo ==
  ASSUME NEW q \in Seq(Event), NEW a \in Event, NEW b \in Event
  PROVE  Lengthened(q, q \o Queued(a) \o Queued(b), {a, b})
<1> DEFINE r == q \o Queued(a)
           s == r \o Queued(b)
<1>1. Lengthened(q, r, {a})
  BY LengthenOne
<1>2. r \in Seq(Event)
  BY <1>1 DEF Lengthened
<1>3. Lengthened(r, s, {b})
  BY <1>2, LengthenOne
<1> HIDE DEF r, s
<1> QED
  <2>1. Lengthened(q, s, {a, b})
    BY <1>1, <1>3 DEF Lengthened
  <2> QED
    BY <2>1 DEF r, s

LEMMA LengthenThree ==
  ASSUME NEW q \in Seq(Event), NEW a \in Event, NEW b \in Event, NEW c \in Event
  PROVE  Lengthened(q, q \o Queued(a) \o Queued(b) \o Queued(c), {a, b, c})
<1> DEFINE r == q \o Queued(a) \o Queued(b)
           s == r \o Queued(c)
<1>1. Lengthened(q, r, {a, b})
  BY LengthenTwo
<1>2. r \in Seq(Event)
  BY <1>1 DEF Lengthened
<1>3. Lengthened(r, s, {c})
  BY <1>2, LengthenOne
<1> HIDE DEF r, s
<1> QED
  <2>1. Lengthened(q, s, {a, b, c})
    BY <1>1, <1>3 DEF Lengthened
  <2> QED
    BY <2>1 DEF r, s

-----------------------------------------------------------------------------
\* Paths and directories.

LEMMA PathFacts ==
  /\ Paths = {"root"} \cup DirNames /\ "root" \notin DirNames /\ "none" \notin Paths
  /\ "table" \in DirNames /\ "table" \notin ChainDirs /\ ChainDirs \subseteq DirNames
  /\ Above("root") = {} /\ Above("table") = {"root"}
  /\ \A c \in ChainDirs : Above(c) = {"root", "table"} /\ c # "root" /\ c # "table"
  BY ChainDirsAssumption DEF Paths, DirNames, Above

LEMMA NumberFacts ==
  /\ Root = 0 /\ Root # NoDir /\ Root \notin Numbers /\ NoDir \notin Numbers
  /\ Numbers \subseteq Nat /\ {Root} \cup Numbers \subseteq Nat
  BY NoDirAssumption, ChangesAssumption DEF Root, Numbers

LEMMA DirFacts ==
  /\ DirAt("root") = Root
  /\ \A p \in DirNames : DirAt(p) = Node(tree, p)
  /\ DirAt("table") = tree.table
  /\ \A c \in ChainDirs : DirAt(c) = tree.chains[c]
  BY PathFacts DEF DirAt, Node

\* Different paths are different directories.
LEMMA DirsApart ==
  ASSUME TreeShape(tree), NEW p \in Paths, NEW q \in Paths, DirAt(p) = DirAt(q), DirAt(p) # NoDir
  PROVE  p = q
<1>1. \A x \in DirNames : DirAt(x) # NoDir => DirAt(x) \in Numbers
  BY DirFacts, PathFacts DEF TreeShape, Tree, Node, DirNames
<1> QED
  BY <1>1, DirFacts, PathFacts, NumberFacts DEF TreeShape

\* A chain directory is in a table directory.
LEMMA ParentThere ==
  ASSUME TreeShape(tree), NEW p \in Paths, DirAt(p) # NoDir, NEW a \in Above(p)
  PROVE  a \in Paths /\ DirAt(a) # NoDir
  BY DirFacts, PathFacts, NumberFacts DEF TreeShape, DirNames

\* What has an event, or is ahead of the walk, for a directory, has it for those
\* below it.
LEMMA FromAbove ==
  ASSUME NEW p \in Paths, NEW a \in Above(p)
  PROVE  /\ Heard(a) => Heard(p)
         /\ Ahead(a) => Ahead(p)
<1>1. {a} \cup Above(a) \subseteq Above(p)
  BY PathFacts DEF DirNames
<1> QED
  BY <1>1 DEF Heard, Ahead

\* A directory that is not known yet has an event in the queue, or the walk is
\* under way, and either means a rediscovery.
LEMMA UnknownNoted ==
  ASSUME StageInv, ReachInv, ~polling, NEW p \in Paths, DirAt(p) # NoDir, ~Known(p)
  PROVE  rediscover \/ \E n \in DOMAIN events : events[n].sort = "in"
<1>1. CASE Heard(p)
  BY <1>1 DEF Heard
<1>2. CASE Ahead(p)
  <2>1. visit # "none"
    <3>1. Above(p) \subseteq Paths
      BY PathFacts DEF DirNames
    <3> QED
      BY <1>2, <3>1, PathFacts DEF Ahead, StageInv
  <2> QED
    BY <2>1 DEF StageInv
<1> QED
  BY <1>1, <1>2 DEF ReachInv

\* The same of the next state.
LEMMA DirFactsNext ==
  /\ DirAt("root")' = Root
  /\ \A p \in DirNames : DirAt(p)' = Node(tree', p)
  /\ DirAt("table")' = tree'.table
  /\ \A c \in ChainDirs : DirAt(c)' = tree'.chains[c]
  BY PathFacts DEF DirAt, Node

LEMMA NamesHaveTree ==
  ASSUME NEW t \in Tree, NEW p \in DirNames
  PROVE  Node(t, p) \in Numbers \cup {NoDir}
  BY PathFacts DEF Tree, Node, DirNames

-----------------------------------------------------------------------------
\* The first state.

LEMMA HoldingShape ==
  ASSUME NEW c \in ChainDirs, NEW i \in {1, 3}, changes = 0
  PROVE  /\ TreeShape(Holding(i, c, i + 1))
         /\ \A p \in DirNames : Node(Holding(i, c, i + 1), p) \in {i, i + 1, NoDir}
<1> DEFINE t == Holding(i, c, i + 1)
<1>1. i \in Numbers /\ i + 1 \in Numbers
  BY ChangesAssumption DEF Numbers
<1>2. t.table = i /\ \A d \in ChainDirs : t.chains[d] = IF d = c THEN i + 1 ELSE NoDir
  BY DEF Holding
<1>3. t \in Tree
  BY <1>1 DEF Tree, Holding
<1> HIDE DEF t
<1>4. \A p \in DirNames : Node(t, p) = IF p = "table" THEN i ELSE IF p = c THEN i + 1 ELSE NoDir
  BY <1>2 DEF Node, DirNames
<1>5. TreeShape(t)
  BY <1>1, <1>2, <1>3, <1>4, NumberFacts, PathFacts DEF TreeShape, Next1
<1>6. \A p \in DirNames : Node(t, p) \in {i, i + 1, NoDir}
  BY <1>4
<1> QED
  BY <1>5, <1>6 DEF t

LEMMA EmptyShape ==
  /\ TreeShape(Empty) /\ \A p \in DirNames : Node(Empty, p) = NoDir
  /\ Empty.table = NoDir
  BY DEF TreeShape, Tree, Empty, Node, DirNames

LEMMA WatchInitInv == WatchInit => WatchInv
<1> SUFFICES ASSUME WatchInit PROVE WatchInv
  OBVIOUS
<1>0. changes = 0
  BY DEF WatchInit
<1>1. TreeShape(tree) /\ \A p \in DirNames : Node(tree, p) \in {1, 2, NoDir}
  <2>1. CASE tree = Empty
    BY <2>1, EmptyShape
  <2>2. CASE \E c \in ChainDirs : tree = Holding(1, c, 2)
    <3>1. PICK c \in ChainDirs : tree = Holding(1, c, 1 + 1)
      BY <2>2
    <3> QED
      BY <1>0, <3>1, HoldingShape
  <2> QED
    BY <2>1, <2>2 DEF WatchInit
<1>2. TreeShape(staged) /\ \A p \in DirNames : Node(staged, p) \in {3, 4, NoDir}
  <2>1. CASE staged = Empty
    BY <2>1, EmptyShape
  <2>2. CASE \E c \in ChainDirs : staged = Holding(3, c, 4)
    <3>1. PICK c \in ChainDirs : staged = Holding(3, c, 3 + 1)
      BY <2>2
    <3> QED
      BY <1>0, <3>1, HoldingShape
  <2> QED
    BY <2>1, <2>2 DEF WatchInit
<1>3. staged.table = NoDir => staged = Empty
  <2>1. 3 # NoDir
    BY NumberFacts, ChangesAssumption DEF Numbers
  <2> QED
    BY <2>1 DEF WatchInit, Holding
<1>4. DiskInv
  <2>1. \A p, q \in DirNames : Node(tree, p) = Node(staged, q) => Node(tree, p) = NoDir
    BY <1>1, <1>2
  <2>2. unapplied \subseteq Present /\ changes \in 0 .. MaxChanges
    BY ChangesAssumption DEF WatchInit
  <2> QED
    BY <1>1, <1>2, <1>3, <2>1, <2>2 DEF DiskInv
<1>5. DOMAIN wdMap = {} /\ DOMAIN events = {} /\ watches = {} /\ events = <<>>
  BY DEF WatchInit
<1>6. MapInv
  BY <1>5 DEF MapInv
<1>7. QueueInv
  BY <1>5 DEF QueueInv
<1>8. StageInv
  BY DEF WatchInit, StageInv, Paths
<1>9. ReachInv
  BY PathFacts DEF ReachInv, WatchInit, Ahead, DirNames
<1>10. SyncInv
  BY DEF SyncInv, Noted, WatchInit
<1> QED
  BY <1>4, <1>6, <1>7, <1>8, <1>9, <1>10 DEF WatchInv

-----------------------------------------------------------------------------
\* What the actions of operators have in common: they leave the watcher alone.

LEMMA OperatorKeeps ==
  ASSUME WatchInv, DiskInv', UNCHANGED daemonSide, changes' = changes + 1, watches' \subseteq watches,
         NEW new \in SUBSET Event, Lengthened(events, events', new),
         {tree'.table, staged'.table} \subseteq {tree.table, staged.table, NoDir, Next1},
         \A c \in ChainDirs : \A d \in {tree'.chains[c], staged'.chains[c]} :
           d \in {NoDir, Next1} \/ \E b \in ChainDirs : d \in {tree.chains[b], staged.chains[b]},
         \A e \in new : e.node \in watches =>
           /\ e.sort = "in" => e.name \in DirNames
           /\ e.sort = "edit" =>
                wdMap[e.node] \in ChainDirs /\ e.node \notin {Root, tree'.table, staged'.table},
         ~polling => \A p \in Paths : DirAt(p)' # NoDir =>
           \/ DirAt(p)' = DirAt(p) /\ (DirAt(p) \in watches => DirAt(p) \in watches')
           \/ Heard(p)' \/ Ahead(p)',
         ~polling => \A c \in unapplied' :
           (c \in unapplied /\ tree'.chains[c] = tree.chains[c]) \/ Noted(c)'
  PROVE  WatchInv'
<1>1. /\ polling' = polling /\ wdMap' = wdMap /\ visit' = visit /\ step' = step
      /\ siblings' = siblings /\ dirty' = dirty /\ rediscover' = rediscover
      /\ stage' = stage /\ syncs' = syncs
  BY DEF daemonSide, walk, outcome
<1>2. DiskInv /\ MapInv /\ QueueInv /\ StageInv /\ ReachInv /\ SyncInv
  BY DEF WatchInv
<1>3. StageInv'
  BY <1>1, <1>2 DEF StageInv
<1>4. \A d \in DOMAIN wdMap : d # NoDir /\ d # Next1 /\ d < Next1'
  <2> SUFFICES ASSUME NEW d \in DOMAIN wdMap PROVE d # NoDir /\ d # Next1 /\ d < Next1'
    OBVIOUS
  <2>0. d \in {Root} \cup Numbers
    BY <1>2 DEF MapInv
  <2>3. d < Next1
    BY <1>2 DEF MapInv
  <2>1. d \in Nat
    BY <2>0, NumberFacts
  <2>2. Next1 \in Nat /\ Next1' = Next1 + 2
    BY <1>2 DEF DiskInv, Next1
  <2> QED
    BY <2>0, <2>1, <2>2, <2>3, NumberFacts
<1>5. MapInv'
  <2>1. \A c \in ChainDirs : \A d \in {tree'.chains[c], staged'.chains[c]} :
          d \in DOMAIN wdMap => wdMap[d] \in ChainDirs
    BY <1>2, <1>4 DEF MapInv
  <2>2. watches' \subseteq DOMAIN wdMap
    BY <1>2 DEF MapInv
  <2>3. \A d \in DOMAIN wdMap : wdMap[d] \in Paths /\ d \in {Root} \cup Numbers /\ d < Next1'
    BY <1>2, <1>4 DEF MapInv
  <2> QED
    BY <1>1, <2>1, <2>2, <2>3 DEF MapInv
<1>6. QueueInv'
  <2>1. events' \in Seq(Event)
    BY DEF Lengthened
  <2>2. ASSUME NEW n \in DOMAIN events' PROVE EventOK(events[n])'
    <3>1. CASE n \in DOMAIN events /\ events'[n] = events[n]
      <4>1. EventOK(events[n])
        BY <1>2, <3>1 DEF QueueInv
      <4> QED
        BY <1>1, <1>4, <3>1, <4>1 DEF EventOK
    <3>2. CASE events'[n] \in new /\ events'[n].node \in watches
      BY <1>1, <1>2, <3>2 DEF EventOK, MapInv
    <3> QED
      BY <3>1, <3>2 DEF Lengthened
  <2>3. \A n \in DOMAIN events' : EventOK(events[n])'
    BY <2>2
  <2> QED
    BY <2>1, <2>3 DEF QueueInv
<1>7. ReachInv'
  <2> SUFFICES ASSUME ~polling, NEW p \in Paths, DirAt(p)' # NoDir
               PROVE  Known(p)' \/ Heard(p)' \/ Ahead(p)'
    BY <1>1 DEF ReachInv
  <2>1. CASE DirAt(p)' = DirAt(p) /\ (DirAt(p) \in watches => DirAt(p) \in watches')
    <3>1. Known(p) \/ Heard(p) \/ Ahead(p)
      BY <1>2, <2>1 DEF ReachInv
    <3>2. Known(p) => Known(p)'
      <4>1. ASSUME Known(p) PROVE DirAt(p)' \in watches' /\ wdMap'[DirAt(p)'] = p
        BY <1>1, <2>1, <4>1 DEF Known
      <4> QED
        BY <4>1 DEF Known
    <3>3. Heard(p) => Heard(p)'
      BY DEF Heard, Lengthened
    <3>4. Ahead(p) => Ahead(p)'
      BY <1>1 DEF Ahead
    <3> QED
      BY <3>1, <3>2, <3>3, <3>4
  <2> QED
    BY <2>1
<1>8. SyncInv'
  <2> SUFFICES ASSUME ~polling, NEW c \in unapplied' PROVE Noted(c)'
    BY <1>1 DEF SyncInv
  <2>1. CASE c \in unapplied /\ tree'.chains[c] = tree.chains[c]
    <3>1. Noted(c)
      BY <1>2, <2>1 DEF SyncInv
    <3>2. CASE c \in syncs \/ c \in dirty \/ rediscover
      BY <1>1, <3>2 DEF Noted
    <3>3. CASE \E n \in DOMAIN events : Leads(events[n], c)
      <4>1. PICK n \in DOMAIN events : Leads(events[n], c)
        BY <3>3
      <4>2. n \in DOMAIN events' /\ events'[n] = events[n]
        BY DEF Lengthened
      <4>3. Leads(events[n], c)'
        BY <1>1, <2>1, <4>1, <4>2 DEF Leads
      <4> QED
        BY <4>2, <4>3 DEF Noted
    <3> QED
      BY <3>1, <3>2, <3>3 DEF Noted
  <2> QED
    BY <2>1
<1> QED
  BY <1>3, <1>5, <1>6, <1>7, <1>8 DEF WatchInv

\* A directory made in, or moved into, one that is there is announced to the
\* watcher, or that one is still to be visited.
LEMMA Announced ==
  ASSUME WatchInv, ~polling, UNCHANGED daemonSide,
         NEW new \in SUBSET Event, Lengthened(events, events', new),
         NEW a \in Paths, DirAt(a) # NoDir, NEW b \in DirNames, In(DirAt(a), b) \in new
  PROVE  /\ \A p \in Paths : a \in Above(p) /\ b \in {p} \cup Above(p) => Heard(p)' \/ Ahead(p)'
         /\ \A c \in ChainDirs : Noted(c)'
<1>1. /\ visit' = visit /\ step' = step /\ siblings' = siblings /\ rediscover' = rediscover
  BY DEF daemonSide, walk, outcome
<1>2. StageInv /\ ReachInv
  BY DEF WatchInv
<1>3. Known(a) => \E n \in DOMAIN events' : events'[n] = In(DirAt(a), b)
  <2>1. In(DirAt(a), b).node = DirAt(a)
    BY DEF In
  <2> QED
    BY <2>1 DEF Known, Lengthened
<1>4. ASSUME NEW p \in Paths, a \in Above(p), b \in {p} \cup Above(p) PROVE Heard(p)' \/ Ahead(p)'
  <2>1. CASE Known(a)
    <3>1. PICK n \in DOMAIN events' : events'[n] = In(DirAt(a), b)
      BY <1>3, <2>1
    <3>2. events'[n].sort = "in" /\ events'[n].name = b
      BY <3>1 DEF In
    <3> QED
      BY <1>4, <3>2 DEF Heard
  <2>2. CASE Heard(a)
    <3>1. Heard(p)
      BY <1>4, <2>2, FromAbove
    <3> QED
      BY <3>1 DEF Heard, Lengthened
  <2>3. CASE Ahead(a)
    <3>1. Ahead(p)
      BY <1>4, <2>3, FromAbove
    <3> QED
      BY <1>1, <3>1 DEF Ahead
  <2> QED
    BY <1>2, <2>1, <2>2, <2>3 DEF ReachInv
<1>5. ASSUME NEW c \in ChainDirs PROVE Noted(c)'
  <2>1. CASE \E n \in DOMAIN events' : events'[n].sort = "in"
    BY <2>1 DEF Noted, Leads
  <2>2. CASE rediscover
    BY <1>1, <2>2 DEF Noted
  <2>3. CASE Known(a)
    BY <1>3, <2>1, <2>3 DEF In
  <2>4. CASE ~Known(a)
    <3>1. rediscover \/ \E n \in DOMAIN events : events[n].sort = "in"
      BY <1>2, <2>4, UnknownNoted
    <3> QED
      BY <2>1, <2>2, <3>1 DEF Lengthened
  <2> QED
    BY <2>3, <2>4
<1> QED
  BY <1>4, <1>5

\* A number that no directory has had yet.
LEMMA NewNumber ==
  ASSUME DiskInv, Change
  PROVE  /\ Next1 \in Numbers /\ Next1 # NoDir /\ Next1' = Next1 + 2 /\ Next1 \in Nat
         /\ \A p \in DirNames : Node(tree, p) # Next1 /\ Node(staged, p) # Next1
         /\ changes' \in 0 .. MaxChanges
<1>1. Next1 \in Numbers /\ Next1' = Next1 + 2 /\ Next1 \in Nat /\ changes' \in 0 .. MaxChanges
  BY ChangesAssumption DEF DiskInv, Change, Next1, Numbers
<1>2. Next1 # NoDir
  BY <1>1, NumberFacts
<1>3. ASSUME NEW t, TreeShape(t), NEW p \in DirNames PROVE Node(t, p) # Next1
  <2>1. CASE Node(t, p) = NoDir
    BY <1>2, <2>1
  <2>2. CASE Node(t, p) # NoDir
    <3>1. Node(t, p) < Next1
      BY <1>3, <2>2 DEF TreeShape
    <3> QED
      BY <1>1, <3>1
  <2> QED
    BY <2>1, <2>2
<1> QED
  BY <1>1, <1>2, <1>3 DEF DiskInv

\* A tree keeps its shape as more numbers are used.
LEMMA ShapeStays ==
  ASSUME NEW t, TreeShape(t), Next1 \in Nat, Next1' = Next1 + 2
  PROVE  TreeShape(t)'
<1>1. ASSUME NEW p \in DirNames, Node(t, p) # NoDir PROVE Node(t, p) < Next1'
  <2>1. Node(t, p) \in Nat /\ Node(t, p) < Next1
    BY <1>1, NamesHaveTree, NumberFacts DEF TreeShape
  <2> QED
    BY <2>1
<1> QED
  BY <1>1 DEF TreeShape

LEMMA MakeTableInv == ASSUME WatchInv, MakeTable PROVE WatchInv'
<1>0. DiskInv /\ Change
  BY DEF WatchInv, MakeTable
<1> DEFINE new == {In(Root, "table")}
<1>1. Lengthened(events, events', new) /\ new \in SUBSET Event
  <2>1. In(Root, "table") \in Event /\ events \in Seq(Event)
    BY DEF In, Event, Paths, WatchInv, QueueInv
  <2> QED
    BY <2>1, LengthenOne DEF MakeTable
<1>2. tree' = [tree EXCEPT !.table = Next1] /\ staged' = staged /\ tree.table = NoDir
      /\ unapplied' = unapplied /\ watches' = watches
  BY DEF MakeTable
<1>3. \A p \in DirNames : Node(tree', p) = IF p = "table" THEN Next1 ELSE NoDir
  BY <1>0, <1>2, PathFacts DEF Node, DirNames, DiskInv, TreeShape, Tree
<1>4. tree' \in Tree /\ tree'.table = Next1 /\ tree'.chains = tree.chains
  BY <1>0, <1>2, NewNumber DEF DiskInv, TreeShape, Tree
<1>5. TreeShape(tree)'
  <2>1. \A p \in DirNames : Node(tree', p) # NoDir => Node(tree', p) < Next1'
    BY <1>0, <1>3, NewNumber
  <2> QED
    BY <1>0, <1>2, <1>3, <1>4, <2>1, NewNumber DEF TreeShape
<1>6. DiskInv'
  <2>1. TreeShape(staged)'
    BY <1>0, <1>2, ShapeStays, NewNumber DEF DiskInv
  <2>2. \A p, q \in DirNames : Node(tree', p) = Node(staged', q) => Node(tree', p) = NoDir
    BY <1>0, <1>2, <1>3, NewNumber
  <2>3. unapplied' \subseteq Present'
    BY <1>0, <1>2, <1>4 DEF DiskInv, Present
  <2> QED
    BY <1>0, <1>2, <1>5, <2>1, <2>2, <2>3, NewNumber DEF DiskInv
<1>7. ~polling => \A p \in Paths : DirAt(p)' # NoDir =>
           \/ DirAt(p)' = DirAt(p) /\ (DirAt(p) \in watches => DirAt(p) \in watches')
           \/ Heard(p)' \/ Ahead(p)'
  <2> SUFFICES ASSUME ~polling, NEW p \in Paths
               PROVE  (DirAt(p)' = DirAt(p) /\ watches' = watches) \/ Heard(p)' \/ Ahead(p)'
    OBVIOUS
  <2>1. CASE p = "table"
    <3>1. UNCHANGED daemonSide
      BY DEF MakeTable
    <3>2. In(DirAt("root"), "table") \in new /\ DirAt("root") # NoDir /\ "root" \in Paths
      BY DirFacts, NumberFacts, PathFacts
    <3>3. Heard(p)' \/ Ahead(p)'
      BY <1>1, <2>1, <3>1, <3>2, Announced, PathFacts
    <3> QED
      BY <3>3
  <2>2. CASE p # "table"
    BY <1>2, <1>4, <2>2, DirFacts, DirFactsNext, PathFacts DEF DirNames
  <2> QED
    BY <2>1, <2>2
<1>8. \A c \in ChainDirs : \A d \in {tree'.chains[c], staged'.chains[c]} :
           d \in {NoDir, Next1} \/ \E b \in ChainDirs : d \in {tree.chains[b], staged.chains[b]}
  BY <1>2, <1>4
<1>9. \A e \in new : (e.sort = "in" => e.name \in DirNames) /\ e.sort # "edit"
  BY DEF In, DirNames
<1>10. \A c \in unapplied' : c \in unapplied /\ tree'.chains[c] = tree.chains[c]
  BY <1>2, <1>4
<1>11. changes' = changes + 1 /\ UNCHANGED daemonSide
  BY DEF MakeTable, Change
<1>12. {tree'.table, staged'.table} \subseteq {tree.table, staged.table, NoDir, Next1}
  BY <1>2, <1>4
<1> HIDE DEF new
<1> QED
  BY <1>1, <1>2, <1>6, <1>7, <1>8, <1>9, <1>10, <1>11, <1>12, OperatorKeeps

LEMMA RemoveTableInv == ASSUME WatchInv, RemoveTable PROVE WatchInv'
<1>0. DiskInv /\ Change
  BY DEF WatchInv, RemoveTable
<1> DEFINE new == {Out(Root, "table"), Self(tree.table)}
<1>1. Lengthened(events, events', new) /\ new \in SUBSET Event
  <2>1. Out(Root, "table") \in Event /\ Self(tree.table) \in Event /\ events \in Seq(Event)
    BY <1>0 DEF Out, Self, Event, Paths, WatchInv, QueueInv, RemoveTable, DiskInv, TreeShape, Tree
  <2> QED
    BY <2>1, LengthenTwo DEF RemoveTable
<1>2. tree' = Empty /\ staged' = staged /\ unapplied' = unapplied /\ watches' \subseteq watches
      /\ watches' = watches \ {tree.table} /\ Present = {} /\ tree.table # NoDir
  BY DEF RemoveTable
<1>4. tree'.table = NoDir /\ \A c \in ChainDirs : tree'.chains[c] = NoDir
  BY <1>2 DEF Empty
<1>3. unapplied' = {}
  BY <1>0, <1>2 DEF DiskInv
<1>6. DiskInv'
  <2>1. TreeShape(staged)' /\ TreeShape(tree)'
    <3>1. TreeShape(Empty)' /\ TreeShape(staged)'
      BY <1>0, <1>2, ShapeStays, NewNumber, EmptyShape DEF DiskInv
    <3> QED
      BY <1>2, <3>1 DEF TreeShape
  <2>2. \A p \in DirNames : Node(tree', p) = NoDir
    BY <1>2, EmptyShape
  <2> QED
    BY <1>0, <1>2, <1>3, <2>1, <2>2, NewNumber DEF DiskInv
<1>7. \A p \in Paths : DirAt(p)' # NoDir =>
           \/ DirAt(p)' = DirAt(p) /\ (DirAt(p) \in watches => DirAt(p) \in watches')
           \/ Heard(p)' \/ Ahead(p)'
  <2> SUFFICES ASSUME NEW p \in Paths, DirAt(p)' # NoDir
               PROVE  DirAt(p)' = DirAt(p) /\ (DirAt(p) \in watches => DirAt(p) \in watches')
    OBVIOUS
  <2>1. p = "root"
    BY <1>4, DirFactsNext, PathFacts DEF DirNames
  <2>2. tree.table # Root
    BY <1>0, <1>2, NumberFacts DEF DiskInv, TreeShape, Tree
  <2> QED
    BY <1>2, <2>1, <2>2, DirFacts, DirFactsNext
<1>8. \A c \in ChainDirs : \A d \in {tree'.chains[c], staged'.chains[c]} :
           d \in {NoDir, Next1} \/ \E b \in ChainDirs : d \in {tree.chains[b], staged.chains[b]}
  BY <1>2, <1>4
<1>9. \A e \in new : e.sort # "in" /\ e.sort # "edit"
  BY DEF Out, Self
<1>11. changes' = changes + 1 /\ UNCHANGED daemonSide
  BY DEF RemoveTable, Change
<1>12. {tree'.table, staged'.table} \subseteq {tree.table, staged.table, NoDir, Next1}
  BY <1>2, <1>4
<1> HIDE DEF new
<1> QED
  BY <1>1, <1>2, <1>3, <1>6, <1>7, <1>8, <1>9, <1>11, <1>12, OperatorKeeps

LEMMA MakeChainInv ==
  ASSUME WatchInv, NEW c \in ChainDirs, MakeChain(c) PROVE WatchInv'
<1>0. DiskInv /\ Change
  BY DEF WatchInv, MakeChain
<1> DEFINE new == {In(tree.table, c)}
<1>1. Lengthened(events, events', new) /\ new \in SUBSET Event
  <2>1. In(tree.table, c) \in Event /\ events \in Seq(Event)
    BY <1>0 DEF In, Event, Paths, WatchInv, QueueInv, MakeChain, DiskInv, TreeShape, Tree
  <2> QED
    BY <2>1, LengthenOne DEF MakeChain
<1>2. tree' = [tree EXCEPT !.chains[c] = Next1] /\ staged' = staged /\ tree.table # NoDir
      /\ unapplied' = unapplied /\ watches' = watches /\ tree.chains[c] = NoDir
  BY DEF MakeChain
<1>4. tree' \in Tree /\ tree'.table = tree.table
      /\ \A d \in ChainDirs : tree'.chains[d] = IF d = c THEN Next1 ELSE tree.chains[d]
  BY <1>0, <1>2, NewNumber DEF DiskInv, TreeShape, Tree
<1>3. \A p \in DirNames : Node(tree', p) = IF p = c THEN Next1 ELSE Node(tree, p)
  BY <1>4, PathFacts DEF Node, DirNames
<1>5. TreeShape(tree)'
  <2>1. \A p \in DirNames : Node(tree', p) # NoDir => Node(tree', p) < Next1'
    BY <1>0, <1>3, NewNumber, ShapeStays DEF DiskInv, TreeShape
  <2>2. \A p, q \in DirNames : Node(tree', p) = Node(tree', q) => p = q \/ Node(tree', p) = NoDir
    BY <1>0, <1>3, NewNumber DEF DiskInv, TreeShape
  <2> QED
    BY <1>2, <1>4, <2>1, <2>2 DEF TreeShape
<1>6. DiskInv'
  <2>1. TreeShape(staged)'
    BY <1>0, <1>2, ShapeStays, NewNumber DEF DiskInv
  <2>2. \A p, q \in DirNames : Node(tree', p) = Node(staged', q) => Node(tree', p) = NoDir
    BY <1>0, <1>2, <1>3, NewNumber DEF DiskInv
  <2>3. unapplied' \subseteq Present'
    BY <1>0, <1>2, <1>4, NewNumber DEF DiskInv, Present
  <2> QED
    BY <1>0, <1>2, <1>5, <2>1, <2>2, <2>3, NewNumber DEF DiskInv
<1>7. ~polling => \A p \in Paths : DirAt(p)' # NoDir =>
           \/ DirAt(p)' = DirAt(p) /\ (DirAt(p) \in watches => DirAt(p) \in watches')
           \/ Heard(p)' \/ Ahead(p)'
  <2> SUFFICES ASSUME ~polling, NEW p \in Paths
               PROVE  (DirAt(p)' = DirAt(p) /\ watches' = watches) \/ Heard(p)' \/ Ahead(p)'
    OBVIOUS
  <2>1. CASE p = c
    <3>1. UNCHANGED daemonSide
      BY DEF MakeChain
    <3>2. In(DirAt("table"), c) \in new /\ DirAt("table") # NoDir /\ "table" \in Paths /\ c \in DirNames
      BY <1>2, DirFacts, PathFacts
    <3>3. Heard(p)' \/ Ahead(p)'
      BY <1>1, <2>1, <3>1, <3>2, Announced, PathFacts
    <3> QED
      BY <3>3
  <2>2. CASE p # c
    BY <1>2, <1>4, <2>2, DirFacts, DirFactsNext, PathFacts DEF DirNames
  <2> QED
    BY <2>1, <2>2
<1>8. \A b \in ChainDirs : \A d \in {tree'.chains[b], staged'.chains[b]} :
           d \in {NoDir, Next1} \/ \E e \in ChainDirs : d \in {tree.chains[e], staged.chains[e]}
  BY <1>2, <1>4
<1>9. \A e \in new : (e.sort = "in" => e.name \in DirNames) /\ e.sort # "edit"
  BY DEF In, DirNames
<1>10. \A d \in unapplied' : d \in unapplied /\ tree'.chains[d] = tree.chains[d]
  BY <1>0, <1>2, <1>4 DEF DiskInv, Present
<1>11. changes' = changes + 1 /\ UNCHANGED daemonSide
  BY DEF MakeChain, Change
<1>12. {tree'.table, staged'.table} \subseteq {tree.table, staged.table, NoDir, Next1}
  BY <1>2, <1>4
<1> HIDE DEF new
<1> QED
  BY <1>1, <1>2, <1>6, <1>7, <1>8, <1>9, <1>10, <1>11, <1>12, OperatorKeeps

LEMMA RemoveChainInv ==
  ASSUME WatchInv, NEW c \in ChainDirs, RemoveChain(c) PROVE WatchInv'
<1>0. DiskInv /\ Change
  BY DEF WatchInv, RemoveChain
<1> DEFINE new == {Out(tree.table, c), Self(tree.chains[c])}
<1>2. tree' = [tree EXCEPT !.chains[c] = NoDir] /\ staged' = staged
      /\ unapplied' = unapplied \ {c} /\ watches' = watches \ {tree.chains[c]}
      /\ tree.chains[c] # NoDir
  BY DEF RemoveChain
<1>1. Lengthened(events, events', new) /\ new \in SUBSET Event
  <2>0. tree.table \in Numbers /\ tree.chains[c] \in Numbers
    BY <1>0, <1>2 DEF DiskInv, TreeShape, Tree
  <2>1. Out(tree.table, c) \in Event /\ Self(tree.chains[c]) \in Event /\ events \in Seq(Event)
    BY <2>0 DEF Out, Self, Event, Paths, WatchInv, QueueInv
  <2> QED
    BY <2>1, LengthenTwo DEF RemoveChain
<1>4. tree' \in Tree /\ tree'.table = tree.table
      /\ \A d \in ChainDirs : tree'.chains[d] = IF d = c THEN NoDir ELSE tree.chains[d]
  BY <1>0, <1>2 DEF DiskInv, TreeShape, Tree
<1>3. \A p \in DirNames : Node(tree', p) = IF p = c THEN NoDir ELSE Node(tree, p)
  BY <1>4, PathFacts DEF Node, DirNames
<1>5. TreeShape(tree)'
  <2>1. \A p \in DirNames : Node(tree', p) # NoDir => Node(tree', p) < Next1'
    BY <1>0, <1>3, NewNumber, ShapeStays DEF DiskInv, TreeShape
  <2>2. \A p, q \in DirNames : Node(tree', p) = Node(tree', q) => p = q \/ Node(tree', p) = NoDir
    BY <1>0, <1>3 DEF DiskInv, TreeShape
  <2>3. tree'.table = NoDir => \A d \in ChainDirs : tree'.chains[d] = NoDir
    BY <1>0, <1>4 DEF DiskInv, TreeShape
  <2> QED
    BY <1>4, <2>1, <2>2, <2>3 DEF TreeShape
<1>6. DiskInv'
  <2>1. TreeShape(staged)'
    BY <1>0, <1>2, ShapeStays, NewNumber DEF DiskInv
  <2>2. \A p, q \in DirNames : Node(tree', p) = Node(staged', q) => Node(tree', p) = NoDir
    BY <1>0, <1>2, <1>3 DEF DiskInv
  <2>3. unapplied' \subseteq Present'
    BY <1>0, <1>2, <1>4 DEF DiskInv, Present
  <2> QED
    BY <1>0, <1>2, <1>5, <2>1, <2>2, <2>3, NewNumber DEF DiskInv
<1>7. \A p \in Paths : DirAt(p)' # NoDir =>
           \/ DirAt(p)' = DirAt(p) /\ (DirAt(p) \in watches => DirAt(p) \in watches')
           \/ Heard(p)' \/ Ahead(p)'
  <2> SUFFICES ASSUME NEW p \in Paths, DirAt(p)' # NoDir
               PROVE  DirAt(p)' = DirAt(p) /\ (DirAt(p) \in watches => DirAt(p) \in watches')
    OBVIOUS
  <2>1. p # c
    BY <1>4, DirFactsNext
  <2>2. DirAt(p)' = DirAt(p)
    BY <1>4, <2>1, DirFacts, DirFactsNext, PathFacts DEF DirNames
  <2>3. DirAt(c) = tree.chains[c] /\ c \in Paths
    BY DirFacts, PathFacts
  <2>4. DirAt(p) # tree.chains[c]
    BY <1>0, <1>2, <2>1, <2>3, DirsApart DEF DiskInv
  <2> QED
    BY <1>2, <2>2, <2>4
<1>8. \A b \in ChainDirs : \A d \in {tree'.chains[b], staged'.chains[b]} :
           d \in {NoDir, Next1} \/ \E e \in ChainDirs : d \in {tree.chains[e], staged.chains[e]}
  BY <1>2, <1>4
<1>9. \A e \in new : e.sort # "in" /\ e.sort # "edit"
  BY DEF Out, Self
<1>10. \A d \in unapplied' : d \in unapplied /\ tree'.chains[d] = tree.chains[d]
  BY <1>0, <1>2, <1>4 DEF DiskInv, Present
<1>11. changes' = changes + 1 /\ UNCHANGED daemonSide
  BY DEF RemoveChain, Change
<1>12. {tree'.table, staged'.table} \subseteq {tree.table, staged.table, NoDir, Next1}
  BY <1>2, <1>4
<1>13. watches' \subseteq watches
  BY <1>2
<1> HIDE DEF new
<1> QED
  BY <1>1, <1>6, <1>7, <1>8, <1>9, <1>10, <1>11, <1>12, <1>13, OperatorKeeps

LEMMA EditChainInv ==
  ASSUME WatchInv, NEW c \in ChainDirs, EditChain(c) PROVE WatchInv'
<1>0. DiskInv /\ Change /\ MapInv
  BY DEF WatchInv, EditChain
<1> DEFINE new == {Edited(tree.chains[c])}
<1>2. tree' = tree /\ staged' = staged /\ watches' = watches /\ unapplied' = unapplied \cup {c}
      /\ tree.chains[c] # NoDir /\ changes' = changes + 1 /\ UNCHANGED daemonSide
  BY DEF EditChain, Change
<1>1. Lengthened(events, events', new) /\ new \in SUBSET Event
  <2>1. Edited(tree.chains[c]) \in Event /\ events \in Seq(Event)
    BY <1>0, <1>2 DEF Edited, Event, Paths, WatchInv, QueueInv, DiskInv, TreeShape, Tree
  <2> QED
    BY <2>1, LengthenOne DEF EditChain
<1>3. DiskInv'
  <2>1. TreeShape(staged)' /\ TreeShape(tree)'
    BY <1>0, <1>2, ShapeStays, NewNumber DEF DiskInv, TreeShape
  <2>2. unapplied' \subseteq Present'
    BY <1>0, <1>2 DEF DiskInv, Present
  <2> QED
    BY <1>0, <1>2, <2>1, <2>2, NewNumber DEF DiskInv
<1>4. \A p \in Paths : DirAt(p)' = DirAt(p)
  BY <1>2 DEF DirAt
<1>5. c \in DirNames /\ c # "table" /\ "table" \in DirNames /\ c \in Paths /\ DirAt(c) = tree.chains[c]
  BY PathFacts, DirFacts
<1>6. tree.chains[c] \notin {Root, tree.table, staged.table}
  <2>1. Node(tree, c) = tree.chains[c] /\ Node(tree, "table") = tree.table
        /\ Node(staged, "table") = staged.table
    BY <1>5 DEF Node
  <2> QED
    BY <1>0, <1>2, <1>5, <2>1, NumberFacts DEF DiskInv, TreeShape, Tree
<1>7. \A e \in new : e.node \in watches =>
           /\ e.sort = "in" => e.name \in DirNames
           /\ e.sort = "edit" =>
                wdMap[e.node] \in ChainDirs /\ e.node \notin {Root, tree'.table, staged'.table}
  <2> SUFFICES ASSUME NEW e \in new, e.node \in watches
               PROVE  /\ e.sort = "edit"
                      /\ wdMap[e.node] \in ChainDirs /\ e.node \notin {Root, tree'.table, staged'.table}
    OBVIOUS
  <2>1. e.node = tree.chains[c] /\ e.sort = "edit"
    BY DEF Edited
  <2> QED
    BY <1>0, <1>2, <1>6, <2>1 DEF MapInv
<1>8. ASSUME ~polling PROVE Noted(c)'
  <2>1. UNCHANGED <<wdMap, tree, rediscover>>
    BY <1>2 DEF daemonSide, outcome
  <2>2. CASE Known(c)
    <3>1. Edited(tree.chains[c]).node = tree.chains[c]
      BY DEF Edited
    <3>2. \E n \in DOMAIN events' : events'[n] = Edited(tree.chains[c])
      BY <1>1, <1>5, <2>2, <3>1 DEF Lengthened, Known
    <3>3. PICK n \in DOMAIN events' : events'[n] = Edited(tree.chains[c])
      BY <3>2
    <3>4. Leads(events[n], c)'
      BY <1>5, <2>1, <2>2, <3>1, <3>3 DEF Leads, Known
    <3> QED
      BY <3>4 DEF Noted
  <2>3. CASE ~Known(c)
    <3>1. rediscover \/ \E n \in DOMAIN events : events[n].sort = "in"
      BY <1>2, <1>5, <1>8, <2>3, UnknownNoted DEF WatchInv
    <3>2. CASE rediscover
      BY <2>1, <3>2 DEF Noted
    <3>3. CASE \E n \in DOMAIN events : events[n].sort = "in"
      <4>1. \E n \in DOMAIN events' : events'[n].sort = "in"
        BY <1>1, <3>3 DEF Lengthened
      <4> QED
        BY <4>1 DEF Noted, Leads
    <3> QED
      BY <3>1, <3>2, <3>3
  <2> QED
    BY <2>2, <2>3
<1>9. ~polling => \A d \in unapplied' :
         (d \in unapplied /\ tree'.chains[d] = tree.chains[d]) \/ Noted(d)'
  BY <1>2, <1>8
<1> HIDE DEF new
<1> QED
  BY <1>1, <1>2, <1>3, <1>4, <1>7, <1>9, OperatorKeeps

LEMMA RenameChainInv ==
  ASSUME WatchInv, NEW c \in ChainDirs, NEW d \in ChainDirs, RenameChain(c, d) PROVE WatchInv'
<1>0. DiskInv /\ Change
  BY DEF WatchInv, RenameChain
<1> DEFINE new == {Out(tree.table, c), In(tree.table, d), Self(tree.chains[c])}
<1>2. tree' = [tree EXCEPT !.chains[c] = NoDir, !.chains[d] = tree.chains[c]] /\ staged' = staged
      /\ unapplied' = (unapplied \ {c}) \cup {d} /\ watches' = watches
      /\ tree.chains[c] # NoDir /\ tree.chains[d] = NoDir /\ c # d
  BY DEF RenameChain
<1>3. tree.table \in Numbers /\ tree.chains[c] \in Numbers /\ tree.table # NoDir
  BY <1>0, <1>2, NumberFacts DEF DiskInv, TreeShape, Tree
<1>1. Lengthened(events, events', new) /\ new \in SUBSET Event
  <2>1. Out(tree.table, c) \in Event /\ In(tree.table, d) \in Event /\ Self(tree.chains[c]) \in Event
        /\ events \in Seq(Event)
    BY <1>3 DEF Out, In, Self, Event, Paths, WatchInv, QueueInv
  <2> QED
    BY <2>1, LengthenThree DEF RenameChain
<1>4. tree' \in Tree /\ tree'.table = tree.table
      /\ \A b \in ChainDirs : tree'.chains[b] = IF b = c THEN NoDir ELSE
                                               IF b = d THEN tree.chains[c] ELSE tree.chains[b]
  BY <1>0, <1>2 DEF DiskInv, TreeShape, Tree
<1>5. \A p \in DirNames : Node(tree', p) = IF p = c THEN NoDir ELSE
                                        IF p = d THEN Node(tree, c) ELSE Node(tree, p)
  BY <1>4, PathFacts DEF Node, DirNames
<1>6. TreeShape(tree)'
  <2>1. \A p \in DirNames : Node(tree', p) # NoDir => Node(tree', p) < Next1'
    BY <1>0, <1>5, NewNumber, ShapeStays, PathFacts DEF DiskInv, TreeShape
  <2>2. \A p, q \in DirNames : Node(tree', p) = Node(tree', q) => p = q \/ Node(tree', p) = NoDir
    <3>1. \A p, q \in DirNames : Node(tree, p) = Node(tree, q) => p = q \/ Node(tree, p) = NoDir
      BY <1>0 DEF DiskInv, TreeShape
    <3> QED
      BY <1>5, <3>1, PathFacts
  <2> QED
    BY <1>3, <1>4, <2>1, <2>2 DEF TreeShape
<1>7. DiskInv'
  <2>1. TreeShape(staged)'
    BY <1>0, <1>2, ShapeStays, NewNumber DEF DiskInv
  <2>2. \A p, q \in DirNames : Node(tree', p) = Node(staged', q) => Node(tree', p) = NoDir
    <3>1. \A p, q \in DirNames : Node(tree, p) = Node(staged, q) => Node(tree, p) = NoDir
      BY <1>0 DEF DiskInv
    <3> QED
      BY <1>2, <1>5, <3>1, PathFacts
  <2>3. unapplied' \subseteq Present'
    BY <1>0, <1>2, <1>4 DEF DiskInv, Present
  <2> QED
    BY <1>0, <1>2, <1>6, <2>1, <2>2, <2>3, NewNumber DEF DiskInv
<1>8. changes' = changes + 1 /\ UNCHANGED daemonSide
  BY DEF RenameChain, Change
<1>9. In(DirAt("table"), d) \in new /\ DirAt("table") # NoDir /\ "table" \in Paths /\ d \in DirNames
  BY <1>3, DirFacts, PathFacts
<1>10. ~polling => \A p \in Paths : DirAt(p)' # NoDir =>
           \/ DirAt(p)' = DirAt(p) /\ (DirAt(p) \in watches => DirAt(p) \in watches')
           \/ Heard(p)' \/ Ahead(p)'
  <2> SUFFICES ASSUME ~polling, NEW p \in Paths, DirAt(p)' # NoDir
               PROVE  (DirAt(p)' = DirAt(p) /\ watches' = watches) \/ Heard(p)' \/ Ahead(p)'
    OBVIOUS
  <2>1. CASE p = d
    <3>1. Heard(p)' \/ Ahead(p)'
      BY <1>1, <1>8, <1>9, <2>1, Announced, PathFacts
    <3> QED
      BY <3>1
  <2>2. CASE p # d
    <3>1. p # c
      BY <1>4, DirFactsNext
    <3> QED
      BY <1>2, <1>4, <2>2, <3>1, DirFacts, DirFactsNext, PathFacts DEF DirNames
  <2> QED
    BY <2>1, <2>2
<1>11. \A b \in ChainDirs : \A n \in {tree'.chains[b], staged'.chains[b]} :
           n \in {NoDir, Next1} \/ \E e \in ChainDirs : n \in {tree.chains[e], staged.chains[e]}
  BY <1>2, <1>4
<1>12. \A e \in new : (e.sort = "in" => e.name \in DirNames) /\ e.sort # "edit"
  BY <1>9 DEF In, Out, Self
<1>13. ~polling => \A b \in unapplied' : (b \in unapplied /\ tree'.chains[b] = tree.chains[b]) \/ Noted(b)'
  <2> SUFFICES ASSUME ~polling, NEW b \in unapplied'
               PROVE  (b \in unapplied /\ tree'.chains[b] = tree.chains[b]) \/ Noted(b)'
    OBVIOUS
  <2>1. CASE b = d
    <3>1. Noted(b)'
      BY <1>1, <1>8, <1>9, <2>1, Announced
    <3> QED
      BY <3>1
  <2>2. CASE b # d
    BY <1>0, <1>2, <1>4, <2>2 DEF DiskInv, Present
  <2> QED
    BY <2>1, <2>2
<1>14. {tree'.table, staged'.table} \subseteq {tree.table, staged.table, NoDir, Next1}
  BY <1>2, <1>4
<1> HIDE DEF new
<1> QED
  BY <1>1, <1>2, <1>7, <1>8, <1>10, <1>11, <1>12, <1>13, <1>14, OperatorKeeps

LEMMA MoveOutInv == ASSUME WatchInv, MoveOut PROVE WatchInv'
<1>0. DiskInv /\ Change
  BY DEF WatchInv, MoveOut
<1> DEFINE new == {Out(Root, "table"), Self(tree.table)}
<1>1. tree' = Empty /\ staged' = tree /\ unapplied' = {} /\ watches' = watches
      /\ tree.table # NoDir /\ changes' = changes + 1 /\ UNCHANGED daemonSide
  BY DEF MoveOut, Change
<1>2. Lengthened(events, events', new) /\ new \in SUBSET Event
  <2>1. Out(Root, "table") \in Event /\ Self(tree.table) \in Event /\ events \in Seq(Event)
    BY <1>0, <1>1 DEF Out, Self, Event, Paths, WatchInv, QueueInv, DiskInv, TreeShape, Tree
  <2> QED
    BY <2>1, LengthenTwo DEF MoveOut
<1>3. tree'.table = NoDir /\ \A c \in ChainDirs : tree'.chains[c] = NoDir
  BY <1>1 DEF Empty
<1>4. DiskInv'
  <2>1. TreeShape(staged)' /\ TreeShape(tree)'
    <3>1. TreeShape(Empty)'
      BY EmptyShape DEF TreeShape
    <3>2. \A p \in DirNames : Node(tree, p) # NoDir => Node(tree, p) < Next1'
      BY <1>0, ShapeStays, NewNumber DEF DiskInv, TreeShape
    <3>3. TreeShape(tree)
      BY <1>0 DEF DiskInv
    <3>4. TreeShape(staged)'
      BY <1>1, <3>2, <3>3 DEF TreeShape
    <3> QED
      BY <1>1, <3>1, <3>4 DEF TreeShape
  <2>2. \A p \in DirNames : Node(tree', p) = NoDir
    BY <1>1, EmptyShape
  <2> QED
    BY <1>0, <1>1, <2>1, <2>2, NewNumber DEF DiskInv
<1>5. \A p \in Paths : DirAt(p)' # NoDir => DirAt(p)' = DirAt(p)
  BY <1>3, DirFacts, DirFactsNext, PathFacts DEF DirNames
<1>6. \A c \in ChainDirs : \A d \in {tree'.chains[c], staged'.chains[c]} :
           d \in {NoDir, Next1} \/ \E b \in ChainDirs : d \in {tree.chains[b], staged.chains[b]}
  BY <1>1, <1>3
<1>7. \A e \in new : e.sort # "in" /\ e.sort # "edit"
  BY DEF Out, Self
<1>8. {tree'.table, staged'.table} \subseteq {tree.table, staged.table, NoDir, Next1}
  BY <1>1, <1>3
<1> HIDE DEF new
<1> QED
  BY <1>1, <1>2, <1>4, <1>5, <1>6, <1>7, <1>8, OperatorKeeps

LEMMA MoveInInv == ASSUME WatchInv, MoveIn PROVE WatchInv'
<1>0. DiskInv /\ Change
  BY DEF WatchInv, MoveIn
<1> DEFINE new == {In(Root, "table"), Self(staged.table)}
<1>1. tree' = staged /\ staged' = Empty /\ unapplied' = {c \in ChainDirs : staged.chains[c] # NoDir}
      /\ watches' = watches /\ staged # Empty /\ changes' = changes + 1 /\ UNCHANGED daemonSide
  BY DEF MoveIn, Change
<1>2. staged.table # NoDir
  BY <1>0, <1>1 DEF DiskInv
<1>3. Lengthened(events, events', new) /\ new \in SUBSET Event
  <2>1. In(Root, "table") \in Event /\ Self(staged.table) \in Event /\ events \in Seq(Event)
    BY <1>0, <1>2 DEF In, Self, Event, Paths, WatchInv, QueueInv, DiskInv, TreeShape, Tree
  <2> QED
    BY <2>1, LengthenTwo DEF MoveIn
<1>4. DiskInv'
  <2>1. TreeShape(tree)' /\ TreeShape(staged)'
    <3>1. \A p \in DirNames : Node(staged, p) # NoDir => Node(staged, p) < Next1'
      BY <1>0, ShapeStays, NewNumber DEF DiskInv, TreeShape
    <3>2. TreeShape(tree)'
      BY <1>0, <1>1, <3>1 DEF DiskInv, TreeShape
    <3>3. TreeShape(staged)'
      BY <1>1, EmptyShape DEF TreeShape
    <3> QED
      BY <3>2, <3>3
  <2>2. \A p \in DirNames : Node(staged', p) = NoDir
    BY <1>1, EmptyShape
  <2>3. unapplied' \subseteq Present'
    BY <1>1 DEF Present
  <2> QED
    BY <1>0, <1>1, <2>1, <2>2, <2>3, NewNumber DEF DiskInv
<1>5. In(DirAt("root"), "table") \in new /\ DirAt("root") # NoDir /\ "root" \in Paths /\ "table" \in DirNames
  BY DirFacts, NumberFacts, PathFacts
<1>6. ~polling => \A p \in Paths : DirAt(p)' # NoDir => DirAt(p)' = DirAt(p) \/ Heard(p)' \/ Ahead(p)'
  <2> SUFFICES ASSUME ~polling, NEW p \in Paths
               PROVE  DirAt(p)' = DirAt(p) \/ Heard(p)' \/ Ahead(p)'
    OBVIOUS
  <2>1. CASE p = "root"
    BY <2>1, DirFacts, DirFactsNext
  <2>2. CASE p # "root"
    <3>1. "root" \in Above(p) /\ "table" \in {p} \cup Above(p)
      BY <2>2, PathFacts DEF DirNames
    <3>2. Heard(p)' \/ Ahead(p)'
      BY <1>1, <1>3, <1>5, <3>1, Announced
    <3> QED
      BY <3>2
  <2> QED
    BY <2>1, <2>2
<1>7. ~polling => \A c \in unapplied' : Noted(c)'
  <2> SUFFICES ASSUME ~polling, NEW c \in unapplied' PROVE Noted(c)'
    OBVIOUS
  <2>1. c \in ChainDirs
    BY <1>1
  <2> QED
    BY <1>1, <1>3, <1>5, <2>1, Announced
<1>8. \A c \in ChainDirs : \A d \in {tree'.chains[c], staged'.chains[c]} :
           d \in {NoDir, Next1} \/ \E b \in ChainDirs : d \in {tree.chains[b], staged.chains[b]}
  BY <1>1 DEF Empty
<1>9. \A e \in new : (e.sort = "in" => e.name \in DirNames) /\ e.sort # "edit"
  BY DEF In, Self, DirNames
<1>10. {tree'.table, staged'.table} \subseteq {tree.table, staged.table, NoDir, Next1}
  BY <1>1 DEF Empty
<1> HIDE DEF new
<1> QED
  BY <1>1, <1>3, <1>4, <1>6, <1>7, <1>8, <1>9, <1>10, OperatorKeeps

-----------------------------------------------------------------------------
\* The walk.

\* What was still ahead stays ahead when the walk goes on.
LEMMA WalkOn ==
  ASSUME NEW rest, VisitNext(rest), NEW p \in Paths, p \in rest \/ \E a \in Above(p) : a \in rest
  PROVE  Ahead(p)'
<1>1. \A q \in rest : (visit' = q /\ step' = "check") \/ q \in siblings'
  BY DEF VisitNext
<1> QED
  BY <1>1 DEF Ahead

LEMMA VisitNextTypes ==
  ASSUME NEW rest \in SUBSET Paths, VisitNext(rest)
  PROVE  /\ visit' \in Paths \cup {"none"} /\ step' = "check" /\ siblings' \in SUBSET Paths
         /\ visit' = "none" => siblings' = {}
  BY PathFacts DEF VisitNext

\* A step that keeps the disk keeps what is said of it.
LEMMA DiskStays ==
  ASSUME DiskInv, UNCHANGED <<tree, staged, changes>>, unapplied' \subseteq Present
  PROVE  DiskInv' /\ Present' = Present /\ \A p \in Paths : DirAt(p)' = DirAt(p)
<1>1. Present' = Present /\ \A p \in Paths : DirAt(p)' = DirAt(p)
  BY DEF Present, DirAt
<1>2. TreeShape(tree)' /\ TreeShape(staged)' /\ unapplied' \subseteq Present'
  BY <1>1 DEF DiskInv, TreeShape, Next1
<1> QED
  BY <1>1, <1>2 DEF DiskInv

\* A step that keeps the disk, inotify and the lists of the pass, and only walks on.
LEMMA WalkKeeps ==
  ASSUME WatchInv, UNCHANGED <<disk, inotify, outcome, stage, syncs>>, visit # "none",
         visit' \in Paths \cup {"none"}, step' \in {"check", "watch", "list"},
         siblings' \in SUBSET Paths, visit' = "none" => siblings' = {} /\ step' = "check",
         \A p \in Paths : DirAt(p) # NoDir /\ Ahead(p) => Known(p) \/ Ahead(p)'
  PROVE  WatchInv'
<1>1. /\ DiskInv /\ MapInv /\ QueueInv /\ StageInv /\ ReachInv /\ SyncInv
      /\ UNCHANGED <<tree, staged, changes, unapplied, watches, wdMap, events, polling>>
      /\ UNCHANGED <<dirty, rediscover, stage, syncs>>
  BY DEF WatchInv, disk, inotify, outcome
<1>2. DiskInv' /\ \A p \in Paths : DirAt(p)' = DirAt(p)
  BY <1>1, DiskStays DEF DiskInv
<1>3. MapInv'
  BY <1>1 DEF MapInv, Next1
<1>4. QueueInv'
  <2>1. \A n \in DOMAIN events : EventOK(events[n])'
    BY <1>1 DEF QueueInv, EventOK
  <2> QED
    BY <1>1, <2>1 DEF QueueInv
<1>5. StageInv'
  BY <1>1 DEF StageInv
<1>6. ReachInv'
  <2> SUFFICES ASSUME ~polling, NEW p \in Paths, DirAt(p) # NoDir
               PROVE  Known(p)' \/ Heard(p)' \/ Ahead(p)'
    BY <1>1, <1>2 DEF ReachInv
  <2>1. Known(p) \/ Heard(p) \/ Ahead(p)'
    BY <1>1 DEF ReachInv
  <2>2. Known(p) => Known(p)'
    BY <1>1, <1>2 DEF Known
  <2>3. Heard(p) => Heard(p)'
    BY <1>1 DEF Heard
  <2> QED
    BY <2>1, <2>2, <2>3
<1>7. SyncInv'
  BY <1>1 DEF SyncInv, Noted, Leads
<1> QED
  BY <1>2, <1>3, <1>4, <1>5, <1>6, <1>7 DEF WatchInv

LEMMA CheckInv == ASSUME WatchInv, Check PROVE WatchInv'
<1>1. UNCHANGED <<disk, inotify, outcome, stage, syncs>> /\ visit # "none" /\ step = "check"
      /\ StageInv /\ DiskInv
  BY DEF Check, WatchInv
<1>2. CASE DirAt(visit) = NoDir /\ VisitNext(siblings)
  <2>1. /\ visit' \in Paths \cup {"none"} /\ step' = "check" /\ siblings' \in SUBSET Paths
        /\ visit' = "none" => siblings' = {}
    BY <1>1, <1>2, VisitNextTypes DEF StageInv
  <2>2. ASSUME NEW p \in Paths, DirAt(p) # NoDir, Ahead(p) PROVE Ahead(p)'
    <3>1. p # visit /\ visit \notin Above(p)
      BY <1>1, <1>2, <2>2, ParentThere DEF DiskInv
    <3>2. p \in siblings \/ \E a \in Above(p) : a \in siblings
      BY <2>2, <3>1 DEF Ahead
    <3> QED
      BY <1>2, <3>2, WalkOn
  <2> QED
    BY <1>1, <2>1, <2>2, WalkKeeps
<1>3. CASE DirAt(visit) # NoDir /\ step' = "watch" /\ UNCHANGED <<visit, siblings>>
  <2>1. \A p \in Paths : Ahead(p) => Ahead(p)'
    BY <1>3 DEF Ahead
  <2> QED
    BY <1>1, <1>3, <2>1, WalkKeeps DEF StageInv
<1> QED
  BY <1>2, <1>3 DEF Check

LEMMA ListDirInv == ASSUME WatchInv, ListDir PROVE WatchInv'
<1>1. UNCHANGED <<disk, inotify, outcome, stage, syncs>> /\ visit # "none" /\ step = "list"
      /\ StageInv /\ DiskInv /\ VisitNext(siblings \cup Below(visit)) /\ visit \in Paths
  BY DEF ListDir, WatchInv, StageInv
<1>2. Below(visit) \subseteq Paths
  BY PathFacts DEF Below, Children, Present
<1>3. /\ visit' \in Paths \cup {"none"} /\ step' = "check" /\ siblings' \in SUBSET Paths
      /\ visit' = "none" => siblings' = {}
  BY <1>1, <1>2, VisitNextTypes DEF StageInv
<1>4. ASSUME NEW p \in Paths, DirAt(p) # NoDir, Ahead(p) PROVE Ahead(p)'
  <2>1. CASE p \in siblings \/ \E a \in Above(p) : a \in siblings
    BY <1>1, <2>1, WalkOn
  <2>2. CASE visit \in Above(p)
    <3>1. visit = "root" => "table" \in Below(visit)
      <4>1. visit = "root" => DirAt("table") # NoDir
        BY <1>1, <1>4, <2>2, ParentThere, PathFacts DEF DiskInv, DirNames
      <4> QED
        BY <4>1, DirFacts DEF Below, Children
    <3>2. visit = "table" => p \in Below(visit)
      BY <1>4, <2>2, DirFacts, PathFacts DEF Below, Children, Present, DirNames
    <3>3. p \in Below(visit) \/ \E a \in Above(p) : a \in Below(visit)
      <4>1. CASE visit = "table"
        BY <3>2, <4>1
      <4>2. CASE visit = "root"
        <5>1. p = "table" \/ "table" \in Above(p)
          BY <2>2, PathFacts DEF DirNames
        <5> QED
          BY <3>1, <4>2, <5>1
      <4>3. visit \in {"root", "table"}
        BY <2>2, PathFacts DEF DirNames
      <4> QED
        BY <4>1, <4>2, <4>3
    <3> QED
      BY <1>1, <3>3, WalkOn
  <2> QED
    BY <1>1, <1>4, <2>1, <2>2 DEF Ahead
<1> QED
  BY <1>1, <1>3, <1>4, WalkKeeps

LEMMA AddWatchInv == ASSUME WatchInv, AddWatch PROVE WatchInv'
<1>1. /\ DiskInv /\ MapInv /\ QueueInv /\ StageInv /\ ReachInv /\ SyncInv
      /\ UNCHANGED <<tree, staged, changes, unapplied, events, polling, visit, siblings>>
      /\ UNCHANGED <<dirty, rediscover, stage, syncs>>
      /\ visit # "none" /\ step = "watch" /\ step' = "list" /\ rediscover
  BY DEF AddWatch, WatchInv, disk, outcome, StageInv
<1>2. visit \in Paths
  BY <1>1 DEF StageInv
<1>3. DiskInv' /\ \A p \in Paths : DirAt(p)' = DirAt(p)
  BY <1>1, DiskStays DEF DiskInv
<1>4. StageInv'
  BY <1>1 DEF StageInv
<1>5. SyncInv'
  BY <1>1 DEF SyncInv, Noted
<1>6. \A p \in Paths : DirAt(p) # NoDir /\ Ahead(p) => p = visit \/ Ahead(p)'
  BY <1>1 DEF Ahead
<1>7. CASE DirAt(visit) # NoDir /\ watches' = watches \cup {DirAt(visit)} /\ wdMap' = Map(DirAt(visit), visit)
  <2> DEFINE d == DirAt(visit)
  <2>1. DOMAIN wdMap' = DOMAIN wdMap \cup {d}
        /\ \A e \in DOMAIN wdMap' : wdMap'[e] = IF e = d THEN visit ELSE wdMap[e]
    BY <1>7 DEF Map
  <2>2. d \in {Root} \cup Numbers /\ d < Next1
    <3>1. CASE visit = "root"
      BY <1>1, <3>1, DirFacts DEF DiskInv, Next1, Root
    <3>2. CASE visit # "root"
      <4>1. visit \in DirNames /\ d = Node(tree, visit)
        BY <1>2, <3>2, PathFacts, DirFacts
      <4> QED
        BY <1>1, <1>7, <4>1, NamesHaveTree DEF DiskInv, TreeShape
    <3> QED
      BY <3>1, <3>2
  <2>3. ASSUME NEW c \in ChainDirs, tree.chains[c] = d PROVE visit = c
    BY <1>1, <1>2, <1>7, <2>3, DirsApart, DirFacts, PathFacts DEF DiskInv
  <2>4. \A c \in ChainDirs : staged.chains[c] # d
    <3> SUFFICES ASSUME NEW c \in ChainDirs, staged.chains[c] = d PROVE FALSE
      OBVIOUS
    <3>1. Node(staged, c) = d /\ c \in DirNames
      BY PathFacts DEF Node
    <3>2. d # Root
      BY <1>1, <1>7, <3>1, NamesHaveTree, NumberFacts DEF DiskInv, TreeShape
    <3>3. visit \in DirNames /\ d = Node(tree, visit)
      BY <1>2, <3>2, PathFacts, DirFacts
    <3> QED
      BY <1>1, <1>7, <3>1, <3>3 DEF DiskInv
  <2>5. MapInv'
    <3>1. watches' \subseteq DOMAIN wdMap'
      BY <1>1, <1>7, <2>1 DEF MapInv
    <3>2. \A e \in DOMAIN wdMap' : wdMap'[e] \in Paths /\ e \in {Root} \cup Numbers /\ e < Next1'
      BY <1>1, <1>2, <2>1, <2>2 DEF MapInv, Next1
    <3>3. \A c \in ChainDirs : tree.chains[c] \in DOMAIN wdMap' => wdMap'[tree.chains[c]] \in ChainDirs
      BY <1>1, <2>1, <2>3 DEF MapInv
    <3>4. \A c \in ChainDirs : staged.chains[c] \in DOMAIN wdMap' => wdMap'[staged.chains[c]] \in ChainDirs
      BY <1>1, <2>1, <2>4 DEF MapInv
    <3> QED
      BY <1>1, <3>1, <3>2, <3>3, <3>4 DEF MapInv
  <2>6. QueueInv'
    <3>1. ASSUME NEW n \in DOMAIN events PROVE EventOK(events[n])'
      <4>1. EventOK(events[n])
        BY <1>1 DEF QueueInv
      <4>2. events[n].sort = "edit" /\ events[n].node = d => visit \in ChainDirs
        <5>1. events[n].sort = "edit" => events[n].node # Root /\ events[n].node # tree.table
          BY <4>1 DEF EventOK
        <5> QED
          BY <1>2, <5>1, DirFacts, PathFacts DEF DirNames
      <4> QED
        BY <1>1, <2>1, <4>1, <4>2 DEF EventOK
    <3> QED
      BY <1>1, <3>1 DEF QueueInv
  <2>7. ReachInv'
    <3> SUFFICES ASSUME ~polling, NEW p \in Paths, DirAt(p) # NoDir
                 PROVE  Known(p)' \/ Heard(p)' \/ Ahead(p)'
      BY <1>1, <1>3 DEF ReachInv
    <3>1. CASE p = visit
      <4>1. DirAt(p)' \in watches' /\ wdMap'[DirAt(p)'] = p
        BY <1>3, <1>7, <2>1, <3>1
      <4> QED
        BY <4>1 DEF Known
    <3>2. CASE p # visit
      <4>1. DirAt(p) # d
        BY <1>1, <1>2, <3>2, DirsApart DEF DiskInv
      <4>2. Known(p) => Known(p)'
        <5>1. Known(p) => DirAt(p)' \in watches' /\ wdMap'[DirAt(p)'] = p
          BY <1>1, <1>3, <1>7, <2>1, <4>1 DEF Known, MapInv
        <5> QED
          BY <5>1 DEF Known
      <4>3. Heard(p) => Heard(p)'
        BY <1>1 DEF Heard
      <4> QED
        BY <1>1, <1>6, <3>2, <4>2, <4>3 DEF ReachInv
    <3> QED
      BY <3>1, <3>2
  <2> QED
    BY <1>3, <1>4, <1>5, <2>5, <2>6, <2>7 DEF WatchInv
<1>8. CASE DirAt(visit) = NoDir /\ UNCHANGED <<watches, wdMap>>
  <2>1. MapInv'
    BY <1>1, <1>8 DEF MapInv, Next1
  <2>2. QueueInv'
    <3>1. \A n \in DOMAIN events : EventOK(events[n])'
      BY <1>1, <1>8 DEF QueueInv, EventOK
    <3> QED
      BY <1>1, <3>1 DEF QueueInv
  <2>3. ReachInv'
    <3> SUFFICES ASSUME ~polling, NEW p \in Paths, DirAt(p) # NoDir
                 PROVE  Known(p)' \/ Heard(p)' \/ Ahead(p)'
      BY <1>1, <1>3 DEF ReachInv
    <3>1. p # visit
      BY <1>8
    <3>2. Known(p) \/ Heard(p) \/ Ahead(p)
      BY <1>1 DEF ReachInv
    <3>3. Known(p) => Known(p)'
      BY <1>1, <1>3, <1>8 DEF Known
    <3>4. Heard(p) => Heard(p)'
      BY <1>1 DEF Heard
    <3> QED
      BY <1>6, <3>1, <3>2, <3>3, <3>4
  <2> QED
    BY <1>3, <1>4, <1>5, <2>1, <2>2, <2>3 DEF WatchInv
<1> QED
  BY <1>7, <1>8 DEF AddWatch

LEMMA StartsInv ==
  ASSUME DiskInv, Starts, unapplied' = Present, UNCHANGED <<tree, staged, changes>>
  PROVE  WatchInv'
<1>1. DiskInv'
  BY DiskStays
<1>2. /\ DOMAIN wdMap' = {} /\ DOMAIN events' = {} /\ watches' = {} /\ events' = <<>>
      /\ visit' = "root" /\ step' = "check" /\ siblings' = {} /\ dirty' = {} /\ rediscover' = TRUE
      /\ stage' = "start" /\ syncs' = {} /\ polling' = FALSE
  BY DEF Starts
<1>3. MapInv'
  BY <1>2 DEF MapInv
<1>4. QueueInv'
  BY <1>2 DEF QueueInv
<1>5. StageInv'
  BY <1>2, PathFacts DEF StageInv
<1>6. \A p \in Paths : Ahead(p)'
  BY <1>2, PathFacts DEF Ahead, DirNames
<1>7. ReachInv'
  BY <1>6 DEF ReachInv
<1>8. SyncInv'
  BY <1>2 DEF SyncInv, Noted
<1> QED
  BY <1>1, <1>3, <1>4, <1>5, <1>7, <1>8 DEF WatchInv

LEMMA WalkFailsAtStartInv == ASSUME WatchInv, WalkFailsAtStart PROVE WatchInv'
<1>1. /\ DiskInv /\ StageInv /\ UNCHANGED <<tree, staged, changes, unapplied>>
      /\ UNCHANGED <<dirty, rediscover, stage, syncs>>
      /\ DOMAIN wdMap' = {} /\ DOMAIN events' = {} /\ watches' = {} /\ events' = <<>>
      /\ visit' = "none" /\ step' = "check" /\ siblings' = {} /\ polling' = TRUE
  BY DEF WatchInv, WalkFailsAtStart, disk, outcome
<1>2. DiskInv'
  BY <1>1, DiskStays DEF DiskInv
<1>3. MapInv' /\ ReachInv' /\ SyncInv'
  BY <1>1 DEF MapInv, ReachInv, SyncInv
<1>4. QueueInv'
  BY <1>1 DEF QueueInv
<1>5. StageInv'
  <2>1. polling' \in BOOLEAN
    BY <1>1
  <2> QED
    BY <1>1, <2>1 DEF StageInv
<1> QED
  BY <1>2, <1>3, <1>4, <1>5 DEF WatchInv

\* The event that is taken off the queue sends the walk to what it names, or its
\* chain into the pass.
LEMMA ReadEventInv == ASSUME WatchInv, ReadEvent PROVE WatchInv'
<1>1. /\ DiskInv /\ MapInv /\ QueueInv /\ StageInv /\ ReachInv /\ SyncInv
      /\ UNCHANGED <<tree, staged, changes, unapplied, watches, wdMap, polling>>
      /\ UNCHANGED <<step, siblings, syncs>>
      /\ events # <<>> /\ events' = Tail(events) /\ stage' = "reading"
      /\ visit = "none" /\ ~polling /\ stage \in {"wait", "reading"}
  BY DEF WatchInv, ReadEvent, disk
<1> DEFINE e == Head(events)
<1>2. /\ dirty' = IF e.sort = "edit" THEN dirty \cup {wdMap[e.node]} ELSE dirty
      /\ rediscover' = (rediscover \/ ~(e.sort = "edit"))
      /\ visit' = Walked(e)
  BY DEF ReadEvent
<1>3. /\ events \in Seq(Event) /\ e = events[1] /\ 1 \in DOMAIN events /\ events' \in Seq(Event)
      /\ \A n \in DOMAIN events' : n + 1 \in DOMAIN events /\ events'[n] = events[n + 1]
      /\ \A n \in DOMAIN events : n = 1 \/ (n - 1 \in DOMAIN events' /\ events'[n - 1] = events[n])
  <2>1. events \in Seq(Event) /\ events # <<>>
    BY <1>1 DEF QueueInv
  <2>2. /\ e = events[1] /\ events' \in Seq(Event) /\ Len(events') = Len(events) - 1
        /\ \A i \in 1 .. Len(events') : events'[i] = events[i + 1]
    BY <1>1, <2>1, HeadTailProperties
  <2>3. /\ Len(events) \in Nat /\ Len(events) > 0 /\ DOMAIN events = 1 .. Len(events)
        /\ Len(events') \in Nat /\ DOMAIN events' = 1 .. Len(events')
    BY <2>1, <2>2, LenProperties, EmptySeq
  <2> QED
    BY <2>1, <2>2, <2>3
<1> HIDE DEF e
<1>4. DiskInv' /\ \A p \in Paths : DirAt(p)' = DirAt(p)
  BY <1>1, DiskStays DEF DiskInv
<1>5. MapInv'
  BY <1>1 DEF MapInv, Next1
<1>6. QueueInv'
  <2>1. ASSUME NEW n \in DOMAIN events' PROVE EventOK(events[n])'
    <3>1. n + 1 \in DOMAIN events /\ events'[n] = events[n + 1]
      BY <1>3
    <3>2. EventOK(events[n + 1])
      BY <1>1, <3>1 DEF QueueInv
    <3> QED
      BY <1>1, <3>1, <3>2 DEF EventOK
  <2>2. \A n \in DOMAIN events' : EventOK(events[n])'
    BY <2>1
  <2> QED
    BY <1>3, <2>2 DEF QueueInv
<1>7. e \in Event /\ EventOK(e)
  BY <1>1, <1>3 DEF QueueInv
<1>8. StageInv'
  <2>1. visit' \in Paths \cup {"none"} /\ (visit' # "none" => e.sort = "in")
    BY <1>2, <1>7, PathFacts DEF Walked, EventOK
  <2>2. dirty' \subseteq ChainDirs
    BY <1>1, <1>2, <1>7 DEF StageInv, EventOK
  <2>3. rediscover' \in BOOLEAN /\ (e.sort = "in" => rediscover')
    BY <1>2, <1>1 DEF StageInv
  <2> QED
    BY <1>1, <2>1, <2>2, <2>3 DEF StageInv
<1>9. ReachInv'
  <2> SUFFICES ASSUME NEW p \in Paths, DirAt(p) # NoDir
               PROVE  Known(p)' \/ Heard(p)' \/ Ahead(p)'
    BY <1>1, <1>4 DEF ReachInv
  <2>1. CASE Known(p)
    <3>1. Known(p)'
      BY <1>1, <1>4, <2>1 DEF Known
    <3> QED
      BY <3>1
  <2>2. CASE Heard(p)
    <3>1. PICK n \in DOMAIN events : events[n].sort = "in" /\ events[n].name \in {p} \cup Above(p)
      BY <2>2 DEF Heard
    <3>2. CASE n = 1
      <4>1. visit' \in {p} \cup Above(p) /\ step' = "check"
        BY <1>1, <1>2, <1>3, <3>1, <3>2 DEF Walked, StageInv
      <4>2. Ahead(p)'
        BY <4>1 DEF Ahead
      <4> QED
        BY <4>2
    <3>3. CASE n # 1
      <4>1. n - 1 \in DOMAIN events' /\ events'[n - 1] = events[n]
        BY <1>3, <3>3
      <4>2. Heard(p)'
        BY <3>1, <4>1 DEF Heard
      <4> QED
        BY <4>2
    <3> QED
      BY <3>2, <3>3
  <2>3. ~Ahead(p)
    <3>1. Above(p) \subseteq Paths
      BY PathFacts DEF DirNames
    <3> QED
      BY <1>1, <3>1, PathFacts DEF Ahead, StageInv
  <2> QED
    BY <1>1, <2>1, <2>2, <2>3 DEF ReachInv
<1>10. SyncInv'
  <2> SUFFICES ASSUME NEW c \in unapplied PROVE Noted(c)'
    BY <1>1 DEF SyncInv
  <2>1. c \in syncs \/ c \in dirty \/ rediscover \/ \E n \in DOMAIN events : Leads(events[n], c)
    BY <1>1 DEF SyncInv, Noted
  <2>2. CASE c \in syncs \/ c \in dirty \/ rediscover
    BY <1>1, <1>2, <2>2 DEF Noted
  <2>3. CASE \E n \in DOMAIN events : Leads(events[n], c)
    <3>1. PICK n \in DOMAIN events : Leads(events[n], c)
      BY <2>3
    <3>2. CASE n = 1
      <4>1. c \in dirty' \/ rediscover'
        BY <1>2, <1>3, <3>1, <3>2 DEF Leads
      <4> QED
        BY <4>1 DEF Noted
    <3>3. CASE n # 1
      <4>1. n - 1 \in DOMAIN events' /\ events'[n - 1] = events[n]
        BY <1>3, <3>3
      <4>2. Leads(events[n - 1], c)'
        BY <1>1, <3>1, <4>1 DEF Leads
      <4> QED
        BY <4>1, <4>2 DEF Noted
    <3> QED
      BY <3>2, <3>3
  <2> QED
    BY <2>1, <2>2, <2>3
<1> QED
  BY <1>4, <1>5, <1>6, <1>8, <1>9, <1>10 DEF WatchInv

-----------------------------------------------------------------------------
\* The pass.

\* A step that neither walks nor reads, nor changes the disk.
LEMMA PassKeeps ==
  ASSUME WatchInv, UNCHANGED <<tree, staged, changes, inotify, walk>>,
         unapplied' \subseteq unapplied, StageInv', SyncInv'
  PROVE  WatchInv'
<1>1. /\ DiskInv /\ MapInv /\ QueueInv /\ ReachInv
      /\ UNCHANGED <<tree, staged, changes, watches, wdMap, events, polling, visit, step, siblings>>
  BY DEF WatchInv, inotify, walk
<1>2. DiskInv' /\ \A p \in Paths : DirAt(p)' = DirAt(p)
  BY <1>1, DiskStays DEF DiskInv
<1>3. MapInv'
  BY <1>1 DEF MapInv, Next1
<1>4. QueueInv'
  <2>1. \A n \in DOMAIN events : EventOK(events[n])'
    BY <1>1 DEF QueueInv, EventOK
  <2> QED
    BY <1>1, <2>1 DEF QueueInv
<1>5. ReachInv'
  <2> SUFFICES ASSUME ~polling, NEW p \in Paths, DirAt(p) # NoDir
               PROVE  Known(p)' \/ Heard(p)' \/ Ahead(p)'
    BY <1>1, <1>2 DEF ReachInv
  <2>1. (Known(p) => Known(p)') /\ (Heard(p) => Heard(p)') /\ (Ahead(p) => Ahead(p)')
    <3>1. Known(p) => Known(p)'
      BY <1>1, <1>2 DEF Known
    <3>2. Heard(p) => Heard(p)'
      BY <1>1 DEF Heard
    <3>3. Ahead(p) => Ahead(p)'
      BY <1>1 DEF Ahead
    <3> QED
      BY <3>1, <3>2, <3>3
  <2> QED
    BY <1>1, <2>1 DEF ReachInv
<1> QED
  BY <1>2, <1>3, <1>4, <1>5 DEF WatchInv

\* The ends of the start and of a wait, a poll, and the look for the table directory.
LEMMA StagesInv ==
  ASSUME WatchInv, EndWait \/ EndStart \/ PollWake \/ Discover \/ EndSync
  PROVE  WatchInv'
<1>1. /\ DiskInv /\ StageInv /\ SyncInv
      /\ UNCHANGED <<tree, staged, changes, unapplied, inotify, walk, syncs>>
      /\ UNCHANGED <<wdMap, events, polling, visit, step, siblings>>
  BY DEF WatchInv, EndWait, EndStart, PollWake, Discover, EndSync, disk, inotify, walk, outcome
<1>2. CASE EndWait \/ EndStart \/ EndSync
  <2>1. UNCHANGED <<dirty, rediscover>>
    BY <1>2 DEF EndWait, EndStart, EndSync, outcome
  <2>2. StageInv'
    BY <1>1, <1>2, <2>1 DEF EndWait, EndStart, EndSync, StageInv
  <2>3. SyncInv'
    BY <1>1, <2>1 DEF SyncInv, Noted, Leads
  <2> QED
    BY <1>1, <2>2, <2>3, PassKeeps
<1>3. CASE PollWake
  <2>1. rediscover' = TRUE /\ stage' = "discover" /\ dirty' = dirty /\ polling /\ stage = "wait"
    BY <1>3 DEF PollWake
  <2>2. StageInv'
    <3>1. rediscover' \in BOOLEAN
      BY <2>1
    <3> QED
      BY <1>1, <2>1, <3>1 DEF StageInv
  <2>3. SyncInv'
    BY <1>1, <2>1 DEF SyncInv
  <2> QED
    BY <1>1, <2>2, <2>3, PassKeeps
<1>4. CASE Discover /\ tree.table = NoDir
  <2>1. stage' = "sync" /\ dirty' = {} /\ stage = "discover"
    BY <1>4 DEF Discover
  <2>2. rediscover' = FALSE
    BY <1>4 DEF Discover
  <2>3. StageInv'
    <3>1. rediscover' \in BOOLEAN /\ ~rediscover'
      BY <2>2
    <3> QED
      BY <1>1, <2>1, <3>1 DEF StageInv
  <2>4. unapplied = {}
    BY <1>1, <1>4 DEF DiskInv, TreeShape, Present
  <2>5. SyncInv'
    BY <1>1, <2>4 DEF SyncInv
  <2> QED
    BY <1>1, <2>3, <2>5, PassKeeps
<1>5. CASE Discover /\ tree.table # NoDir
  <2>1. stage' = "list" /\ dirty' = dirty /\ stage = "discover"
    BY <1>5 DEF Discover
  <2>2. rediscover' = rediscover
    BY <1>1, <1>5 DEF Discover, StageInv
  <2>3. StageInv'
    BY <1>1, <2>1, <2>2 DEF StageInv
  <2>4. SyncInv'
    BY <1>1, <2>1, <2>2 DEF SyncInv, Noted, Leads
  <2> QED
    BY <1>1, <2>3, <2>4, PassKeeps
<1> QED
  BY <1>2, <1>3, <1>4, <1>5

\* The pass takes up all that was noted, but for what the queue still holds.
LEMMA ListTableInv == ASSUME WatchInv, ListTable PROVE WatchInv'
<1>1. /\ DiskInv /\ StageInv /\ SyncInv
      /\ UNCHANGED <<tree, staged, changes, unapplied, inotify, walk>>
      /\ UNCHANGED <<wdMap, events, polling, visit, step, siblings>>
      /\ stage = "list" /\ stage' = "sync" /\ dirty' = {} /\ rediscover' = FALSE
      /\ syncs' = Scope(Present)
  BY DEF WatchInv, ListTable, disk, inotify, walk
<1>2. syncs' \subseteq ChainDirs
  BY <1>1 DEF Scope, Present
<1>3. StageInv'
  <2>1. rediscover' \in BOOLEAN /\ ~rediscover'
    BY <1>1
  <2> QED
    BY <1>1, <1>2, <2>1 DEF StageInv
<1>4. SyncInv'
  <2> SUFFICES ASSUME ~polling, NEW c \in unapplied PROVE Noted(c)'
    BY <1>1 DEF SyncInv
  <2>1. c \in Present /\ Noted(c) /\ syncs = {}
    BY <1>1 DEF DiskInv, SyncInv, StageInv
  <2>2. CASE c \in dirty \/ rediscover
    BY <1>1, <2>1, <2>2 DEF Scope, Noted
  <2>3. CASE \E n \in DOMAIN events : Leads(events[n], c)
    BY <1>1, <2>3 DEF Noted, Leads
  <2> QED
    BY <2>1, <2>2, <2>3 DEF Noted
<1> QED
  BY <1>1, <1>3, <1>4, PassKeeps

LEMMA SyncChainInv == ASSUME WatchInv, SyncChain PROVE WatchInv'
<1>1. /\ DiskInv /\ StageInv /\ SyncInv
      /\ UNCHANGED <<tree, staged, changes, inotify, walk>>
      /\ UNCHANGED <<wdMap, events, polling, visit, step, siblings, dirty, rediscover, stage>>
      /\ stage = "sync"
  BY DEF WatchInv, SyncChain, inotify, walk, outcome
<1>2. PICK c \in syncs : syncs' = syncs \ {c} /\ unapplied' = unapplied \ {c}
  BY DEF SyncChain
<1>3. StageInv'
  BY <1>1, <1>2 DEF StageInv
<1>4. SyncInv'
  BY <1>1, <1>2 DEF SyncInv, Noted, Leads
<1> QED
  BY <1>1, <1>2, <1>3, <1>4, PassKeeps

-----------------------------------------------------------------------------
\* Every step.

LEMMA WatchNextInv == WatchInv /\ [WatchNext]_watchVars => WatchInv'
<1> SUFFICES ASSUME WatchInv, [WatchNext]_watchVars PROVE WatchInv'
  OBVIOUS
<1>1. CASE WatcherStep
  <2>1. CASE WalkFailsLater \/ ListTableFails
    BY <2>1, StartsInv DEF WalkFailsLater, ListTableFails, WatchInv
  <2> QED
    BY <1>1, <2>1, CheckInv, AddWatchInv, ListDirInv, WalkFailsAtStartInv, ReadEventInv, StagesInv,
       ListTableInv, SyncChainInv DEF WatcherStep
<1>2. CASE OperatorStep
  BY <1>2, MakeTableInv, RemoveTableInv, MakeChainInv, RemoveChainInv, EditChainInv, RenameChainInv,
     MoveOutInv, MoveInInv DEF OperatorStep
<1>3. CASE UNCHANGED watchVars
  <2>1. UNCHANGED <<tree, staged, changes, unapplied, inotify, walk>>
        /\ UNCHANGED <<wdMap, events, polling, visit, step, siblings, dirty, rediscover, stage, syncs>>
    BY <1>3 DEF watchVars, disk, inotify, walk, outcome
  <2>2. StageInv' /\ SyncInv'
    BY <2>1 DEF WatchInv, StageInv, SyncInv, Noted, Leads
  <2> QED
    BY <2>1, <2>2, PassKeeps
<1> QED
  BY <1>1, <1>2, <1>3 DEF WatchNext

\* The watches, the queue, the walk and the pass keep what WatchInv says of them
\* (config_watch.py:92, targets.py:61, daemon.py:232), whatever operators do meanwhile.
THEOREM WatchInvariant == WatchSpec => []WatchInv
  BY WatchInitInv, WatchNextInv, PTL DEF WatchSpec

\* The type invariant of config_watch.py's state, for any names of chain directories
\* and any number of changes.
THEOREM WatchTypeCorrect == WatchSpec => []WatchTypeOK
<1>1. WatchInv => WatchTypeOK
  <2> SUFFICES ASSUME WatchInv PROVE WatchTypeOK
    OBVIOUS
  <2>1. /\ tree.table \in Numbers \cup {NoDir} /\ tree.chains \in [ChainDirs -> Numbers \cup {NoDir}]
        /\ (tree.table = NoDir => Present = {})
    BY DEF WatchInv, DiskInv, TreeShape, Tree, Present
  <2>2. staged = Empty \/ staged.table \in Numbers
    BY DEF WatchInv, DiskInv, TreeShape, Tree
  <2>3. /\ watches \subseteq DOMAIN wdMap /\ \A d \in DOMAIN wdMap : wdMap[d] \in Paths
        /\ \A n \in DOMAIN events : events[n].node \in DOMAIN wdMap
    BY DEF WatchInv, MapInv, QueueInv, EventOK
  <2> QED
    BY <2>1, <2>2, <2>3 DEF WatchInv, DiskInv, StageInv, WatchTypeOK
<1> QED
  BY <1>1, WatchInvariant, PTL

\* A daemon that waits with an empty queue watches every directory of the tree under
\* its present path (config_watch.py:142,160), whatever was made, renamed or moved
\* while it walked: a directory that the walk has passed by is in an event, and one
\* that an event names is visited with all below it.
THEOREM WatchedAtRest == WatchSpec => []RestWatched
<1>1. WatchInv => RestWatched
  <2> SUFFICES ASSUME WatchInv, AtRest, NEW p \in {"root", "table"} \cup Present, DirAt(p) # NoDir
               PROVE  DirAt(p) \in watches /\ wdMap[DirAt(p)] = p
    BY DEF RestWatched
  <2>1. stage = "wait" /\ ~polling /\ DOMAIN events = {} /\ p \in Paths /\ visit = "none"
    BY PathFacts DEF AtRest, WatchInv, StageInv, Present
  <2>2. ~Heard(p)
    BY <2>1 DEF Heard
  <2>3. ~Ahead(p)
    <3>1. Above(p) \subseteq Paths
      BY <2>1, PathFacts DEF DirNames
    <3> QED
      BY <2>1, <3>1, PathFacts DEF Ahead, WatchInv, StageInv
  <2> QED
    BY <2>1, <2>2, <2>3 DEF WatchInv, ReachInv, Known
<1> QED
  BY <1>1, WatchInvariant, PTL

\* And it has synced every drop-in that was edited, or that came with a directory
\* (config_watch.py:48, daemon.py:232).
THEOREM SyncedAtRest == WatchSpec => []RestSynced
<1>1. WatchInv => RestSynced
  <2> SUFFICES ASSUME WatchInv, AtRest, NEW c \in unapplied PROVE FALSE
    BY DEF RestSynced
  <2>1. stage = "wait" /\ ~polling /\ DOMAIN events = {}
    BY DEF AtRest
  <2>2. c \notin syncs /\ c \notin dirty /\ ~rediscover
    BY <2>1 DEF WatchInv, StageInv
  <2> QED
    BY <2>1, <2>2 DEF WatchInv, SyncInv, Noted
<1> QED
  BY <1>1, WatchInvariant, PTL

=============================================================================
