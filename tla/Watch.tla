------------------------------- MODULE Watch --------------------------------
(***************************************************************************)
(* The inside of ConfigWatcher (config_watch.py) and of discover_targets   *)
(* (targets.py): the walk that sets the watches, the map from watches to   *)
(* paths, and the events, one by one, while operators make, remove, rename *)
(* and move directories between any two steps.                             *)
(*                                                                         *)
(* config_dir holds at most one table directory, and that one chain        *)
(* directories.  A directory is a number, so that the same path may be     *)
(* another directory later: inotify watches the directory, and _wd_map     *)
(* keeps the path it had.  Cooldown, timers and overflow are in Daemon.    *)
(***************************************************************************)
EXTENDS Naturals, Sequences

CONSTANTS
  ChainDirs,  \* names of chain directories
  NoDir,
  MaxChanges  \* bound: changes that operators make

Root == 0
Paths == {"root", "table"} \cup ChainDirs
Numbers == 1 .. (2 + 2 * MaxChanges + 2)

ASSUME ChainDirsAssumption == ChainDirs \cap {"root", "table", "none"} = {}
ASSUME NoDirAssumption == NoDir \notin {Root} \cup Numbers
ASSUME ChangesAssumption == MaxChanges \in Nat

Empty == [table |-> NoDir, chains |-> [c \in ChainDirs |-> NoDir]]
Holding(t, c, n) == [table |-> t, chains |-> [d \in ChainDirs |-> IF d = c THEN n ELSE NoDir]]

VARIABLES
  tree,      \* the table directory in config_dir, and its chain directories
  staged,    \* another, elsewhere
  changes,   \* changes so far
  watches,   \* directories that the kernel watches
  wdMap,     \* _wd_map
  events,    \* inotify's queue
  polling,   \* the watcher could not be made
  stage,     \* "start", "wait", "reading", "discover", "list", "sync"
  visit,     \* the path _add_tree is at, "none" when it is not running
  step,      \* "check", "watch", "list"
  siblings,  \* what it has still to visit
  dirty, rediscover,  \* what the events of this wait map to
  syncs,     \* chains that the running pass has still to sync
  unapplied  \* history: chains whose drop-ins changed since their last sync began

walk == <<visit, step, siblings>>
outcome == <<dirty, rediscover>>
disk == <<tree, staged, changes, unapplied>>
inotify == <<watches, wdMap, events, polling>>
watchVars == <<disk, inotify, walk, outcome, stage, syncs>>

DirAt(p) == CASE p = "root" -> Root [] p = "table" -> tree.table [] OTHER -> tree.chains[p]
Present == {c \in ChainDirs : tree.chains[c] # NoDir}

Children(p) ==
  CASE p = "root" -> IF tree.table = NoDir THEN {} ELSE {"table"}
    [] p = "table" -> Present
    [] OTHER -> {}

\* A process that starts: an inotify instance without watches.
Starts ==
  /\ watches' = {} /\ wdMap' = <<>> /\ events' = <<>> /\ polling' = FALSE
  /\ visit' = "root" /\ step' = "check" /\ siblings' = {}
  /\ dirty' = {} /\ rediscover' = TRUE
  /\ stage' = "start" /\ syncs' = {}

WatchInit ==
  /\ tree \in {Empty} \cup {Holding(1, c, 2) : c \in ChainDirs}
  /\ staged \in {Empty} \cup {Holding(3, c, 4) : c \in ChainDirs}
  /\ changes = 0
  /\ watches = {} /\ wdMap = <<>> /\ events = <<>> /\ polling = FALSE
  /\ visit = "root" /\ step = "check" /\ siblings = {}
  /\ dirty = {} /\ rediscover = TRUE
  /\ stage = "start" /\ syncs = {}
  /\ unapplied = Present

-----------------------------------------------------------------------------
\* _add_tree.

\* On to the next directory of the listing; the end of the walk.
VisitNext(rest) ==
  \/ \E p \in rest : visit' = p /\ step' = "check" /\ siblings' = rest \ {p}
  \/ rest = {} /\ visit' = "none" /\ step' = "check" /\ siblings' = {}

Check ==
  /\ visit # "none" /\ step = "check"
  /\ \/ DirAt(visit) = NoDir /\ VisitNext(siblings)
     \/ DirAt(visit) # NoDir /\ step' = "watch" /\ UNCHANGED <<visit, siblings>>
  /\ UNCHANGED <<disk, inotify, outcome, stage, syncs>>

\* inotify_add_watch: for a directory that is watched already, the same watch
\* again, with the new path.
Map(d, p) == [e \in DOMAIN wdMap \cup {d} |-> IF e = d THEN p ELSE wdMap[e]]

AddWatch ==
  /\ visit # "none" /\ step = "watch"
  /\ \/ /\ DirAt(visit) # NoDir
        /\ watches' = watches \cup {DirAt(visit)}
        /\ wdMap' = Map(DirAt(visit), visit)
     \/ DirAt(visit) = NoDir /\ UNCHANGED <<watches, wdMap>>
  /\ step' = "list"
  /\ UNCHANGED <<disk, events, polling, visit, siblings, outcome, stage, syncs>>

Below_None(p) == {}
Below(p) == Children(p)

\* iterdir of a directory that has just gone raises FileNotFoundError.
ListDir ==
  /\ visit # "none" /\ step = "list"
  /\ DirAt(visit) # NoDir
  /\ VisitNext(siblings \cup Below(visit))
  /\ UNCHANGED <<disk, inotify, outcome, stage, syncs>>

\* OSError in the walk: from inotify_add_watch with another errno than ENOENT (no
\* watch left, no memory), or from iterdir.
Raises ==
  \/ visit # "none" /\ step = "watch" /\ DirAt(visit) # NoDir
  \/ visit # "none" /\ step = "list" /\ DirAt(visit) = NoDir

\* In the constructor that disables the watch until the daemon is restarted.
WalkFailsAtStart ==
  /\ Raises /\ stage = "start"
  /\ polling' = TRUE /\ watches' = {} /\ wdMap' = <<>> /\ events' = <<>>
  /\ visit' = "none" /\ step' = "check" /\ siblings' = {}
  /\ UNCHANGED <<disk, outcome, stage, syncs>>

\* Later it ends the daemon, which the service manager starts again.
WalkFailsLater ==
  /\ Raises /\ stage # "start"
  /\ Starts
  /\ unapplied' = Present
  /\ UNCHANGED <<tree, staged, changes>>

-----------------------------------------------------------------------------
\* _read_events and wait.

\* The directory that an "in" event names gets its watches.
Walked(e) == IF e.sort = "in" THEN e.name ELSE "none"

\* map_event_path: anything but a path inside a chain directory is rediscovered.
ReadEvent ==
  /\ stage \in {"wait", "reading"} /\ ~polling /\ visit = "none"
  /\ events # <<>>
  /\ events' = Tail(events)
  /\ LET e == Head(events)
         edit == e.sort = "edit"
     IN /\ dirty' = IF edit THEN dirty \cup {wdMap[e.node]} ELSE dirty
        /\ rediscover' = (rediscover \/ ~edit)
        /\ visit' = Walked(e)
  /\ stage' = "reading"
  /\ UNCHANGED <<disk, watches, wdMap, polling, step, siblings, syncs>>

\* The end of the coalescing: new events may already be there.
EndWait ==
  /\ stage = "reading" /\ visit = "none"
  /\ stage' = "discover"
  /\ UNCHANGED <<disk, inotify, walk, outcome, syncs>>

\* The startup sync.
EndStart ==
  /\ stage = "start" /\ visit = "none"
  /\ stage' = "discover"
  /\ UNCHANGED <<disk, inotify, walk, outcome, syncs>>

\* The interval of a daemon without a watcher: full_sync_on_interval.
PollWake_RetriesOnly ==
  /\ stage = "wait" /\ polling
  /\ stage' = "discover"
  /\ UNCHANGED <<disk, inotify, walk, outcome, syncs>>
PollWake ==
  /\ stage = "wait" /\ polling
  /\ rediscover' = TRUE
  /\ stage' = "discover"
  /\ UNCHANGED <<disk, inotify, walk, dirty, syncs>>

-----------------------------------------------------------------------------
\* _watch_sync.

\* discover_targets: the table directory is there, and is then listed.
Discover ==
  /\ stage = "discover"
  /\ stage' = IF tree.table = NoDir THEN "sync" ELSE "list"
  /\ dirty' = IF tree.table = NoDir THEN {} ELSE dirty
  /\ rediscover' = (rediscover /\ tree.table # NoDir)
  /\ UNCHANGED <<disk, inotify, walk, syncs>>

\* What the pass syncs of the chains found.
Scope_DirtyOnly(found) == dirty \cap found
Scope(found) == IF rediscover THEN found ELSE dirty \cap found

ListTable ==
  /\ stage = "list" /\ tree.table # NoDir
  /\ syncs' = Scope(Present)
  /\ stage' = "sync" /\ dirty' = {} /\ rediscover' = FALSE
  /\ UNCHANGED <<disk, inotify, walk>>

ListTableFails ==
  /\ stage = "list" /\ tree.table = NoDir
  /\ Starts
  /\ unapplied' = Present
  /\ UNCHANGED <<tree, staged, changes>>

SyncChain ==
  /\ stage = "sync"
  /\ \E c \in syncs : syncs' = syncs \ {c} /\ unapplied' = unapplied \ {c}
  /\ UNCHANGED <<tree, staged, changes, inotify, walk, outcome, stage>>

EndSync ==
  /\ stage = "sync" /\ syncs = {}
  /\ stage' = "wait"
  /\ UNCHANGED <<disk, inotify, walk, outcome, syncs>>

-----------------------------------------------------------------------------
\* Operators.

Change == changes < MaxChanges /\ changes' = changes + 1
Next1 == 5 + 2 * changes

\* The kernel queues an event only for a directory that is watched.
Queued(e) == IF e.node \in watches THEN <<e>> ELSE <<>>

In(node, name) == [node |-> node, sort |-> "in", name |-> name]
Out(node, name) == [node |-> node, sort |-> "out", name |-> name]
Self(node) == [node |-> node, sort |-> "self", name |-> "none"]
Edited(node) == [node |-> node, sort |-> "edit", name |-> "none"]

daemonSide == <<polling, wdMap, walk, outcome, stage, syncs>>

MakeTable ==
  /\ Change /\ tree.table = NoDir
  /\ tree' = [tree EXCEPT !.table = Next1]
  /\ events' = events \o Queued(In(Root, "table"))
  /\ UNCHANGED <<staged, watches, unapplied, daemonSide>>

RemoveTable ==
  /\ Change /\ tree.table # NoDir /\ Present = {}
  /\ tree' = Empty
  /\ events' = events \o Queued(Out(Root, "table")) \o Queued(Self(tree.table))
  /\ watches' = watches \ {tree.table}
  /\ UNCHANGED <<staged, unapplied, daemonSide>>

MakeChain(c) ==
  /\ Change /\ tree.table # NoDir /\ tree.chains[c] = NoDir
  /\ tree' = [tree EXCEPT !.chains[c] = Next1]
  /\ events' = events \o Queued(In(tree.table, c))
  /\ UNCHANGED <<staged, watches, unapplied, daemonSide>>

RemoveChain(c) ==
  /\ Change /\ tree.chains[c] # NoDir
  /\ tree' = [tree EXCEPT !.chains[c] = NoDir]
  /\ events' = events \o Queued(Out(tree.table, c)) \o Queued(Self(tree.chains[c]))
  /\ watches' = watches \ {tree.chains[c]}
  /\ unapplied' = unapplied \ {c}
  /\ UNCHANGED <<staged, daemonSide>>

RenameChain(c, d) ==
  /\ Change /\ tree.chains[c] # NoDir /\ tree.chains[d] = NoDir
  /\ tree' = [tree EXCEPT !.chains[c] = NoDir, !.chains[d] = tree.chains[c]]
  /\ events' = events \o Queued(Out(tree.table, c)) \o Queued(In(tree.table, d)) \o Queued(Self(tree.chains[c]))
  /\ unapplied' = (unapplied \ {c}) \cup {d}
  /\ UNCHANGED <<staged, watches, daemonSide>>

EditChain(c) ==
  /\ Change /\ tree.chains[c] # NoDir
  /\ events' = events \o Queued(Edited(tree.chains[c]))
  /\ unapplied' = unapplied \cup {c}
  /\ UNCHANGED <<tree, staged, watches, daemonSide>>

\* mv of the table directory with all it holds, out of and into config_dir.
MoveOut ==
  /\ Change /\ tree.table # NoDir /\ staged = Empty
  /\ staged' = tree /\ tree' = Empty
  /\ events' = events \o Queued(Out(Root, "table")) \o Queued(Self(tree.table))
  /\ unapplied' = {}
  /\ UNCHANGED <<watches, daemonSide>>

MoveIn ==
  /\ Change /\ staged # Empty /\ tree.table = NoDir
  /\ tree' = staged /\ staged' = Empty
  /\ events' = events \o Queued(In(Root, "table")) \o Queued(Self(staged.table))
  /\ unapplied' = {c \in ChainDirs : staged.chains[c] # NoDir}
  /\ UNCHANGED <<watches, daemonSide>>

-----------------------------------------------------------------------------
WatcherStep ==
  \/ Check \/ AddWatch \/ ListDir \/ WalkFailsAtStart \/ WalkFailsLater
  \/ ReadEvent \/ EndWait \/ EndStart \/ PollWake
  \/ Discover \/ ListTable \/ ListTableFails \/ SyncChain \/ EndSync

OperatorStep ==
  \/ MakeTable \/ RemoveTable \/ MoveOut \/ MoveIn
  \/ \E c \in ChainDirs : MakeChain(c) \/ RemoveChain(c) \/ EditChain(c)
  \/ \E c, d \in ChainDirs : RenameChain(c, d)

WatchNext == WatcherStep \/ OperatorStep

WatchSpec == WatchInit /\ [][WatchNext]_watchVars

-----------------------------------------------------------------------------
\* Properties.

\* Type invariant.
WatchTypeOK ==
  /\ tree.table \in Numbers \cup {NoDir}
  /\ tree.chains \in [ChainDirs -> Numbers \cup {NoDir}]
  /\ tree.table = NoDir => Present = {}
  /\ staged = Empty \/ staged.table \in Numbers
  /\ watches \subseteq DOMAIN wdMap
  /\ \A d \in DOMAIN wdMap : wdMap[d] \in Paths
  /\ \A n \in DOMAIN events : events[n].node \in DOMAIN wdMap
  /\ stage \in {"start", "wait", "reading", "discover", "list", "sync"}
  /\ visit \in Paths \cup {"none"} /\ step \in {"check", "watch", "list"}
  /\ siblings \subseteq Paths /\ syncs \subseteq ChainDirs
  /\ dirty \subseteq ChainDirs /\ rediscover \in BOOLEAN
  /\ unapplied \subseteq Present
  /\ changes \in 0 .. MaxChanges /\ polling \in BOOLEAN

AtRest == stage = "wait" /\ ~polling /\ events = <<>>

\* A daemon that waits with an empty queue watches every directory of the tree,
\* under the path it has now (config_watch.py:142,160): no directory made, renamed
\* or moved during a walk has been missed, and none is known by an old path.
RestWatched ==
  AtRest => \A p \in {"root", "table"} \cup Present :
    DirAt(p) # NoDir => DirAt(p) \in watches /\ wdMap[DirAt(p)] = p

\* And it has synced every drop-in that was edited, or that came with a directory
\* (config_watch.py:48, daemon.py:232): nothing is left to the next event.
RestSynced == AtRest => unapplied = {}

\* Every edit reaches iptables, also past a walk that fails: by the restart or, if
\* that was the constructor's, by polling (daemon.py:98, config_watch.py:146).
EditsReach == unapplied # {} ~> unapplied = {}

=============================================================================
