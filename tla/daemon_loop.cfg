SPECIFICATION Spec
CONSTANTS
  t1 = t1
  t2 = t2
  Never = Never
  Targets = {t1, t2}
  Explicit = FALSE
  ScopeFull = FALSE
  Interval = 1
  DnsInterval = 1
  MinInterval = 2
  MayLose = {"dirty"}
SYMMETRY
  Symmetry
INVARIANT
  TypeOK
INVARIANT
  EditsKept
INVARIANT
  WatchIsRecursive
INVARIANT
  SignalKept
PROPERTY
  WatchSyncsApart
