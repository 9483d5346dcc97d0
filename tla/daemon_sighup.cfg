SPECIFICATION Spec
CONSTANTS
  t1 = t1
  t2 = t2
  Never = Never
  Targets = {t1}
  Explicit = FALSE
  ScopeFull = FALSE
  Interval = 2
  DnsInterval = 1
  MinInterval = 2
  MayLose = {}
PROPERTY
  SighupSkipsSleep
