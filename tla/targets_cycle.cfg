SPECIFICATION Spec
CONSTANTS
  a = a
  b = b
  Absent = Absent
  None = None
  Refused = Refused
  Statics = {a, b}
  Files = {1, 2}
  Contents <- TwoSorts
  Retry = 1
  MayFault = {"apply", "wipe", "raise", "vanish", "restart", "dir"}
  MaxFaults = 1
  MaxEdits = 2
INVARIANT
  TypeOK
INVARIANT
  AppliedRemembered
PROPERTY
  RetryRespected
PROPERTY
  CycleAccounts
PROPERTY
  UpToDateKept
