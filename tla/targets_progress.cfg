SPECIFICATION FairSpec
CONSTANTS
  a = a
  b = b
  Absent = Absent
  None = None
  Refused = Refused
  Statics = {a, b}
  Files = {1, 2}
  Contents <- StaticOrHosts
  Retry = 1
  MayFault = {"apply", "wipe", "restart"}
  MaxFaults = 1
  MaxEdits = 2
PROPERTY
  AppliedEventually
PROPERTY
  RemovedCleaned
