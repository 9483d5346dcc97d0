SPECIFICATION Spec
CONSTANTS
  a = a
  b = b
  Absent = Absent
  None = None
  Refused = Refused
  Statics = {a, b}
  Files = {1, 2}
  Contents <- OnlyStatic
  Retry = 1
  MayFault = {"restart"}
  MaxFaults = 1
  MaxEdits = 2
INVARIANT
  RemovedRemembered
