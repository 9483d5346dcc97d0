SPECIFICATION FairSpec
CONSTANTS
  t1 = t1
  t2 = t2
  t3 = t3
  f1 = f1
  x = x
  y = y
  ky = ky
  z = z
  g = g
  NoAddress = NoAddress
  Tags <- MCTags
  Foreign <- MCForeign
  Bodies <- MCBodies
  Kernel <- MCKernel
  Rejected <- MCRejected
  Quoted = {}
  Garbled = {}
  ForeignRules <- MCForeignRules
  DropIns <- MCMixedOnly
  NoCreateChain = FALSE
  MayFail = {"R", "Dspec"}
  Concurrent = FALSE
  MaxRules = 2
  DeleteMax = 5
INVARIANT
  NeverSecondRule
