SPECIFICATION FairSpec
CONSTANTS
  t1 = t1
  t2 = t2
  t3 = t3
  f1 = f1
  x = x
  y = y
  ky = ky
  z = z
  g = g
  NoAddress = NoAddress
  Tags <- MCTags
  Foreign <- MCForeign
  Bodies <- MCBodies
  Kernel <- MCKernel
  Rejected <- MCRejected
  Quoted = {}
  Garbled = {g}
  ForeignRules <- SomeGarbled
  DropIns <- MCShared
  NoCreateChain = FALSE
  MayFail <- AllCommands
  Concurrent = TRUE
  MaxRules = 3
  DeleteMax = 3
PROPERTIES
  OnlyOwnedRulesEdited
  GatedRuleKept
  PassEnds
