SPECIFICATION Spec
CONSTANTS
  Total = 8
  PoolLba = 4
  BbMax = 1
  Pages = 1
  FactoryBad <- MCFactoryBad
  Wearable <- MCWearable
  MaxWear = 2
  CutsUpload = FALSE
  DebugFs = FALSE
  NoTable = NoTable
  Torn = Torn
INVARIANT
  OwnTableLoads
