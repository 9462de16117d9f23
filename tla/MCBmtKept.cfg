SPECIFICATION Spec
CONSTANTS
  Total = 9
  PoolLba = 5
  BbMax = 1
  Pages = 2
  FactoryBad <- MCFactoryBad
  Wearable <- MCWearable
  MaxWear = 3
  CutsUpload = FALSE
  DebugFs = FALSE
  NoTable = NoTable
  Torn = Torn
INVARIANTS
  AckedKept
  
  OwnTableLoads
