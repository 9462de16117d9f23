SPECIFICATION BootFairSpec
CONSTANTS
  Total = 8
  PoolLba = 3
  BbMax = 1
  Pages = 1
  FactoryBad <- MCFactoryBad
  Wearable <- MCWearable
  MaxWear = 3
  CutsUpload = TRUE
  DebugFs = FALSE
  NoTable = NoTable
  Torn = Torn
INVARIANT
  ScanAsCoded
PROPERTY
  AccessEnds
  LoopsImplementScan
