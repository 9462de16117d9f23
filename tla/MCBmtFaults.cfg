SPECIFICATION Spec
CONSTANTS
  Total = 8
  PoolLba = 4
  BbMax = 1
  Pages = 1
  FactoryBad <- MCFactoryBad
  Wearable <- MCWearable
  MaxWear = 2
  CutsUpload = TRUE
  DebugFs = TRUE
  NoTable = NoTable
  Torn = Torn
INVARIANTS
  TypeOK
  IInv
  MappingInjective
  SlotsAccounted
  TableAside
  SoundBlockKept
  PoolSpentOnWear
CONSTRAINT DebugFits
