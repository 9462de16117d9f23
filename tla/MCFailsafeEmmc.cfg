SPECIFICATION Spec
CONSTANTS
  Parts <- MCParts
  AltNames <- MCParts
  Images <- MCImages
  NoMagic = NoMagic
  FlashType = "emmc"
  AgeMod = 16
  MaxVersion = 3
  FlashMayFail = FALSE
  DoubleFault = FALSE
INVARIANTS
  IInv
  ConfigCarried
PROPERTIES
  ImplementsAtomicUpgrade
