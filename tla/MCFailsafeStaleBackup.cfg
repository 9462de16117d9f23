SPECIFICATION Spec
CONSTANTS
  Parts <- MCParts
  AltNames <- MCParts
  Images <- MCImages
  NoMagic = NoMagic
  FlashType = "nand"
  AgeMod = 16
  MaxVersion = 3
  FlashMayFail = FALSE
  DoubleFault = FALSE
INVARIANT
  BackupIsCurrent
