SPECIFICATION Spec
CONSTANTS
  Types <- MCTypes
  Debounce = 1
  Interval = 1
  HZ = 2
  Wrap = 5
  MaxPending = 2
  QuietProbe = TRUE
INVARIANTS
  TypeOK
  PressLength
  ActionFitsPress
  NoActionUnpressed
  TimeoutDisarmed
  ReadingDue
PROPERTIES
  GlitchFiltered
  
