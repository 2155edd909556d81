SPECIFICATION Spec
CONSTANTS
  Symbols <- MCSymbols
  SymType <- MCSymType
  Main = "main"
  NoMenu = NoMenu
  Worlds <- MCWorlds
INVARIANTS
  ParsedRight
  TreeKept
  MeaningKept
  SelectsCollected
PROPERTIES
  RoundsShrink
CHECK_DEADLOCK FALSE
