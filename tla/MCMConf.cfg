SPECIFICATION Spec
CONSTANTS
  Symbols <- MCSymbols
  SymType <- MCSymType
  Chars <- MCChars
  Kconfigs <- MCKconfigs
  Scenes <- MCScenes
  LIST_HEIGHT = 2
  BOX_WIDTH = 2
  MAX_LEN = 3
  JUMP_NB = 2
  WINDOW_HEIGTH_MIN = 16
INVARIANTS
  ShownIsActedOn
  SavedIsKept
  PagesFollow
CHECK_DEADLOCK FALSE
