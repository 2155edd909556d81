SPECIFICATION Spec
CONSTANTS
  Symbols <- MCSymbols
  SymType <- MCSymType
  Chars <- MCChars
  Kconfigs <- MCKconfigs
  Configs <- MCConfigs
  Modes <- MCModes
  Answers <- MCAnswers
  Seeds <- MCSeeds
  Autos <- MCAutos
INVARIANTS
  ValuesRight
  SavedIsRestored
  AskingEnds
  CyclesReported
PROPERTIES
  FilesInOrder
  AnswerTaken
CHECK_DEADLOCK FALSE
