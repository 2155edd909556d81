SPECIFICATION FairSpec
CONSTANTS
  c1 = c1
  c2 = c2
  Junk = Junk
  NoField = NoField
  Clients = {c1, c2}
  Worlds <- MCWorlds
  BufferSize = 8
INVARIANTS
  HandledAsSent
  AnswersAndStays
PROPERTIES
  EveryClientAnswered
CHECK_DEADLOCK FALSE
