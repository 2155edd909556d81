SPECIFICATION FairSpec
CONSTANTS
  Junk = Junk
  NoField = NoField
  BufferSize = 6
  Responses <- Pages
  Urls = {"http", "https", "hostonly"}
  MaxSockets = 2
INVARIANTS
  DownloadsWhole
PROPERTIES
  GetReturns
CHECK_DEADLOCK FALSE
