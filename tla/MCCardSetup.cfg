SPECIFICATION FairSpec
CONSTANTS
  MayFail = TRUE
  HasRiscOSBlob = TRUE
  Starts <- SomeStarts
  Sizes <- SomeSizes
INVARIANTS
  PreparedSafely
PROPERTIES
  StoredIsKept
  ReachesSetup
CHECK_DEADLOCK FALSE
