SPECIFICATION Spec
CONSTANTS
  Missing = Missing
  Bad = Bad
  Requests <- SomeRequests
  Infos <- SomeInfos
  PartitionLists <- SomeLists
  Model = {"Pi 2"}
INVARIANTS
  ValidIsInstallable
CHECK_DEADLOCK FALSE
