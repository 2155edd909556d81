CONSTANTS
  A = A
  B = B
  OSes = {A, B}
  Layout <- MCLayout
  HasScript <- MCHasScript
  NoOS = NoOS
  Torn = Torn
  Absent = Absent
  Zero = Zero
  Garbage = Garbage
  Unprefixed = Unprefixed
  CommandLines <- RestAndMenu
  Devices <- MCDevices
  Failures = {"command", "io", "rebootPart"}
SPECIFICATION Spec
INVARIANTS
  TypeOK
  ListedImpliesInstalled
  ToldIsDurable
PROPERTIES
  CardKeepsContract
  AutoRebootTarget
