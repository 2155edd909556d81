CONSTANTS
  A = A
  B = B
  OSes = {A}
  Layout <- MCLayout
  HasScript <- MCHasScript
  NoOS = NoOS
  Torn = Torn
  Absent = Absent
  Zero = Zero
  Garbage = Garbage
  Unprefixed = Unprefixed
  CommandLines <- RestOnly
  Devices = {}
  Failures = {"mountSettings", "umount", "command", "io", "remove", "rebootPart"}
SPECIFICATION FairSpec
INVARIANTS
  NoWriteToMounted
PROPERTIES
  ComesBack
