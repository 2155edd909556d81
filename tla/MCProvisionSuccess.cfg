CONSTANTS
  A = A
  B = B
  OSes = {A, B}
  Layout <- MCLayout
  HasScript <- MCHasScript
  NoOS = NoOS
  Torn = Torn
  Absent = Absent
  Zero = Zero
  Garbage = Garbage
  Unprefixed = Unprefixed
  CommandLines <- RestOnly
  Devices = {}
  Failures = {"command"}
SPECIFICATION Spec
INVARIANT SuccessMeansInstalled
