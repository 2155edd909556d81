CONSTANTS
  PARTITION_ALIGNMENT = 8192
  PARTITION_GAP = 2
  SectorsPerMB = 2048
  RISCOS_SECTOR_OFFSET = 122880
  StartP1 = 8192
  SizeP1 = 16384
  StartP5 = 32768
  SizeP5 = 65534
  TotalSectors = 163840
  MaxNumber = 9
  Images <- MCImages
  MaxParts = 3
  SizesMB = {4, 9, 16}
  FixedOffsets = {106497, 131072}
SPECIFICATION Spec
INVARIANTS
  TypeOK
  RoomForEBR
  ExtendedHoldsLogicals
  SystemPartitionsKept
  NoAlignmentGap
  AllOnCardIfBudgeted
  PlacedInListOrder
