CONSTANTS
  NoFile = NoFile
  LastVersion = 3
  Size <- MCSize
  MaxCrashes = 2
SPECIFICATION Spec
INVARIANTS
  BytesInPlace
  IntactUnlessChanged
PROPERTIES
  ProgressIsKept
  KeepsContract
  BytesBecomeFile
CHECK_DEADLOCK FALSE
