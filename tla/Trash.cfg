CONSTANTS
  Lib = {"d1", "d2", "e"}
  Slot <- MCSlot
  Clients = {r1, r2}
  MaxFiles = 2
  MaxIds = 2
  MaxFaults = 1
SPECIFICATION Spec
SYMMETRY AnyOrder
INVARIANTS
  TypeOK
  OwnPhoto
  BinMatchesList
PROPERTIES
  TrashKeepsPhotos
CHECK_DEADLOCK FALSE
