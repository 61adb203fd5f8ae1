CONSTANTS
  Lib = {"d1", "d2"}
  Slot <- MCSlot
  Clients = {"r1"}
  MaxFiles = 4
  MaxIds = 3
  MaxFaults = 0
SPECIFICATION Spec
PROPERTIES
  LibraryKeepsPhotos
CHECK_DEADLOCK FALSE
