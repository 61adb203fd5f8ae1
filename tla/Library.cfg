SPECIFICATION Spec
CONSTANTS
  Threads = {"pipeline", "webdav", "page"}
  Sources = {"a", "b", "p"}
  Names = {"x", "y"}
  Days = {"day"}
  Folder = {"a"}
  Remote = {"b"}
  Phone = {"p"}
  Name <- MCName
  DayOf <- MCDayOf
  MaxRows = 3
  MaxSteps = 3
  MaxEvents = 1
  MaxDeletes = 1
INVARIANTS TypeOK 
PROPERTIES NeverOverwritten UpsertKeepsOneRow
CHECK_DEADLOCK FALSE
