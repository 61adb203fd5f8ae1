SPECIFICATION Spec
CONSTANTS
  Threads = {"pipeline", "webdav", "page"}
  Sources = {"a", "b", "p"}
  Names = {"x", "y"}
  Days = {"day"}
  Folder = {"a"}
  Remote = {"b"}
  Phone = {"p"}
  Name <- MCName
  DayOf <- MCDayOf
  MaxRows = 3
  MaxSteps = 3
  MaxEvents = 0
  MaxDeletes = 0
PROPERTY OrganizeCopiesEach
CHECK_DEADLOCK FALSE
