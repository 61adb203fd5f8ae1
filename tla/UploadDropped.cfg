CONSTANTS
  Hosts = {"nas"}
  Photos = {"p", "q"}
  MaxFaults = 1
SPECIFICATION UploadSpec
INVARIANT DroppedSessionRetried
CHECK_DEADLOCK FALSE
