CONSTANTS
  MaxRuns = 2
  Others = {3}
  Emitters <- MCEmitters
  Sockets = {"w1"}
  MAX_LINES = 2
  MaxSaid = 2
  NumSteps = 1
  Requests <- MCRequests
SPECIFICATION Spec
INVARIANTS
  TypeOK
  NoLineMissed
  LinesInOrder
  StreamsRestored
  LogTellsRuns
PROPERTIES
  RunEnds
  ClientCatchesUp
CHECK_DEADLOCK FALSE
