CONSTANTS
  a = a
  b = b
  c = c
  NoFile = NoFile
  Hrefs <- MCHrefs
  Name <- MCName
  Length <- MCLength
  Sized <- MCSized
  Clients = {"r1"}
  Workers = 2
  BatchSize = 2
  FlushEvery = 2
  MaxAttempts = 3
  MaxCrashes = 0
SPECIFICATION Spec
PROPERTIES
  RetryIsLatest
CHECK_DEADLOCK FALSE
