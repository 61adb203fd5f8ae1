CONSTANTS
  a = a
  b = b
  c = c
  NoFile = NoFile
  Hrefs <- MCHrefs
  Name <- MCName
  Length <- MCLength
  Sized <- MCSized
  Clients = {"r1"}
  Workers = 2
  BatchSize = 2
  FlushEvery = 2
  MaxAttempts = 2
  MaxCrashes = 1
SPECIFICATION Spec
INVARIANTS
  TypeOK
  CountersAgree
  Quiescent
  SuccessIsStored
  FailuresListed
PROPERTIES
  RefinesLedger
  JobEnds
CHECK_DEADLOCK FALSE
