CONSTANTS
  Names = {"ann", "bob"}
  Clients = {"c1", "c2"}
  Engines = {"postgresql"}
  MaxIds = 3
SPECIFICATION Spec
INVARIANTS
  AtMostOneAdmin
CHECK_DEADLOCK FALSE
