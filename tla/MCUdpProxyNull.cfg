SPECIFICATION Spec
CONSTANTS
  Clients = {"c1"}
  MaxData = 1
CHECK_DEADLOCK FALSE
INVARIANTS HandlersKeepSockets
