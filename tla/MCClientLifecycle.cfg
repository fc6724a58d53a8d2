SPECIFICATION FairSpec
CONSTANTS
  AutoReconnect = TRUE
  MaxReconnectAttempts = 2
  MaxDials = 3
INVARIANTS
  MachineAgrees
PROPERTIES
  OneLossOneAttempt
  OverIsOver
  WaitsEnd
CHECK_DEADLOCK FALSE
