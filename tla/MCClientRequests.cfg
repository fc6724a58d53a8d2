CONSTANTS
  MaxCalls = 2
  MaxIds = 5
  Worlds <- PassingWorlds
  Timeout = 1
  MaxTime = 2
  MaxRedials = 1
  MaxRounds = 1
  MaxResumes = 1
SPECIFICATION RequestsSpec
INVARIANTS
  NothingIsStranded
PROPERTIES
  EndIsFinal
  CallsEnd
CHECK_DEADLOCK FALSE
