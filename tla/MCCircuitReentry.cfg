SPECIFICATION FairSpec
CONSTANTS
  r1 = r1  r2 = r2  r3 = r3
  Ids = {r1}
  FailureThreshold = 2
  MinRequests = 2
  MaxFailurePercent = 50
  HalfOpenMax = 1
  SuccessThreshold = 1
  TrackErrors = TRUE
  NextReportsBack = TRUE
  MaxOutcomes = 2
  MaxConsecutive = 2
PROPERTIES
  ErrorsReachMcp
CHECK_DEADLOCK FALSE
