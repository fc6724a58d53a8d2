SPECIFICATION FairSpec
CONSTANTS
  r1 = r1  r2 = r2  r3 = r3
  Ids = {r1, r2, r3}
  FailureThreshold = 2
  MinRequests = 3
  MaxFailurePercent = 50
  HalfOpenMax = 2
  SuccessThreshold = 2
  TrackErrors = TRUE
  NextReportsBack = FALSE
  MaxOutcomes = 3
  MaxConsecutive = 3
INVARIANTS
  CountsBounded
  NotStuck
PROPERTIES
  RecoversWhenHealthy
