SPECIFICATION Spec
CONSTANTS
  c1 = c1  i1 = i1  i2 = i2  s1 = s1  s2 = s2  s3 = s3  t1 = t1
  Callers = {c1}
  Ids = {i1, i2}
  Streams = {s1, s2}
  Topics = {t1}
  MaxCalls = 4
  MaxDepth = 2
SYMMETRY SymNames
INVARIANTS
  SentAsAsked
  SubscriptionsSound
PROPERTIES
  PublishReachesAll
CHECK_DEADLOCK FALSE
