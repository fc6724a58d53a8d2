SPECIFICATION SmallSpec
CONSTANTS
  d1 = d1  d2 = d2  a = a  g1 = g1  g2 = g2  g3 = g3
  None = None
  Owner = d1
  Answer = a
  Dispatchers = {d1, d2}
  GetStreams = {g1, g2, g3}
  PendingLimit = 1
  MaxGetStreams = 2
  Settings <- SmallSettings
INVARIANTS
  StreamsSound
  ReadAsWritten
  NothingWaitsBehindALiveStream
PROPERTIES
  ParkedIsAnswered
CHECK_DEADLOCK FALSE
