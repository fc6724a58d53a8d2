SPECIFICATION SomeSpec
CONSTANTS
    h1 = h1  h2 = h2  h3 = h3  p = p
    onThread = onThread  onLoop = onLoop  onLoop2 = onLoop2
    HttpConns = {h1, h2, h3}
    Pipes = {p}
    NoConn = NoConn
    Uris = {u}
    NoUri = NoUri
    MaxSessions = 3
    MaxStreams = 2
    MaxInputs = 4
    Calls = {onThread, onLoop, onLoop2}
    OnDispatcher = {onLoop, onLoop2}
    Workloads <- SomeWork
INVARIANTS
  TablesAgree
  NothingAstray
  UpdatesReachSubscribers
  QuestionsSound
PROPERTIES
  SettledOnce
  EveryQuestionSettles
CHECK_DEADLOCK FALSE
