SPECIFICATION Spec
CONSTANTS
    client = client
    server = server
    Room = 1
    MaxBytes = 2
    Deadline = TRUE
    Impatient = {server}
    HalfClosers = {client}
    Reactions = {"take", "reply", "replyClose", "replyDelay", "disable"}
    CloseTypes = {"NoFlush", "FlushWrite", "FlushWriteAndDelay"}
INVARIANTS
  PairSound
  NoWakeUpLost
PROPERTIES
  ClosingIsDeaf
  ClosingEnds
CHECK_DEADLOCK FALSE
