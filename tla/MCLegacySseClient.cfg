SPECIFICATION LegacySpec
CONSTANTS
    MaxMessages = 4
    MaxAnnouncements = 2
INVARIANTS
  QueueSound
PROPERTIES
  QueueEmpties
CHECK_DEADLOCK FALSE
