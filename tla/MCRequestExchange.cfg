CONSTANTS
  MaxRequests = 2
  Kinds <- SmallKinds
  Worlds <- AllWorlds
  MaxEvents = 1
  MaxObservers = 1
  MaxHeld = 1
  Retention = 2
SPECIFICATION Spec
INVARIANTS
  ExchangesSound
  WireReadable
PROPERTIES
  ImplementsLifetime
CHECK_DEADLOCK FALSE
