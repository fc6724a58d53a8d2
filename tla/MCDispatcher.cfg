SPECIFICATION Spec
CONSTANTS
  c1 = c1  c2 = c2  o1 = o1  o2 = o2  th = th  app = app  tm = tm
  Closures = {c1, c2}
  Threads = {th}
  Stopper = app
  Timers = {tm}
  Objects = {o1, o2}
  Worlds <- AllWorlds
INVARIANTS
  PostsSound
  DeletedAfterUse
PROPERTIES
  LoopKeepsItsWord
CHECK_DEADLOCK FALSE
