SPECIFICATION Spec
CONSTANTS
  t1 = t1  t2 = t2  t3 = t3  o1 = o1  o2 = o2  k1 = k1  k2 = k2
  w1 = w1  w2 = w2  th1 = th1  th2 = th2
  Tasks = {t1, t2}
  Owners = {o1}
  Keys = {k1,k2}
  Observers = {w1}
  Threads = {th1, th2}
  MaxPerCaller = 1
  Expires = TRUE
  MaxUpdates = 2
  MaxOwed = 1
INVARIANTS
  TasksSound
  AnswersFindTheirQuestion
  WithinShare
PROPERTIES
  FinalIsFinal
  EveryoneIsTold
CHECK_DEADLOCK FALSE
