\* Nothing listens; the program only starts and ends.
SPECIFICATION Spec
CONSTANTS
  QCapacity = 2
  MaxListens = 0
  MaxConns = 2
  EarlyPuts = FALSE
  LateListens = FALSE
  FreedNext = {"intact"}
INVARIANTS
  AppQueueFreedLast
CHECK_DEADLOCK FALSE
