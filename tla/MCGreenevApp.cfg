\* Every schedule: puts before the IO thread is up, listens during and after the
\* signal, a queue that overflows.  What DIE frees still reads as before (the
\* theorems of GreenevAppProofs have it read NULL too).  The process may end.
SPECIFICATION Spec
CONSTANTS
  QCapacity = 2
  MaxListens = 3
  MaxConns = 2
  EarlyPuts = TRUE
  LateListens = TRUE
  FreedNext = {"intact"}
INVARIANTS
  ExitOnlyAfterBoth
  NoAbort
  NoSocketLeftBehind
  IoQueueFreedLast
PROPERTIES
  ImplementsWokenChannels
  DieLeadsToExit
  ListenIsServed
CHECK_DEADLOCK FALSE
