\* The main thread runs the loop, two more threads listen through a queue of
\* two.  The process ends.
SPECIFICATION AppSpec
CONSTANTS
  Main = main
  Workers = {w1, w2}
  Daemons = {}
  Runners = {main}
  QCapacity = 2
  MaxListens = 2
  NoThread = nothread
INVARIANTS
  NoAbort
  QueueFreedLast
PROPERTY SignalLeadsToExit
CHECK_DEADLOCK FALSE
