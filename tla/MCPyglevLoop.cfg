\* Every schedule: listens during and after the signal, the collector, and
\* deallocated commands whose next field is gone.  Two listening commands and a
\* callable through a queue of two, a second Python thread, one connection.
\* The process ends.
SPECIFICATION Spec
CONSTANTS
  ListenCmds = {c1, c2}
  Callables = {f}
  Main = main
  Scripts = {main, other}
  Conns = {k}
  NoThread = nothread
  NoObject = noobject
  QCapacity = 2
  MaxAddrs = 1
  MaxPuts = 2
  LateListens = TRUE
  Collects = TRUE
  FreedNext = {"intact", "crash"}
INVARIANTS
  RefsExact
  OnlyBreakUsesFreed
  DestructsInactive
  BreakMissesOnly
PROPERTIES
  BreakLeadsToExit
  ScheduledIsHandled
CHECK_DEADLOCK FALSE
