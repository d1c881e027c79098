\* A command that is deallocated in the break takes its next field with it.
\* The process ends.
SPECIFICATION Spec
CONSTANTS
  ListenCmds = {c1, c2}
  Callables = {}
  Main = main
  Scripts = {main, other}
  Conns = {k}
  NoThread = nothread
  NoObject = noobject
  QCapacity = 2
  MaxAddrs = 2
  MaxPuts = 2
  LateListens = FALSE
  Collects = FALSE
  FreedNext = {"intact", "crash"}
INVARIANT BreakClosesAll
CHECK_DEADLOCK FALSE
