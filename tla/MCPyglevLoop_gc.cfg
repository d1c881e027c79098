\* The collector traverses the loop object.  The process ends.
SPECIFICATION Spec
CONSTANTS
  ListenCmds = {c1, c2}
  Callables = {}
  Main = main
  Scripts = {main, other}
  Conns = {k}
  NoThread = nothread
  NoObject = noobject
  QCapacity = 2
  MaxAddrs = 2
  MaxPuts = 2
  LateListens = FALSE
  Collects = TRUE
  FreedNext = {"intact"}
INVARIANT BreakClosesAll
CHECK_DEADLOCK FALSE
