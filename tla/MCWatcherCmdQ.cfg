\* Three slots (two commands), two producers that put three times each: the
\* ring wraps, fills and empties several times.
SPECIFICATION Spec
CONSTANTS
  QSize = 3
  Producers = {p1, p2}
  Loop = loop
  NoThread = nothread
  MaxPuts = 3
  NoCmd = nocmd
INVARIANTS
  FifoExact
  NoSleepOnWork
PROPERTIES
  RefusedOnlyWhenFull
  ImplementsChannel
  ImplementsWokenChannel
  PutIsDelivered
CHECK_DEADLOCK FALSE
