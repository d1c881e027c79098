\* Three slots (two commands), two producers that put three times each: the
\* ring wraps, fills and empties several times.
SPECIFICATION Spec
CONSTANTS
  QSize = 3
  Producers = {p1, p2}
  MaxPuts = 3
  NoCmd = nocmd
INVARIANTS
  NoSleepOnWork
  NoSilentLoss
PROPERTIES
  SizeIsExact
  ImplementsChannel
  PutIsDelivered
CHECK_DEADLOCK FALSE
