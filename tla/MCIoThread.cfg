\* Three sockets, two threads that listen on up to two addresses or connect, a
\* queue of two that overflows, a pool that every read empties.  The IO thread
\* may end.
SPECIFICATION Spec
CONSTANTS
  Sockets = {s1, s2, s3}
  Callers = {c1, c2}
  NoSocket = nosocket
  QCapacity = 2
  MaxAddrs = 2
  WantedIov = 2
  SlotCount = 2
  MaxHead = 4
  FreedNext = {"intact", "null"}
INVARIANTS
  TypeOK
  HeldOnce
PROPERTIES
  ImplementsSocketLife
  HandedIsWatched
CHECK_DEADLOCK FALSE
