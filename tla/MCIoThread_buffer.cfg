\* One connection that is read from; of the two slots of a read one is used.
SPECIFICATION Spec
CONSTANTS
  Sockets = {s1}
  Callers = {c1}
  NoSocket = nosocket
  QCapacity = 2
  MaxAddrs = 1
  WantedIov = 2
  SlotCount = 3
  MaxHead = 6
  FreedNext = {"intact"}
INVARIANT PutStaysInPool
CHECK_DEADLOCK FALSE
