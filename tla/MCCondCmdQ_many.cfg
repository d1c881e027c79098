\* Two producers and two consumers, one of each with a timeout, on a system
\* where a signal never goes to a wait that has already timed out.
SPECIFICATION Spec
CONSTANTS
  QSize = 3
  Producers = {p1, p2}
  Consumers = {c1, c2}
  Timed = {p2, c2}
  MaxPuts = 3
  NoCmd = nocmd
  LateSignals = FALSE
INVARIANTS
  TypeOK
  NoConsumerForgotten
  NoProducerForgotten
PROPERTIES
  BlocksOnlyAtLimits
  ImplementsChannel
  PutIsTaken
  BlockedPutReturns
CHECK_DEADLOCK FALSE
