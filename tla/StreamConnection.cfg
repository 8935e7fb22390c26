\* One connection, up to three messages, a queue of one.
SPECIFICATION FairSpec
CONSTANTS
  h1 = h1
  h2 = h2
  None = None
  Scripts <- MCScripts
  Hotwords = {h1, h2}
  QueueSize = 1
  ReceiveDeadline = TRUE
  HotwordStreams = TRUE
  MaxHeartbeats = 1
INVARIANTS
  WireOrdered
  AnsweredInOrder
  CloseTruthful
PROPERTIES
  TimeoutsSpareWork
  ShutdownEnds
CHECK_DEADLOCK FALSE
