SPECIFICATION Spec
CONSTANTS
  Words <- MCWords
  Topics <- MCTopics
  Requests <- MCRequests
  Chunks = {1, 5, 50}
  Threads = 2
  max_queue_size = 1
  publish_rate = 5
  MaxExpired = 2
  MaxPending = 1
CHECK_DEADLOCK FALSE
INVARIANTS
  TypeOK
  PartsWhole
  QueueBounded
  ParsedAsWritten
PROPERTIES
  GoneClientsReleased
  Served
