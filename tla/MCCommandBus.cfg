SPECIFICATION FairSpec
CONSTANTS
  p = p
  q = q
  v1 = v1
  v2 = v2
  Transports = {"nats", "http", "grpc"}
  Callers = {p, q}
  Servers = {v1, v2}
  CommandCount = 2
  MaxCalls = 3
CHECK_DEADLOCK FALSE
INVARIANTS
  TypeOK
  DuplicatesAreRepeats
  FirstExecutionsInOrder
PROPERTIES
  ImplementsCommandService
  EveryCallReturns
