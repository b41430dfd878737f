SPECIFICATION Spec
CONSTANTS
  d1 = d1
  d2 = d2
  d3 = d3
  s1 = s1
  s2 = s2
  NilID = NilID
  Deliveries = {d1, d2, d3}
  StreamIDs = {s1}
  CommandControllers <- MCLifecycle
  EventControllers <- MCCreates
  Pickers <- MCOne
  MaxChanges = 2
  Strict = TRUE
  Backends = {"memory"}
SYMMETRY Symmetric
CHECK_DEADLOCK FALSE
INVARIANTS
  TypeOK
  NoLostUpdate
  CopyIsConsistent
  HistoryIsContiguous
  PublishedIsCommitted
  PublishedOnce
  NoSilentLoss
  ReplyVersionIsCommitted
