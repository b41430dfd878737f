SPECIFICATION Spec
CONSTANTS
  d1 = d1
  d2 = d2
  d3 = d3
  s1 = s1
  s2 = s2
  NilID = NilID
  Deliveries = {d1, d2, d3}
  StreamIDs = {s1, s2}
  CommandControllers <- MCKeeps
  EventControllers <- MCUpdates
  Pickers <- MCMany
  MaxChanges = 1
  Strict = FALSE
  Backends = {"memory", "redis", "postgres"}
SYMMETRY Symmetric
CHECK_DEADLOCK FALSE
PROPERTY
  ImplementsEventSourcing
