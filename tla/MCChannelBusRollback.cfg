SPECIFICATION Spec
CONSTANTS
  p1 = p1
  p2 = p2
  orders = orders
  carts = carts
  s1 = s1
  s2 = s2
  Topics = {orders, carts}
  Subscriptions = {{orders}, {orders, carts}}
  PN = 2
  Hashes <- UpToNames
  Publishers = {p1, p2}
  Events <- ForwardEvents
  Batch <- ForwardBatch
  Emits <- EmitsForward
  Matching <- SomeMatch
  Rollbacks <- Kinds
  MayFail = TRUE
  MayCancel = FALSE
  MayClose = FALSE
CHECK_DEADLOCK FALSE
INVARIANTS
  TypeOK
  AllOrNothing
PROPERTY
  ImplementsDelivery
