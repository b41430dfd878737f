SPECIFICATION FairSpec
CONSTANTS
  p1 = p1
  p2 = p2
  orders = orders
  carts = carts
  s1 = s1
  s2 = s2
  Topics = {orders, carts}
  Subscriptions = {{orders}, {orders, carts}}
  PN = 2
  Hashes <- UpToNames
  Publishers = {p1, p2}
  Events <- FeedbackEvents
  Batch <- FeedbackBatch
  Emits <- EmitsFeedback
  Matching <- OneMatches
  Rollbacks <- Undoing
  MayFail = FALSE
  MayCancel = TRUE
  MayClose = TRUE
CHECK_DEADLOCK FALSE
INVARIANTS
  HandledInOrder
  DrainedOnClose
  ListenOutlastsListeners
PROPERTIES
  CloseEnds
  EventsAreHandled
