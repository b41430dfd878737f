SPECIFICATION FairSpec
CONSTANTS
  c1 = c1
  c2 = c2
  e1 = e1
  e2 = e2
  NoOne = NoOne
  Consumers = {c1, c2}
  Events = {e1, e2}
  Batch <- MCBatch
  Deployments <- SomeDeployments
  HandlerCount = 2
  MaxLog = 3
  MaxRestarts = 1
CHECK_DEADLOCK FALSE
INVARIANTS
  TypeOK
  OnlyFailuresArePassedOver
  HandledOnce
  VisitedIsHandled
PROPERTIES
  ImplementsDelivery
  EventsArrive
