SPECIFICATION FairSpec
CONSTANTS
  c1 = c1
  c2 = c2
  c3 = c3
  Setup = Setup
  ID = ID
  MaxChanges = 2
  Clients = {c1, c2, c3}
  Deployments <- MCDeployments
CHECK_DEADLOCK FALSE
INVARIANT
  AcknowledgedIsKept
PROPERTIES
  PersistIsAtomic
  StoredOnItsVersion
  EveryoneStores
