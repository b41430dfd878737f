SPECIFICATION Spec
CONSTANTS
  c1 = c1
  c2 = c2
  c3 = c3
  Setup = Setup
  ID = ID
  MaxChanges = 2
  Clients = {c1, c2, c3}
  Deployments <- MCBlindCreation
CHECK_DEADLOCK FALSE
PROPERTY
  StoredOnItsVersion
