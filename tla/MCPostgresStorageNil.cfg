SPECIFICATION Spec
CONSTANTS
  c1 = c1
  c2 = c2
  c3 = c3
  ID = ID
  Clients = {c1, c2, c3}
  MaxChanges = 2
  Faults = {}
SYMMETRY Symmetric
INVARIANT
  NilMeansStored
