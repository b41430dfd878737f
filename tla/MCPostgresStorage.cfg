SPECIFICATION FairSpec
CONSTANTS
  c1 = c1
  c2 = c2
  c3 = c3
  ID = ID
  Clients = {c1, c2, c3}
  MaxChanges = 2
  Faults = {"statement", "connection"}
INVARIANTS
  RowsAgree
  JournalReplays
PROPERTIES
  PersistIsAtomic
  EveryoneReturns
