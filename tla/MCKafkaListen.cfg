SPECIFICATION FairSpec
CONSTANTS
  SetupFuncs = 2
  CleanupFuncs = 1
  ExitFuncs = 1
  MaxSessions = 3
CHECK_DEADLOCK FALSE
INVARIANT ListenTellsTheTruth
PROPERTY ListenReturns
