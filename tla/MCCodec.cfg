SPECIFICATION Spec
CONSTANTS
  NameSizes = {1, 2, 6, 12}
  PayloadSizes = {0, 1, 5, 8, 10, 20}
CHECK_DEADLOCK FALSE
INVARIANTS
  LongOnesRoundTrip
  OnlyItsOwnKind
