\* Two runs, whose receipts may be the same, two crashes.
SPECIFICATION Spec
CONSTANTS
  r1 = r1
  r2 = r2
  w1 = w1
  w2 = w2
  IDs <- MCIDs
  Writers <- MCWriters
  Keep = 2
  Lag = 1
  MaxCrashes = 2
  Horizon = 5
INVARIANTS
  SoleLinkSurvives
  RemovesNoneYoungerThanAPut
PROPERTIES
  NoStaleLinkInTheEnd
CHECK_DEADLOCK FALSE
