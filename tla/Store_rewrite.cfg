\* Does every link of a completed run survive a restart?
SPECIFICATION Spec
CONSTANTS
  r1 = r1
  r2 = r2
  w1 = w1
  w2 = w2
  IDs <- MCIDs
  Writers <- MCWriters
  Keep = 2
  Lag = 1
  MaxCrashes = 1
  Horizon = 5
INVARIANT LinkSurvives
CHECK_DEADLOCK FALSE
