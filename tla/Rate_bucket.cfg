\* Two clients and two request goroutines, one of which may be a tick late: a
\* burst of two requests, a token every two ticks, buckets pruned when idle for
\* longer than four.
SPECIFICATION Spec
CONSTANTS
  alice = alice
  bob = bob
  g1 = g1
  g2 = g2
  Keys <- MCKeys
  Callers <- MCCallers
  Cap = 4
  Cost = 2
  Ttl = 4
  Second = 2
  Stall = 1
  Horizon = 9
SYMMETRY Symmetric
INVARIANTS
  TypeOK
  SustainedRate
PROPERTIES
  RetryHonoured
  Isolation
CHECK_DEADLOCK FALSE
