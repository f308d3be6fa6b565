\* Two calls of any kind, good and refused, against the clock.
SPECIFICATION Spec
CONSTANTS
  q1 = q1
  q2 = q2
  alice = alice
  Calls <- TwoCalls
  Peers <- OnePeer
  Requests <- Mixed
  Burst = 1
  KermitEnabled = FALSE
  Timeout = 2
  Poll = 1
  Stall = 1
  Lag = 1
  Keep = 4
  Horizon = 6
SYMMETRY CallSymmetry
INVARIANTS
  RunsAreFound
  RunsAreAllowed
  CountersAgree
  AgentAnsweredInTime
  TimeoutIsHonest
  ProofIsThere
CHECK_DEADLOCK FALSE
