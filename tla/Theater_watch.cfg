\* A visitor watches a run of two steps; the connection may break once and is
\* opened again.
SPECIFICATION TheaterSpec
CONSTANTS
  c1 = c1
  c2 = c2
  NoConn = NoConn
  Clients <- TwoConnections
  Attentive <- TwoConnections
  StepKeys <- ShortKeys
  FlowSteps <- ShortSteps
  Slack = 6
  MaxErrors = 2
  ReceiptID = "rcpt"
INVARIANTS
  SpineInOrder
  SealIsEarned
PROPERTIES
  SpineOnlyForward
CHECK_DEADLOCK FALSE
