\* Whatever breaks, does the page end at an outcome?
SPECIFICATION TheaterSpec
CONSTANTS
  c1 = c1
  c2 = c2
  NoConn = NoConn
  Clients <- TwoConnections
  Attentive <- TwoConnections
  StepKeys <- OneKey
  FlowSteps <- OneStep
  Slack = 6
  MaxErrors = 1
  ReceiptID = "rcpt"
PROPERTY TheaterSettles
CHECK_DEADLOCK FALSE
