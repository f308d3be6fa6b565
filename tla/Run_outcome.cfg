\* Does a stream the server ends always carry the outcome?
SPECIFICATION Spec
CONSTANTS
  c1 = c1
  c2 = c2
  Clients <- OneClient
  Attentive <- OneClient
  StepKeys <- ShortKeys
  FlowSteps <- ShortSteps
  Slack = 16
  ReceiptID = "rcpt"
  Hashes = {"h1", "h2"}
  Zeros = "00"
  LinkTypes <- SomeTypes
  MaxLinks = 3
INVARIANT StreamTellsOutcome
CHECK_DEADLOCK FALSE
