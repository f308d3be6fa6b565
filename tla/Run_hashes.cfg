\* Is a missing hash narrated as none?
SPECIFICATION Spec
CONSTANTS
  c1 = c1
  c2 = c2
  Clients <- OneClient
  Attentive <- OneClient
  StepKeys <- ShortKeys
  FlowSteps <- ShortSteps
  Slack = 16
  ReceiptID = "rcpt"
  Hashes = {"h1", "h2"}
  Zeros = "00"
  LinkTypes <- SomeTypes
  MaxLinks = 1
INVARIANT NeverAFakeHash
CHECK_DEADLOCK FALSE
