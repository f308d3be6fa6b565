\* Two connections, one of which may stop reading, on a short narration with
\* the least slack that loses nothing.
SPECIFICATION Spec
CONSTANTS
  c1 = c1
  c2 = c2
  Clients <- TwoClients
  Attentive <- OneClient
  StepKeys <- ShortKeys
  FlowSteps <- ShortSteps
  Slack = 5
  ReceiptID = "rcpt"
  Hashes = {"h1", "h2"}
  Zeros = "00"
  LinkTypes <- SomeTypes
  MaxLinks = 3
INVARIANTS
  HashesAreReal
  TypeOK
  StreamIntegrity
  ChannelDiscipline
  EndedStreamSawVerdict
  SnapshotMatchesHistory
  VerdictIsBacked
PROPERTIES
  RunFinishes
  StreamFinishes
  ImplementsContract
CHECK_DEADLOCK FALSE
