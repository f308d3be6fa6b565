\* A lab with four clicks, a receipt page with a matrix of up to four rows, and three hand-ins.
SPECIFICATION Spec
CONSTANTS
  Forgeries = {"approver", "planhash", "chainhash"}
  Clicks = 4
  Total = 4
  Replays = 2
  Toggles = 3
  Proofs = {"mine", "sample"}
  Sample = "sample"
  HandIns = 3
INVARIANTS
  MatrixMatchesScore
  LineByLineIfPatient
  OpenShowsCinema
  SceneIsHonest
  VerdictIsOfLastProof
PROPERTIES
  EachIsCaughtAtItsCheck
  ButtonsComeBack
  AllRevealedInTheEnd
  VerifyingEnds
CHECK_DEADLOCK FALSE
