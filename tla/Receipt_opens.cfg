\* A receipt page whose disclosure is opened before the verdict is there.
SPECIFICATION ReceiptSpec
CONSTANTS
  Total = 2
  Replays = 0
  Toggles = 2
INVARIANT FirstOpeningMounts
CHECK_DEADLOCK FALSE
