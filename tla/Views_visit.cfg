\* A visitor moves between the landing page, the status page by either address and two receipts, starts runs, switches the theme and reloads.
SPECIFICATION Spec
CONSTANTS
  Receipts = {"A", "B"}
  Plain = {"status"}
  Visits = 2
  Reloads = 1
  Runs = 2
  Themes <- TwoThemes
  Switches = 1
  Picks = 1
INVARIANTS
  PageFitsHashUnlessOvertaken
  MatrixIsOfItsReceipt
  SpineWearsItsTheme
PROPERTY LoadingEnds
CHECK_DEADLOCK FALSE
