SPECIFICATION FairSpec
CONSTANTS
  a = a
  b = b
  Absent = Absent
  Slots = 2
  Content <- MCContent
  Base = 1
  Cap = 2
  Hints <- MCHints
  MaxFailures = 1
  MaxCrashes = 1
  MaxResets = 1
INVARIANTS
  BaselineIsReported
PROPERTIES
  MovesForward
  LastingStateIsReported
  CatchesUp
CHECK_DEADLOCK FALSE
