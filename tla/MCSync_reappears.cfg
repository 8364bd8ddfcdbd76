SPECIFICATION FairSpec
CONSTANTS
  a = a
  b = b
  Absent = Absent
  Slots = 1
  Content <- MCContentBack
  Base = 1
  Cap = 2
  Hints <- MCHints
  MaxFailures = 0
  MaxCrashes = 0
  MaxResets = 0
PROPERTIES
  Reappears
CHECK_DEADLOCK FALSE
