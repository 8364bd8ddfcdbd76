SPECIFICATION FairSpec
CONSTANTS
  c1 = c1
  c2 = c2
  None = None
  LastVersion = 2
  Surfacing = {1, 2}
  Command = {c1}
  Moves = {"rerun", "approve", "handled", "close"}
  SnoozeFor = 1
  RetryAfter <- MCRetryAfter
  MaxAttempts = 2
  MaxConcurrency = 1
  MaxTroubles = 0
PROPERTIES
  NewIsTriaged
CHECK_DEADLOCK FALSE
