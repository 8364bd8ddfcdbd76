SPECIFICATION FairSpec
CONSTANTS
  c1 = c1
  c2 = c2
  None = None
  LastVersion = 2
  Surfacing = {1, 2}
  Command = {c1}
  Moves = {"snoozed", "rerun", "close"}
  SnoozeFor = 1
  RetryAfter <- MCRetryAfter
  MaxAttempts = 2
  MaxConcurrency = 2
  MaxTroubles = 2
INVARIANTS
  OneLiveRec
  RecommendedHasCurrentRec
PROPERTIES
  SnoozeEnds
CHECK_DEADLOCK FALSE
