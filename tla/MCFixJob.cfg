SPECIFICATION FairSpec
CONSTANTS
  MaxProbes = 2
  MaxAttaches = 1
  PutOff = 1
  MaxAttempts = 2
  RetryAfter <- MCRetryAfter
  MaxConcurrency = 2
  MaxMisses = 1
  MaxFaults = 1
  MaxCrashes = 1
INVARIANTS
  OpenJobHasACarrier
  ReopenedOnlyIntoRotation
PROPERTIES
  KeepsProbing
  FoundInTheEnd
CHECK_DEADLOCK FALSE
