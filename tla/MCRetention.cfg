SPECIFICATION FairRetentionSpec
CONSTANTS
  Rec = {1, 2}
  Ttl = {0, 1}
  Keep = Keep
  Default = 1
  MaxChanges = 1
  Horizon = 2
INVARIANTS
  NeededIsKept
  LogAndTablesAgree
PROPERTY
  PromisesAreKept
CHECK_DEADLOCK FALSE
