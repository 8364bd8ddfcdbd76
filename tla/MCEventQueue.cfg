SPECIFICATION FairSpec
CONSTANTS
  Event <- MCEvent
  NoKey = "none"
  Key <- MCKey
  Lane <- MCLane
  Depth <- MCDepth
  Hold <- MCHold
  MaxDepth = 2
  RetryAfter <- MCRetryAfter
  MaxConcurrency = 1
  Roots <- MCRoots
  Children <- MCChildren
  Launches <- MCLaunches
  Results <- MCResults
  Poison <- MCPoison
  MaxAttempts = 2
  MaxCrashes = 2
INVARIANTS
  TypeOK
  EffectivelyOnce
  CommitIsAtomic
  AttemptsSurviveRestarts
  PoolIsFullOrBacklogEmpty
PROPERTIES
  NothingWedges
  KeepsPromise
CHECK_DEADLOCK FALSE
