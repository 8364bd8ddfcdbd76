SPECIFICATION FairSourceSpec
CONSTANTS
  near = near
  far = far
  abroad = abroad
  Unlisted = Unlisted
  Item = {near, far, abroad}
  Via <- MCVia
  Own = {near, abroad}
  Pulls = {near}
  ProbeEvery = 1
  MaxClock = 2
  MaxFaults = 1
INVARIANTS
  OwnItemsWaitForOthers
PROPERTIES
  SelfActivityIsQuiet
  ExplicitItemsAreNotLost
  OthersAreHeard
CHECK_DEADLOCK FALSE
