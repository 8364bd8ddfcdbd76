SPECIFICATION FairSpec
CONSTANTS
  r1 = r1
  full = full
  light = light
  comment = comment
  close = close
  None = None
  Rec = {r1}
  Option = {full, light}
  Action = {comment, close}
  Offers <- MCOffers
  ActionsOf <- MCActionsOf
  Required = {close}
  Automated = {full}
  RetryAfter <- MCRetryAfter
  MaxAttempts = 2
  MaxConcurrency = 2
  MaxFaults = 2
  MaxCrashes = 2
INVARIANTS
  OnlyApprovedActionsExecute
  SettledMeansQuiet
  OutcomeHasAGround
PROPERTIES
  KeepsTheGate
  ApprovedWorkSettles
CHECK_DEADLOCK FALSE
