SPECIFICATION Spec
CONSTANTS
  r1 = r1
  r2 = r2
  Nobody = Nobody
  Rec <- MCRec
  Mine = r1
  LastOption = 1
  MaxKeys = 3
  MaxChanges = 2
  Cases <- MCCases
  MaxTroubles = 1
INVARIANTS
  ChoiceStaysWithItsRow
  ReportedFixIsPublished
  SubmittedAsConfigured
  OnlyWhatWasMeant
PROPERTIES
  HighlightStays
CHECK_DEADLOCK FALSE
