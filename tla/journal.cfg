SPECIFICATION Spec
CONSTANTS
  MaxAppends = 4
  MaxFaults = 2
  MaxCrashes = 2
  MaxExits = 1
INVARIANTS
  AckedSurvivesUntorn
  AckedPrefixSurvives
  SequenceOrdered
  TruncatedStaysGone
