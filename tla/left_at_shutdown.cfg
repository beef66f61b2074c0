SPECIFICATION Spec
CONSTANTS
  Keys = {k1, k2}
  MaxFaults = 1
  MaxCrashes = 0
  MaxStarts = 2
INVARIANTS
  LeftIsReplayed
