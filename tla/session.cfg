SPECIFICATION FairSpec
CONSTANTS
  Keys = {k1, k2}
  MaxFaults = 2
  MaxCrashes = 2
  MaxStarts = 4
INVARIANTS
  
  PowerCutIsSeen
  ClosedIsFinal
PROPERTIES
  GenerationGrows
  StopCompletes
