SPECIFICATION Spec
CONSTANTS
  Savers = {s1, s2}
  Configs <- MCConfigs
  Documents <- MCDocuments
  Default <- MCDefault
  Word32 = 16
  Word64 = 32
  MaxCapacity = 8
  MaxShards = 4
  MaxSaves = 2
  MaxFaults = 1
  MaxRestarts = 1
SYMMETRY Symmetry
INVARIANTS
  TargetWhole
  RunningRoundTrips
PROPERTIES
  StartFindsLastGood
