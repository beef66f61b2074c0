SPECIFICATION Spec
CONSTANTS
  Keys = {k1, k2}
  Values = {small, other, oversize, huge}
  small = small
  other = other
  oversize = oversize
  huge = huge
  Absent = Absent
  Garbled = Garbled
  Size <- MCSize
  MaxReasonableLength = 1
  DwordLimit = 4
  MaxCalls = 3
  MaxFaults = 1
  MaxRestarts = 3
SYMMETRY Symmetry
PROPERTIES
  KeepsPromise
  DamageForgetsTheNewest
