SPECIFICATION Spec
CONSTANTS
  Keys = {k1}
  Values = {a}
  Oversized = {}
  NoValue = NoValue
  NumShards = 1
  ShardOf <- OneShard
  MaxEntries = 2
  CapacityBytes = 100
  SizeOf <- UnitSize
  WriteThrough = FALSE
  MaxFlushAttempts = 2
  Threads = {"client"}
  Background = {}
  MayCall <- MCMayCall
  Budget <- ThreeCalls
  MaxFaults = 0
  Residue = {"nothing"}
  CrashResidue = {"nothing"}
  MaxCrashes = 0
INVARIANTS
  Recoverable
