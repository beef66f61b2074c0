SPECIFICATION Spec
CONSTANTS
  Keys = {k1, k2}
  Values = {a}
  Oversized = {}
  NoValue = NoValue
  NumShards = 1
  ShardOf <- OneShard
  MaxEntries = 1
  CapacityBytes = 100
  SizeOf <- UnitSize
  WriteThrough = FALSE
  MaxFlushAttempts = 2
  Threads = {"writer", "reader", "remover", "flushall", "flusher"}
  Background = {}
  MayCall <- MCMayCall
  Budget <- OneCall
  MaxFaults = 0
  Residue = {"nothing"}
  CrashResidue = {"nothing"}
  MaxCrashes = 0
INVARIANTS
  FillFindsKeyAbsent
PROPERTIES
  DirtyDataKept
