SPECIFICATION Spec
CONSTANTS
  Keys = {k1}
  Values = {a, b, big}
  Oversized = {big}
  NoValue = NoValue
  NumShards = 2
  ShardOf <- TwoShards
  MaxEntries = 2
  CapacityBytes = 100
  SizeOf <- UnitSize
  WriteThrough = FALSE
  MaxFlushAttempts = 2
  Threads = {"writer", "writer2", "reader", "flushall"}
  Background = {}
  MayCall <- MCMayCall
  Budget <- OneCall
  MaxFaults = 1
  Residue = {"nothing", "torn", "whole"}
  CrashResidue = {"nothing", "torn", "whole"}
  MaxCrashes = 1
INVARIANTS
  CleanIsStored
  PutsRecoverable
  NewestWriteWins
  VersionsUnique
  DirtyCountExact
  UnflushedIsJournaled
