SPECIFICATION FairSpec
CONSTANTS
  Keys = {k1}
  Values = {a}
  Oversized = {}
  NoValue = NoValue
  NumShards = 1
  ShardOf <- OneShard
  MaxEntries = 2
  CapacityBytes = 0
  SizeOf <- UnitSize
  WriteThrough = TRUE
  MaxFlushAttempts = 2
  Threads = {"writer", "remover", "timer", "stopper"}
  Background = {"timer"}
  MayCall <- MCMayCall
  Budget <- OneCall
  MaxFaults = 1
  Residue = {"nothing"}
  CrashResidue = {"nothing"}
  MaxCrashes = 0
INVARIANTS
  TypeOK
  InFlightExact
  FlushOwned
  UnflushedIsJournaled
PROPERTIES
  CallsReturn
  ShutdownCompletes
