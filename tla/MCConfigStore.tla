--------------------------- MODULE MCConfigStore ---------------------------
(***************************************************************************)
(* An instance of ConfigStore for TLC: configurations at and beyond the    *)
(* limits of Validate and of the conversions.                              *)
(***************************************************************************)
EXTENDS ConfigStore, TLC

MCDefault ==
    [schemaVersion |-> 2, stateDirectory |-> <<0>>, logDirectory |-> <<0>>,
     minimumLogLevel |-> 2, ipcPipeName |-> <<PipePrefix>>, cacheEnabled |-> TRUE,
     backingStoreDataFile |-> <<0>>, cacheCapacityBytes |-> 2, cacheMaxEntryCount |-> 3,
     cacheShardCount |-> 2, evictionPolicy |-> "LeastRecentlyUsed",
     writePolicy |-> "WriteBackDeferred", flushPolicy |-> "Manual", flushIntervalSeconds |-> 1]

Periodic(n) == [MCDefault EXCEPT !.flushPolicy = "PeriodicBackground", !.flushIntervalSeconds = n]
Directory(text) == [MCDefault EXCEPT !.stateDirectory = text]

\* ASCII; bytes of UTF-8; no UTF-8; one unit of two bytes; the longest interval; none;
\* a shard too many.
MCConfigs ==
    {Directory(<<1>>), Directory(<<Lead, Trail>>), Directory(<<Lead>>), Directory(<<Byte + 1>>),
     Periodic(Word32 - 1), Periodic(0), [MCDefault EXCEPT !.cacheShardCount = 3]}

Without(doc, fields) == [f \in DOMAIN doc \ fields |-> doc[f]]
\* Its text is ASCII: AppConfig and the document agree.
Raw == MCDefault

\* As Save writes it; of Stage 1; with a field missing; with numbers that wrap to valid
\* and to invalid ones; below zero; with text that is not ASCII.
MCDocuments ==
    {Raw,
     [f \in Required |-> IF f = "schemaVersion" THEN 1 ELSE Raw[f]],
     Without(Raw, {"logDirectory"}),
     [Raw EXCEPT !.cacheShardCount = Word32 + 4, !.minimumLogLevel = Word32 + 5,
               !.flushIntervalSeconds = Word32 + 3],
     [Periodic(1) EXCEPT !.flushIntervalSeconds = Word32],
     [Raw EXCEPT !.cacheMaxEntryCount = -1],
     [Raw EXCEPT !.cacheCapacityBytes = -1],
     [Raw EXCEPT !.stateDirectory = <<Lead, Trail, 0>>]}

Symmetry == Permutations(Savers)
=============================================================================
