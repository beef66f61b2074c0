--------------------------- MODULE MCCacheEngine ---------------------------
(***************************************************************************)
(* Instances of CacheEngine for TLC.  A thread's name says which calls it  *)
(* makes; Budget says how many.                                            *)
(***************************************************************************)
EXTENDS CacheEngine

Roles == [writer |-> {"Put"}, writer2 |-> {"Put"}, reader |-> {"Get"},
          soft |-> {"Invalidate"}, remover |-> {"Invalidate", "ForceInvalidate"},
          flusher |-> {"Flush"}, flushall |-> {"FlushAll"}, flushall2 |-> {"FlushAll"},
          timer |-> {"FlushAll"}, stopper |-> {"Shutdown"},
          client |-> {"Put", "Invalidate", "Flush"}]
MCMayCall == [t \in Threads |-> Roles[t]]

OneCall == [t \in Threads |-> 1]
TwoCalls == [t \in Threads |-> 2]
ThreeCalls == [t \in Threads |-> 3]
TwoPuts == [t \in Threads |-> IF t = "writer" THEN 2 ELSE 1]

OneShard == [k \in Keys |-> 1]
\* Keys alternate between two shards.
TwoShards == [k \in Keys |-> IF k = AnyKey THEN 1 ELSE 2]

UnitSize == [v \in Values \cup {NoValue} |-> 1]
\* One of the values alone is larger than a shard of capacity 1.
MixedSize == [v \in Values \cup {NoValue} |-> IF v = (CHOOSE w \in Values : TRUE) THEN 1 ELSE 2]
=============================================================================
