---------------------------- MODULE CacheEngine ----------------------------
(***************************************************************************)
(* The cache engine of src/CoreEngine/src/CacheEngine.cpp: a sharded LRU   *)
(* write-back cache over a backing store, with a write-ahead journal.      *)
(*                                                                         *)
(* Every thread runs one engine call at a time.  An action is one stretch  *)
(* of a call between two points where the code takes or drops a lock or    *)
(* does I/O; the code never holds a shard lock across I/O, so these are    *)
(* exactly the points where another thread can get in.                     *)
(*                                                                         *)
(* Data is abstracted: a value is a member of Values, its size in bytes is *)
(* SizeOf, a journal frame is the record it carries (or "Torn"), and the   *)
(* backing store is a function.                                            *)
(*                                                                         *)
(* A definition named Op_Variant is Op with a mistake in it; nothing uses  *)
(* it but the check that the properties notice the mistake.                *)
(***************************************************************************)
EXTENDS Integers, Sequences, FiniteSets, FiniteSetsExt

CONSTANTS
    Keys, Values,        \* keys and payloads
    Oversized,           \* the values of more than kMaxReasonableValueBytes: a subset of Values
    NoValue,             \* "no such key" in the backing store
    NumShards, ShardOf,  \* shards are 1..NumShards; ShardOf \in [Keys -> 1..NumShards]
    MaxEntries,          \* perShardMaxEntries_
    CapacityBytes,       \* perShardCapacityBytes_
    SizeOf,              \* Entry::SizeBytes() of an entry holding a value
    WriteThrough,        \* writePolicy == WriteThrough
    MaxFlushAttempts,    \* kMaxFlushAttemptsPerCall
    Threads,             \* threads that call the engine
    Background,          \* the periodic flush thread, if configured: a subset of Threads
    MayCall,             \* MayCall[t]: the calls thread t makes
    Budget,              \* Budget[t]: how many calls thread t makes (bound)
    MaxFaults,           \* how many I/O operations fail (bound)
    Residue,             \* what a failed Append may leave on disk
    CrashResidue,        \* what an Append cut short by a crash may leave on disk
    MaxCrashes           \* how often the process dies (bound)

Shards == 1..NumShards

ASSUME KeysAssumption == IsFiniteSet(Keys) /\ Keys # {}
ASSUME ValuesAssumption == NoValue \notin Values /\ Oversized \subseteq Values
ASSUME ShardAssumption ==
    /\ NumShards \in Nat \ {0}
    /\ ShardOf \in [Keys -> Shards]
ASSUME CapacityAssumption ==
    /\ MaxEntries \in Nat \ {0}
    /\ CapacityBytes \in Nat
    /\ SizeOf \in [Values \cup {NoValue} -> Nat]
ASSUME ThreadAssumption ==
    /\ IsFiniteSet(Threads) /\ Background \subseteq Threads
    /\ MayCall \in [Threads -> SUBSET {"Put", "Get", "Invalidate", "ForceInvalidate",
                                       "Flush", "FlushAll", "Shutdown"}]
    /\ Budget \in [Threads -> Nat]
ASSUME BoundAssumption ==
    /\ WriteThrough \in BOOLEAN
    /\ MaxFlushAttempts \in Nat
    /\ MaxFaults \in Nat
    /\ MaxCrashes \in Nat
    /\ Residue \subseteq {"nothing", "torn", "whole"}
    /\ CrashResidue \subseteq {"nothing", "torn", "whole"}

VARIABLES
    lifecycle,       \* EngineLifecycle
    versionCounter,  \* globalVersionCounter_
    bgStop,          \* backgroundFlushStopRequested_
    replay,          \* progress of ReplayFromJournal
    entry,           \* entry[k]: the Entry the index maps k to, or NoEntry
    lru,             \* lru[k]: position of k in its shard's LRU list (1 = front), 0 if absent
    dirtyCount,      \* Shard::dirtyCount
    fence,           \* Shard::mutationFence
    journal,         \* the frames of the write-ahead journal, oldest first
    recordCount,     \* IWriteAheadJournal::RecordCount(): this session's appends
    inDoubt,         \* history: keys whose last journaled Put failed and is in the journal
    backing,         \* the backing store
    inFlight,        \* inFlightWriteCount_
    paused,          \* compactionPaused_
    pc, loc,         \* where each thread is, and the locals of its call
    budget, faults, crashes  \* what is left of Budget; faults and crashes so far

lifeVars == <<lifecycle, versionCounter, bgStop, replay, crashes>>
shardVars == <<entry, lru, dirtyCount, fence>>
journalVars == <<journal, recordCount, inDoubt, faults>>
admissionVars == <<inFlight, paused>>
threadVars == <<pc, loc>>
vars == <<lifeVars, shardVars, journalVars, backing, admissionVars, threadVars, budget>>

-----------------------------------------------------------------------------
(* Entries, records, locals.                                               *)

Stored == Values \cup {NoValue}

Entries == [val : Stored, ver : Nat, state : {"Absent", "Clean", "Dirty", "FlushInProgress"}]
NoEntry == [val |-> NoValue, ver |-> 0, state |-> "Absent"]

RecordTypes == {"Upsert", "FlushIntent", "FlushComplete", "Invalidate", "Torn"}
Records == [type : RecordTypes, key : Keys, val : Stored, ver : Nat]

Lifecycles == {"NotReady", "Ready", "Stopping", "Stopped", "RecoveryFailed"}

FlushPcs == {"flush_intent", "flush_put", "flush_complete", "flush_commit", "flush_revert"}
PutPcs == {"put_append", "put_commit", "relieve_peek", "relieve_after"}
InvalidatePcs == {"inv_peek", "inv_append", "inv_remove", "inv_commit"}
Pcs == FlushPcs \cup PutPcs \cup InvalidatePcs \cup
       {"idle", "put_admit", "inv_admit", "release", "get_read", "get_fill", "flush_peek",
        "collect", "all_next", "compact_check", "compact_pause", "compact_drain",
        "compact_scan", "compact_truncate", "compact_resume", "shut_drain", "shut_join",
        "shut_stopped", "shut_scan", "shut_truncate"}

\* key, val, ver, fence, force: the call's arguments and snapshots; ok: result of
\* the last FlushKey.  attempt, before: RelieveCapacityPressureIfNeeded.
\* fkey, fexp, fval, fver, fret: FlushKey (fexp = 0: checkVersion is false) and where
\* it returns to.  shard, todo, failed, sum, aret: the loops of FlushAll, compaction
\* and Shutdown, and where FlushAll returns to.
AnyKey == CHOOSE k \in Keys : TRUE
NoLocals == [key |-> AnyKey, val |-> NoValue, ver |-> 0, fence |-> 0, force |-> FALSE,
             ok |-> TRUE, attempt |-> 0, before |-> 0, fkey |-> AnyKey, fexp |-> 0,
             fval |-> NoValue, fver |-> 0, fret |-> "idle", shard |-> 1, todo |-> {},
             failed |-> FALSE, sum |-> 0, aret |-> "idle"]
Locals == [key : Keys, val : Stored, ver : Nat, fence : Nat, force : BOOLEAN,
           ok : BOOLEAN, attempt : Nat, before : Int, fkey : Keys, fexp : Nat,
           fval : Stored, fver : Nat, fret : {"idle", "release", "relieve_after", "all_next"},
           shard : Shards, todo : SUBSET Keys,
           failed : BOOLEAN, sum : Int, aret : {"idle", "shut_stopped"}]

NotReplayed == [pos |-> 0, pending |-> [k \in Keys |-> NoEntry], done |-> FALSE]

Init ==
    /\ lifecycle = "NotReady" /\ versionCounter = 0 /\ bgStop = FALSE
    /\ replay = NotReplayed /\ crashes = 0
    /\ entry = [k \in Keys |-> NoEntry]
    /\ lru = [k \in Keys |-> 0]
    /\ dirtyCount = [s \in Shards |-> 0]
    /\ fence = [s \in Shards |-> 0]
    /\ journal = <<>> /\ recordCount = 0 /\ inDoubt = {} /\ faults = 0
    /\ backing \in [Keys -> Stored]  \* the store may hold data from earlier sessions
    /\ inFlight = 0 /\ paused = FALSE
    /\ pc = [t \in Threads |-> "idle"]
    /\ loc = [t \in Threads |-> NoLocals]
    /\ budget = Budget

\* Thread t moves on to label l with locals r; a call that returns forgets them.
Step(t, l, r) ==
    /\ pc' = [pc EXCEPT ![t] = l]
    /\ loc' = [loc EXCEPT ![t] = IF l = "idle" THEN NoLocals ELSE r]

\* Thread t starts a call of op.
Call(t, op) ==
    /\ pc[t] = "idle" /\ op \in MayCall[t]
    /\ budget[t] > 0
    /\ budget' = [budget EXCEPT ![t] = @ - 1]

CheckReadyForRead == lifecycle \in {"Ready", "Stopping"}
CheckReadyForWrite == lifecycle = "Ready"

-----------------------------------------------------------------------------
(* I/O: the journal as the engine sees it, always under journalMutex_.     *)

Record(type, k, v, n) == [type |-> type, key |-> k, val |-> v, ver |-> n]

AppendOk(r) ==
    /\ journal' = Append(journal, r)
    /\ recordCount' = recordCount + 1
    /\ inDoubt' = IF r.type = "Upsert" THEN inDoubt \ {r.key} ELSE inDoubt
    /\ UNCHANGED faults

\* An append that does not return success leaves nothing, half a frame or a whole one.
LeavesBehind(r, residue) ==
    \/ "nothing" \in residue /\ journal' = journal
    \/ "torn" \in residue /\ journal' = Append(journal, Record("Torn", r.key, r.val, r.ver))
    \/ "whole" \in residue /\ journal' = Append(journal, r)

AppendFails(r) ==
    /\ faults < MaxFaults /\ faults' = faults + 1
    /\ LeavesBehind(r, Residue)
    /\ inDoubt' = IF r.type = "Upsert" /\ journal' = Append(journal, r)
                  THEN inDoubt \cup {r.key} ELSE inDoubt
    /\ UNCHANGED recordCount

TruncateOk == journal' = <<>> /\ recordCount' = 0 /\ inDoubt' = {} /\ UNCHANGED faults

\* SetLength or the flush after it failed: the counters are not reset.
TruncateFails ==
    /\ faults < MaxFaults /\ faults' = faults + 1
    /\ \/ UNCHANGED <<journal, inDoubt>>
       \/ journal' = <<>> /\ inDoubt' = {}
    /\ UNCHANGED recordCount

\* A backing-store call that fails and changes nothing.
BackingFails ==
    /\ faults < MaxFaults /\ faults' = faults + 1
    /\ UNCHANGED <<journal, recordCount, inDoubt, backing>>

BackingSucceeds(f) == backing' = f /\ UNCHANGED journalVars

-----------------------------------------------------------------------------
(* A shard, under its mutex.                                               *)

Cached(k) == entry[k].state # "Absent"
NonClean(e) == e.state \in {"Dirty", "FlushInProgress"}
InShard(s) == {k \in Keys : ShardOf[k] = s}
Indexed(ent, s) == {k \in InShard(s) : ent[k].state # "Absent"}

OverBudget(ent, ks) ==
    \/ MapThenSumSet(LAMBDA k : SizeOf[ent[k].val], ks) > CapacityBytes
    \/ Cardinality(ks) > MaxEntries

\* EvictCleanEntriesLocked: the n least recently used Clean entries of shard s
\* leave, n being the least number that ends the loop.
OldestClean_AnyState(ent, pos, s, n) ==
    {k \in Indexed(ent, s) : Cardinality({j \in Indexed(ent, s) : pos[j] >= pos[k]}) <= n}
OldestClean(ent, pos, s, n) ==
    LET clean == {k \in InShard(s) : ent[k].state = "Clean"}
    IN  {k \in clean : Cardinality({j \in clean : pos[j] >= pos[k]}) <= n}

Victims(ent, pos, s, dirty) ==
    LET index == Indexed(ent, s)
        Ends(n) == LET rest == index \ OldestClean(ent, pos, s, n)
                   IN  \/ ~OverBudget(ent, rest)
                       \/ Cardinality(rest) <= dirty
    IN  OldestClean(ent, pos, s, Min({n \in 0..Cardinality(index) :
                                          Ends(n) \/ n = Cardinality(index)}))

\* The list positions of the entries in ent, in the order given by pos.
Positions(ent, pos) ==
    [k \in Keys |-> IF ent[k].state = "Absent" THEN 0
                    ELSE Cardinality({j \in Indexed(ent, ShardOf[k]) : pos[j] <= pos[k]})]

\* entry' and lru' when ent, in order pos, has lost the entries of out.
Settle(ent, pos, out) ==
    LET left == [k \in Keys |-> IF k \in out THEN NoEntry ELSE ent[k]]
    IN  entry' = left /\ lru' = Positions(left, pos)

\* Optimistic versioning: k already has a version at least as new as n (0 is the
\* read-fill version, and one read-fill may replace another).
Superseded_Never(k, n) == FALSE
Superseded(k, n) ==
    Cached(k) /\ n <= entry[k].ver /\ ~(n = 0 /\ entry[k].ver = 0)

\* dirtyCount of shard s once an entry in the given state has taken old's place.
DirtyAfter_KeepsOld(s, old, state) == dirtyCount[s] + (IF state = "Clean" THEN 0 ELSE 1)
DirtyAfter(s, old, state) ==
    dirtyCount[s] - (IF NonClean(old) THEN 1 ELSE 0) + (IF state = "Clean" THEN 0 ELSE 1)

BumpFence_Forgotten(s) == fence' = fence
BumpFence(s) == fence' = [fence EXCEPT ![s] = @ + 1]

InsertOrUpdateLocked(k, v, n, state) ==
    LET s == ShardOf[k]
        ent == [entry EXCEPT ![k] = [val |-> v, ver |-> n, state |-> state]]
        pos == [lru EXCEPT ![k] = 0]
        dirty == DirtyAfter(s, entry[k], state)
    IN  IF Superseded(k, n)
        THEN UNCHANGED shardVars
        ELSE /\ Settle(ent, pos, Victims(ent, pos, s, dirty))
             /\ dirtyCount' = [dirtyCount EXCEPT ![s] = dirty]
             /\ BumpFence(s)

EvictCleanEntriesLocked(s) ==
    /\ Settle(entry, lru, Victims(entry, lru, s, dirtyCount[s]))
    /\ UNCHANGED <<dirtyCount, fence>>

\* lru.splice(lru.begin(), ...): k becomes the most recently used.
Touch(k) ==
    /\ Settle(entry, [lru EXCEPT ![k] = 0], {})
    /\ UNCHANGED <<dirtyCount, fence>>

SetState(k, state) == entry' = [entry EXCEPT ![k].state = state]

-----------------------------------------------------------------------------
(* Recovery.  Replay hands over the frames up to the first torn one.       *)

ReplayAtEnd ==
    replay.pos + 1 \in DOMAIN journal => journal[replay.pos + 1].type = "Torn"

\* What one record does to the map of pending entries.
Pended_IntentErases(pending, r) ==
    IF r.type = "Upsert"
    THEN [pending EXCEPT ![r.key] = [val |-> r.val, ver |-> r.ver, state |-> "Dirty"]]
    ELSE [pending EXCEPT ![r.key] = NoEntry]
Pended(pending, r) ==
    LET matches == pending[r.key].state # "Absent" /\ pending[r.key].ver = r.ver
    IN  CASE r.type = "Upsert" ->
                [pending EXCEPT ![r.key] = [val |-> r.val, ver |-> r.ver, state |-> "Dirty"]]
          [] r.type = "FlushIntent" /\ matches ->
                [pending EXCEPT ![r.key].state = "FlushInProgress"]
          [] r.type = "FlushComplete" /\ matches -> [pending EXCEPT ![r.key] = NoEntry]
          [] r.type = "Invalidate" -> [pending EXCEPT ![r.key] = NoEntry]
          [] OTHER -> pending

Replaying ==
    /\ lifecycle = "NotReady" /\ ~replay.done
    /\ UNCHANGED <<versionCounter, bgStop, crashes, admissionVars, threadVars, budget>>

\* JournalRecordCodec::Decode refuses a record whose value is too long.
Undecodable(r) == r.type = "Upsert" /\ r.val \in Oversized

\* Replay of an Invalidate removes the key from the backing store again.
ReplayRecord ==
    /\ Replaying /\ ~ReplayAtEnd /\ ~Undecodable(journal[replay.pos + 1])
    /\ LET r == journal[replay.pos + 1]
       IN  /\ replay' = [replay EXCEPT !.pos = @ + 1, !.pending = Pended(@, r)]
           /\ backing' = IF r.type = "Invalidate" THEN [backing EXCEPT ![r.key] = NoValue]
                                                  ELSE backing
    /\ UNCHANGED <<lifecycle, shardVars, journalVars>>

\* A record cannot be decoded, or the removal of an Invalidate fails: the engine is
\* unusable for the rest of its life.
ReplayFails ==
    /\ Replaying /\ ~ReplayAtEnd
    /\ \/ Undecodable(journal[replay.pos + 1]) /\ UNCHANGED <<journalVars, backing>>
       \/ journal[replay.pos + 1].type = "Invalidate" /\ BackingFails
    /\ lifecycle' = "RecoveryFailed"
    /\ UNCHANGED <<replay, shardVars>>

\* Whatever is still pending becomes a Dirty entry, in any LRU order.
ReplayEnd ==
    /\ lifecycle = "NotReady" /\ ~replay.done /\ ReplayAtEnd
    /\ LET restored == {k \in Keys : replay.pending[k].state # "Absent"}
           ent == [k \in Keys |-> IF k \in restored
                                  THEN [replay.pending[k] EXCEPT !.state = "Dirty"]
                                  ELSE NoEntry]
       IN  /\ \E order \in [Keys -> 1..Cardinality(Keys)] :
                 /\ \A j, k \in Keys : j # k => order[j] # order[k]
                 /\ Settle(ent, order, {})
           /\ dirtyCount' = [s \in Shards |-> Cardinality(Indexed(ent, s))]
           /\ fence' = [s \in Shards |-> fence[s] + Cardinality(Indexed(ent, s))]
           /\ \E high \in {versionCounter} \cup {ent[k].ver : k \in Keys} :
                 /\ \A k \in Keys : ent[k].ver <= high
                 /\ versionCounter <= high
                 /\ versionCounter' = high
    /\ replay' = [replay EXCEPT !.done = TRUE]
    /\ UNCHANGED <<lifecycle, bgStop, crashes, journalVars, backing, admissionVars,
                   threadVars, budget>>

MarkRecoveryComplete ==
    /\ lifecycle = "NotReady" /\ replay.done
    /\ lifecycle' = "Ready"
    /\ bgStop' = FALSE
    /\ UNCHANGED <<versionCounter, replay, crashes, shardVars, journalVars, backing,
                   admissionVars, threadVars, budget>>

-----------------------------------------------------------------------------
(* Write admission.                                                        *)

\* The wait in TryAdmitWrite ends when no compaction pauses admission.
TryAdmitWrite_IgnoresPause(t, from, to) ==
    /\ pc[t] = from
    /\ IF lifecycle = "Ready"
       THEN inFlight' = inFlight + 1 /\ Step(t, to, loc[t])
       ELSE UNCHANGED inFlight /\ Step(t, "idle", loc[t])
    /\ UNCHANGED <<lifeVars, shardVars, journalVars, backing, paused, budget>>
TryAdmitWrite_ReleasesRefused(t, from, to) ==
    /\ pc[t] = from /\ ~paused
    /\ IF lifecycle = "Ready"
       THEN inFlight' = inFlight + 1 /\ Step(t, to, loc[t])
       ELSE inFlight' = inFlight - 1 /\ Step(t, "idle", loc[t])
    /\ UNCHANGED <<lifeVars, shardVars, journalVars, backing, paused, budget>>
TryAdmitWrite(t, from, to) ==
    /\ pc[t] = from /\ ~paused
    /\ IF lifecycle = "Ready"
       THEN inFlight' = inFlight + 1 /\ Step(t, to, loc[t])
       ELSE UNCHANGED inFlight /\ Step(t, "idle", loc[t])
    /\ UNCHANGED <<lifeVars, shardVars, journalVars, backing, paused, budget>>

\* ~WriteAdmissionGuard: the call returns.
ReleaseWriteAdmission_Forgotten(t) ==
    /\ pc[t] = "release"
    /\ Step(t, "idle", loc[t])
    /\ UNCHANGED <<lifeVars, shardVars, journalVars, backing, admissionVars, budget>>
ReleaseWriteAdmission(t) ==
    /\ pc[t] = "release"
    /\ inFlight' = IF inFlight > 0 THEN inFlight - 1 ELSE 0
    /\ Step(t, "idle", loc[t])
    /\ UNCHANGED <<lifeVars, shardVars, journalVars, backing, paused, budget>>

-----------------------------------------------------------------------------
(* Put.                                                                    *)

PutBegin(t) ==
    /\ Call(t, "Put") /\ CheckReadyForWrite
    /\ \E k \in Keys, v \in Values :
          Step(t, "put_admit", [loc[t] EXCEPT !.key = k, !.val = v])
    /\ UNCHANGED <<lifeVars, shardVars, journalVars, backing, admissionVars>>

PutAdmit(t) == TryAdmitWrite(t, "put_admit", "put_append")

NewVersion_Reused == versionCounter
NewVersion == versionCounter + 1

\* AppendJournalRecordWithNewVersion: the version is spent even if Append fails.
PutAppend(t) ==
    LET n == NewVersion
        r == Record("Upsert", loc[t].key, loc[t].val, n)
    IN  /\ pc[t] = "put_append"
        /\ versionCounter' = n
        /\ \/ AppendOk(r) /\ Step(t, "put_commit", [loc[t] EXCEPT !.ver = n])
           \/ AppendFails(r) /\ Step(t, "release", loc[t])
        /\ UNCHANGED <<lifecycle, bgStop, replay, crashes, shardVars, backing, admissionVars,
                       budget>>

PutCommit(t) ==
    /\ pc[t] = "put_commit"
    /\ InsertOrUpdateLocked(loc[t].key, loc[t].val, loc[t].ver, "Dirty")
    /\ Step(t, "relieve_peek", loc[t])
    /\ UNCHANGED <<lifeVars, journalVars, backing, admissionVars, budget>>

\* The end of RelieveCapacityPressureIfNeeded: WriteThrough flushes what was put.
PutRelieved(t) ==
    IF WriteThrough
    THEN Step(t, "flush_peek", [loc[t] EXCEPT !.fkey = loc[t].key, !.fexp = loc[t].ver,
                                              !.fret = "release"])
    ELSE Step(t, "release", loc[t])

DirtyIn(s) == {k \in InShard(s) : entry[k].state = "Dirty"}

RelievePeek(t) ==
    LET s == ShardOf[loc[t].key]
        over == OverBudget(entry, Indexed(entry, s))
    IN  /\ pc[t] = "relieve_peek"
        /\ \/ /\ ~over \/ loc[t].attempt = MaxFlushAttempts
              /\ PutRelieved(t)
              /\ UNCHANGED shardVars
           \/ /\ over /\ loc[t].attempt < MaxFlushAttempts /\ DirtyIn(s) = {}
              /\ EvictCleanEntriesLocked(s)
              /\ PutRelieved(t)
           \/ /\ over /\ loc[t].attempt < MaxFlushAttempts
              /\ \E k \in DirtyIn(s) :
                    /\ \A j \in DirtyIn(s) : lru[j] <= lru[k]
                    /\ Step(t, "flush_peek",
                            [loc[t] EXCEPT !.before = dirtyCount[s], !.fkey = k,
                                           !.fexp = 0, !.fret = "relieve_after"])
              /\ UNCHANGED shardVars
        /\ UNCHANGED <<lifeVars, journalVars, backing, admissionVars, budget>>

\* Stop on a failed flush and when dirtyCount did not go down.
RelieveAfter(t) ==
    LET s == ShardOf[loc[t].key]
    IN  /\ pc[t] = "relieve_after"
        /\ EvictCleanEntriesLocked(s)
        /\ IF loc[t].ok /\ dirtyCount[s] < loc[t].before
           THEN Step(t, "relieve_peek", [loc[t] EXCEPT !.attempt = @ + 1])
           ELSE PutRelieved(t)
        /\ UNCHANGED <<lifeVars, journalVars, backing, admissionVars, budget>>

-----------------------------------------------------------------------------
(* Get.                                                                    *)

GetBegin(t) ==
    /\ Call(t, "Get") /\ CheckReadyForRead
    /\ \E k \in Keys :
          \/ /\ Cached(k)
             /\ Touch(k)
             /\ UNCHANGED threadVars
          \/ /\ ~Cached(k)
             /\ Step(t, "get_read", [loc[t] EXCEPT !.key = k, !.fence = fence[ShardOf[k]]])
             /\ UNCHANGED shardVars
    /\ UNCHANGED <<lifeVars, journalVars, backing, admissionVars>>

\* The unlocked backing-store read; NotFound, errors and the refusal of a value that is
\* too long go to the caller.
GetRead(t) ==
    LET v == backing[loc[t].key]
    IN  /\ pc[t] = "get_read"
        /\ \/ BackingSucceeds(backing) /\ v \notin Oversized \cup {NoValue}
              /\ Step(t, "get_fill", [loc[t] EXCEPT !.val = v])
           \/ BackingSucceeds(backing) /\ v \in Oversized \cup {NoValue}
              /\ Step(t, "idle", loc[t])
           \/ BackingFails /\ Step(t, "idle", loc[t])
        /\ UNCHANGED <<lifeVars, shardVars, admissionVars, budget>>

GetFill(t) ==
    LET k == loc[t].key
    IN  /\ pc[t] = "get_fill"
        /\ \/ /\ fence[ShardOf[k]] = loc[t].fence
              /\ InsertOrUpdateLocked(k, loc[t].val, 0, "Clean")
           \/ /\ fence[ShardOf[k]] # loc[t].fence /\ Cached(k)
              /\ Touch(k)
           \/ /\ fence[ShardOf[k]] # loc[t].fence /\ ~Cached(k)
              /\ UNCHANGED shardVars
        /\ Step(t, "idle", loc[t])
        /\ UNCHANGED <<lifeVars, journalVars, backing, admissionVars, budget>>

-----------------------------------------------------------------------------
(* Invalidate and ForceInvalidate (InvalidateImpl).                        *)

InvalidateBegin(t) ==
    /\ \E op \in {"Invalidate", "ForceInvalidate"}, k \in Keys :
          /\ Call(t, op)
          /\ Step(t, "inv_admit", [loc[t] EXCEPT !.key = k, !.force = (op = "ForceInvalidate")])
    /\ CheckReadyForWrite
    /\ UNCHANGED <<lifeVars, shardVars, journalVars, backing, admissionVars>>

InvalidateAdmit(t) == TryAdmitWrite(t, "inv_admit", "inv_peek")

InvalidatePeek(t) ==
    LET e == entry[loc[t].key]
    IN  /\ pc[t] = "inv_peek"
        /\ IF ~loc[t].force /\ NonClean(e)
           THEN Step(t, "release", loc[t])  \* UnflushedDirtyData
           ELSE Step(t, "inv_append", [loc[t] EXCEPT !.ver = e.ver])
        /\ UNCHANGED <<lifeVars, shardVars, journalVars, backing, admissionVars, budget>>

InvalidateAppend(t) ==
    LET r == Record("Invalidate", loc[t].key, NoValue, loc[t].ver)
    IN  /\ pc[t] = "inv_append"
        /\ \/ AppendOk(r) /\ Step(t, "inv_remove", loc[t])
           \/ AppendFails(r) /\ Step(t, "release", loc[t])
        /\ UNCHANGED <<lifeVars, shardVars, backing, admissionVars, budget>>

InvalidateRemove(t) ==
    /\ pc[t] = "inv_remove"
    /\ \/ /\ BackingSucceeds([backing EXCEPT ![loc[t].key] = NoValue])
          /\ Step(t, "inv_commit", loc[t])
       \/ BackingFails /\ Step(t, "release", loc[t])
    /\ UNCHANGED <<lifeVars, shardVars, admissionVars, budget>>

\* Only the entry that was there at the peek is erased; the fence always moves.
InvalidateCommit(t) ==
    LET k == loc[t].key
        s == ShardOf[k]
        erase == Cached(k) /\ entry[k].ver = loc[t].ver
    IN  /\ pc[t] = "inv_commit"
        /\ Settle(entry, lru, IF erase THEN {k} ELSE {})
        /\ dirtyCount' = IF erase /\ NonClean(entry[k])
                         THEN [dirtyCount EXCEPT ![s] = @ - 1] ELSE dirtyCount
        /\ BumpFence(s)
        /\ Step(t, "release", loc[t])
        /\ UNCHANGED <<lifeVars, journalVars, backing, admissionVars, budget>>

-----------------------------------------------------------------------------
(* FlushKey.                                                               *)

FlushBegin(t) ==
    /\ Call(t, "Flush") /\ CheckReadyForRead
    /\ \E k \in Keys : Step(t, "flush_peek", [loc[t] EXCEPT !.fkey = k, !.fret = "idle"])
    /\ UNCHANGED <<lifeVars, shardVars, journalVars, backing, admissionVars>>

FlushReturn(t, ok) == Step(t, loc[t].fret, [loc[t] EXCEPT !.ok = ok])

\* FlushKey takes on an entry in this state.
Claimable_EvenClaimed(e, expected) == NonClean(e) /\ expected \in {0, e.ver}
Claimable(e, expected) == e.state = "Dirty" /\ expected \in {0, e.ver}

\* Absent: NotFound.  Superseded, Clean or being flushed by another thread: Success.
FlushPeek(t) ==
    LET k == loc[t].fkey
        e == entry[k]
    IN  /\ pc[t] = "flush_peek"
        /\ IF Claimable(e, loc[t].fexp)
           THEN /\ SetState(k, "FlushInProgress")
                /\ Step(t, "flush_intent", [loc[t] EXCEPT !.fval = e.val, !.fver = e.ver])
           ELSE UNCHANGED entry /\ FlushReturn(t, Cached(k))
        /\ UNCHANGED <<lru, dirtyCount, fence, lifeVars, journalVars, backing, admissionVars,
                       budget>>

FlushAppend(t, from, type, to) ==
    LET r == Record(type, loc[t].fkey, NoValue, loc[t].fver)
    IN  /\ pc[t] = from
        /\ \/ AppendOk(r) /\ Step(t, to, loc[t])
           \/ AppendFails(r) /\ Step(t, "flush_revert", loc[t])
        /\ UNCHANGED <<lifeVars, shardVars, backing, admissionVars, budget>>

FlushIntent(t) == FlushAppend(t, "flush_intent", "FlushIntent", "flush_put")
FlushComplete(t) == FlushAppend(t, "flush_complete", "FlushComplete", "flush_commit")

FlushPut(t) ==
    /\ pc[t] = "flush_put"
    /\ \/ /\ BackingSucceeds([backing EXCEPT ![loc[t].fkey] = loc[t].fval])
          /\ Step(t, "flush_complete", loc[t])
       \/ BackingFails /\ Step(t, "flush_revert", loc[t])
    /\ UNCHANGED <<lifeVars, shardVars, admissionVars, budget>>

\* The entry this flush claimed, unless something newer has replaced it.
StillMine_AnyVersion(t) == NonClean(entry[loc[t].fkey])
StillMine(t) ==
    LET e == entry[loc[t].fkey]
    IN  e.state = "FlushInProgress" /\ e.ver = loc[t].fver

FlushCommit(t) ==
    LET s == ShardOf[loc[t].fkey]
    IN  /\ pc[t] = "flush_commit"
        /\ IF StillMine(t)
           THEN /\ SetState(loc[t].fkey, "Clean")
                /\ dirtyCount' = [dirtyCount EXCEPT ![s] = @ - 1]
           ELSE UNCHANGED <<entry, dirtyCount>>
        /\ FlushReturn(t, TRUE)
        /\ UNCHANGED <<lru, fence, lifeVars, journalVars, backing, admissionVars, budget>>

RevertFlushInProgressLocked(t) ==
    /\ pc[t] = "flush_revert"
    /\ IF StillMine(t) THEN SetState(loc[t].fkey, "Dirty") ELSE UNCHANGED entry
    /\ FlushReturn(t, FALSE)
    /\ UNCHANGED <<lru, dirtyCount, fence, lifeVars, journalVars, backing, admissionVars,
                   budget>>

-----------------------------------------------------------------------------
(* FlushAll: every shard in turn, every key that was Dirty when its shard  *)
(* was looked at (their order does not matter here), then compaction.      *)

StartFlushAll(t, ret) ==
    Step(t, "collect", [loc[t] EXCEPT !.shard = 1, !.failed = FALSE, !.aret = ret])

FlushAllBegin(t) ==
    /\ Call(t, "FlushAll") /\ CheckReadyForRead
    /\ t \in Background => ~bgStop /\ lifecycle = "Ready"
    /\ StartFlushAll(t, "idle")
    /\ UNCHANGED <<lifeVars, shardVars, journalVars, backing, admissionVars>>

FlushAllCollect(t) ==
    /\ pc[t] = "collect"
    /\ Step(t, "all_next", [loc[t] EXCEPT !.todo = DirtyIn(loc[t].shard), !.ok = TRUE])
    /\ UNCHANGED <<lifeVars, shardVars, journalVars, backing, admissionVars, budget>>

\* A key that cannot be flushed does not stop the others, but it rules out compaction.
FlushAllNext(t) ==
    LET l == [loc[t] EXCEPT !.failed = @ \/ ~loc[t].ok, !.ok = TRUE]
    IN  /\ pc[t] = "all_next"
        /\ \/ \E k \in l.todo :
                 Step(t, "flush_peek", [l EXCEPT !.todo = @ \ {k}, !.fkey = k, !.fexp = 0,
                                                 !.fret = "all_next"])
           \/ l.todo = {} /\ l.shard < NumShards
              /\ Step(t, "collect", [l EXCEPT !.shard = @ + 1])
           \/ l.todo = {} /\ l.shard = NumShards
              /\ Step(t, IF l.failed THEN l.aret ELSE "compact_check", l)
        /\ UNCHANGED <<lifeVars, shardVars, journalVars, backing, admissionVars, budget>>

-----------------------------------------------------------------------------
(* TryCompactJournalIfFullyClean.                                          *)

CompactCheck(t) ==
    /\ pc[t] = "compact_check"
    /\ Step(t, IF recordCount = 0 THEN loc[t].aret ELSE "compact_pause", loc[t])
    /\ UNCHANGED <<lifeVars, shardVars, journalVars, backing, admissionVars, budget>>

CompactPause(t) ==
    /\ pc[t] = "compact_pause"
    /\ paused' = TRUE
    /\ Step(t, "compact_drain", loc[t])
    /\ UNCHANGED <<lifeVars, shardVars, journalVars, backing, inFlight, budget>>

\* DrainInFlightWrites: go on once no admitted write is left.
DrainInFlightWrites(t, from, to) ==
    /\ pc[t] = from /\ inFlight = 0
    /\ Step(t, to, [loc[t] EXCEPT !.shard = 1, !.sum = 0])
    /\ UNCHANGED <<lifeVars, shardVars, journalVars, backing, admissionVars, budget>>

CompactDrain(t) == DrainInFlightWrites(t, "compact_drain", "compact_scan")

\* remainingDirty, one shard lock after the other.
SumDirty(t, from, clean, dirty) ==
    LET sum == loc[t].sum + dirtyCount[loc[t].shard]
    IN  /\ pc[t] = from
        /\ IF loc[t].shard < NumShards
           THEN Step(t, from, [loc[t] EXCEPT !.shard = @ + 1, !.sum = sum])
           ELSE Step(t, IF sum = 0 THEN clean ELSE dirty, [loc[t] EXCEPT !.sum = sum])
        /\ UNCHANGED <<lifeVars, shardVars, journalVars, backing, admissionVars, budget>>

CompactScan(t) == SumDirty(t, "compact_scan", "compact_truncate", "compact_resume")

CompactTruncate(t) ==
    /\ pc[t] = "compact_truncate"
    /\ \/ /\ recordCount = 0
          /\ paused' = FALSE
          /\ Step(t, loc[t].aret, loc[t])
          /\ UNCHANGED journalVars
       \/ /\ recordCount # 0
          /\ TruncateOk \/ TruncateFails
          /\ Step(t, "compact_resume", loc[t])
          /\ UNCHANGED paused
    /\ UNCHANGED <<lifeVars, shardVars, backing, inFlight, budget>>

CompactResume_StaysPaused(t) ==
    /\ pc[t] = "compact_resume"
    /\ Step(t, loc[t].aret, loc[t])
    /\ UNCHANGED <<lifeVars, shardVars, journalVars, backing, admissionVars, budget>>
CompactResume(t) ==
    /\ pc[t] = "compact_resume"
    /\ paused' = FALSE
    /\ Step(t, loc[t].aret, loc[t])
    /\ UNCHANGED <<lifeVars, shardVars, journalVars, backing, inFlight, budget>>

-----------------------------------------------------------------------------
(* Shutdown.                                                               *)

ShutdownBegin(t) ==
    /\ Call(t, "Shutdown") /\ lifecycle = "Ready"
    /\ lifecycle' = "Stopping"
    /\ Step(t, "shut_drain", loc[t])
    /\ UNCHANGED <<versionCounter, bgStop, replay, crashes, shardVars, journalVars, backing,
                   admissionVars>>

\* The drain, then StopBackgroundFlushThread raises its flag ...
ShutdownDrain(t) ==
    /\ pc[t] = "shut_drain" /\ inFlight = 0
    /\ bgStop' = (bgStop \/ Background # {})
    /\ Step(t, "shut_join", loc[t])
    /\ UNCHANGED <<lifecycle, versionCounter, replay, crashes, shardVars, journalVars,
                   backing, admissionVars, budget>>

\* ... and joins the thread; the last FlushAll follows.
ShutdownJoin(t) ==
    /\ pc[t] = "shut_join"
    /\ \A b \in Background : pc[b] = "idle"
    /\ StartFlushAll(t, "shut_stopped")
    /\ UNCHANGED <<lifeVars, shardVars, journalVars, backing, admissionVars, budget>>

ShutdownStopped(t) ==
    /\ pc[t] = "shut_stopped"
    /\ lifecycle' = "Stopped"
    /\ Step(t, "shut_scan", [loc[t] EXCEPT !.shard = 1, !.sum = 0])
    /\ UNCHANGED <<versionCounter, bgStop, replay, crashes, shardVars, journalVars, backing,
                   admissionVars, budget>>

ShutdownScan(t) == SumDirty(t, "shut_scan", "shut_truncate", "idle")

ShutdownTruncate(t) ==
    /\ pc[t] = "shut_truncate"
    /\ TruncateOk \/ TruncateFails
    /\ Step(t, "idle", loc[t])
    /\ UNCHANGED <<lifeVars, shardVars, backing, admissionVars, budget>>

-----------------------------------------------------------------------------
(* The process dies.                                                       *)

\* The record that thread t is about to append, if it is at an append.
Appending(t) == pc[t] \in {"put_append", "inv_append", "flush_intent", "flush_complete"}
PendingRecord(t) ==
    CASE pc[t] = "put_append"   -> Record("Upsert", loc[t].key, loc[t].val, NewVersion)
      [] pc[t] = "inv_append"   -> Record("Invalidate", loc[t].key, NoValue, loc[t].ver)
      [] pc[t] = "flush_intent" -> Record("FlushIntent", loc[t].fkey, NoValue, loc[t].fver)
      [] OTHER                  -> Record("FlushComplete", loc[t].fkey, NoValue, loc[t].fver)

\* Only the journal and the backing store survive; one append, at most, is cut short.
Crash ==
    /\ crashes < MaxCrashes /\ crashes' = crashes + 1
    /\ \/ journal' = journal
       \/ \E t \in Threads : Appending(t) /\ LeavesBehind(PendingRecord(t), CrashResidue)
    /\ lifecycle' = "NotReady" /\ versionCounter' = 0 /\ bgStop' = FALSE
    /\ replay' = NotReplayed
    /\ entry' = [k \in Keys |-> NoEntry] /\ lru' = [k \in Keys |-> 0]
    /\ dirtyCount' = [s \in Shards |-> 0] /\ fence' = [s \in Shards |-> 0]
    /\ recordCount' = 0 /\ inDoubt' = {}
    /\ inFlight' = 0 /\ paused' = FALSE
    /\ pc' = [t \in Threads |-> "idle"] /\ loc' = [t \in Threads |-> NoLocals]
    /\ UNCHANGED <<faults, backing, budget>>

-----------------------------------------------------------------------------

\* A step of a call that is under way.
PutStep(t) ==
    \/ PutAdmit(t) \/ PutAppend(t) \/ PutCommit(t) \/ RelievePeek(t) \/ RelieveAfter(t)
    \/ ReleaseWriteAdmission(t)
GetStep(t) == GetRead(t) \/ GetFill(t)
InvalidateStep(t) ==
    \/ InvalidateAdmit(t) \/ InvalidatePeek(t) \/ InvalidateAppend(t)
    \/ InvalidateRemove(t) \/ InvalidateCommit(t)
FlushStep(t) ==
    \/ FlushPeek(t) \/ FlushIntent(t) \/ FlushPut(t) \/ FlushComplete(t) \/ FlushCommit(t)
    \/ RevertFlushInProgressLocked(t)
FlushAllStep(t) ==
    \/ FlushAllCollect(t) \/ FlushAllNext(t)
    \/ CompactCheck(t) \/ CompactPause(t) \/ CompactDrain(t) \/ CompactScan(t)
    \/ CompactTruncate(t) \/ CompactResume(t)
ShutdownStep(t) ==
    \/ ShutdownDrain(t) \/ ShutdownJoin(t) \/ ShutdownStopped(t) \/ ShutdownScan(t)
    \/ ShutdownTruncate(t)
Continue(t) ==
    \/ PutStep(t) \/ GetStep(t) \/ InvalidateStep(t)
    \/ FlushStep(t) \/ FlushAllStep(t) \/ ShutdownStep(t)

Begin(t) ==
    \/ PutBegin(t) \/ GetBegin(t) \/ InvalidateBegin(t) \/ FlushBegin(t)
    \/ FlushAllBegin(t) \/ ShutdownBegin(t)

Recover == ReplayRecord \/ ReplayFails \/ ReplayEnd \/ MarkRecoveryComplete

\* Nothing is left to call: a state the system may rest in.
AtRest ==
    /\ \A t \in Threads : pc[t] = "idle"
    /\ \/ lifecycle \in {"Stopped", "RecoveryFailed"}
       \/ lifecycle = "Ready" /\ \A t \in Threads : budget[t] = 0
    /\ UNCHANGED vars

Next == Recover \/ Crash \/ AtRest \/ \E t \in Threads : Begin(t) \/ Continue(t)

Spec == Init /\ [][Next]_vars

\* The scheduler runs every thread, and recovery, to the next step they can take.
FairSpec == Spec /\ WF_vars(Recover) /\ \A t \in Threads : WF_vars(Continue(t))

-----------------------------------------------------------------------------
(* Properties.                                                             *)

\* Every variable has its type.
TypeOK ==
    /\ lifecycle \in Lifecycles /\ versionCounter \in Nat /\ bgStop \in BOOLEAN
    /\ replay \in [pos : Nat, pending : [Keys -> Entries], done : BOOLEAN]
    /\ crashes \in Nat
    /\ entry \in [Keys -> Entries] /\ lru \in [Keys -> Nat]
    /\ dirtyCount \in [Shards -> Int] /\ fence \in [Shards -> Nat]
    /\ journal \in Seq(Records) /\ recordCount \in Nat /\ faults \in Nat
    /\ inDoubt \subseteq Keys
    /\ backing \in [Keys -> Stored]
    /\ inFlight \in Nat /\ paused \in BOOLEAN
    /\ pc \in [Threads -> Pcs] /\ loc \in [Threads -> Locals]
    /\ budget \in [Threads -> Nat]

\* Shard::dirtyCount, which alone decides whether the journal may be truncated, is the
\* number of entries that are not Clean, whatever order commits, flushes, reverts,
\* evictions and erasures come in.
DirtyCountExact ==
    \A s \in Shards :
        dirtyCount[s] = Cardinality({k \in InShard(s) : NonClean(entry[k])})

\* Thread t is flushing version n of k: it has claimed it and not yet given it up.
Flushing(t, k, n) == pc[t] \in FlushPcs /\ loc[t].fkey = k /\ loc[t].fver = n

\* A FlushInProgress entry belongs to one flush that is still running, so it is
\* always completed or reverted: FlushKey's "another flush owns completion" return
\* never relies on a flush that is gone.
FlushOwned ==
    \A k \in Keys : entry[k].state = "FlushInProgress" =>
        /\ \E t \in Threads : Flushing(t, k, entry[k].ver)
        /\ \A t, u \in Threads :
              Flushing(t, k, entry[k].ver) /\ Flushing(u, k, entry[k].ver) => t = u

\* Get's fill with an unmoved fence finds its key still absent ("isUpdate is
\* necessarily false here"): a backing-store read never replaces an entry.
FillFindsKeyAbsent ==
    \A t \in Threads :
        /\ pc[t] \in {"get_read", "get_fill"}
        /\ fence[ShardOf[loc[t].key]] = loc[t].fence
        => ~Cached(loc[t].key)

\* The version a Put will commit is its own: no other Put holds it, and the entry of
\* the key does not have it yet.
VersionsUnique ==
    \A t \in Threads : pc[t] = "put_commit" =>
        /\ loc[t].ver \in 1..versionCounter
        /\ \A k \in Keys : entry[k].ver # loc[t].ver
        /\ \A u \in Threads \ {t} : pc[u] = "put_commit" => loc[u].ver # loc[t].ver

\* Every call returns: nobody waits for ever on a compaction pause, on the drains or on
\* the background thread, whichever I/O operations fail.
CallsReturn == \A t \in Threads : pc[t] # "idle" ~> pc[t] = "idle"

\* Shutdown gets through its drain, its join and its last FlushAll (or the process dies).
ShutdownCompletes == lifecycle = "Stopping" ~> lifecycle # "Stopping"

\* An admitted write is counted, so both drains wait for it.
AdmittedPcs ==
    PutPcs \cup InvalidatePcs \cup {"release"}
Admitted(t) ==
    \/ pc[t] \in AdmittedPcs
    \/ pc[t] \in FlushPcs \cup {"flush_peek"} /\ loc[t].fret \in {"release", "relieve_after"}
InFlightExact == inFlight = Cardinality({t \in Threads : Admitted(t)})

\* The journal still holds the Upsert of every entry that is not Clean and of every
\* write that is journaled but not yet committed: truncation "NEVER discards journal
\* content before the corresponding cache state is confirmed durable elsewhere".
Journaled(k, v, n) ==
    \E i \in DOMAIN journal : journal[i] = Record("Upsert", k, v, n)
UnflushedIsJournaled ==
    /\ \A k \in Keys : NonClean(entry[k]) => Journaled(k, entry[k].val, entry[k].ver)
    /\ \A t \in Threads :
          pc[t] = "put_commit" => Journaled(loc[t].key, loc[t].val, loc[t].ver)

\* Data that is not yet in the backing store leaves the cache only for a newer version,
\* by the forced invalidation of exactly that version, or with the process: neither
\* eviction nor a read nor a soft Invalidate destroys it.
DirtyDataKept ==
    [][\A k \in Keys : NonClean(entry[k]) =>
          \/ entry'[k].state # "Absent" /\ entry'[k].ver >= entry[k].ver
          \/ \E t \in Threads : /\ pc[t] = "inv_commit" /\ loc[t].force
                                /\ loc[t].key = k /\ loc[t].ver = entry[k].ver
          \/ crashes' # crashes]_vars

\* No call is under way that writes, invalidates or flushes k.
Writing(t, k) ==
    Admitted(t) /\ loc[t].key = k
Quiet(k) ==
    \A t \in Threads : /\ ~Writing(t, k)
                       /\ pc[t] \in FlushPcs => loc[t].fkey # k

\* A Clean entry is what its definition says: "identical to what is durably stored in
\* the backing store" (CacheTypes.h).
CleanIsStored ==
    \A k \in Keys : Quiet(k) /\ entry[k].state = "Clean" => backing[k] = entry[k].val

\* What a reader of k gets.
LiveValue(k) == IF Cached(k) THEN entry[k].val ELSE backing[k]

\* The journal tells of k all that a restart needs: none of k's records lies behind a torn
\* frame, where Replay stops, and none is an Invalidate, which Replay carries out again.
Unspoiled(k) ==
    \A i \in DOMAIN journal : journal[i].key = k =>
        /\ journal[i].type # "Invalidate"
        /\ journal[i].type # "Torn" => \A j \in 1..(i - 1) : journal[j].type # "Torn"

\* Every Put of k that failed is out of the journal or has a successful one after it.
Promised(k) == Unspoiled(k) /\ k \notin inDoubt

\* "a slow thread can never clobber a fast thread's already-applied newer write": k has
\* the value of the last Put of k in the journal.
NewestWriteWins ==
    \A k \in Keys, i \in DOMAIN journal :
        /\ lifecycle = "Ready" /\ Quiet(k) /\ Promised(k)
        /\ journal[i].key = k /\ journal[i].type = "Upsert"
        /\ \A j \in DOMAIN journal : journal[j].key = k /\ journal[j].type = "Upsert" => j <= i
        => LiveValue(k) = journal[i].val

\* What the whole of replay would make of the journal and the backing store as they
\* are: the reference for what survives a crash.
ReplayedUpTo[n \in 0..Len(journal)] ==
    IF n = 0 THEN NotReplayed.pending ELSE Pended(ReplayedUpTo[n - 1], journal[n])

\* The number of frames before the first torn one.
ValidLength ==
    Max({n \in 0..Len(journal) : \A i \in 1..n : journal[i].type # "Torn"})

RecoveredValue(k) ==
    LET pending == ReplayedUpTo[ValidLength]
        removed == \E i \in 1..ValidLength : journal[i].type = "Invalidate" /\ journal[i].key = k
    IN  IF pending[k].state # "Absent" THEN pending[k].val
        ELSE IF removed THEN NoValue ELSE backing[k]

\* A crash at any moment loses nothing: for every key that no Put or Invalidate is busy
\* with, a restart finds the value that a reader would have got, flushes under way,
\* evictions and truncations notwithstanding.
Recoverable ==
    lifecycle \in {"Ready", "Stopping", "Stopped"} =>
        \A k \in Keys : (\A t \in Threads : ~Writing(t, k)) => RecoveredValue(k) = LiveValue(k)

\* The same of the keys of which the journal can keep it: torn frames of failed appends and
\* of earlier power cuts, removals of other keys and failed Puts do not take it away, as
\* long as Replay gets through the records it reaches.
PutsRecoverable ==
    /\ lifecycle \in {"Ready", "Stopping", "Stopped"}
    /\ \A i \in 1..ValidLength : ~Undecodable(journal[i])
    => \A k \in Keys : Promised(k) /\ (\A t \in Threads : ~Writing(t, k))
                          => RecoveredValue(k) = LiveValue(k)
=============================================================================
