------------------------- MODULE CacheEngine_proofs -------------------------
(***************************************************************************)
(* Safety of the cache engine for every set of keys, values and threads,   *)
(* every capacity and any number of faults and crashes.                    *)
(***************************************************************************)
EXTENDS CacheEngine, FiniteSetTheorems, TLAPS

-----------------------------------------------------------------------------
(* Helpers.                                                                *)

\* The cardinality of a set of keys is a number.
LEMMA KeySubsetCardinality ==
    ASSUME NEW S \in SUBSET Keys
    PROVE  IsFiniteSet(S) /\ Cardinality(S) \in Nat
BY KeysAssumption, FS_Subset, FS_CardinalityType

\* The locals of an idle thread have their types.
LEMMA NoLocalsType == NoLocals \in Locals
<1>1. AnyKey \in Keys
  BY KeysAssumption DEF AnyKey
<1>2. 1 \in Shards
  BY ShardAssumption DEF Shards
<1> QED
  BY <1>1, <1>2 DEF NoLocals, Locals, Stored

\* A step of a thread keeps the types of the thread variables.
LEMMA StepType ==
    ASSUME pc \in [Threads -> Pcs], loc \in [Threads -> Locals],
           NEW t \in Threads, NEW l \in Pcs, NEW r \in Locals, Step(t, l, r)
    PROVE  pc' \in [Threads -> Pcs] /\ loc' \in [Threads -> Locals]
BY NoLocalsType DEF Step

\* The assignments to locals that several actions make keep the types.
LEMMA LocalsUpdate ==
    ASSUME NEW r \in Locals
    PROVE  /\ \A b \in BOOLEAN : [r EXCEPT !.ok = b] \in Locals
           /\ [r EXCEPT !.attempt = @ + 1] \in Locals
           /\ [r EXCEPT !.fkey = r.key, !.fexp = r.ver, !.fret = "release"] \in Locals
           /\ \A v \in Stored, n \in Nat : [r EXCEPT !.fval = v, !.fver = n] \in Locals
           /\ \A s \in Shards : [r EXCEPT !.shard = s] \in Locals
           /\ \A n \in Int : [r EXCEPT !.sum = n] \in Locals
           /\ \A s \in Shards, n \in Int : [r EXCEPT !.shard = s, !.sum = n] \in Locals
           /\ [r EXCEPT !.shard = 1, !.sum = 0] \in Locals
           /\ r.fkey \in Keys /\ r.fret \in Pcs /\ r.aret \in Pcs
<1>1. \A b \in BOOLEAN : [r EXCEPT !.ok = b] \in Locals
  BY DEF Locals
<1>2. [r EXCEPT !.attempt = @ + 1] \in Locals
  BY DEF Locals
<1>3. [r EXCEPT !.fkey = r.key, !.fexp = r.ver, !.fret = "release"] \in Locals
  BY DEF Locals
<1>4. \A v \in Stored, n \in Nat : [r EXCEPT !.fval = v, !.fver = n] \in Locals
  BY DEF Locals
<1>5. \A s \in Shards : [r EXCEPT !.shard = s] \in Locals
  BY DEF Locals
<1>6. \A n \in Int : [r EXCEPT !.sum = n] \in Locals
  BY DEF Locals
<1>7. \A s \in Shards, n \in Int : [r EXCEPT !.shard = s, !.sum = n] \in Locals
  BY DEF Locals
<1>8. [r EXCEPT !.shard = 1, !.sum = 0] \in Locals
  <2>1. ASSUME NEW s \in Shards, NEW n \in Int, s = 1, n = 0
        PROVE  [r EXCEPT !.shard = 1, !.sum = 0] \in Locals
    <3>1. [r EXCEPT !.shard = s, !.sum = n] \in Locals
      BY <1>7
    <3> QED BY <2>1, <3>1, Zenon
  <2> QED BY <2>1, ShardAssumption DEF Shards
<1>9. r.fkey \in Keys /\ r.fret \in Pcs /\ r.aret \in Pcs
  <2>1. /\ r.fkey \in Keys /\ r.aret \in {"idle", "shut_stopped"}
        /\ r.fret \in {"idle", "release", "relieve_after", "all_next"}
    BY DEF Locals
  <2>2. {"idle", "shut_stopped", "release", "all_next"} \subseteq Pcs
    BY DEF Pcs
  <2>3. "relieve_after" \in Pcs
    BY DEF Pcs, PutPcs
  <2> QED BY <2>1, <2>2, <2>3
<1> QED
  BY <1>1, <1>2, <1>3, <1>4, <1>5, <1>6, <1>7, <1>8, <1>9

\* LRU positions are numbers.
LEMMA PositionsType ==
    ASSUME NEW ent, NEW pos
    PROVE  Positions(ent, pos) \in [Keys -> Nat]
<1> SUFFICES ASSUME NEW k \in Keys
             PROVE  Cardinality({j \in Indexed(ent, ShardOf[k]) : pos[j] <= pos[k]}) \in Nat
  BY DEF Positions
<1>1. {j \in Indexed(ent, ShardOf[k]) : pos[j] <= pos[k]} \in SUBSET Keys
  BY DEF Indexed, InShard
<1> QED
  BY <1>1, KeySubsetCardinality

\* Settle keeps the types of entry and lru.
LEMMA SettleType ==
    ASSUME NEW ent \in [Keys -> Entries], NEW pos, NEW out, Settle(ent, pos, out)
    PROVE  entry' \in [Keys -> Entries] /\ lru' \in [Keys -> Nat]
<1>1. NoEntry \in Entries
  BY DEF NoEntry, Entries, Stored
<1> QED
  BY <1>1, PositionsType DEF Settle

\* SetState keeps the type of entry.
LEMMA SetStateType ==
    ASSUME entry \in [Keys -> Entries], NEW k \in Keys,
           NEW state \in {"Clean", "Dirty", "FlushInProgress"}, SetState(k, state)
    PROVE  entry' \in [Keys -> Entries]
BY DEF SetState, Entries

\* An insertion keeps the types of the shard variables.
LEMMA InsertType ==
    ASSUME TypeOK, NEW k \in Keys, NEW v \in Stored, NEW n \in Nat,
           NEW state \in {"Clean", "Dirty"}, InsertOrUpdateLocked(k, v, n, state)
    PROVE  /\ entry' \in [Keys -> Entries] /\ lru' \in [Keys -> Nat]
           /\ dirtyCount' \in [Shards -> Int] /\ fence' \in [Shards -> Nat]
<1>1. CASE UNCHANGED shardVars
  BY <1>1 DEF TypeOK, shardVars
<1>2. CASE ~UNCHANGED shardVars
  <2> DEFINE s == ShardOf[k]
             ent == [entry EXCEPT ![k] = [val |-> v, ver |-> n, state |-> state]]
             pos == [lru EXCEPT ![k] = 0]
             dirty == DirtyAfter(s, entry[k], state)
  <2>1. /\ Settle(ent, pos, Victims(ent, pos, s, dirty))
        /\ dirtyCount' = [dirtyCount EXCEPT ![s] = dirty]
        /\ fence' = [fence EXCEPT ![s] = @ + 1]
    BY <1>2 DEF InsertOrUpdateLocked, BumpFence
  <2>2. ent \in [Keys -> Entries]
    BY DEF TypeOK, Entries
  <2>3. s \in Shards
    BY ShardAssumption
  <2>4. dirty \in Int
    BY <2>3 DEF TypeOK, DirtyAfter
  <2>5. entry' \in [Keys -> Entries] /\ lru' \in [Keys -> Nat]
    <3> HIDE DEF ent, pos, dirty, s
    <3> QED BY <2>1, <2>2, SettleType
  <2> HIDE DEF dirty
  <2>6. dirtyCount' \in [Shards -> Int] /\ fence' \in [Shards -> Nat]
    BY <2>1, <2>3, <2>4 DEF TypeOK
  <2> QED BY <2>5, <2>6
<1> QED BY <1>1, <1>2

\* A journal operation keeps the types of the journal variables.
LEMMA JournalType ==
    ASSUME TypeOK, NEW r \in Records,
           AppendOk(r) \/ AppendFails(r) \/ TruncateOk \/ TruncateFails
    PROVE  /\ journal' \in Seq(Records) /\ recordCount' \in Nat /\ faults' \in Nat
           /\ inDoubt' \subseteq Keys
<1>1. Record("Torn", r.key, r.val, r.ver) \in Records
  BY DEF Record, Records, RecordTypes
<1>2. /\ journal \in Seq(Records) /\ recordCount \in Nat /\ faults \in Nat
      /\ inDoubt \subseteq Keys /\ r.key \in Keys
  BY DEF TypeOK, Records
<1>3. Append(journal, r) \in Seq(Records) /\ <<>> \in Seq(Records)
      /\ Append(journal, Record("Torn", r.key, r.val, r.ver)) \in Seq(Records)
  <2> HIDE DEF Record
  <2> QED BY <1>1, <1>2
<1> HIDE DEF Record
<1>4. CASE AppendOk(r)
  BY <1>2, <1>3, <1>4 DEF AppendOk
<1>5. CASE AppendFails(r)
  BY <1>2, <1>3, <1>5 DEF AppendFails, LeavesBehind
<1>6. CASE TruncateOk
  BY <1>2, <1>3, <1>6 DEF TruncateOk
<1>7. CASE TruncateFails
  <2>1. journal' = journal \/ journal' = <<>>
    BY <1>7 DEF TruncateFails
  <2>2. recordCount' \in Nat /\ faults' \in Nat /\ inDoubt' \subseteq Keys
    BY <1>2, <1>7 DEF TruncateFails
  <2>3. journal' \in Seq(Records)
    BY <1>2, <1>3, <2>1
  <2> QED BY <2>2, <2>3
<1> QED
  BY <1>4, <1>5, <1>6, <1>7

\* What replay makes of a record is a map of entries.
LEMMA PendedType ==
    ASSUME NEW pending \in [Keys -> Entries], NEW r \in Records
    PROVE  Pended(pending, r) \in [Keys -> Entries]
<1>1. r.key \in Keys /\ r.val \in Stored /\ r.ver \in Nat
  BY DEF Records
<1>2. NoEntry \in Entries
  BY DEF NoEntry, Entries, Stored
<1>3. [val |-> r.val, ver |-> r.ver, state |-> "Dirty"] \in Entries
  BY <1>1 DEF Entries
<1>4. [pending EXCEPT ![r.key].state = "FlushInProgress"] \in [Keys -> Entries]
  BY <1>1 DEF Entries
<1> QED
  BY <1>1, <1>2, <1>3, <1>4 DEF Pended

\* Recovery, and the death of the process, keep the types.
LEMMA RecoverType == ASSUME TypeOK, Recover \/ Crash PROVE TypeOK'
<1>1. CASE ReplayRecord
  <2> DEFINE r == journal[replay.pos + 1]
  <2>1. r \in Records
    BY <1>1 DEF ReplayRecord, Replaying, ReplayAtEnd, TypeOK
  <2>2. Pended(replay.pending, r) \in [Keys -> Entries]
    BY <2>1, PendedType DEF TypeOK
  <2>3. replay' = [replay EXCEPT !.pos = @ + 1, !.pending = Pended(@, r)]
    BY <1>1 DEF ReplayRecord
  <2>4. r.key \in Keys
    BY <2>1 DEF Records
  <2>5. backing' \in [Keys -> Stored]
    BY <1>1, <2>4 DEF ReplayRecord, TypeOK, Stored
  <2> HIDE DEF r
  <2>6. replay' \in [pos : Nat, pending : [Keys -> Entries], done : BOOLEAN]
    <3> DEFINE pending == Pended(replay.pending, r)
    <3>1. replay \in [pos : Nat, pending : [Keys -> Entries], done : BOOLEAN]
      BY DEF TypeOK
    <3>2. replay' = [pos |-> replay.pos + 1, pending |-> pending, done |-> replay.done]
      BY <2>3, <3>1
    <3>3. pending \in [Keys -> Entries]
      BY <2>2
    <3> HIDE DEF pending
    <3> QED BY <3>1, <3>2, <3>3
  <2> QED
    BY <1>1, <2>5, <2>6 DEF ReplayRecord, Replaying, TypeOK, shardVars, journalVars,
       admissionVars, threadVars
<1>2. CASE ReplayFails
  BY <1>2 DEF ReplayFails, Replaying, BackingFails, TypeOK, Lifecycles, shardVars,
     journalVars, admissionVars, threadVars
<1>3. CASE ReplayEnd
  <2> DEFINE restored == {k \in Keys : replay.pending[k].state # "Absent"}
             ent == [k \in Keys |-> IF k \in restored
                                    THEN [replay.pending[k] EXCEPT !.state = "Dirty"]
                                    ELSE NoEntry]
  <2>0. replay.pending \in [Keys -> Entries] /\ NoEntry \in Entries
    BY DEF TypeOK, Entries, NoEntry, Stored
  <2>1. ent \in [Keys -> Entries]
    BY <2>0 DEF Entries
  <2>2. PICK order \in [Keys -> 1..Cardinality(Keys)] : Settle(ent, order, {})
    BY <1>3 DEF ReplayEnd
  <2>3. \A k \in Keys : ent[k].ver \in Nat
    BY <2>1 DEF Entries
  <2>4. \A s \in Shards : Cardinality(Indexed(ent, s)) \in Nat
    <3> HIDE DEF ent
    <3>1. \A s : Indexed(ent, s) \in SUBSET Keys
      BY DEF Indexed, InShard
    <3> QED BY <3>1, KeySubsetCardinality
  <2>5. /\ dirtyCount' = [s \in Shards |-> Cardinality(Indexed(ent, s))]
        /\ fence' = [s \in Shards |-> fence[s] + Cardinality(Indexed(ent, s))]
        /\ versionCounter' \in {versionCounter} \cup {ent[k].ver : k \in Keys}
    BY <1>3 DEF ReplayEnd
  <2> HIDE DEF ent
  <2>6. entry' \in [Keys -> Entries] /\ lru' \in [Keys -> Nat]
    BY <2>1, <2>2, SettleType
  <2>7. /\ dirtyCount' \in [Shards -> Int] /\ fence' \in [Shards -> Nat]
        /\ versionCounter' \in Nat
    BY <2>3, <2>4, <2>5 DEF TypeOK
  <2> QED
    BY <1>3, <2>6, <2>7 DEF ReplayEnd, TypeOK, journalVars, admissionVars, threadVars
<1>4. CASE MarkRecoveryComplete
  BY <1>4 DEF MarkRecoveryComplete, TypeOK, Lifecycles, shardVars, journalVars,
     admissionVars, threadVars
<1>5. CASE Crash
  <2>1. NoEntry \in Entries
    BY DEF NoEntry, Entries, Stored
  <2>2. replay' \in [pos : Nat, pending : [Keys -> Entries], done : BOOLEAN]
    BY <1>5, <2>1 DEF Crash, NotReplayed
  <2>3. pc' \in [Threads -> Pcs] /\ loc' \in [Threads -> Locals]
    BY <1>5, NoLocalsType DEF Crash, Pcs
  <2> QED
    <3>1. /\ entry' \in [Keys -> Entries] /\ lru' \in [Keys -> Nat]
          /\ dirtyCount' \in [Shards -> Int] /\ fence' \in [Shards -> Nat]
      BY <1>5, <2>1 DEF Crash
    <3> HIDE DEF NoEntry
    <3>2. /\ versionCounter' \in Nat /\ crashes' \in Nat /\ recordCount' \in Nat
          /\ inFlight' \in Nat
      BY <1>5 DEF Crash, TypeOK
    <3>4. lifecycle' \in Lifecycles /\ bgStop' \in BOOLEAN /\ paused' \in BOOLEAN
      BY <1>5 DEF Crash, Lifecycles
    <3>3. /\ faults' \in Nat /\ backing' \in [Keys -> Stored] /\ budget' \in [Threads -> Nat]
          /\ inDoubt' \subseteq Keys
      BY <1>5 DEF Crash, TypeOK
    <3>5. journal' \in Seq(Records)
      <4>1. CASE journal' = journal
        BY <4>1 DEF TypeOK
      <4>2. ASSUME NEW t \in Threads, LeavesBehind(PendingRecord(t), CrashResidue)
            PROVE  journal' \in Seq(Records)
        <5> DEFINE r == PendingRecord(t)
        <5>1. loc[t] \in Locals /\ versionCounter + 1 \in Nat
          BY DEF TypeOK
        <5>2. r \in Records
          BY <5>1 DEF PendingRecord, Record, Records, RecordTypes, Locals, Stored, NewVersion
        <5>3. Record("Torn", r.key, r.val, r.ver) \in Records
          BY <5>2 DEF Record, Records, RecordTypes
        <5> HIDE DEF r
        <5>4. journal \in Seq(Records)
          BY DEF TypeOK
        <5>5. LeavesBehind(r, CrashResidue)
          BY <4>2 DEF r
        <5> HIDE DEF Record
        <5> QED BY <5>2, <5>3, <5>4, <5>5 DEF LeavesBehind
      <4> QED BY <1>5, <4>1, <4>2 DEF Crash
    <3> QED BY <2>2, <2>3, <3>1, <3>2, <3>3, <3>4, <3>5 DEF TypeOK
<1> QED
  BY <1>1, <1>2, <1>3, <1>4, <1>5 DEF Recover

\* The first step of a call keeps the types.
LEMMA BeginType == ASSUME TypeOK, NEW t \in Threads, Begin(t) PROVE TypeOK'
<1>0. pc \in [Threads -> Pcs] /\ loc \in [Threads -> Locals] /\ loc[t] \in Locals
  BY DEF TypeOK
<1>k. \A k \in Keys : ShardOf[k] \in Shards /\ fence[ShardOf[k]] \in Nat
  BY ShardAssumption DEF TypeOK
<1>s. 1 \in Shards
  BY ShardAssumption DEF Shards
<1>1. CASE PutBegin(t)
  <2>1. pc' \in [Threads -> Pcs] /\ loc' \in [Threads -> Locals]
    BY <1>0, <1>1, StepType DEF PutBegin, Locals, Pcs, Stored
  <2>2. budget' \in [Threads -> Nat]
    BY <1>1 DEF PutBegin, Call, TypeOK
  <2> QED
    BY <1>1, <2>1, <2>2 DEF PutBegin, TypeOK, lifeVars, shardVars, journalVars,
       admissionVars
<1>2. CASE GetBegin(t)
  <2>1. pc' \in [Threads -> Pcs] /\ loc' \in [Threads -> Locals]
    BY <1>0, <1>2, StepType, <1>k DEF GetBegin, Locals, Pcs, threadVars
  <2>2. budget' \in [Threads -> Nat]
    BY <1>2 DEF GetBegin, Call, TypeOK
  <2>3. /\ entry' \in [Keys -> Entries] /\ lru' \in [Keys -> Nat]
        /\ dirtyCount' \in [Shards -> Int] /\ fence' \in [Shards -> Nat]
    BY <1>2, SettleType DEF GetBegin, Touch, TypeOK, shardVars
  <2> QED
    BY <1>2, <2>1, <2>2, <2>3 DEF GetBegin, TypeOK, lifeVars, journalVars, admissionVars
<1>3. CASE InvalidateBegin(t)
  <2>1. pc' \in [Threads -> Pcs] /\ loc' \in [Threads -> Locals]
    BY <1>0, <1>3, StepType DEF InvalidateBegin, Locals, Pcs
  <2>2. budget' \in [Threads -> Nat]
    BY <1>3 DEF InvalidateBegin, Call, TypeOK
  <2> QED
    BY <1>3, <2>1, <2>2 DEF InvalidateBegin, TypeOK, lifeVars, shardVars, journalVars,
       admissionVars
<1>4. CASE FlushBegin(t)
  <2>1. pc' \in [Threads -> Pcs] /\ loc' \in [Threads -> Locals]
    BY <1>0, <1>4, StepType DEF FlushBegin, Locals, Pcs
  <2>2. budget' \in [Threads -> Nat]
    BY <1>4 DEF FlushBegin, Call, TypeOK
  <2> QED
    BY <1>4, <2>1, <2>2 DEF FlushBegin, TypeOK, lifeVars, shardVars, journalVars,
       admissionVars
<1>5. CASE FlushAllBegin(t)
  <2>1. pc' \in [Threads -> Pcs] /\ loc' \in [Threads -> Locals]
    BY <1>0, <1>5, StepType, <1>s DEF FlushAllBegin, StartFlushAll, Locals, Pcs
  <2>2. budget' \in [Threads -> Nat]
    BY <1>5 DEF FlushAllBegin, Call, TypeOK
  <2> QED
    BY <1>5, <2>1, <2>2 DEF FlushAllBegin, TypeOK, lifeVars, shardVars, journalVars,
       admissionVars
<1>6. CASE ShutdownBegin(t)
  <2>1. pc' \in [Threads -> Pcs] /\ loc' \in [Threads -> Locals]
    BY <1>0, <1>6, StepType DEF ShutdownBegin, Locals, Pcs
  <2>2. budget' \in [Threads -> Nat]
    BY <1>6 DEF ShutdownBegin, Call, TypeOK
  <2> QED
    BY <1>6, <2>1, <2>2 DEF ShutdownBegin, TypeOK, Lifecycles, shardVars, journalVars,
       admissionVars
<1> QED
  BY <1>1, <1>2, <1>3, <1>4, <1>5, <1>6 DEF Begin

\* So does every later step of a Put,
LEMMA PutType == ASSUME TypeOK, NEW t \in Threads, PutStep(t) PROVE TypeOK'
<1>0. pc \in [Threads -> Pcs] /\ loc \in [Threads -> Locals] /\ loc[t] \in Locals
  BY DEF TypeOK
<1>v. versionCounter \in Nat /\ versionCounter + 1 \in Nat
  BY DEF TypeOK
<1>d. \A k \in Keys : dirtyCount[ShardOf[k]] \in Int
  BY ShardAssumption DEF TypeOK
<1>1. CASE PutAdmit(t)
  <2>1. pc' \in [Threads -> Pcs] /\ loc' \in [Threads -> Locals]
    BY <1>0, <1>1, StepType DEF PutAdmit, TryAdmitWrite, Pcs, PutPcs
  <2> QED
    BY <1>1, <2>1 DEF PutAdmit, TryAdmitWrite, TypeOK, lifeVars, shardVars, journalVars
<1>2. CASE PutAppend(t)
  <2>1. pc' \in [Threads -> Pcs] /\ loc' \in [Threads -> Locals]
    BY <1>0, <1>2, StepType, <1>v DEF PutAppend, NewVersion, Locals, Pcs, PutPcs
  <2>3. Record("Upsert", loc[t].key, loc[t].val, versionCounter + 1) \in Records
    BY <1>0, <1>v DEF Record, Records, RecordTypes, Locals, Stored
  <2>4. /\ journal' \in Seq(Records) /\ recordCount' \in Nat /\ faults' \in Nat
        /\ inDoubt' \subseteq Keys
    <3> HIDE DEF Record
    <3> QED BY <1>2, <2>3, JournalType DEF PutAppend, NewVersion
  <2> QED
    BY <1>2, <2>1, <2>3, <2>4 DEF PutAppend, NewVersion, TypeOK, shardVars, admissionVars
<1>3. CASE PutCommit(t)
  <2>1. pc' \in [Threads -> Pcs] /\ loc' \in [Threads -> Locals]
    BY <1>0, <1>3, StepType DEF PutCommit, Pcs, PutPcs
  <2>2. loc[t].key \in Keys /\ loc[t].val \in Stored /\ loc[t].ver \in Nat
    BY <1>0 DEF Locals
  <2>3. /\ entry' \in [Keys -> Entries] /\ lru' \in [Keys -> Nat]
        /\ dirtyCount' \in [Shards -> Int] /\ fence' \in [Shards -> Nat]
    BY <1>3, <2>2, InsertType DEF PutCommit
  <2> QED
    BY <1>3, <2>1, <2>3 DEF PutCommit, TypeOK, lifeVars, journalVars, admissionVars
<1>4. CASE RelievePeek(t)
  <2>1. pc' \in [Threads -> Pcs] /\ loc' \in [Threads -> Locals]
    BY <1>0, <1>4, StepType, <1>d DEF RelievePeek, PutRelieved, DirtyIn, InShard, Locals,
       Pcs, PutPcs
  <2>3. /\ entry' \in [Keys -> Entries] /\ lru' \in [Keys -> Nat]
        /\ dirtyCount' \in [Shards -> Int] /\ fence' \in [Shards -> Nat]
    BY <1>4, SettleType DEF RelievePeek, EvictCleanEntriesLocked, TypeOK, shardVars
  <2> QED
    BY <1>4, <2>1, <2>3 DEF RelievePeek, TypeOK, lifeVars, journalVars, admissionVars
<1>5. CASE RelieveAfter(t)
  <2>1. pc' \in [Threads -> Pcs] /\ loc' \in [Threads -> Locals]
    BY <1>0, <1>5, StepType, LocalsUpdate DEF RelieveAfter, PutRelieved, Pcs, PutPcs
  <2>3. /\ entry' \in [Keys -> Entries] /\ lru' \in [Keys -> Nat]
        /\ dirtyCount' \in [Shards -> Int] /\ fence' \in [Shards -> Nat]
    BY <1>5, SettleType DEF RelieveAfter, EvictCleanEntriesLocked, TypeOK, shardVars
  <2> QED
    BY <1>5, <2>1, <2>3 DEF RelieveAfter, TypeOK, lifeVars, journalVars, admissionVars
<1>6. CASE ReleaseWriteAdmission(t)
  <2>1. pc' \in [Threads -> Pcs] /\ loc' \in [Threads -> Locals]
    BY <1>0, <1>6, StepType DEF ReleaseWriteAdmission, Pcs
  <2> QED
    BY <1>6, <2>1 DEF ReleaseWriteAdmission, TypeOK, lifeVars, shardVars, journalVars
<1> QED
  BY <1>1, <1>2, <1>3, <1>4, <1>5, <1>6 DEF PutStep

\* of a Get,
LEMMA GetType == ASSUME TypeOK, NEW t \in Threads, GetStep(t) PROVE TypeOK'
<1>0. pc \in [Threads -> Pcs] /\ loc \in [Threads -> Locals] /\ loc[t] \in Locals
  BY DEF TypeOK
<1>b. backing[loc[t].key] \in Stored
  BY <1>0 DEF TypeOK, Locals
<1>1. CASE GetRead(t)
  <2>1. pc' \in [Threads -> Pcs] /\ loc' \in [Threads -> Locals]
    BY <1>0, <1>1, StepType, <1>b DEF GetRead, Locals, Pcs
  <2>3. /\ journal' \in Seq(Records) /\ recordCount' \in Nat /\ faults' \in Nat
        /\ inDoubt' \subseteq Keys
    BY <1>1 DEF GetRead, BackingSucceeds, BackingFails, journalVars, TypeOK
  <2>4. backing' \in [Keys -> Stored]
    BY <1>0, <1>1 DEF GetRead, BackingSucceeds, BackingFails, TypeOK, Locals, Stored
  <2> QED
    BY <1>1, <2>1, <2>3, <2>4 DEF GetRead, TypeOK, lifeVars, shardVars, admissionVars
<1>2. CASE GetFill(t)
  <2>1. pc' \in [Threads -> Pcs] /\ loc' \in [Threads -> Locals]
    BY <1>0, <1>2, StepType DEF GetFill, Locals, Pcs
  <2>2. loc[t].key \in Keys /\ loc[t].val \in Stored /\ loc[t].ver \in Nat
    BY <1>0 DEF Locals
  <2>3. /\ entry' \in [Keys -> Entries] /\ lru' \in [Keys -> Nat]
        /\ dirtyCount' \in [Shards -> Int] /\ fence' \in [Shards -> Nat]
    BY <1>2, <2>2, InsertType, SettleType DEF GetFill, Touch, TypeOK, shardVars
  <2> QED
    BY <1>2, <2>1, <2>3 DEF GetFill, TypeOK, lifeVars, journalVars, admissionVars
<1> QED
  BY <1>1, <1>2 DEF GetStep

\* of an Invalidate,
LEMMA InvalidateType == ASSUME TypeOK, NEW t \in Threads, InvalidateStep(t) PROVE TypeOK'
<1>0. pc \in [Threads -> Pcs] /\ loc \in [Threads -> Locals] /\ loc[t] \in Locals
  BY DEF TypeOK
<1>k. \A k \in Keys : ShardOf[k] \in Shards /\ fence[ShardOf[k]] \in Nat
  BY ShardAssumption DEF TypeOK
<1>e. \A k \in Keys : entry[k].val \in Stored /\ entry[k].ver \in Nat
  BY DEF TypeOK, Entries
<1>1. CASE InvalidateAdmit(t)
  <2>1. pc' \in [Threads -> Pcs] /\ loc' \in [Threads -> Locals]
    BY <1>0, <1>1, StepType DEF InvalidateAdmit, TryAdmitWrite, Pcs, InvalidatePcs
  <2> QED
    BY <1>1, <2>1 DEF InvalidateAdmit, TryAdmitWrite, TypeOK, lifeVars, shardVars,
       journalVars
<1>2. CASE InvalidatePeek(t)
  <2>1. pc' \in [Threads -> Pcs] /\ loc' \in [Threads -> Locals]
    BY <1>0, <1>2, StepType, <1>e DEF InvalidatePeek, Locals, Pcs, InvalidatePcs
  <2> QED
    BY <1>2, <2>1 DEF InvalidatePeek, TypeOK, lifeVars, shardVars, journalVars,
       admissionVars
<1>3. CASE InvalidateAppend(t)
  <2>1. pc' \in [Threads -> Pcs] /\ loc' \in [Threads -> Locals]
    BY <1>0, <1>3, StepType DEF InvalidateAppend, Pcs, InvalidatePcs
  <2>3. Record("Invalidate", loc[t].key, NoValue, loc[t].ver) \in Records
    BY <1>0, <1>k DEF Record, Records, RecordTypes, Locals, Stored
  <2>4. /\ journal' \in Seq(Records) /\ recordCount' \in Nat /\ faults' \in Nat
        /\ inDoubt' \subseteq Keys
    <3> HIDE DEF Record
    <3> QED BY <1>3, <2>3, JournalType DEF InvalidateAppend
  <2> QED
    BY <1>3, <2>1, <2>4 DEF InvalidateAppend, TypeOK, lifeVars, shardVars, admissionVars
<1>4. CASE InvalidateRemove(t)
  <2>1. pc' \in [Threads -> Pcs] /\ loc' \in [Threads -> Locals]
    BY <1>0, <1>4, StepType DEF InvalidateRemove, Pcs, InvalidatePcs
  <2>3. /\ journal' \in Seq(Records) /\ recordCount' \in Nat /\ faults' \in Nat
        /\ inDoubt' \subseteq Keys
    BY <1>4 DEF InvalidateRemove, BackingSucceeds, BackingFails, journalVars, TypeOK
  <2>4. backing' \in [Keys -> Stored]
    BY <1>0, <1>4 DEF InvalidateRemove, BackingSucceeds, BackingFails, TypeOK, Locals, Stored
  <2> QED
    BY <1>4, <2>1, <2>3, <2>4 DEF InvalidateRemove, TypeOK, lifeVars, shardVars,
       admissionVars
<1>5. CASE InvalidateCommit(t)
  <2>1. pc' \in [Threads -> Pcs] /\ loc' \in [Threads -> Locals]
    BY <1>0, <1>5, StepType DEF InvalidateCommit, Pcs
  <2>2. loc[t].key \in Keys
    BY <1>0 DEF Locals
  <2>3. entry' \in [Keys -> Entries] /\ lru' \in [Keys -> Nat]
    BY <1>5, SettleType DEF InvalidateCommit, TypeOK
  <2>4. dirtyCount' \in [Shards -> Int] /\ fence' \in [Shards -> Nat]
    BY <1>5, <1>k, <2>2 DEF InvalidateCommit, BumpFence, TypeOK
  <2> QED
    BY <1>5, <2>1, <2>3, <2>4 DEF InvalidateCommit, TypeOK, lifeVars, journalVars,
       admissionVars
<1> QED
  BY <1>1, <1>2, <1>3, <1>4, <1>5 DEF InvalidateStep

\* of a FlushKey,
LEMMA FlushType == ASSUME TypeOK, NEW t \in Threads, FlushStep(t) PROVE TypeOK'
<1>0. pc \in [Threads -> Pcs] /\ loc \in [Threads -> Locals] /\ loc[t] \in Locals
  BY DEF TypeOK
<1>k. \A k \in Keys : ShardOf[k] \in Shards /\ fence[ShardOf[k]] \in Nat
  BY ShardAssumption DEF TypeOK
<1>e. \A k \in Keys : entry[k].val \in Stored /\ entry[k].ver \in Nat
  BY DEF TypeOK, Entries
<1>1. CASE FlushPeek(t)
  <2>1. pc' \in [Threads -> Pcs] /\ loc' \in [Threads -> Locals]
    BY <1>0, <1>1, StepType, LocalsUpdate, <1>e DEF FlushPeek, FlushReturn, Cached, Pcs,
       FlushPcs
  <2>2. loc[t].fkey \in Keys /\ ShardOf[loc[t].fkey] \in Shards
    BY <1>0, <1>k DEF Locals
  <2>3. entry' \in [Keys -> Entries] /\ dirtyCount' \in [Shards -> Int]
    BY <1>1, <2>2, SetStateType DEF FlushPeek, TypeOK
  <2> QED
    BY <1>1, <2>1, <2>3 DEF FlushPeek, TypeOK, lifeVars, journalVars, admissionVars
<1>2. CASE FlushIntent(t)
  <2>1. pc' \in [Threads -> Pcs] /\ loc' \in [Threads -> Locals]
    BY <1>0, <1>2, StepType DEF FlushIntent, FlushAppend, Pcs, FlushPcs
  <2>3. Record("FlushIntent", loc[t].fkey, NoValue, loc[t].fver) \in Records
    BY <1>0, <1>k DEF Record, Records, RecordTypes, Locals, Stored
  <2>4. /\ journal' \in Seq(Records) /\ recordCount' \in Nat /\ faults' \in Nat
        /\ inDoubt' \subseteq Keys
    <3> HIDE DEF Record
    <3> QED BY <1>2, <2>3, JournalType DEF FlushIntent, FlushAppend
  <2> QED
    BY <1>2, <2>1, <2>4 DEF FlushIntent, FlushAppend, TypeOK, lifeVars, shardVars,
       admissionVars
<1>3. CASE FlushPut(t)
  <2>1. pc' \in [Threads -> Pcs] /\ loc' \in [Threads -> Locals]
    BY <1>0, <1>3, StepType DEF FlushPut, Pcs, FlushPcs
  <2>3. /\ journal' \in Seq(Records) /\ recordCount' \in Nat /\ faults' \in Nat
        /\ inDoubt' \subseteq Keys
    BY <1>3 DEF FlushPut, BackingSucceeds, BackingFails, journalVars, TypeOK
  <2>4. backing' \in [Keys -> Stored]
    BY <1>0, <1>3 DEF FlushPut, BackingSucceeds, BackingFails, TypeOK, Locals, Stored
  <2> QED
    BY <1>3, <2>1, <2>3, <2>4 DEF FlushPut, TypeOK, lifeVars, shardVars, admissionVars
<1>4. CASE FlushComplete(t)
  <2>1. pc' \in [Threads -> Pcs] /\ loc' \in [Threads -> Locals]
    BY <1>0, <1>4, StepType DEF FlushComplete, FlushAppend, Pcs, FlushPcs
  <2>3. Record("FlushComplete", loc[t].fkey, NoValue, loc[t].fver) \in Records
    BY <1>0, <1>k DEF Record, Records, RecordTypes, Locals, Stored
  <2>4. /\ journal' \in Seq(Records) /\ recordCount' \in Nat /\ faults' \in Nat
        /\ inDoubt' \subseteq Keys
    <3> HIDE DEF Record
    <3> QED BY <1>4, <2>3, JournalType DEF FlushComplete, FlushAppend
  <2> QED
    BY <1>4, <2>1, <2>4 DEF FlushComplete, FlushAppend, TypeOK, lifeVars, shardVars,
       admissionVars
<1>5. CASE FlushCommit(t)
  <2>1. pc' \in [Threads -> Pcs] /\ loc' \in [Threads -> Locals]
    BY <1>0, <1>5, StepType, LocalsUpdate DEF FlushCommit, FlushReturn
  <2>2. loc[t].fkey \in Keys /\ ShardOf[loc[t].fkey] \in Shards
    BY <1>0, <1>k DEF Locals
  <2>3. entry' \in [Keys -> Entries] /\ dirtyCount' \in [Shards -> Int]
    BY <1>5, <2>2, SetStateType DEF FlushCommit, TypeOK
  <2> QED
    BY <1>5, <2>1, <2>3 DEF FlushCommit, TypeOK, lifeVars, journalVars, admissionVars
<1>6. CASE RevertFlushInProgressLocked(t)
  <2>1. pc' \in [Threads -> Pcs] /\ loc' \in [Threads -> Locals]
    BY <1>0, <1>6, StepType, LocalsUpdate DEF RevertFlushInProgressLocked, FlushReturn
  <2>2. loc[t].fkey \in Keys /\ ShardOf[loc[t].fkey] \in Shards
    BY <1>0, <1>k DEF Locals
  <2>3. entry' \in [Keys -> Entries] /\ dirtyCount' \in [Shards -> Int]
    BY <1>6, <2>2, SetStateType DEF RevertFlushInProgressLocked, TypeOK
  <2> QED
    BY <1>6, <2>1, <2>3 DEF RevertFlushInProgressLocked, TypeOK, lifeVars, journalVars,
       admissionVars
<1> QED
  BY <1>1, <1>2, <1>3, <1>4, <1>5, <1>6 DEF FlushStep

\* of a FlushAll and its compaction,
LEMMA FlushAllType == ASSUME TypeOK, NEW t \in Threads, FlushAllStep(t) PROVE TypeOK'
<1>0. pc \in [Threads -> Pcs] /\ loc \in [Threads -> Locals] /\ loc[t] \in Locals
  BY DEF TypeOK
<1>1. CASE FlushAllCollect(t)
  <2>1. pc' \in [Threads -> Pcs] /\ loc' \in [Threads -> Locals]
    BY <1>0, <1>1, StepType DEF FlushAllCollect, DirtyIn, InShard, Locals, Pcs
  <2> QED
    BY <1>1, <2>1 DEF FlushAllCollect, TypeOK, lifeVars, shardVars, journalVars,
       admissionVars
<1>2. CASE FlushAllNext(t)
  <2> DEFINE l == [loc[t] EXCEPT !.failed = @ \/ ~loc[t].ok, !.ok = TRUE]
  <2>0. l \in Locals
    BY <1>0 DEF Locals
  <2> HIDE DEF l
  <2>5. \A k \in l.todo : [l EXCEPT !.todo = @ \ {k}, !.fkey = k, !.fexp = 0,
                                      !.fret = "all_next"] \in Locals
    BY <2>0 DEF Locals
  <2>6. /\ l.shard < NumShards => [l EXCEPT !.shard = @ + 1] \in Locals
        /\ l.aret \in Pcs
    BY <2>0, ShardAssumption DEF Locals, Shards, Pcs
  <2>1. pc' \in [Threads -> Pcs] /\ loc' \in [Threads -> Locals]
    BY <1>0, <1>2, StepType, <2>0, <2>5, <2>6 DEF FlushAllNext, Pcs, l
  <2> QED
    BY <1>2, <2>1 DEF FlushAllNext, TypeOK, lifeVars, shardVars, journalVars, admissionVars
<1>3. CASE CompactCheck(t)
  <2>1. pc' \in [Threads -> Pcs] /\ loc' \in [Threads -> Locals]
    BY <1>0, <1>3, StepType, LocalsUpdate DEF CompactCheck, Pcs
  <2> QED
    BY <1>3, <2>1 DEF CompactCheck, TypeOK, lifeVars, shardVars, journalVars, admissionVars
<1>4. CASE CompactPause(t)
  <2>1. pc' \in [Threads -> Pcs] /\ loc' \in [Threads -> Locals]
    BY <1>0, <1>4, StepType DEF CompactPause, Pcs
  <2> QED
    BY <1>4, <2>1 DEF CompactPause, TypeOK, lifeVars, shardVars, journalVars
<1>5. CASE CompactDrain(t)
  <2>1. pc' \in [Threads -> Pcs] /\ loc' \in [Threads -> Locals]
    BY <1>0, <1>5, StepType, LocalsUpdate DEF CompactDrain, DrainInFlightWrites, Pcs
  <2> QED
    BY <1>5, <2>1 DEF CompactDrain, DrainInFlightWrites, TypeOK, lifeVars, shardVars,
       journalVars, admissionVars
<1>6. CASE CompactScan(t)
  <2>5. loc[t].shard \in Shards /\ loc[t].sum \in Int
    BY <1>0 DEF Locals
  <2>0. /\ loc[t].sum + dirtyCount[loc[t].shard] \in Int
        /\ loc[t].shard < NumShards => loc[t].shard + 1 \in Shards
    BY <2>5, ShardAssumption DEF Shards, TypeOK
  <2>1. pc' \in [Threads -> Pcs] /\ loc' \in [Threads -> Locals]
    BY <1>0, <1>6, StepType, LocalsUpdate, <2>0, <2>5 DEF CompactScan, SumDirty, Pcs
  <2> QED
    BY <1>6, <2>1 DEF CompactScan, SumDirty, TypeOK, lifeVars, shardVars, journalVars,
       admissionVars
<1>7. CASE CompactTruncate(t)
  <2>1. pc' \in [Threads -> Pcs] /\ loc' \in [Threads -> Locals]
    BY <1>0, <1>7, StepType, LocalsUpdate DEF CompactTruncate, Pcs
  <2>2. Record("Torn", AnyKey, NoValue, 0) \in Records
    BY KeysAssumption DEF AnyKey, Record, Records, RecordTypes, Stored
  <2>3. /\ journal' \in Seq(Records) /\ recordCount' \in Nat /\ faults' \in Nat
        /\ inDoubt' \subseteq Keys
    <3> HIDE DEF Record
    <3> QED BY <1>7, <2>2, JournalType DEF CompactTruncate, journalVars, TypeOK
  <2> QED
    BY <1>7, <2>1, <2>3 DEF CompactTruncate, TypeOK, lifeVars, shardVars
<1>8. CASE CompactResume(t)
  <2>1. pc' \in [Threads -> Pcs] /\ loc' \in [Threads -> Locals]
    BY <1>0, <1>8, StepType, LocalsUpdate DEF CompactResume, Pcs
  <2> QED
    BY <1>8, <2>1 DEF CompactResume, TypeOK, lifeVars, shardVars, journalVars
<1> QED
  BY <1>1, <1>2, <1>3, <1>4, <1>5, <1>6, <1>7, <1>8 DEF FlushAllStep

\* and of a Shutdown.
LEMMA ShutdownType == ASSUME TypeOK, NEW t \in Threads, ShutdownStep(t) PROVE TypeOK'
<1>0. pc \in [Threads -> Pcs] /\ loc \in [Threads -> Locals] /\ loc[t] \in Locals
  BY DEF TypeOK
<1>s. 1 \in Shards
  BY ShardAssumption DEF Shards
<1>1. CASE ShutdownDrain(t)
  <2>1. pc' \in [Threads -> Pcs] /\ loc' \in [Threads -> Locals]
    BY <1>0, <1>1, StepType DEF ShutdownDrain, Pcs
  <2> QED
    BY <1>1, <2>1 DEF ShutdownDrain, TypeOK, shardVars, journalVars, admissionVars
<1>2. CASE ShutdownJoin(t)
  <2>1. pc' \in [Threads -> Pcs] /\ loc' \in [Threads -> Locals]
    BY <1>0, <1>2, StepType, <1>s DEF ShutdownJoin, StartFlushAll, Locals, Pcs
  <2> QED
    BY <1>2, <2>1 DEF ShutdownJoin, TypeOK, lifeVars, shardVars, journalVars, admissionVars
<1>3. CASE ShutdownStopped(t)
  <2>1. pc' \in [Threads -> Pcs] /\ loc' \in [Threads -> Locals]
    BY <1>0, <1>3, StepType, LocalsUpdate DEF ShutdownStopped, Pcs
  <2> QED
    BY <1>3, <2>1 DEF ShutdownStopped, TypeOK, Lifecycles, shardVars, journalVars,
       admissionVars
<1>4. CASE ShutdownScan(t)
  <2>5. loc[t].shard \in Shards /\ loc[t].sum \in Int
    BY <1>0 DEF Locals
  <2>0. /\ loc[t].sum + dirtyCount[loc[t].shard] \in Int
        /\ loc[t].shard < NumShards => loc[t].shard + 1 \in Shards
    BY <2>5, ShardAssumption DEF Shards, TypeOK
  <2>1. pc' \in [Threads -> Pcs] /\ loc' \in [Threads -> Locals]
    BY <1>0, <1>4, StepType, LocalsUpdate, <2>0, <2>5 DEF ShutdownScan, SumDirty, Pcs
  <2> QED
    BY <1>4, <2>1 DEF ShutdownScan, SumDirty, TypeOK, lifeVars, shardVars, journalVars,
       admissionVars
<1>5. CASE ShutdownTruncate(t)
  <2>1. pc' \in [Threads -> Pcs] /\ loc' \in [Threads -> Locals]
    BY <1>0, <1>5, StepType DEF ShutdownTruncate, Pcs
  <2>2. Record("Torn", AnyKey, NoValue, 0) \in Records
    BY KeysAssumption DEF AnyKey, Record, Records, RecordTypes, Stored
  <2>3. /\ journal' \in Seq(Records) /\ recordCount' \in Nat /\ faults' \in Nat
        /\ inDoubt' \subseteq Keys
    <3> HIDE DEF Record
    <3> QED BY <1>5, <2>2, JournalType DEF ShutdownTruncate, journalVars, TypeOK
  <2> QED
    BY <1>5, <2>1, <2>3 DEF ShutdownTruncate, TypeOK, lifeVars, shardVars, admissionVars
<1> QED
  BY <1>1, <1>2, <1>3, <1>4, <1>5 DEF ShutdownStep

\* Every variable of the engine always has its type, whatever the threads do, whichever
\* I/O operations fail and however often the process dies.
THEOREM TypeCorrect == Spec => []TypeOK
<1>1. Init => TypeOK
  <2> SUFFICES ASSUME Init PROVE TypeOK
    OBVIOUS
  <2>1. NoEntry \in Entries
    BY DEF NoEntry, Entries, Stored
  <2>2. replay \in [pos : Nat, pending : [Keys -> Entries], done : BOOLEAN]
    BY <2>1 DEF Init, NotReplayed
  <2>3. /\ entry \in [Keys -> Entries] /\ lru \in [Keys -> Nat]
        /\ dirtyCount \in [Shards -> Int] /\ fence \in [Shards -> Nat]
    BY <2>1 DEF Init
  <2>4. pc \in [Threads -> Pcs] /\ loc \in [Threads -> Locals]
    BY NoLocalsType DEF Init, Pcs
  <2>5. lifecycle \in Lifecycles /\ bgStop \in BOOLEAN /\ paused \in BOOLEAN
    BY DEF Init, Lifecycles
  <2>6. /\ versionCounter \in Nat /\ crashes \in Nat /\ journal \in Seq(Records)
        /\ recordCount \in Nat /\ faults \in Nat /\ inFlight \in Nat /\ inDoubt \subseteq Keys
    BY DEF Init
  <2>7. backing \in [Keys -> Stored] /\ budget \in [Threads -> Nat]
    BY ThreadAssumption DEF Init
  <2> QED
    BY <2>2, <2>3, <2>4, <2>5, <2>6, <2>7 DEF TypeOK
<1>2. TypeOK /\ [Next]_vars => TypeOK'
  <2> SUFFICES ASSUME TypeOK, [Next]_vars PROVE TypeOK'
    OBVIOUS
  <2>1. CASE UNCHANGED vars
    BY <2>1 DEF TypeOK, vars, lifeVars, shardVars, journalVars, admissionVars, threadVars
  <2>2. CASE Next
    BY <2>1, <2>2, RecoverType, BeginType, PutType, GetType, InvalidateType, FlushType,
       FlushAllType, ShutdownType DEF Next, AtRest, Continue
  <2> QED
    BY <2>1, <2>2
<1> QED
  BY <1>1, <1>2, PTL DEF Spec

-----------------------------------------------------------------------------
(* DirtyCountExact is inductive together with TypeOK: every action that    *)
(* changes an entry's state changes the count by the same amount, and      *)
(* eviction takes Clean entries only.                                      *)

\* The entries of shard s that are not Clean.
Unclean(ent, s) == {k \in InShard(s) : NonClean(ent[k])}

\* Unclean is a finite set, and its size is a number.
LEMMA UncleanFinite ==
    ASSUME NEW ent, NEW s
    PROVE  IsFiniteSet(Unclean(ent, s)) /\ Cardinality(Unclean(ent, s)) \in Nat
BY KeySubsetCardinality DEF Unclean, InShard

\* Eviction picks Clean entries only.
LEMMA VictimsClean ==
    ASSUME NEW ent, NEW pos, NEW s, NEW dirty, NEW k \in Victims(ent, pos, s, dirty)
    PROVE  ent[k].state = "Clean"
BY DEF Victims, OldestClean

\* The removal of Clean entries leaves the others as they are.
LEMMA SettleUnclean ==
    ASSUME NEW ent \in [Keys -> Entries], NEW pos, NEW out, Settle(ent, pos, out),
           \A k \in out : ent[k].state = "Clean", NEW s
    PROVE  Unclean(entry', s) = Unclean(ent, s)
BY DEF Settle, Unclean, InShard, NonClean, NoEntry

\* When only the entry of k changes, the number of entries that are not Clean changes
\* by what k contributes.
LEMMA UncleanUpdate ==
    ASSUME NEW ent \in [Keys -> Entries], NEW new \in [Keys -> Entries], NEW k \in Keys,
           \A j \in Keys \ {k} : new[j] = ent[j], NEW s \in Shards
    PROVE  Cardinality(Unclean(new, s)) =
             IF s = ShardOf[k]
             THEN Cardinality(Unclean(ent, s)) - (IF NonClean(ent[k]) THEN 1 ELSE 0)
                                               + (IF NonClean(new[k]) THEN 1 ELSE 0)
             ELSE Cardinality(Unclean(ent, s))
<1>1. CASE s # ShardOf[k]
  <2>1. Unclean(new, s) = Unclean(ent, s)
    BY <1>1 DEF Unclean, InShard
  <2> QED BY <1>1, <2>1
<1>2. CASE s = ShardOf[k]
  <2> DEFINE rest == Unclean(ent, s) \ {k}
  <2>1. IsFiniteSet(rest) /\ Cardinality(rest) \in Nat /\ k \notin rest
    BY KeySubsetCardinality DEF Unclean, InShard
  <2>2. Cardinality(rest \cup {k}) = Cardinality(rest) + 1
    BY <2>1, FS_AddElement
  <2>3. Unclean(ent, s) = IF NonClean(ent[k]) THEN rest \cup {k} ELSE rest
    BY <1>2 DEF Unclean, InShard
  <2>4. Unclean(new, s) = IF NonClean(new[k]) THEN rest \cup {k} ELSE rest
    BY <1>2 DEF Unclean, InShard
  <2> HIDE DEF rest
  <2>5. Cardinality(Unclean(ent, s)) =
          Cardinality(rest) + (IF NonClean(ent[k]) THEN 1 ELSE 0)
    BY <2>1, <2>2, <2>3
  <2>6. Cardinality(Unclean(new, s)) =
          Cardinality(rest) + (IF NonClean(new[k]) THEN 1 ELSE 0)
    BY <2>1, <2>2, <2>4
  <2> QED BY <1>2, <2>1, <2>5, <2>6
<1> QED BY <1>1, <1>2

\* DirtyCountExact in terms of Unclean.
LEMMA DirtyCountUnclean ==
    DirtyCountExact <=> \A s \in Shards : dirtyCount[s] = Cardinality(Unclean(entry, s))
BY DEF DirtyCountExact, Unclean

\* An insertion keeps the count exact.
LEMMA InsertDirty ==
    ASSUME TypeOK, DirtyCountExact, NEW k \in Keys, NEW v \in Stored, NEW n \in Nat,
           NEW state \in {"Clean", "Dirty"}, InsertOrUpdateLocked(k, v, n, state)
    PROVE  DirtyCountExact'
<1>1. CASE UNCHANGED shardVars
  BY <1>1 DEF DirtyCountExact, shardVars
<1>2. CASE ~UNCHANGED shardVars
  <2> DEFINE s == ShardOf[k]
             ent == [entry EXCEPT ![k] = [val |-> v, ver |-> n, state |-> state]]
             pos == [lru EXCEPT ![k] = 0]
             dirty == DirtyAfter(s, entry[k], state)
  <2>1. /\ Settle(ent, pos, Victims(ent, pos, s, dirty))
        /\ dirtyCount' = [dirtyCount EXCEPT ![s] = dirty]
    BY <1>2 DEF InsertOrUpdateLocked
  <2>2. ent \in [Keys -> Entries] /\ entry \in [Keys -> Entries]
    BY DEF TypeOK, Entries
  <2>3. s \in Shards /\ dirtyCount \in [Shards -> Int]
    BY ShardAssumption DEF TypeOK
  <2>4. NonClean(ent[k]) <=> state # "Clean"
    BY <2>2 DEF NonClean, TypeOK
  <2>5. \A j \in Keys \ {k} : ent[j] = entry[j]
    BY DEF TypeOK
  <2>6. \A r \in Shards : dirtyCount[r] = Cardinality(Unclean(entry, r))
    BY DirtyCountUnclean
  <2> HIDE DEF ent, pos, s
  <2>7. ASSUME NEW r \in Shards PROVE Unclean(entry', r) = Unclean(ent, r)
    BY <2>1, <2>2, SettleUnclean, VictimsClean
  <2>8. ASSUME NEW r \in Shards PROVE dirtyCount'[r] = Cardinality(Unclean(ent, r))
    <3>1. Cardinality(Unclean(ent, r)) =
             IF r = s
             THEN Cardinality(Unclean(entry, r)) - (IF NonClean(entry[k]) THEN 1 ELSE 0)
                                                 + (IF NonClean(ent[k]) THEN 1 ELSE 0)
             ELSE Cardinality(Unclean(entry, r))
      BY <2>2, <2>5, UncleanUpdate DEF s
    <3>2. dirtyCount[r] = Cardinality(Unclean(entry, r))
      BY <2>6
    <3>3. dirtyCount'[r] = IF r = s THEN dirty ELSE dirtyCount[r]
      BY <2>1, <2>3
    <3> QED BY <2>4, <3>1, <3>2, <3>3 DEF DirtyAfter
  <2>9. \A r \in Shards : dirtyCount'[r] = Cardinality(Unclean(entry', r))
    BY <2>7, <2>8
  <2> QED BY <2>9 DEF DirtyCountExact, Unclean, InShard
<1> QED BY <1>1, <1>2

\* A step that removes nothing but Clean entries keeps the count exact.
LEMMA EvictDirty ==
    ASSUME TypeOK, DirtyCountExact, NEW pos, NEW out, Settle(entry, pos, out),
           \A k \in out : entry[k].state = "Clean", dirtyCount' = dirtyCount
    PROVE  DirtyCountExact'
<1>1. entry \in [Keys -> Entries]
  BY DEF TypeOK
<1>2. \A s \in Shards : Unclean(entry', s) = Unclean(entry, s)
  BY <1>1, SettleUnclean
<1> QED
  BY <1>2 DEF DirtyCountExact, Unclean, InShard

\* So does a step that changes the entry of one key and the count accordingly.
LEMMA UpdateDirty ==
    ASSUME TypeOK, TypeOK', DirtyCountExact, NEW k \in Keys,
           \A j \in Keys \ {k} : entry'[j] = entry[j],
           NonClean(entry[k]),
           dirtyCount' = IF NonClean(entry'[k]) THEN dirtyCount
                         ELSE [dirtyCount EXCEPT ![ShardOf[k]] = @ - 1]
    PROVE  DirtyCountExact'
<1> DEFINE new == entry'
<1>1. entry \in [Keys -> Entries] /\ new \in [Keys -> Entries]
  BY DEF TypeOK
<1>2. ShardOf[k] \in Shards /\ dirtyCount \in [Shards -> Int]
  BY ShardAssumption DEF TypeOK
<1>3. ASSUME NEW s \in Shards PROVE dirtyCount'[s] = Cardinality(Unclean(new, s))
  <2>1. \A j \in Keys \ {k} : new[j] = entry[j]
    OBVIOUS
  <2>2. dirtyCount' = IF NonClean(new[k]) THEN dirtyCount
                      ELSE [dirtyCount EXCEPT ![ShardOf[k]] = @ - 1]
    BY DEF NonClean
  <2>3. dirtyCount[s] = Cardinality(Unclean(entry, s))
    BY DirtyCountUnclean
  <2> HIDE DEF new
  <2>4. Cardinality(Unclean(new, s)) =
          IF s = ShardOf[k]
          THEN Cardinality(Unclean(entry, s)) - (IF NonClean(entry[k]) THEN 1 ELSE 0)
                                              + (IF NonClean(new[k]) THEN 1 ELSE 0)
          ELSE Cardinality(Unclean(entry, s))
    BY <1>1, <2>1, UncleanUpdate
  <2> QED BY <1>2, <2>2, <2>3, <2>4
<1> QED
  BY <1>3 DEF DirtyCountExact, Unclean, InShard

\* The actions that touch a shard; every other step leaves the shards alone.
ShardStep(t) ==
    \/ PutCommit(t) \/ RelievePeek(t) \/ RelieveAfter(t) \/ GetBegin(t) \/ GetFill(t)
    \/ InvalidateCommit(t) \/ FlushPeek(t) \/ FlushCommit(t) \/ RevertFlushInProgressLocked(t)

\* ShardStep, ReplayEnd and Crash are all of them.
LEMMA ShardFrame ==
    ASSUME [Next]_vars
    PROVE  UNCHANGED shardVars \/ ReplayEnd \/ Crash \/ \E t \in Threads : ShardStep(t)
<1>1. CASE UNCHANGED vars
  BY <1>1 DEF vars
<1>2. CASE Recover
  BY <1>2 DEF Recover, ReplayRecord, ReplayFails, MarkRecoveryComplete
<1>3. ASSUME NEW t \in Threads, Begin(t) PROVE UNCHANGED shardVars \/ ShardStep(t)
  BY <1>3 DEF Begin, PutBegin, InvalidateBegin, FlushBegin, FlushAllBegin, ShutdownBegin,
     ShardStep
<1>4. ASSUME NEW t \in Threads, PutStep(t) \/ GetStep(t) \/ InvalidateStep(t)
      PROVE  UNCHANGED shardVars \/ ShardStep(t)
  BY <1>4 DEF PutStep, GetStep, InvalidateStep, PutAdmit, InvalidateAdmit, TryAdmitWrite,
     PutAppend, ReleaseWriteAdmission, GetRead, InvalidatePeek, InvalidateAppend,
     InvalidateRemove, ShardStep
<1>5. ASSUME NEW t \in Threads, FlushStep(t)
      PROVE  UNCHANGED shardVars \/ ShardStep(t)
  BY <1>5 DEF FlushStep, FlushIntent, FlushComplete, FlushAppend, FlushPut, ShardStep
<1>6. ASSUME NEW t \in Threads, FlushAllStep(t) \/ ShutdownStep(t)
      PROVE  UNCHANGED shardVars
  BY <1>6 DEF FlushAllStep, ShutdownStep, FlushAllCollect, FlushAllNext, CompactCheck,
     CompactPause, CompactDrain, DrainInFlightWrites, CompactScan, SumDirty, CompactTruncate,
     CompactResume, ShutdownDrain, ShutdownJoin, ShutdownStopped, ShutdownScan,
     ShutdownTruncate
<1> QED
  BY <1>1, <1>2, <1>3, <1>4, <1>5, <1>6 DEF Next, AtRest, Continue

\* Every step keeps the count exact.
LEMMA DirtyCountStep ==
    ASSUME TypeOK, TypeOK', DirtyCountExact, [Next]_vars
    PROVE  DirtyCountExact'
<1>0. ASSUME NEW t \in Threads
      PROVE  /\ loc[t].key \in Keys /\ loc[t].fkey \in Keys
             /\ loc[t].val \in Stored /\ loc[t].ver \in Nat
  BY DEF TypeOK, Locals
<1>1. CASE UNCHANGED shardVars
  BY <1>1 DEF DirtyCountExact, shardVars
<1>2. CASE ReplayEnd
  <2> DEFINE restored == {k \in Keys : replay.pending[k].state # "Absent"}
             ent == [k \in Keys |-> IF k \in restored
                                    THEN [replay.pending[k] EXCEPT !.state = "Dirty"]
                                    ELSE NoEntry]
  <2>1. PICK order : Settle(ent, order, {})
    BY <1>2 DEF ReplayEnd
  <2>2. dirtyCount' = [s \in Shards |-> Cardinality(Indexed(ent, s))]
    BY <1>2 DEF ReplayEnd
  <2>0. replay.pending \in [Keys -> Entries] /\ NoEntry \in Entries
    BY DEF TypeOK, Entries, NoEntry, Stored
  <2>3. ent \in [Keys -> Entries]
    BY <2>0 DEF Entries
  <2>4. \A k \in Keys : ent[k].state \in {"Dirty", "Absent"}
    BY DEF TypeOK, Entries, NoEntry
  <2> HIDE DEF ent
  <2>5. \A s \in Shards : Unclean(ent, s) = Indexed(ent, s)
    BY <2>4 DEF Unclean, Indexed, NonClean, InShard
  <2>6. \A s \in Shards : Unclean(entry', s) = Unclean(ent, s)
    BY <2>1, <2>3, SettleUnclean
  <2> QED
    BY <2>2, <2>5, <2>6 DEF DirtyCountExact, Unclean, InShard
<1>3. CASE Crash
  <2>1. \A s \in Shards : Unclean(entry', s) = {}
    BY <1>3 DEF Crash, Unclean, InShard, NonClean, NoEntry
  <2>2. \A s \in Shards : dirtyCount'[s] = 0
    BY <1>3 DEF Crash
  <2> QED
    BY <2>1, <2>2, FS_EmptySet DEF DirtyCountExact, Unclean, InShard
<1>4. ASSUME NEW t \in Threads, PutCommit(t) PROVE DirtyCountExact'
  BY <1>0, <1>4, InsertDirty DEF PutCommit
<1>5. ASSUME NEW t \in Threads, RelievePeek(t) \/ RelieveAfter(t) PROVE DirtyCountExact'
  <2>1. UNCHANGED shardVars \/ EvictCleanEntriesLocked(ShardOf[loc[t].key])
    BY <1>5 DEF RelievePeek, RelieveAfter
  <2> QED
    BY <1>1, <2>1, EvictDirty, VictimsClean DEF EvictCleanEntriesLocked
<1>6. ASSUME NEW k \in Keys, Touch(k) PROVE DirtyCountExact'
  BY <1>6, EvictDirty DEF Touch
<1>7. ASSUME NEW t \in Threads, GetBegin(t) \/ GetFill(t) PROVE DirtyCountExact'
  BY <1>0, <1>1, <1>6, <1>7, InsertDirty DEF GetBegin, GetFill
<1>8. ASSUME NEW t \in Threads, InvalidateCommit(t) PROVE DirtyCountExact'
  <2> DEFINE k == loc[t].key
  <2>1. CASE Cached(k) /\ entry[k].ver = loc[t].ver /\ NonClean(entry[k])
    <3>1. \A j \in Keys \ {k} : entry'[j] = entry[j]
      BY <1>8, <2>1 DEF InvalidateCommit, Settle, TypeOK
    <3>2. ~NonClean(entry'[k])
      BY <1>0, <1>8, <2>1 DEF InvalidateCommit, Settle, NonClean, NoEntry
    <3>3. dirtyCount' = [dirtyCount EXCEPT ![ShardOf[k]] = @ - 1]
      BY <1>8, <2>1 DEF InvalidateCommit
    <3> QED BY <1>0, <2>1, <3>1, <3>2, <3>3, UpdateDirty
  <2>2. CASE ~(Cached(k) /\ entry[k].ver = loc[t].ver /\ NonClean(entry[k]))
    <3>1. PICK out \in SUBSET {k} : Settle(entry, lru, out)
                                    /\ (out # {} => Cached(k) /\ entry[k].ver = loc[t].ver)
      BY <1>8 DEF InvalidateCommit
    <3>2. dirtyCount' = dirtyCount
      BY <1>8, <2>2 DEF InvalidateCommit
    <3>3. \A j \in out : entry[j].state = "Clean"
      BY <1>0, <2>2, <3>1 DEF Cached, NonClean, TypeOK, Entries
    <3> QED BY <3>1, <3>2, <3>3, EvictDirty
  <2> QED BY <2>1, <2>2
<1>9. ASSUME NEW t \in Threads,
             FlushPeek(t) \/ FlushCommit(t) \/ RevertFlushInProgressLocked(t)
      PROVE  DirtyCountExact'
  <2> DEFINE k == loc[t].fkey
  <2>1. CASE UNCHANGED <<entry, dirtyCount>>
    BY <2>1 DEF DirtyCountExact
  <2>2. CASE /\ NonClean(entry[k])
             /\ \/ SetState(k, "FlushInProgress") /\ dirtyCount' = dirtyCount
                \/ SetState(k, "Dirty") /\ dirtyCount' = dirtyCount
                \/ /\ SetState(k, "Clean")
                   /\ dirtyCount' = [dirtyCount EXCEPT ![ShardOf[k]] = @ - 1]
    <3>1. \A j \in Keys \ {k} : entry'[j] = entry[j]
      BY <2>2 DEF SetState, TypeOK
    <3>2. entry \in [Keys -> Entries]
      BY DEF TypeOK
    <3>3. dirtyCount' = IF NonClean(entry'[k]) THEN dirtyCount
                        ELSE [dirtyCount EXCEPT ![ShardOf[k]] = @ - 1]
      BY <1>0, <2>2, <3>2 DEF SetState, NonClean, Entries
    <3> QED BY <1>0, <2>2, <3>1, <3>3, UpdateDirty
  <2> QED
    BY <1>9, <2>1, <2>2 DEF FlushPeek, FlushCommit, RevertFlushInProgressLocked, Claimable,
       StillMine, NonClean
<1> QED
  BY <1>1, <1>2, <1>3, <1>4, <1>5, <1>7, <1>8, <1>9, ShardFrame DEF ShardStep

\* The count that decides whether the journal may be truncated is exact for every number
\* of threads, keys and shards, every capacity and any faults and crashes: the test
\* "remainingDirty == 0" of TryCompactJournalIfFullyClean and Shutdown means what it says.
THEOREM DirtyCountIsExact == Spec => []DirtyCountExact
<1>1. Init => DirtyCountExact
  <2> SUFFICES ASSUME Init PROVE DirtyCountExact
    OBVIOUS
  <2>1. \A s \in Shards : Unclean(entry, s) = {} /\ dirtyCount[s] = 0
    BY DEF Init, Unclean, InShard, NonClean, NoEntry
  <2> QED
    BY <2>1, FS_EmptySet, DirtyCountUnclean
<1>2. TypeOK /\ TypeOK' /\ DirtyCountExact /\ [Next]_vars => DirtyCountExact'
  BY DirtyCountStep
<1> QED
  BY <1>1, <1>2, TypeCorrect, PTL DEF Spec
=============================================================================
