---------------------- MODULE CacheEngineJournal_proofs ----------------------
(***************************************************************************)
(* The cache engine, its journal and its store: when they agree.           *)
(*                                                                         *)
(*  - The write-ahead rule: when the FlushAll of at most one caller        *)
(*    compacts at a time, the journal is never truncated over data that is *)
(*    not in the backing store.                                            *)
(*  - Clean entries: when the uses of the store for one key are kept       *)
(*    apart, a Clean entry is what the store holds.                        *)
(*  - Recovery: with the Puts of one key kept apart too, the newest Put    *)
(*    wins and a crash loses nothing of the keys whose records are neither *)
(*    hidden by a torn frame nor undone by an Invalidate in the journal.   *)
(***************************************************************************)
EXTENDS CacheEngineOrder_proofs, WellFoundedInduction

\* A thread that pauses admission, from its pause to its resume.
CompactorPcs == {"compact_drain", "compact_scan", "compact_truncate", "compact_resume"}

\* A thread that compacts at the end of its own FlushAll, not of the one in Shutdown.
Compacts(t) == pc[t] \in CompactorPcs /\ loc[t].aret = "idle"

\* The condition on which everything here rests: no two callers of FlushAll compact at the
\* same time.  TryCompactJournalIfFullyClean does not ensure it (one compactor's resume
\* lifts the pause of the other), and the rule fails without it.  The compaction within
\* Shutdown may overlap with another: the engine then admits no writes, paused or not.
OneCompactor == \A t, u \in Threads : Compacts(t) /\ Compacts(u) => t = u

\* A thread past the drain of its Shutdown, its last FlushAll included.
ShutPcs == {"shut_join", "shut_stopped", "shut_scan", "shut_truncate"}
Drained(t) == pc[t] \in ShutPcs \/ loc[t].aret = "shut_stopped"

\* The entries of the shards below n, those a scan has behind it, are all flushed.
CleanBelow(n) == \A k \in Keys : ShardOf[k] < n => ~NonClean(entry[k])

\* What a thread in compaction or Shutdown can rely on.
LoopSafe(t) ==
    /\ pc[t] = "idle" => loc[t].aret = "idle"
    /\ pc[t] \in CompactorPcs => paused \/ lifecycle # "Ready"
    /\ pc[t] \in {"compact_scan", "compact_truncate"} => inFlight = 0
    /\ pc[t] = "shut_drain" => lifecycle # "Ready"
    /\ Drained(t) => lifecycle # "Ready" /\ inFlight = 0
    /\ pc[t] \in {"compact_scan", "shut_scan"} =>
          loc[t].sum >= 0 /\ (loc[t].sum = 0 => CleanBelow(loc[t].shard))
    /\ pc[t] \in {"compact_truncate", "shut_truncate"} => \A k \in Keys : ~NonClean(entry[k])

LoopInv == \A t \in Threads : LoopSafe(t)

\* Everything that replay still holds is in the journal.
PendingJournaled ==
    ~replay.done => \A k \in Keys : replay.pending[k].state # "Absent" =>
        Journaled(k, replay.pending[k].val, replay.pending[k].ver)

-----------------------------------------------------------------------------
(* What a step does to the threads and to the shared state.                *)

\* A step of a call moves one thread, or none.
LEMMA CallMoves ==
    ASSUME NEW t \in Threads, Begin(t) \/ Continue(t)
    PROVE  UNCHANGED threadVars \/ \E l, r : Step(t, l, r)
<1>1. CASE Begin(t)
  BY <1>1 DEF Begin, PutBegin, GetBegin, InvalidateBegin, FlushBegin, FlushAllBegin,
     StartFlushAll, ShutdownBegin
<1>2. CASE PutStep(t)
  BY <1>2 DEF PutStep, PutAdmit, TryAdmitWrite, PutAppend, PutCommit, RelievePeek,
     RelieveAfter, PutRelieved, ReleaseWriteAdmission
<1>3. CASE GetStep(t) \/ InvalidateStep(t)
  BY <1>3 DEF GetStep, InvalidateStep, GetRead, GetFill, InvalidateAdmit, TryAdmitWrite,
     InvalidatePeek, InvalidateAppend, InvalidateRemove, InvalidateCommit
<1>4. CASE FlushStep(t)
  BY <1>4 DEF FlushStep, FlushPeek, FlushIntent, FlushPut, FlushComplete, FlushAppend,
     FlushCommit, RevertFlushInProgressLocked, FlushReturn
<1>5. CASE FlushAllStep(t)
  BY <1>5 DEF FlushAllStep, FlushAllCollect, FlushAllNext, CompactCheck, CompactPause,
     CompactDrain, DrainInFlightWrites, CompactScan, SumDirty, CompactTruncate, CompactResume
<1>6. CASE ShutdownStep(t)
  BY <1>6 DEF ShutdownStep, ShutdownDrain, ShutdownJoin, StartFlushAll, ShutdownStopped,
     ShutdownScan, SumDirty, ShutdownTruncate
<1> QED
  BY <1>1, <1>2, <1>3, <1>4, <1>5, <1>6 DEF Continue

\* The other threads stay where they are.
LEMMA OthersStay ==
    ASSUME TypeOK, NEW t \in Threads, Begin(t) \/ Continue(t), NEW u \in Threads \ {t}
    PROVE  pc'[u] = pc[u] /\ loc'[u] = loc[u]
BY CallMoves, StepEffect DEF threadVars

\* No write is admitted while admission is paused or the engine is not ready, and only a
\* compactor lifts the pause.
LEMMA AdmissionFrame ==
    ASSUME TypeOK, NEW t \in Threads, Begin(t) \/ Continue(t)
    PROVE  /\ (paused \/ lifecycle # "Ready") /\ inFlight = 0 => inFlight' = 0
           /\ paused => paused' \/ pc[t] \in CompactorPcs
<1>1. CASE UNCHANGED admissionVars
  BY <1>1 DEF admissionVars
<1>2. CASE PutAdmit(t) \/ InvalidateAdmit(t)
  BY <1>2 DEF PutAdmit, InvalidateAdmit, TryAdmitWrite
<1>3. CASE ReleaseWriteAdmission(t)
  BY <1>3 DEF ReleaseWriteAdmission
<1>4. CASE CompactPause(t) \/ CompactTruncate(t) \/ CompactResume(t)
  BY <1>4 DEF CompactPause, CompactTruncate, CompactResume, CompactorPcs
<1>5. CASE Begin(t)
  BY <1>1, <1>5 DEF Begin, PutBegin, GetBegin, InvalidateBegin, FlushBegin, FlushAllBegin,
     ShutdownBegin
<1>6. CASE PutStep(t) \/ GetStep(t) \/ InvalidateStep(t)
  BY <1>1, <1>2, <1>3, <1>6 DEF PutStep, GetStep, InvalidateStep, PutAppend, PutCommit,
     RelievePeek, RelieveAfter, GetRead, GetFill, InvalidatePeek, InvalidateAppend,
     InvalidateRemove, InvalidateCommit
<1>7. CASE FlushStep(t) \/ ShutdownStep(t)
  BY <1>1, <1>7 DEF FlushStep, FlushPeek, FlushIntent, FlushPut, FlushComplete, FlushAppend,
     FlushCommit, RevertFlushInProgressLocked, ShutdownStep, ShutdownDrain, ShutdownJoin,
     ShutdownStopped, ShutdownScan, SumDirty, ShutdownTruncate
<1>8. CASE FlushAllStep(t)
  BY <1>1, <1>4, <1>8 DEF FlushAllStep, FlushAllCollect, FlushAllNext, CompactCheck,
     CompactDrain, DrainInFlightWrites, CompactScan, SumDirty
<1> QED
  BY <1>5, <1>6, <1>7, <1>8 DEF Continue

\* The entry of k that is unflushed after a step was so before, with the same value and
\* version, or a Put has just committed it.
Committed(t, k) ==
    /\ pc[t] = "put_commit" /\ loc[t].key = k
    /\ entry'[k].val = loc[t].val /\ entry'[k].ver = loc[t].ver
WasUnflushed(k) ==
    NonClean(entry[k]) /\ entry'[k].val = entry[k].val /\ entry'[k].ver = entry[k].ver

\* An insertion makes one entry unflushed, if it is that of a Put.
LEMMA InsertUnflushed ==
    ASSUME TypeOK, NEW j \in Keys, NEW v \in Stored, NEW n \in Nat,
           NEW state \in {"Clean", "Dirty"}, InsertOrUpdateLocked(j, v, n, state),
           NEW k \in Keys, NonClean(entry'[k])
    PROVE  \/ WasUnflushed(k)
           \/ k = j /\ state = "Dirty" /\ entry'[k].val = v /\ entry'[k].ver = n
<1>0. ~NonClean(NoEntry)
  BY DEF NonClean, NoEntry
<1>1. CASE UNCHANGED shardVars
  BY <1>1 DEF shardVars, WasUnflushed
<1>2. CASE ~UNCHANGED shardVars
  <2>1. InsertResult(j, v, n, state)
    BY <1>2, InsertEffect
  <2>2. CASE k # j
    BY <1>0, <2>1, <2>2 DEF InsertResult, WasUnflushed
  <2>3. CASE k = j
    BY <1>0, <2>1, <2>3 DEF InsertResult, NonClean
  <2> QED BY <2>2, <2>3
<1> QED BY <1>1, <1>2

\* Of all steps only the commit of a Put and the end of the replay make entries unflushed.
LEMMA UnflushedFrame ==
    ASSUME TypeOK, [Next]_vars, NEW k \in Keys, NonClean(entry'[k])
    PROVE  WasUnflushed(k) \/ ReplayEnd \/ \E t \in Threads : PutCommit(t) /\ Committed(t, k)
<1>0. ~NonClean(NoEntry)
  BY DEF NonClean, NoEntry
<1>1. ASSUME entry'[k] \in {entry[k], NoEntry} PROVE WasUnflushed(k)
  BY <1>0, <1>1 DEF WasUnflushed
<1>2. CASE Crash
  BY <1>0, <1>2 DEF Crash
<1>3. ASSUME NEW pos, NEW out, Settle(entry, pos, out) PROVE entry'[k] \in {entry[k], NoEntry}
  BY <1>3, SettleRemoves
<1>4. ASSUME NEW t \in Threads, PutCommit(t) PROVE WasUnflushed(k) \/ Committed(t, k)
  <2>1. /\ InsertOrUpdateLocked(loc[t].key, loc[t].val, loc[t].ver, "Dirty")
        /\ pc[t] = "put_commit"
    BY <1>4 DEF PutCommit
  <2> QED BY <2>1, HeldTypes, InsertUnflushed DEF Committed
<1>5. ASSUME NEW t \in Threads, GetFill(t), entry'[k] \notin {entry[k], NoEntry}
      PROVE  WasUnflushed(k)
  <2>1. InsertOrUpdateLocked(loc[t].key, loc[t].val, 0, "Clean")
    BY <1>3, <1>5 DEF GetFill, Touch, shardVars
  <2> QED BY <2>1, HeldTypes, InsertUnflushed
<1>6. ASSUME NEW t \in Threads,
             FlushPeek(t) \/ FlushCommit(t) \/ RevertFlushInProgressLocked(t)
      PROVE  WasUnflushed(k)
  <2>1. CASE UNCHANGED entry
    BY <1>1, <2>1
  <2>2. CASE NonClean(entry[loc[t].fkey]) /\ \E state : SetState(loc[t].fkey, state)
    <3>1. PICK state : SetState(loc[t].fkey, state)
      BY <2>2
    <3>2. CASE k = loc[t].fkey
      BY <2>2, <3>1, <3>2, SetStateEffect DEF WasUnflushed
    <3>3. CASE k # loc[t].fkey
      BY <1>1, <3>1, <3>3, SetStateEffect, HeldTypes
    <3> QED BY <3>2, <3>3
  <2> QED
    BY <1>6, <2>1, <2>2 DEF FlushPeek, FlushCommit, RevertFlushInProgressLocked, Claimable,
       StillMine, NonClean
<1>7. ASSUME NEW t \in Threads, ShardStep(t), ~PutCommit(t) PROVE WasUnflushed(k)
  <2>1. CASE RelievePeek(t) \/ RelieveAfter(t) \/ GetBegin(t) \/ InvalidateCommit(t)
    BY <1>1, <1>3, <2>1 DEF RelievePeek, RelieveAfter, EvictCleanEntriesLocked, GetBegin,
       Touch, InvalidateCommit, shardVars
  <2> QED BY <1>1, <1>5, <1>6, <1>7, <2>1 DEF ShardStep
<1>8. CASE UNCHANGED shardVars
  BY <1>1, <1>8 DEF shardVars
<1> QED
  BY <1>2, <1>4, <1>7, <1>8, ShardFrame

-----------------------------------------------------------------------------
(* Compaction and Shutdown.                                                *)

\* When the counter is zero no write is between admission and release.
LEMMA NoneAdmitted ==
    ASSUME InFlightExact, inFlight = 0, NEW t \in Threads
    PROVE  pc[t] \notin AdmittedPcs
<1>1. AdmittedThreads = {}
  BY AdmittedFinite, FS_EmptySet DEF InFlightExact, AdmittedThreads
<1> QED
  BY <1>1 DEF AdmittedThreads, Admitted

\* Then nothing becomes unflushed either, once the replay is over.
LEMMA CleanStays ==
    ASSUME TypeOK, StartUp, InFlightExact, inFlight = 0, [Next]_vars,
           NEW t \in Threads, Begin(t) \/ Continue(t), NEW k \in Keys, NonClean(entry'[k])
    PROVE  NonClean(entry[k])
<1>1. lifecycle \notin Unready
  BY CallReady DEF StartUp
<1>2. ~ReplayEnd
  BY <1>1 DEF ReplayEnd, Unready
<1>3. \A u \in Threads : ~PutCommit(u)
  BY NoneAdmitted DEF PutCommit, AdmittedPcs, PutPcs
<1> QED
  BY <1>2, <1>3, UnflushedFrame DEF WasUnflushed

\* What a step of some call leaves true for every thread in compaction or Shutdown.
LEMMA SharedStays ==
    ASSUME TypeOK, StartUp, InFlightExact, [Next]_vars, NEW t \in Threads,
           Begin(t) \/ Continue(t)
    PROVE  /\ lifecycle # "Ready" => lifecycle' # "Ready"
           /\ (paused \/ lifecycle # "Ready") /\ inFlight = 0 => inFlight' = 0
           /\ inFlight = 0 => \A k \in Keys : NonClean(entry'[k]) => NonClean(entry[k])
<1>1. lifecycle # "Ready" => lifecycle' # "Ready"
  BY CallLifecycle
<1> QED
  BY <1>1, AdmissionFrame, CleanStays

\* A step of one thread does not disturb another.
LEMMA LoopOthers ==
    ASSUME TypeOK, StartUp, InFlightExact, OneCompactor, LoopInv, [Next]_vars,
           NEW t \in Threads, Begin(t) \/ Continue(t), NEW u \in Threads \ {t}
    PROVE  LoopSafe(u)'
<1>1. pc'[u] = pc[u] /\ loc'[u] = loc[u]
  BY OthersStay
<1>2. LoopSafe(u)
  BY DEF LoopInv
<1>3. /\ lifecycle # "Ready" => lifecycle' # "Ready"
      /\ (paused \/ lifecycle # "Ready") /\ inFlight = 0 => inFlight' = 0
      /\ inFlight = 0 => \A k \in Keys : NonClean(entry'[k]) => NonClean(entry[k])
  BY SharedStays
<1>4. pc[u] \in CompactorPcs => /\ paused \/ lifecycle # "Ready"
                                /\ paused' \/ lifecycle' # "Ready"
  <2> SUFFICES ASSUME pc[u] \in CompactorPcs, lifecycle = "Ready" PROVE paused /\ paused'
    BY <1>2, <1>3 DEF LoopSafe
  <2>1. paused
    BY <1>2 DEF LoopSafe
  <2>2. \A w \in Threads : loc[w].aret = "idle"
    BY DEF TypeOK, Locals, LoopInv, LoopSafe, Drained
  <2>3. pc[t] \notin CompactorPcs
    BY <2>2 DEF OneCompactor, Compacts
  <2> QED BY <2>1, <2>3, AdmissionFrame
<1>5. pc[u] \in {"compact_scan", "compact_truncate", "shut_scan", "shut_truncate"} =>
        inFlight = 0
  BY <1>2 DEF LoopSafe, Drained, ShutPcs
<1>6. /\ pc'[u] = "idle" => loc'[u].aret = "idle"
      /\ pc'[u] \in CompactorPcs => paused' \/ lifecycle' # "Ready"
      /\ pc'[u] \in {"compact_scan", "compact_truncate"} => inFlight' = 0
      /\ pc'[u] = "shut_drain" => lifecycle' # "Ready"
      /\ Drained(u)' => lifecycle' # "Ready" /\ inFlight' = 0
  BY <1>1, <1>2, <1>3, <1>4 DEF LoopSafe, Drained, ShutPcs, CompactorPcs
<1>7. pc'[u] \in {"compact_scan", "shut_scan"} =>
        loc'[u].sum >= 0 /\ (loc'[u].sum = 0 => CleanBelow(loc[u].shard)')
  BY <1>1, <1>2, <1>3, <1>5 DEF LoopSafe, CleanBelow, NonClean
<1>8. pc'[u] \in {"compact_truncate", "shut_truncate"} => \A k \in Keys : ~NonClean(entry'[k])
  BY <1>1, <1>2, <1>3, <1>5 DEF LoopSafe
<1> QED
  BY <1>6, <1>7, <1>8 DEF LoopSafe, NonClean

\* A step of the thread itself to a place where it relies on nothing new.
LEMMA LoopPlain ==
    ASSUME TypeOK, StartUp, InFlightExact, LoopInv, [Next]_vars,
           NEW t \in Threads, Begin(t) \/ Continue(t), NEW l, NEW r, Step(t, l, r),
           l \notin CompactorPcs \cup {"shut_drain", "shut_join", "shut_scan", "shut_truncate"},
           l = "shut_stopped" => loc[t].aret = "shut_stopped",
           r.aret \in {"idle", loc[t].aret}
    PROVE  LoopSafe(t)'
<1>1. pc'[t] = l /\ loc'[t] = IF l = "idle" THEN NoLocals ELSE r
  BY StepEffect
<1>2. NoLocals.aret = "idle"
  BY DEF NoLocals
<1>3. Drained(t)' => Drained(t)
  BY <1>1, <1>2 DEF Drained, ShutPcs
<1>4. LoopSafe(t)
  BY DEF LoopInv
<1>5. Drained(t)' => lifecycle' # "Ready" /\ inFlight' = 0
  BY <1>3, <1>4, SharedStays DEF LoopSafe
<1> QED
  BY <1>1, <1>2, <1>5 DEF LoopSafe, CompactorPcs

\* Where a thread goes that neither compacts nor shuts down.
PlainPcs == Pcs \ (CompactorPcs \cup ShutPcs \cup {"shut_drain"})

\* They are all labels of Put, Get, Invalidate and Flush, and those around a FlushAll.
LEMMA PlainLabels ==
    /\ PutPcs \cup InvalidatePcs \cup FlushPcs \subseteq PlainPcs
    /\ {"idle", "put_admit", "inv_admit", "release", "get_read", "get_fill", "flush_peek",
        "collect", "all_next", "compact_check", "compact_pause"} \subseteq PlainPcs
    /\ \A r \in Locals : r.fret \in PlainPcs
<1> USE DEF PlainPcs, Pcs, CompactorPcs, ShutPcs
<1>1. PutPcs \cup InvalidatePcs \cup FlushPcs \subseteq PlainPcs
  BY DEF PutPcs, InvalidatePcs, FlushPcs
<1>2. {"idle", "put_admit", "inv_admit", "release", "get_read", "get_fill", "flush_peek",
       "collect", "all_next", "compact_check", "compact_pause"} \subseteq PlainPcs
  OBVIOUS
<1>3. ASSUME NEW r \in Locals PROVE r.fret \in PlainPcs
  <2>1. r.fret \in {"idle", "release", "relieve_after", "all_next"}
    BY DEF Locals
  <2>2. "relieve_after" \in PutPcs
    BY DEF PutPcs
  <2> HIDE DEF PlainPcs
  <2> QED BY <1>1, <1>2, <2>1, <2>2
<1> QED
  BY <1>1, <1>2, <1>3

\* The steps of Put, Get, Invalidate and Flush, and the first steps of all calls but

\* Shutdown, go to such a place, or nowhere.
LEMMA WritersMove ==
    ASSUME TypeOK, NEW t \in Threads,
           \/ Begin(t) /\ ~ShutdownBegin(t)
           \/ PutStep(t) \/ GetStep(t) \/ InvalidateStep(t) \/ FlushStep(t)
    PROVE  \/ pc[t] = "idle" /\ UNCHANGED threadVars
           \/ \E l \in PlainPcs : \E r : Step(t, l, r) /\ r.aret \in {"idle", loc[t].aret}
<1> DEFINE Goal == \E l \in PlainPcs : \E r : Step(t, l, r) /\ r.aret \in {"idle", loc[t].aret}
<1>0. loc[t] \in Locals /\ loc[t].fret \in PlainPcs
  BY PlainLabels DEF TypeOK
<1>1. ASSUME NEW l \in PlainPcs, NEW r, Step(t, l, r), r.aret \in {"idle", loc[t].aret}
      PROVE  Goal
  BY <1>1
<1> HIDE DEF Goal
<1>2. ASSUME PutBegin(t) PROVE Goal
  <2>1. PICK k, v : Step(t, "put_admit", [loc[t] EXCEPT !.key = k, !.val = v])
    BY <1>2 DEF PutBegin
  <2> DEFINE r == [loc[t] EXCEPT !.key = k, !.val = v]
  <2>2. r.aret = loc[t].aret /\ Step(t, "put_admit", r)
    BY <1>0, <2>1 DEF Locals
  <2> HIDE DEF r
  <2> QED BY <1>1, <2>2, PlainLabels
<1>3. ASSUME InvalidateBegin(t) PROVE Goal
  <2>1. PICK k, b : Step(t, "inv_admit", [loc[t] EXCEPT !.key = k, !.force = b])
    BY <1>3 DEF InvalidateBegin
  <2> DEFINE r == [loc[t] EXCEPT !.key = k, !.force = b]
  <2>2. r.aret = loc[t].aret /\ Step(t, "inv_admit", r)
    BY <1>0, <2>1 DEF Locals
  <2> HIDE DEF r
  <2> QED BY <1>1, <2>2, PlainLabels
<1>4. ASSUME FlushBegin(t) PROVE Goal
  <2>1. PICK k : Step(t, "flush_peek", [loc[t] EXCEPT !.fkey = k, !.fret = "idle"])
    BY <1>4 DEF FlushBegin
  <2> DEFINE r == [loc[t] EXCEPT !.fkey = k, !.fret = "idle"]
  <2>2. r.aret = loc[t].aret /\ Step(t, "flush_peek", r)
    BY <1>0, <2>1 DEF Locals
  <2> HIDE DEF r
  <2> QED BY <1>1, <2>2, PlainLabels
<1>5. ASSUME FlushAllBegin(t) PROVE Goal
  <2>1. Step(t, "collect", [loc[t] EXCEPT !.shard = 1, !.failed = FALSE, !.aret = "idle"])
    BY <1>5 DEF FlushAllBegin, StartFlushAll
  <2> DEFINE r == [loc[t] EXCEPT !.shard = 1, !.failed = FALSE, !.aret = "idle"]
  <2>2. r.aret = "idle" /\ Step(t, "collect", r)
    BY <1>0, <2>1 DEF Locals
  <2> HIDE DEF r
  <2> QED BY <1>1, <2>2, PlainLabels
<1>6. ASSUME GetBegin(t) PROVE Goal \/ (pc[t] = "idle" /\ UNCHANGED threadVars)
  <2>1. ASSUME NEW k \in Keys,
               Step(t, "get_read", [loc[t] EXCEPT !.key = k, !.fence = fence[ShardOf[k]]])
        PROVE  Goal
    <3> DEFINE r == [loc[t] EXCEPT !.key = k, !.fence = fence[ShardOf[k]]]
    <3>1. r.aret = loc[t].aret /\ Step(t, "get_read", r)
      BY <1>0, <2>1 DEF Locals
    <3> HIDE DEF r
    <3> QED BY <1>1, <3>1, PlainLabels
  <2> QED BY <1>6, <2>1 DEF GetBegin, Call
<1>7. ASSUME PutRelieved(t) PROVE Goal
  <2> DEFINE r == [loc[t] EXCEPT !.fkey = loc[t].key, !.fexp = loc[t].ver, !.fret = "release"]
  <2>1. r.aret = loc[t].aret
    BY <1>0 DEF Locals
  <2>2. Step(t, "flush_peek", r) \/ Step(t, "release", loc[t])
    BY <1>7 DEF PutRelieved
  <2> HIDE DEF r
  <2> QED BY <1>1, <2>1, <2>2, PlainLabels
<1>8. ASSUME PutStep(t) PROVE Goal
  <2>1. CASE PutAdmit(t) \/ PutCommit(t) \/ ReleaseWriteAdmission(t)
    BY <1>1, <2>1, PlainLabels DEF PutAdmit, TryAdmitWrite, PutCommit, ReleaseWriteAdmission,
       PutPcs
  <2>2. CASE PutAppend(t)
    <3> DEFINE r == [loc[t] EXCEPT !.ver = NewVersion]
    <3>1. r.aret = loc[t].aret
      BY <1>0 DEF Locals
    <3>2. Step(t, "put_commit", r) \/ Step(t, "release", loc[t])
      BY <2>2 DEF PutAppend
    <3> HIDE DEF r
    <3> QED BY <1>1, <3>1, <3>2, PlainLabels DEF PutPcs
  <2>3. CASE RelievePeek(t)
    <3>1. ASSUME NEW k, NEW b,
                 Step(t, "flush_peek", [loc[t] EXCEPT !.before = b, !.fkey = k, !.fexp = 0,
                                                      !.fret = "relieve_after"])
          PROVE  Goal
      <4> DEFINE r == [loc[t] EXCEPT !.before = b, !.fkey = k, !.fexp = 0,
                                     !.fret = "relieve_after"]
      <4>1. r.aret = loc[t].aret /\ Step(t, "flush_peek", r)
        BY <1>0, <3>1 DEF Locals
      <4> HIDE DEF r
      <4> QED BY <1>1, <4>1, PlainLabels
    <3> QED BY <1>7, <2>3, <3>1 DEF RelievePeek
  <2>4. CASE RelieveAfter(t)
    <3> DEFINE r == [loc[t] EXCEPT !.attempt = @ + 1]
    <3>1. r.aret = loc[t].aret
      BY <1>0 DEF Locals
    <3>2. Step(t, "relieve_peek", r) \/ PutRelieved(t)
      BY <2>4 DEF RelieveAfter
    <3> HIDE DEF r
    <3> QED BY <1>1, <1>7, <3>1, <3>2, PlainLabels DEF PutPcs
  <2> QED BY <1>8, <2>1, <2>2, <2>3, <2>4 DEF PutStep
<1>9. ASSUME GetStep(t) PROVE Goal
  <2> DEFINE r == [loc[t] EXCEPT !.val = backing[loc[t].key]]
  <2>1. r.aret = loc[t].aret
    BY <1>0 DEF Locals
  <2>2. Step(t, "get_fill", r) \/ Step(t, "idle", loc[t])
    BY <1>9 DEF GetStep, GetRead, GetFill
  <2> HIDE DEF r
  <2> QED BY <1>1, <2>1, <2>2, PlainLabels
<1>10. ASSUME InvalidateStep(t) PROVE Goal
  <2> DEFINE r == [loc[t] EXCEPT !.ver = entry[loc[t].key].ver]
  <2>1. r.aret = loc[t].aret
    BY <1>0 DEF Locals
  <2>2. \/ Step(t, "inv_append", r)
        \/ \E l \in InvalidatePcs \cup {"release", "idle"} : Step(t, l, loc[t])
    BY <1>10 DEF InvalidateStep, InvalidateAdmit, TryAdmitWrite, InvalidatePeek,
       InvalidateAppend, InvalidateRemove, InvalidateCommit, InvalidatePcs
  <2>3. "inv_append" \in InvalidatePcs
    BY DEF InvalidatePcs
  <2> HIDE DEF r
  <2> QED BY <1>1, <2>1, <2>2, <2>3, PlainLabels
<1>11. ASSUME FlushStep(t) PROVE Goal
  <2>1. ASSUME NEW ok, FlushReturn(t, ok) PROVE Goal
    <3> DEFINE r == [loc[t] EXCEPT !.ok = ok]
    <3>1. r.aret = loc[t].aret /\ Step(t, loc[t].fret, r)
      BY <1>0, <2>1 DEF FlushReturn, Locals
    <3> HIDE DEF r
    <3> QED BY <1>0, <1>1, <3>1
  <2>2. CASE FlushPeek(t)
    <3> DEFINE r == [loc[t] EXCEPT !.fval = entry[loc[t].fkey].val,
                                   !.fver = entry[loc[t].fkey].ver]
    <3>1. r.aret = loc[t].aret
      BY <1>0 DEF Locals
    <3>2. Step(t, "flush_intent", r) \/ \E ok : FlushReturn(t, ok)
      BY <2>2 DEF FlushPeek
    <3> HIDE DEF r
    <3> QED BY <1>1, <2>1, <3>1, <3>2, PlainLabels DEF FlushPcs
  <2>3. CASE FlushIntent(t) \/ FlushPut(t) \/ FlushComplete(t)
    BY <1>1, <2>3, PlainLabels DEF FlushIntent, FlushPut, FlushComplete, FlushAppend, FlushPcs
  <2>4. CASE FlushCommit(t) \/ RevertFlushInProgressLocked(t)
    BY <2>1, <2>4 DEF FlushCommit, RevertFlushInProgressLocked
  <2> QED BY <1>11, <2>2, <2>3, <2>4 DEF FlushStep
<1> QED
  BY <1>2, <1>3, <1>4, <1>5, <1>6, <1>8, <1>9, <1>10, <1>11 DEF Begin, Goal

\* So they keep LoopSafe.
LEMMA LoopWriters ==
    ASSUME TypeOK, StartUp, InFlightExact, LoopInv, [Next]_vars, NEW t \in Threads,
           \/ Begin(t) /\ ~ShutdownBegin(t)
           \/ PutStep(t) \/ GetStep(t) \/ InvalidateStep(t) \/ FlushStep(t)
    PROVE  LoopSafe(t)'
<1>0. Begin(t) \/ Continue(t)
  BY DEF Continue
<1>1. CASE pc[t] = "idle" /\ UNCHANGED threadVars
  <2>1. LoopSafe(t) /\ pc'[t] = "idle" /\ loc'[t] = loc[t]
    BY <1>1 DEF LoopInv, threadVars
  <2> QED BY <1>1, <2>1 DEF LoopSafe, Drained, ShutPcs, CompactorPcs
<1>2. ASSUME NEW l \in PlainPcs, NEW r, Step(t, l, r), r.aret \in {"idle", loc[t].aret}
      PROVE  LoopSafe(t)'
  BY <1>0, <1>2, LoopPlain DEF PlainPcs, ShutPcs
<1> QED
  BY <1>1, <1>2, WritersMove

\* A shard whose counter is zero has nothing unflushed.
LEMMA ShardClean ==
    ASSUME DirtyCountExact, NEW s \in Shards
    PROVE  /\ dirtyCount[s] \in Nat
           /\ dirtyCount[s] = 0 => \A k \in Keys : ShardOf[k] = s => ~NonClean(entry[k])
<1>1. dirtyCount[s] = Cardinality(Unclean(entry, s))
  BY DirtyCountUnclean
<1>2. Cardinality(Unclean(entry, s)) = 0 => Unclean(entry, s) = {}
  BY UncleanFinite, FS_EmptySet
<1> QED
  BY ZenonT(30), <1>1, <1>2, UncleanFinite DEF Unclean, InShard

\* A step of a scan: one more shard is behind it, or it has seen them all.
ScanResult(t, from, clean, dirty) ==
    \/ /\ pc'[t] = from /\ loc'[t].aret = loc[t].aret
       /\ loc'[t].sum >= 0 /\ (loc'[t].sum = 0 => CleanBelow(loc'[t].shard))
    \/ /\ pc'[t] = clean /\ loc'[t].aret \in {"idle", loc[t].aret}
       /\ \A k \in Keys : ~NonClean(entry[k])
    \/ pc'[t] = dirty /\ loc'[t].aret \in {"idle", loc[t].aret}

\* The scan of the dirty counters finds zero only if no entry is dirty.
LEMMA ScanEffect ==
    ASSUME TypeOK, DirtyCountExact, LoopInv, NEW t \in Threads,
           NEW from \in {"compact_scan", "shut_scan"}, NEW clean, NEW dirty,
           SumDirty(t, from, clean, dirty)
    PROVE  ScanResult(t, from, clean, dirty)
<1> DEFINE s == loc[t].shard
           sum == loc[t].sum + dirtyCount[s]
           here == [loc[t] EXCEPT !.sum = sum]
           next == [loc[t] EXCEPT !.shard = @ + 1, !.sum = sum]
<1>0. /\ s \in Shards /\ s \in Int /\ NumShards \in Int /\ loc[t] \in Locals
      /\ loc[t].sum \in Int
  <2>1. loc[t] \in Locals
    BY DEF TypeOK
  <2>2. s \in Shards /\ loc[t].sum \in Int
    BY <2>1 DEF Locals
  <2> QED BY <2>1, <2>2, ShardAssumption DEF Shards
<1>1. loc[t].sum >= 0 /\ (loc[t].sum = 0 => CleanBelow(s))
  <2>1. pc[t] \in {"compact_scan", "shut_scan"}
    BY DEF SumDirty
  <2>2. LoopSafe(t)
    BY DEF LoopInv
  <2> QED BY <2>1, <2>2 DEF LoopSafe
<1>2. dirtyCount[s] \in Nat
  BY <1>0, ShardClean
<1>3. sum >= 0 /\ sum \in Int /\ (sum = 0 => loc[t].sum = 0 /\ dirtyCount[s] = 0)
  BY <1>0, <1>1, <1>2
<1>4. \A k \in Keys : ShardOf[k] \in Int /\ ShardOf[k] <= NumShards
  BY ShardAssumption DEF Shards
<1>5. sum = 0 => CleanBelow(s + 1)
  BY <1>0, <1>1, <1>3, <1>4, ShardClean DEF CleanBelow
<1>6. /\ here.aret = loc[t].aret /\ next.aret = loc[t].aret
      /\ next.sum = sum /\ next.shard = s + 1
  BY <1>0 DEF Locals
<1>7. NoLocals.aret = "idle"
  BY DEF NoLocals
<1> HIDE DEF sum, here, next
<1>8. CASE s < NumShards
  <2>1. Step(t, from, next)
    BY <1>8 DEF SumDirty, next, sum
  <2>2. pc'[t] = from /\ loc'[t] = next
    BY <2>1, StepEffect
  <2> QED BY <1>3, <1>5, <1>6, <2>2 DEF ScanResult
<1>9. CASE s = NumShards
  <2>1. Step(t, IF sum = 0 THEN clean ELSE dirty, here)
    BY <1>0, <1>9 DEF SumDirty, here, sum
  <2>2. /\ pc'[t] = IF sum = 0 THEN clean ELSE dirty
        /\ loc'[t].aret \in {"idle", loc[t].aret}
    BY <1>6, <1>7, <2>1, StepEffect
  <2>3. sum = 0 => \A k \in Keys : ~NonClean(entry[k])
    BY <1>0, <1>4, <1>5, <1>9 DEF CleanBelow
  <2> QED BY <2>2, <2>3 DEF ScanResult
<1> QED
  BY <1>0, <1>8, <1>9 DEF Shards

\* A step of FlushAll or of the compaction after it.
LEMMA LoopFlushAll ==
    ASSUME TypeOK, StartUp, InFlightExact, DirtyCountExact, LoopInv, [Next]_vars,
           NEW t \in Threads, FlushAllStep(t)
    PROVE  LoopSafe(t)'
<1>0. /\ loc[t] \in Locals /\ loc[t].aret \in {"idle", "shut_stopped"}
      /\ Begin(t) \/ Continue(t)
  BY DEF TypeOK, Locals, Continue
<1>1. ASSUME NEW l, NEW r, Step(t, l, r), r.aret = loc[t].aret,
             l \in PlainPcs \/ l = loc[t].aret
      PROVE  LoopSafe(t)'
  BY <1>0, <1>1, LoopPlain, PlainLabels DEF PlainPcs, ShutPcs, CompactorPcs
<1>2. /\ (loc[t].aret = "shut_stopped" => lifecycle # "Ready" /\ inFlight = 0)
      /\ pc[t] \in CompactorPcs => paused \/ lifecycle # "Ready"
      /\ pc[t] \in {"compact_scan", "compact_truncate"} => inFlight = 0
  BY DEF LoopInv, LoopSafe, Drained
<1>3. CASE FlushAllCollect(t)
  <2> DEFINE r == [loc[t] EXCEPT !.todo = DirtyIn(loc[t].shard), !.ok = TRUE]
  <2>1. r.aret = loc[t].aret /\ Step(t, "all_next", r)
    BY <1>0, <1>3 DEF Locals, FlushAllCollect
  <2> HIDE DEF r
  <2> QED BY <1>1, <2>1, PlainLabels
<1>4. CASE FlushAllNext(t)
  <2> DEFINE l == [loc[t] EXCEPT !.failed = @ \/ ~loc[t].ok, !.ok = TRUE]
             nextShard == [l EXCEPT !.shard = @ + 1]
             nextKey(k) == [l EXCEPT !.todo = @ \ {k}, !.fkey = k, !.fexp = 0,
                                     !.fret = "all_next"]
  <2>1. l \in Locals /\ l.aret = loc[t].aret
    BY <1>0 DEF Locals
  <2>2. \/ \E k : Step(t, "flush_peek", nextKey(k))
        \/ Step(t, "collect", nextShard)
        \/ Step(t, IF l.failed THEN l.aret ELSE "compact_check", l)
    BY <1>4 DEF FlushAllNext
  <2> HIDE DEF l
  <2>3. nextShard.aret = loc[t].aret /\ \A k : nextKey(k).aret = loc[t].aret
    BY <2>1 DEF Locals
  <2> HIDE DEF nextShard, nextKey
  <2> QED BY <1>1, <2>1, <2>2, <2>3, PlainLabels
<1>5. CASE CompactCheck(t) \/ CompactResume(t)
  BY <1>1, <1>5, PlainLabels DEF CompactCheck, CompactResume
<1>6. CASE CompactPause(t)
  <2>1. /\ pc'[t] = "compact_drain" /\ loc'[t] = loc[t] /\ paused'
        /\ UNCHANGED <<lifecycle, inFlight>>
    BY <1>6, StepEffect DEF CompactPause, lifeVars
  <2> QED BY <1>2, <2>1 DEF LoopSafe, Drained, ShutPcs
<1>7. CASE CompactDrain(t)
  <2> DEFINE r == [loc[t] EXCEPT !.shard = 1, !.sum = 0]
  <2>1. r.aret = loc[t].aret /\ r.shard = 1 /\ r.sum = 0
    BY <1>0 DEF Locals
  <2>2. /\ pc[t] = "compact_drain" /\ inFlight = 0 /\ Step(t, "compact_scan", r)
        /\ UNCHANGED <<lifecycle, inFlight, paused, entry>>
    BY <1>7 DEF CompactDrain, DrainInFlightWrites, lifeVars, admissionVars, shardVars
  <2> HIDE DEF r
  <2>3. pc'[t] = "compact_scan" /\ loc'[t] = r
    BY <2>2, StepEffect
  <2>4. CleanBelow(1)'
    BY ShardAssumption DEF CleanBelow, Shards
  <2> QED BY <1>2, <2>1, <2>2, <2>3, <2>4 DEF LoopSafe, Drained, ShutPcs, CompactorPcs
<1>8. CASE CompactScan(t)
  <2>1. /\ pc[t] = "compact_scan" /\ UNCHANGED <<lifecycle, inFlight, paused, entry>>
        /\ ScanResult(t, "compact_scan", "compact_truncate", "compact_resume")
    BY <1>8, ScanEffect DEF CompactScan, SumDirty, lifeVars, admissionVars, shardVars
  <2>2. (paused' \/ lifecycle' # "Ready") /\ inFlight' = 0
    BY <1>2, <2>1 DEF CompactorPcs
  <2>3. pc'[t] \in CompactorPcs /\ loc'[t].aret \in {"idle", loc[t].aret}
    BY <2>1 DEF ScanResult, CompactorPcs
  <2>4. Drained(t)' => lifecycle' # "Ready" /\ inFlight' = 0
    BY <1>2, <2>1, <2>3 DEF Drained, ShutPcs, CompactorPcs
  <2>5. pc'[t] = "compact_scan" =>
          loc'[t].sum >= 0 /\ (loc'[t].sum = 0 => CleanBelow(loc[t].shard)')
    BY <2>1 DEF ScanResult, CleanBelow, NonClean
  <2>6. pc'[t] = "compact_truncate" => \A k \in Keys : ~NonClean(entry'[k])
    BY <2>1 DEF ScanResult
  <2> QED BY <2>2, <2>3, <2>4, <2>5, <2>6 DEF LoopSafe, CompactorPcs, NonClean
<1>9. CASE CompactTruncate(t)
  <2>1. CASE Step(t, loc[t].aret, loc[t])
    BY <1>1, <2>1
  <2>2. CASE Step(t, "compact_resume", loc[t]) /\ UNCHANGED paused
    <3>1. pc[t] = "compact_truncate" /\ UNCHANGED <<lifecycle, inFlight>>
      BY <1>9 DEF CompactTruncate, lifeVars
    <3>2. pc'[t] = "compact_resume" /\ loc'[t] = loc[t]
      BY <2>2, StepEffect
    <3> QED BY <1>2, <2>2, <3>1, <3>2 DEF LoopSafe, Drained, ShutPcs, CompactorPcs
  <2> QED BY <1>9, <2>1, <2>2 DEF CompactTruncate
<1> QED
  BY <1>3, <1>4, <1>5, <1>6, <1>7, <1>8, <1>9 DEF FlushAllStep

\* A step of Shutdown.
LEMMA LoopShutdown ==
    ASSUME TypeOK, StartUp, InFlightExact, DirtyCountExact, LoopInv, [Next]_vars,
           NEW t \in Threads, ShutdownBegin(t) \/ ShutdownStep(t)
    PROVE  LoopSafe(t)'
<1>0. loc[t] \in Locals
  BY DEF TypeOK
<1>1. /\ Drained(t) => lifecycle # "Ready" /\ inFlight = 0
      /\ pc[t] = "shut_drain" => lifecycle # "Ready"
      /\ pc[t] = "idle" => loc[t].aret = "idle"
  BY DEF LoopInv, LoopSafe
<1>2. CASE ShutdownBegin(t)
  <2>1. /\ pc[t] = "idle" /\ pc'[t] = "shut_drain" /\ loc'[t] = loc[t]
        /\ lifecycle' = "Stopping"
    BY <1>2, StepEffect DEF ShutdownBegin, Call
  <2> QED BY <1>1, <2>1 DEF LoopSafe, Drained, ShutPcs, CompactorPcs
<1>3. CASE ShutdownDrain(t)
  <2>1. /\ pc[t] = "shut_drain" /\ inFlight = 0
        /\ pc'[t] = "shut_join" /\ loc'[t] = loc[t]
        /\ UNCHANGED <<lifecycle, inFlight>>
    BY <1>3, StepEffect DEF ShutdownDrain, admissionVars
  <2> QED BY <1>1, <2>1 DEF LoopSafe, Drained, ShutPcs, CompactorPcs
<1>4. CASE ShutdownJoin(t)
  <2>1. /\ pc[t] = "shut_join" /\ pc'[t] = "collect"
        /\ UNCHANGED <<lifecycle, inFlight>>
    BY <1>4, StepEffect DEF ShutdownJoin, StartFlushAll, admissionVars, lifeVars
  <2> QED BY <1>1, <2>1 DEF LoopSafe, Drained, ShutPcs, CompactorPcs
<1>5. CASE ShutdownStopped(t)
  <2> DEFINE r == [loc[t] EXCEPT !.shard = 1, !.sum = 0]
  <2>1. r.shard = 1 /\ r.sum = 0
    BY <1>0 DEF Locals
  <2>2. /\ pc[t] = "shut_stopped" /\ Step(t, "shut_scan", r)
        /\ lifecycle' = "Stopped" /\ UNCHANGED inFlight
    BY <1>5 DEF ShutdownStopped, admissionVars
  <2> HIDE DEF r
  <2>3. pc'[t] = "shut_scan" /\ loc'[t] = r
    BY <2>2, StepEffect
  <2>4. CleanBelow(1)'
    BY ShardAssumption DEF CleanBelow, Shards
  <2> QED BY <1>1, <2>1, <2>2, <2>3, <2>4 DEF LoopSafe, Drained, ShutPcs, CompactorPcs
<1>6. CASE ShutdownScan(t)
  <2>1. /\ pc[t] = "shut_scan" /\ UNCHANGED <<lifecycle, inFlight, entry>>
        /\ ScanResult(t, "shut_scan", "shut_truncate", "idle")
    BY <1>6, ScanEffect DEF ShutdownScan, SumDirty, lifeVars, admissionVars, shardVars
  <2>2. Drained(t)' => lifecycle' # "Ready" /\ inFlight' = 0
    BY <1>1, <2>1 DEF Drained, ShutPcs
  <2>3. pc'[t] \in {"shut_scan", "shut_truncate", "idle"}
    BY <2>1 DEF ScanResult
  <2>4. pc'[t] = "shut_scan" =>
          loc'[t].sum >= 0 /\ (loc'[t].sum = 0 => CleanBelow(loc[t].shard)')
    BY <2>1 DEF ScanResult, CleanBelow, NonClean
  <2>5. pc'[t] = "shut_truncate" => \A k \in Keys : ~NonClean(entry'[k])
    BY <2>1 DEF ScanResult
  <2>6. pc'[t] = "idle" => loc'[t].aret = "idle"
    BY <1>6, StepEffect DEF ShutdownScan, SumDirty, NoLocals
  <2> QED BY <2>2, <2>3, <2>4, <2>5, <2>6 DEF LoopSafe, CompactorPcs, NonClean
<1>7. CASE ShutdownTruncate(t)
  <2>1. pc'[t] = "idle" /\ loc'[t] = NoLocals
    BY <1>7, StepEffect DEF ShutdownTruncate
  <2> QED BY <2>1 DEF LoopSafe, Drained, ShutPcs, CompactorPcs, NoLocals
<1> QED
  BY <1>2, <1>3, <1>4, <1>5, <1>6, <1>7 DEF ShutdownStep

\* The invariant of the compactions and of Shutdown.
LEMMA LoopStep ==
    ASSUME TypeOK, StartUp, InFlightExact, DirtyCountExact, OneCompactor, LoopInv, [Next]_vars
    PROVE  LoopInv'
<1>1. ASSUME NEW t \in Threads, Begin(t) \/ Continue(t) PROVE LoopInv'
  <2>1. \A u \in Threads \ {t} : LoopSafe(u)'
    BY <1>1, LoopOthers
  <2>2. LoopSafe(t)'
    BY <1>1, LoopWriters, LoopFlushAll, LoopShutdown DEF Continue
  <2> QED BY <2>1, <2>2 DEF LoopInv
<1>2. ASSUME \A t \in Threads : pc'[t] = "idle" /\ loc'[t].aret = "idle" PROVE LoopInv'
  BY <1>2 DEF LoopInv, LoopSafe, Drained, ShutPcs, CompactorPcs
<1>3. CASE Crash
  BY <1>2, <1>3 DEF Crash, NoLocals
<1>4. CASE Recover
  <2>1. UNCHANGED threadVars /\ lifecycle \in Unready
    BY <1>4 DEF Recover, ReplayRecord, ReplayFails, ReplayEnd, Replaying, MarkRecoveryComplete,
       Unready
  <2>2. \A t \in Threads : pc[t] = "idle" /\ loc[t].aret = "idle"
    BY <2>1 DEF StartUp, IdleUntilReady, LoopInv, LoopSafe
  <2> QED BY <1>2, <2>1, <2>2 DEF threadVars
<1>5. CASE UNCHANGED vars
  BY <1>5 DEF vars, threadVars, admissionVars, shardVars, lifeVars, LoopInv, LoopSafe, Drained,
     CleanBelow, NonClean
<1> QED
  BY <1>1, <1>3, <1>4, <1>5 DEF Next, AtRest

-----------------------------------------------------------------------------
(* The write-ahead rule.                                                   *)

\* No frame of the journal is lost.
JournalKept ==
    \A i \in DOMAIN journal : i \in DOMAIN journal' /\ journal'[i] = journal[i]

\* An append keeps the frames before it.
LEMMA AppendKeeps ==
    ASSUME TypeOK, NEW r, journal' = Append(journal, r)
    PROVE  /\ JournalKept
           /\ Len(journal) + 1 \in DOMAIN journal' /\ journal'[Len(journal) + 1] = r
<1>1. journal \in Seq(Records \cup {r})
  BY DEF TypeOK
<1> QED
  BY <1>1 DEF JournalKept

\* An append that fails keeps the frames before it, whatever it leaves behind.
LEMMA ResidueKeeps ==
    ASSUME TypeOK, NEW r, NEW residue, LeavesBehind(r, residue)
    PROVE  JournalKept
<1>1. CASE journal' = journal
  BY <1>1 DEF JournalKept
<1> QED
  BY <1>1, AppendKeeps DEF LeavesBehind

\* An append keeps the frames before it, whether it succeeds or fails.
LEMMA AttemptKeeps ==
    ASSUME TypeOK, NEW r, AppendOk(r) \/ AppendFails(r)
    PROVE  JournalKept
BY ResidueKeeps, AppendKeeps DEF AppendOk, AppendFails

\* Only the two truncations lose frames of the journal.
LEMMA JournalGrows ==
    ASSUME TypeOK, [Next]_vars
    PROVE  JournalKept \/ \E t \in Threads : CompactTruncate(t) \/ ShutdownTruncate(t)
<1>0. ASSUME UNCHANGED journal PROVE JournalKept
  BY <1>0 DEF JournalKept
<1>1. CASE UNCHANGED vars
  BY <1>0, <1>1 DEF vars, journalVars
<1>2. CASE Recover
  BY <1>0, <1>2 DEF Recover, ReplayRecord, ReplayFails, ReplayEnd, MarkRecoveryComplete,
     BackingFails, journalVars
<1>3. CASE Crash
  BY <1>0, <1>3, ResidueKeeps DEF Crash
<1>4. ASSUME NEW t \in Threads, Begin(t) PROVE JournalKept
  BY <1>0, <1>4 DEF Begin, PutBegin, GetBegin, InvalidateBegin, FlushBegin, FlushAllBegin,
     ShutdownBegin, journalVars
<1>5. ASSUME NEW t \in Threads, PutStep(t) PROVE JournalKept
  BY <1>0, <1>5, AttemptKeeps DEF PutStep, PutAdmit, TryAdmitWrite, PutAppend, PutCommit,
     RelievePeek, RelieveAfter, ReleaseWriteAdmission, journalVars
<1>6. ASSUME NEW t \in Threads, GetStep(t) \/ InvalidateStep(t) PROVE JournalKept
  BY <1>0, <1>6, AttemptKeeps DEF GetStep, GetRead, GetFill, InvalidateStep, InvalidateAdmit,
     TryAdmitWrite, InvalidatePeek, InvalidateAppend, InvalidateRemove, InvalidateCommit,
     BackingSucceeds, BackingFails, journalVars
<1>7. ASSUME NEW t \in Threads, FlushStep(t) PROVE JournalKept
  BY <1>0, <1>7, AttemptKeeps DEF FlushStep, FlushPeek, FlushIntent, FlushPut, FlushComplete,
     FlushAppend, FlushCommit, RevertFlushInProgressLocked, BackingSucceeds, BackingFails,
     journalVars
<1>8. ASSUME NEW t \in Threads, FlushAllStep(t), ~CompactTruncate(t) PROVE JournalKept
  BY <1>0, <1>8 DEF FlushAllStep, FlushAllCollect, FlushAllNext, CompactCheck, CompactPause,
     CompactDrain, DrainInFlightWrites, CompactScan, SumDirty, CompactResume, journalVars
<1>9. ASSUME NEW t \in Threads, ShutdownStep(t), ~ShutdownTruncate(t) PROVE JournalKept
  BY <1>0, <1>9 DEF ShutdownStep, ShutdownDrain, ShutdownJoin, ShutdownStopped, ShutdownScan,
     SumDirty, journalVars
<1> QED
  BY <1>1, <1>2, <1>3, <1>4, <1>5, <1>6, <1>7, <1>8, <1>9 DEF Next, AtRest, Continue

\* A thread arrives at the commit of a Put only by journaling it.
LEMMA CommitArrives ==
    ASSUME TypeOK, [Next]_vars, NEW u \in Threads, pc'[u] = "put_commit"
    PROVE  (pc[u] = "put_commit" /\ loc'[u] = loc[u]) \/ PutAppend(u)
<1>0. loc[u].fret # "put_commit" /\ loc[u].aret # "put_commit"
  BY DEF TypeOK, Locals
<1>1. ASSUME NEW l, NEW r, Step(u, l, r) PROVE l = "put_commit"
  BY <1>1, StepEffect
<1>2. CASE UNCHANGED threadVars
  BY <1>2 DEF threadVars
<1>3. CASE Recover \/ Crash \/ UNCHANGED vars
  BY <1>2, <1>3 DEF Recover, ReplayRecord, ReplayFails, ReplayEnd, Replaying,
     MarkRecoveryComplete, Crash, vars
<1>4. CASE \E t \in Threads \ {u} : Begin(t) \/ Continue(t)
  BY <1>4, OthersStay
<1>5. CASE Begin(u)
  BY <1>1, <1>2, <1>5 DEF Begin, PutBegin, GetBegin, InvalidateBegin, FlushBegin,
     FlushAllBegin, StartFlushAll, ShutdownBegin
<1>6. CASE PutStep(u)
  BY <1>1, <1>6 DEF PutStep, PutAdmit, TryAdmitWrite, PutCommit, RelievePeek,
     RelieveAfter, PutRelieved, ReleaseWriteAdmission
<1>7. CASE GetStep(u) \/ InvalidateStep(u)
  BY <1>1, <1>7 DEF GetStep, InvalidateStep, GetRead, GetFill, InvalidateAdmit, TryAdmitWrite,
     InvalidatePeek, InvalidateAppend, InvalidateRemove, InvalidateCommit
<1>8. CASE FlushStep(u)
  BY <1>0, <1>1, <1>8 DEF FlushStep, FlushPeek, FlushIntent, FlushPut, FlushComplete,
     FlushAppend, FlushCommit, RevertFlushInProgressLocked, FlushReturn
<1>9. CASE FlushAllStep(u)
  <2>1. CASE FlushAllNext(u)
    <3>1. [loc[u] EXCEPT !.failed = @ \/ ~loc[u].ok, !.ok = TRUE].aret = loc[u].aret
      BY DEF TypeOK, Locals
    <3> QED BY <1>0, <1>1, <2>1, <3>1 DEF FlushAllNext
  <2> QED
    BY <1>0, <1>1, <1>9, <2>1 DEF FlushAllStep, FlushAllCollect, CompactCheck, CompactPause,
       CompactDrain, DrainInFlightWrites, CompactScan, SumDirty, CompactTruncate, CompactResume
<1>10. CASE ShutdownStep(u)
  BY <1>1, <1>10 DEF ShutdownStep, ShutdownDrain, ShutdownJoin, StartFlushAll,
     ShutdownStopped, ShutdownScan, SumDirty, ShutdownTruncate
<1> QED
  BY <1>3, <1>4, <1>5, <1>6, <1>7, <1>8, <1>9, <1>10 DEF Next, AtRest, Continue

\* What replay holds after a record it held before, or the record is its Upsert.
LEMMA PendedSource ==
    ASSUME NEW pending \in [Keys -> Entries], NEW r \in Records, NEW k \in Keys,
           NEW e, e = Pended(pending, r)[k], e.state # "Absent"
    PROVE  \/ /\ pending[k].state # "Absent"
              /\ e.val = pending[k].val /\ e.ver = pending[k].ver
           \/ r = Record("Upsert", k, e.val, e.ver)
<1>0. /\ pending[k] \in Entries /\ NoEntry.state = "Absent"
      /\ r = Record(r.type, r.key, r.val, r.ver) /\ r.key \in Keys
  BY DEF NoEntry, Records, Record
<1>1. CASE k # r.key
  BY <1>0, <1>1 DEF Pended
<1>2. CASE k = r.key /\ r.type = "Upsert"
  BY <1>0, <1>2 DEF Pended
<1>3. CASE k = r.key /\ r.type # "Upsert"
  <2>1. \/ e = NoEntry \/ e = pending[k]
        \/ e = [pending[k] EXCEPT !.state = "FlushInProgress"] /\ pending[k].state # "Absent"
    BY <1>3 DEF Pended
  <2> QED BY <1>0, <2>1 DEF Entries
<1> QED
  BY <1>1, <1>2, <1>3

\* Replay keeps to what the journal says.
LEMMA PendingStep ==
    ASSUME TypeOK, StartUp, PendingJournaled, [Next]_vars
    PROVE  PendingJournaled'
<1>1. CASE Crash
  BY <1>1 DEF Crash, NotReplayed, NoEntry, PendingJournaled
<1>2. CASE ReplayEnd
  <2>1. replay'.done
    BY <1>2 DEF ReplayEnd, TypeOK
  <2> QED BY <2>1 DEF PendingJournaled
<1>3. CASE ReplayRecord
  <2> DEFINE r == journal[replay.pos + 1]
  <2>1. /\ replay.pos + 1 \in DOMAIN journal /\ r \in Records /\ UNCHANGED journal
        /\ ~replay.done
    BY <1>3 DEF ReplayRecord, Replaying, ReplayAtEnd, TypeOK, journalVars
  <2>2. replay.pending \in [Keys -> Entries] /\ replay'.pending = Pended(replay.pending, r)
    BY <1>3 DEF ReplayRecord, TypeOK
  <2> SUFFICES ASSUME NEW k \in Keys, replay'.pending[k].state # "Absent"
               PROVE  Journaled(k, replay.pending[k].val, replay.pending[k].ver)'
    BY DEF PendingJournaled
  <2>3. CASE /\ replay.pending[k].state # "Absent"
             /\ replay'.pending[k].val = replay.pending[k].val
             /\ replay'.pending[k].ver = replay.pending[k].ver
    BY <2>1, <2>3 DEF PendingJournaled, Journaled
  <2>4. CASE r = Record("Upsert", k, replay'.pending[k].val, replay'.pending[k].ver)
    BY <2>1, <2>4 DEF Journaled
  <2> HIDE DEF r
  <2> QED BY <2>1, <2>2, <2>3, <2>4, PendedSource
<1>4. ASSUME UNCHANGED replay, JournalKept PROVE PendingJournaled'
  BY <1>4 DEF PendingJournaled, Journaled, JournalKept
<1>5. ASSUME NEW t \in Threads, Begin(t) \/ Continue(t) PROVE PendingJournaled'
  <2>1. replay.done /\ UNCHANGED replay
    BY <1>5, CallReady, CallLifecycle DEF StartUp, EmptyUntilReplayed
  <2> QED BY <2>1 DEF PendingJournaled
<1>6. CASE ReplayFails \/ MarkRecoveryComplete \/ UNCHANGED vars
  <2>1. UNCHANGED <<replay, journal>>
    BY <1>6 DEF ReplayFails, BackingFails, MarkRecoveryComplete, journalVars, vars, lifeVars
  <2> QED BY <1>4, <2>1 DEF JournalKept
<1> QED
  BY <1>1, <1>2, <1>3, <1>5, <1>6 DEF Next, Recover, AtRest

\* An unflushed entry or a Put on its way stays journaled when no frame is lost.
LEMMA KeptJournaled ==
    ASSUME TypeOK, PendingJournaled, UnflushedIsJournaled, JournalKept, [Next]_vars
    PROVE  UnflushedIsJournaled'
<1>1. ASSUME NEW k, NEW v, NEW n, Journaled(k, v, n)
      PROVE  \E i \in DOMAIN journal' : journal'[i] = Record("Upsert", k, v, n)
  BY <1>1 DEF Journaled, JournalKept
<1>2. ASSUME NEW k \in Keys, NonClean(entry'[k])
      PROVE  Journaled(k, entry[k].val, entry[k].ver)'
  <2>1. CASE WasUnflushed(k)
    <3>1. Journaled(k, entry[k].val, entry[k].ver)
      BY <2>1 DEF WasUnflushed, UnflushedIsJournaled
    <3> QED BY <1>1, <2>1, <3>1 DEF WasUnflushed, Journaled
  <2>2. ASSUME NEW t \in Threads, PutCommit(t), Committed(t, k)
        PROVE  Journaled(k, entry[k].val, entry[k].ver)'
    <3>1. Journaled(loc[t].key, loc[t].val, loc[t].ver)
      BY <2>2 DEF Committed, UnflushedIsJournaled
    <3> QED BY <1>1, <2>2, <3>1 DEF Committed, Journaled
  <2>3. CASE ReplayEnd
    <3>1. /\ ~replay.done /\ replay.pending[k] \in Entries
          /\ replay.pending[k].state # "Absent"
          /\ entry'[k] = [replay.pending[k] EXCEPT !.state = "Dirty"]
      BY <1>2, <2>3 DEF ReplayEnd, Settle, TypeOK, NonClean, NoEntry
    <3>2. /\ entry'[k].val = replay.pending[k].val /\ entry'[k].ver = replay.pending[k].ver
          /\ Journaled(k, replay.pending[k].val, replay.pending[k].ver)
      BY <3>1 DEF PendingJournaled, Entries
    <3> QED BY <1>1, <3>2 DEF Journaled
  <2> QED BY <1>2, <2>1, <2>2, <2>3, UnflushedFrame
<1>3. ASSUME NEW t \in Threads, pc'[t] = "put_commit"
      PROVE  Journaled(loc[t].key, loc[t].val, loc[t].ver)'
  <2>1. CASE pc[t] = "put_commit" /\ loc'[t] = loc[t]
    <3>1. Journaled(loc[t].key, loc[t].val, loc[t].ver)
      BY <2>1 DEF UnflushedIsJournaled
    <3> QED BY <1>1, <2>1, <3>1 DEF Journaled
  <2>2. CASE PutAppend(t)
    <3> DEFINE r == [loc[t] EXCEPT !.ver = NewVersion]
    <3>1. r.key = loc[t].key /\ r.val = loc[t].val /\ r.ver = NewVersion
      BY DEF TypeOK, Locals
    <3>2. /\ AppendOk(Record("Upsert", loc[t].key, loc[t].val, NewVersion))
          /\ loc'[t] = r
      BY <1>3, <2>2, StepEffect DEF PutAppend
    <3> HIDE DEF r
    <3> QED BY <3>1, <3>2, AppendKeeps DEF AppendOk, Journaled
  <2> QED BY <1>3, <2>1, <2>2, CommitArrives
<1> QED
  BY <1>2, <1>3 DEF UnflushedIsJournaled, NonClean

\* A truncation happens when nothing is unflushed and no Put is on its way.
LEMMA TruncatesNothingNeeded ==
    ASSUME TypeOK, InFlightExact, LoopInv, [Next]_vars,
           NEW t \in Threads, CompactTruncate(t) \/ ShutdownTruncate(t)
    PROVE  UnflushedIsJournaled'
<1>1. pc[t] \in {"compact_truncate", "shut_truncate"} /\ UNCHANGED entry
  BY DEF CompactTruncate, ShutdownTruncate, shardVars
<1>2. LoopSafe(t)
  BY DEF LoopInv
<1>3. inFlight = 0 /\ \A k \in Keys : ~NonClean(entry[k])
  BY <1>1, <1>2 DEF LoopSafe, Drained, ShutPcs
<1>4. ASSUME NEW u \in Threads PROVE pc'[u] # "put_commit"
  BY <1>3, CommitArrives, NoneAdmitted DEF PutAppend, AdmittedPcs, PutPcs
<1> QED
  BY <1>1, <1>3, <1>4 DEF UnflushedIsJournaled, NonClean

\* What compaction and Shutdown rely on, and what they may not lose, are invariants of the
\* runs with one compactor at a time.
LEMMA CompactionSafe == Spec /\ []OneCompactor => [](LoopInv /\ UnflushedIsJournaled)
<1> DEFINE Inv == LoopInv /\ PendingJournaled /\ UnflushedIsJournaled
<1>1. Init => Inv
  <2> SUFFICES ASSUME Init PROVE Inv
    OBVIOUS
  <2>1. LoopInv
    BY DEF Init, LoopInv, LoopSafe, Drained, ShutPcs, CompactorPcs, NoLocals
  <2>2. PendingJournaled
    BY DEF Init, PendingJournaled, NotReplayed, NoEntry
  <2>3. UnflushedIsJournaled
    BY DEF Init, UnflushedIsJournaled, NonClean, NoEntry
  <2> QED BY <2>1, <2>2, <2>3
<1>2. /\ TypeOK /\ StartUp /\ InFlightExact /\ DirtyCountExact /\ OneCompactor
      /\ Inv /\ [Next]_vars
      => Inv'
  <2> SUFFICES ASSUME TypeOK, StartUp, InFlightExact, DirtyCountExact, OneCompactor, Inv,
                      [Next]_vars
               PROVE  Inv'
    OBVIOUS
  <2>1. LoopInv' /\ PendingJournaled'
    BY LoopStep, PendingStep
  <2>2. UnflushedIsJournaled'
    BY JournalGrows, KeptJournaled, TruncatesNothingNeeded
  <2> QED BY <2>1, <2>2
<1>3. Inv => LoopInv /\ UnflushedIsJournaled
  OBVIOUS
<1> HIDE DEF Inv
<1> QED
  BY <1>1, <1>2, <1>3, TypeCorrect, StartUpHolds, InFlightIsExact, DirtyCountIsExact, PTL
     DEF Spec

\* The write-ahead rule: as long as no two callers of FlushAll compact at the same time,
\* the journal holds the Upsert of every unflushed entry and of every write that is on its
\* way to the cache, through flushes, failed appends and truncations, Shutdown, crashes
\* and replay.
THEOREM UnflushedStaysJournaled == Spec /\ []OneCompactor => []UnflushedIsJournaled
BY CompactionSafe, PTL

-----------------------------------------------------------------------------
(* Clean entries and the backing store.  The engine does not order its     *)
(* calls of the store for one key: FlushKey writes, Invalidate removes and *)
(* Get reads with no lock held.  CleanIsStored needs these uses kept       *)
(* apart, and that is all it needs.                                        *)

\* Thread t is in a flush of k; in an Invalidate of k, past its peek; about to fill k with
\* what it read, the fence not having moved.
Flushes(t, k) == pc[t] \in FlushPcs /\ loc[t].fkey = k
Removes(t, k) == pc[t] \in PeekedPcs /\ loc[t].key = k
Refills(t, k) ==
    pc[t] = "get_fill" /\ loc[t].key = k /\ loc[t].fence = fence[ShardOf[k]]

\* One key has one flush at a time, none during its invalidation, and the invalidation of
\* an entry with a version of its own does not meet a fill of the key.
StoreUsesApart ==
    \A k \in Keys, t, u \in Threads :
        /\ Flushes(t, k) /\ Flushes(u, k) => t = u
        /\ Flushes(t, k) => ~Removes(u, k)
        /\ Refills(t, k) /\ Removes(u, k) => loc[u].ver = 0

\* An Invalidate has removed k from the store and is about to erase version n of it.
Removing(k, n) ==
    \E u \in Threads : pc[u] = "inv_commit" /\ loc[u].key = k /\ loc[u].ver = n

\* A Clean entry is in the store, or an Invalidate is about to erase it.
CleanOrRemoved ==
    \A k \in Keys : entry[k].state = "Clean" =>
        backing[k] = entry[k].val \/ Removing(k, entry[k].ver)

\* What is being flushed stays in the cache, and its version keeps its value.
FlushesHeld ==
    \A t \in Threads : pc[t] \in FlushPcs =>
        /\ NonClean(entry[loc[t].fkey])
        /\ entry[loc[t].fkey].ver = loc[t].fver => entry[loc[t].fkey].val = loc[t].fval

\* The value a flush has written is still in the store when the flush commits.
WrittenStays ==
    \A t \in Threads : pc[t] \in {"flush_complete", "flush_commit"} =>
        backing[loc[t].fkey] = loc[t].fval

\* A Clean entry of a key that is being invalidated is the one the peek saw.
PeeksCurrent ==
    \A t \in Threads : pc[t] \in PeekedPcs /\ entry[loc[t].key].state = "Clean" =>
        loc[t].ver = entry[loc[t].key].ver

\* A reader whose fence has not moved holds what is in the store, unless it was removed.
FillsCurrent ==
    \A t \in Threads :
        pc[t] = "get_fill" /\ loc[t].fence = fence[ShardOf[loc[t].key]] =>
            \/ backing[loc[t].key] = loc[t].val
            \/ \E n \in Nat : Removing(loc[t].key, n)

CleanInv ==
    CleanOrRemoved /\ FlushesHeld /\ WrittenStays /\ PeeksCurrent /\ FillsCurrent

\* Thread u holds after the step nothing of the store that it did not hold before, and
\* still runs the removal that it ran.
HoldsNoMore(u) ==
    /\ pc'[u] \in FlushPcs => /\ pc[u] \in FlushPcs /\ loc'[u].fkey = loc[u].fkey
                              /\ loc'[u].fver = loc[u].fver /\ loc'[u].fval = loc[u].fval
    /\ pc'[u] \in {"flush_complete", "flush_commit"} =>
          pc[u] \in {"flush_complete", "flush_commit"}
    /\ pc'[u] \in PeekedPcs =>
          pc[u] \in PeekedPcs /\ loc'[u].key = loc[u].key /\ loc'[u].ver = loc[u].ver
    /\ pc'[u] = "get_fill" => /\ pc[u] = "get_fill" /\ loc'[u].key = loc[u].key
                              /\ loc'[u].val = loc[u].val /\ loc'[u].fence = loc[u].fence
    /\ pc[u] = "inv_commit" =>
          pc'[u] = "inv_commit" /\ loc'[u].key = loc[u].key /\ loc'[u].ver = loc[u].ver

\* A fence that has not moved after a step had not moved before.
LEMMA FenceStood ==
    ASSUME TypeOK, OrderInv, \A s \in Shards : fence[s] <= fence'[s], NEW u \in Threads,
           pc[u] = "get_fill", loc[u].fence = fence'[ShardOf[loc[u].key]]
    PROVE  loc[u].fence = fence[ShardOf[loc[u].key]]
<1>1. loc[u].fence <= fence[ShardOf[loc[u].key]]
  BY DEF OrderInv, FillSnapshots, FillPcs
<1>2. \A s \in Shards : fence[s] \in Nat
  BY DEF TypeOK
<1>3. loc[u].fence \in Nat /\ ShardOf[loc[u].key] \in Shards
  BY HeldTypes
<1> QED
  BY <1>1, <1>2, <1>3

\* What was read and what was written stay valid while the store does not change and the
\* threads hold nothing more of it.
LEMMA StoreHeld ==
    ASSUME TypeOK, OrderInv, CleanInv, UNCHANGED backing,
           \A u \in Threads : HoldsNoMore(u),
           \A s \in Shards : fence[s] <= fence'[s]
    PROVE  WrittenStays' /\ FillsCurrent'
<1>1. WrittenStays'
  BY DEF CleanInv, WrittenStays, HoldsNoMore, FlushPcs
<1>2. FillsCurrent'
  <2> SUFFICES ASSUME NEW u \in Threads, pc'[u] = "get_fill",
                      loc'[u].fence = fence'[ShardOf[loc'[u].key]]
               PROVE  \/ backing'[loc'[u].key] = loc'[u].val
                      \/ \E n \in Nat : Removing(loc[u].key, n)'
    BY DEF FillsCurrent
  <2>1. /\ pc[u] = "get_fill" /\ loc'[u].key = loc[u].key
        /\ loc'[u].val = loc[u].val /\ loc'[u].fence = loc[u].fence
    BY DEF HoldsNoMore
  <2>2. loc[u].fence = fence[ShardOf[loc[u].key]]
    BY <2>1, FenceStood
  <2>3. backing[loc[u].key] = loc[u].val \/ \E n \in Nat : Removing(loc[u].key, n)
    BY <2>1, <2>2 DEF CleanInv, FillsCurrent
  <2>4. ASSUME NEW n \in Nat, Removing(loc[u].key, n) PROVE Removing(loc[u].key, n)'
    BY <2>1, <2>4 DEF Removing, HoldsNoMore
  <2> QED BY <2>1, <2>3, <2>4
<1> QED
  BY <1>1, <1>2

\* A step that evicts Clean entries at most and adds nothing to what the threads hold keeps

\* CleanInv.
LEMMA CleanCarried ==
    ASSUME TypeOK, OrderInv, CleanInv, UNCHANGED backing,
           \A u \in Threads : HoldsNoMore(u),
           \A k \in Keys : /\ entry'[k] \in {entry[k], NoEntry}
                           /\ NonClean(entry[k]) => entry'[k] = entry[k],
           \A s \in Shards : fence[s] <= fence'[s]
    PROVE  CleanInv'
<1>0. NoEntry.state = "Absent"
  BY DEF NoEntry
<1>1. CleanOrRemoved'
  <2> SUFFICES ASSUME NEW k \in Keys, entry'[k].state = "Clean"
               PROVE  backing'[k] = entry'[k].val \/ Removing(k, entry[k].ver)'
    BY DEF CleanOrRemoved
  <2>1. entry'[k] = entry[k]
    BY <1>0
  <2>2. backing[k] = entry[k].val \/ Removing(k, entry[k].ver)
    BY <2>1 DEF CleanInv, CleanOrRemoved
  <2>3. Removing(k, entry[k].ver) => Removing(k, entry[k].ver)'
    BY <2>1 DEF Removing, HoldsNoMore
  <2> QED BY <2>1, <2>2, <2>3
<1>2. FlushesHeld'
  <2> SUFFICES ASSUME NEW u \in Threads, pc'[u] \in FlushPcs
               PROVE  /\ NonClean(entry'[loc'[u].fkey])
                      /\ entry'[loc'[u].fkey].ver = loc'[u].fver =>
                            entry'[loc'[u].fkey].val = loc'[u].fval
    BY DEF FlushesHeld, NonClean
  <2>1. /\ pc[u] \in FlushPcs /\ loc'[u].fkey = loc[u].fkey
        /\ loc'[u].fver = loc[u].fver /\ loc'[u].fval = loc[u].fval
    BY DEF HoldsNoMore
  <2>2. loc[u].fkey \in Keys /\ NonClean(entry[loc[u].fkey])
    BY <2>1, HeldTypes DEF CleanInv, FlushesHeld
  <2>3. entry'[loc[u].fkey] = entry[loc[u].fkey]
    BY <2>2
  <2> QED BY <2>1, <2>2, <2>3 DEF CleanInv, FlushesHeld
<1>3. WrittenStays' /\ FillsCurrent'
  BY StoreHeld
<1>4. PeeksCurrent'
  BY <1>0, HeldTypes DEF CleanInv, PeeksCurrent, HoldsNoMore
<1> QED
  BY <1>1, <1>2, <1>3, <1>4 DEF CleanInv

\* The threads that do not step hold what they held.
LEMMA OthersHoldNoMore ==
    ASSUME TypeOK, NEW t \in Threads, NEW l, NEW r, Step(t, l, r)
    PROVE  \A u \in Threads \ {t} : HoldsNoMore(u)
BY StepEffect DEF HoldsNoMore

StorePcs == FlushPcs \cup PeekedPcs \cup {"get_fill"}

\* A thread that goes where nothing of the store is held.
LEMMA LeavesStore ==
    ASSUME TypeOK, NEW t \in Threads, NEW l, NEW r, Step(t, l, r),
           l \notin StorePcs, pc[t] # "inv_commit"
    PROVE  \A u \in Threads : HoldsNoMore(u)
<1>1. HoldsNoMore(t)
  BY StepEffect DEF HoldsNoMore, StorePcs, FlushPcs
<1> QED
  BY <1>1, OthersHoldNoMore

\* A step of a flush or of an invalidation that writes to the journal, or whose call of the
\* store fails.
LEMMA StoreRetained ==
    ASSUME TypeOK, NEW t \in Threads, NEW l, Step(t, l, loc[t]),
           \/ pc[t] \in FlushPcs /\ l \in FlushPcs
              /\ (l \in {"flush_complete", "flush_commit"} =>
                     pc[t] \in {"flush_complete", "flush_commit"})
           \/ pc[t] = "inv_append" /\ l = "inv_remove"
    PROVE  \A u \in Threads : HoldsNoMore(u)
<1>1. HoldsNoMore(t)
  BY StepEffect DEF HoldsNoMore, FlushPcs, PeekedPcs
<1> QED
  BY <1>1, OthersHoldNoMore

\* A step that leaves the shards and the store alone.
LEMMA CleanPlain ==
    ASSUME TypeOK, OrderInv, CleanInv, UNCHANGED backing, UNCHANGED shardVars,
           \A u \in Threads : HoldsNoMore(u)
    PROVE  CleanInv'
<1>1. \A s \in Shards : fence[s] \in Nat
  BY DEF TypeOK
<1>2. /\ \A k \in Keys : /\ entry'[k] \in {entry[k], NoEntry}
                         /\ NonClean(entry[k]) => entry'[k] = entry[k]
      /\ \A s \in Shards : fence[s] <= fence'[s]
  BY <1>1 DEF shardVars
<1> QED
  BY <1>2, CleanCarried

\* A step that moves entries in the LRU list or evicts Clean ones.
LEMMA CleanEvicts ==
    ASSUME TypeOK, OrderInv, CleanInv, UNCHANGED backing, UNCHANGED fence,
           NEW pos, NEW out, Settle(entry, pos, out), \A j \in out : entry[j].state = "Clean",
           \A u \in Threads : HoldsNoMore(u)
    PROVE  CleanInv'
<1>1. \A s \in Shards : fence[s] \in Nat
  BY DEF TypeOK
<1>2. \A k \in Keys : /\ entry'[k] \in {entry[k], NoEntry}
                      /\ NonClean(entry[k]) => entry'[k] = entry[k]
  BY DEF Settle, NonClean, TypeOK
<1> QED
  BY <1>1, <1>2, CleanCarried

\* The first step of a call.
LEMMA CleanBegin ==
    ASSUME TypeOK, OrderInv, CleanInv, NEW t \in Threads, Begin(t)
    PROVE  CleanInv'
<1>1. pc[t] = "idle" /\ UNCHANGED backing
  BY DEF Begin, PutBegin, GetBegin, InvalidateBegin, FlushBegin, FlushAllBegin, ShutdownBegin,
     Call
<1>2. \/ UNCHANGED threadVars
      \/ \E l, r : Step(t, l, r) /\ l \in {"put_admit", "inv_admit", "flush_peek", "collect",
                                            "shut_drain", "get_read"}
  BY DEF Begin, PutBegin, GetBegin, InvalidateBegin, FlushBegin, FlushAllBegin, StartFlushAll,
     ShutdownBegin
<1>3. \A u \in Threads : HoldsNoMore(u)
  <2>1. CASE UNCHANGED threadVars
    BY <2>1 DEF threadVars, HoldsNoMore
  <2> QED BY <1>1, <1>2, <2>1, LeavesStore DEF StorePcs, FlushPcs, PeekedPcs
<1>4. ASSUME NEW k, Touch(k) PROVE CleanInv'
  <2>1. Settle(entry, [lru EXCEPT ![k] = 0], {}) /\ UNCHANGED fence
    BY <1>4 DEF Touch
  <2> QED BY <1>1, <1>3, <2>1, CleanEvicts
<1>5. CASE UNCHANGED shardVars
  BY <1>1, <1>3, <1>5, CleanPlain
<1> QED
  BY <1>4, <1>5 DEF Begin, PutBegin, GetBegin, InvalidateBegin, FlushBegin, FlushAllBegin,
     ShutdownBegin

\* The steps of FlushAll, compaction and Shutdown.
LEMMA CleanLoops ==
    ASSUME TypeOK, OrderInv, CleanInv, NEW t \in Threads, FlushAllStep(t) \/ ShutdownStep(t)
    PROVE  CleanInv'
<1>1. UNCHANGED backing /\ UNCHANGED shardVars /\ pc[t] # "inv_commit"
  BY DEF FlushAllStep, ShutdownStep, FlushAllCollect, FlushAllNext, CompactCheck,
     CompactPause, CompactDrain, DrainInFlightWrites, CompactScan, SumDirty, CompactTruncate,
     CompactResume, ShutdownDrain, ShutdownJoin, ShutdownStopped, ShutdownScan,
     ShutdownTruncate
<1>2. loc[t].aret \in {"idle", "shut_stopped"}
  BY DEF TypeOK, Locals
<1>3. ASSUME FlushAllNext(t)
      PROVE  \E l, r : Step(t, l, r) /\ l \notin StorePcs
  <2> DEFINE m == [loc[t] EXCEPT !.failed = @ \/ ~loc[t].ok, !.ok = TRUE]
  <2>1. m.aret = loc[t].aret
    BY DEF TypeOK, Locals
  <2>2. PICK l, r : Step(t, l, r) /\ l \in {"flush_peek", "collect", m.aret, "compact_check"}
    BY <1>3 DEF FlushAllNext
  <2> QED BY <1>2, <2>1, <2>2 DEF StorePcs, FlushPcs, PeekedPcs
<1>4. PICK l, r : Step(t, l, r) /\ l \notin StorePcs
  <2>1. CASE FlushAllStep(t)
    BY <1>2, <1>3, <2>1 DEF FlushAllStep, FlushAllCollect, CompactCheck,
       CompactPause, CompactDrain, DrainInFlightWrites, CompactScan, SumDirty,
       CompactTruncate, CompactResume, StorePcs, FlushPcs, PeekedPcs
  <2>2. CASE ShutdownStep(t)
    BY <2>2 DEF ShutdownStep, ShutdownDrain, ShutdownJoin, StartFlushAll,
       ShutdownStopped, ShutdownScan, SumDirty, ShutdownTruncate, StorePcs, FlushPcs, PeekedPcs
  <2> QED BY <2>1, <2>2
<1>5. \A u \in Threads : HoldsNoMore(u)
  BY <1>1, <1>4, LeavesStore
<1> QED
  BY <1>1, <1>5, CleanPlain

\* The steps of a Put that wait, journal, make room or return.
LEMMA CleanPut ==
    ASSUME TypeOK, OrderInv, CleanInv, NEW t \in Threads,
           \/ PutAdmit(t) \/ PutAppend(t) \/ RelievePeek(t) \/ RelieveAfter(t)
           \/ ReleaseWriteAdmission(t)
    PROVE  CleanInv'
<1>1. UNCHANGED backing /\ pc[t] # "inv_commit"
  BY DEF PutAdmit, TryAdmitWrite, PutAppend, RelievePeek, RelieveAfter, ReleaseWriteAdmission
<1>2. PICK l, r : /\ Step(t, l, r)
                  /\ l \in {"put_append", "idle", "put_commit", "release", "flush_peek",
                            "relieve_peek"}
  BY DEF PutAdmit, TryAdmitWrite, PutAppend, RelievePeek, RelieveAfter, PutRelieved,
     ReleaseWriteAdmission
<1>3. \A u \in Threads : HoldsNoMore(u)
  BY <1>1, <1>2, LeavesStore DEF StorePcs, FlushPcs, PeekedPcs
<1>4. ASSUME NEW s, EvictCleanEntriesLocked(s) PROVE CleanInv'
  BY <1>1, <1>3, <1>4, CleanEvicts, VictimsClean DEF EvictCleanEntriesLocked
<1>5. UNCHANGED shardVars \/ \E s : EvictCleanEntriesLocked(s)
  BY DEF PutAdmit, TryAdmitWrite, PutAppend, RelievePeek, RelieveAfter, ReleaseWriteAdmission
<1> QED
  BY <1>1, <1>3, <1>4, <1>5, CleanPlain

\* A Put commits: its version is nobody's, and what it replaces is not Clean in the end.
LEMMA CleanPutCommit ==
    ASSUME TypeOK, OrderInv, CleanInv, NEW t \in Threads, PutCommit(t)
    PROVE  CleanInv'
<1> DEFINE k == loc[t].key
           new == [val |-> loc[t].val, ver |-> loc[t].ver, state |-> "Dirty"]
<1>0. /\ pc[t] = "put_commit" /\ UNCHANGED backing /\ Step(t, "relieve_peek", loc[t])
      /\ InsertOrUpdateLocked(k, loc[t].val, loc[t].ver, "Dirty")
  BY DEF PutCommit
<1>1. \A u \in Threads : HoldsNoMore(u)
  BY <1>0, LeavesStore DEF StorePcs, FlushPcs, PeekedPcs
<1>k. k \in Keys /\ loc[t].val \in Stored /\ loc[t].ver \in Nat
  BY HeldTypes
<1>2. CASE UNCHANGED shardVars
  BY <1>0, <1>1, <1>2, CleanPlain
<1>3. CASE ~UNCHANGED shardVars
  <2>1. /\ \A j \in Keys \ {k} : /\ entry'[j] \in {entry[j], NoEntry}
                                 /\ NonClean(entry[j]) => entry'[j] = entry[j]
        /\ entry'[k] = new /\ fence' = [fence EXCEPT ![ShardOf[k]] = @ + 1]
    <3> HIDE DEF k
    <3>1. InsertResult(k, loc[t].val, loc[t].ver, "Dirty")
      BY <1>0, <1>3, <1>k, InsertEffect
    <3> QED BY <3>1 DEF InsertResult
  <2>2. /\ new.state = "Dirty" /\ new.ver = loc[t].ver
        /\ NoEntry.state = "Absent"
    BY DEF NoEntry
  <2> HIDE DEF k, new
  <2>3. \A s \in Shards : fence[s] <= fence'[s]
    BY <2>1 DEF TypeOK
  <2>4. CleanOrRemoved'
    <3> SUFFICES ASSUME NEW j \in Keys, entry'[j].state = "Clean"
                 PROVE  backing'[j] = entry'[j].val \/ Removing(j, entry[j].ver)'
      BY DEF CleanOrRemoved
    <3>1. entry'[j] = entry[j]
      BY <2>1, <2>2
    <3>2. Removing(j, entry[j].ver) => Removing(j, entry[j].ver)'
      BY <1>1, <3>1 DEF Removing, HoldsNoMore
    <3> QED BY <1>0, <3>1, <3>2 DEF CleanInv, CleanOrRemoved
  <2>5. FlushesHeld'
    <3> SUFFICES ASSUME NEW u \in Threads, pc'[u] \in FlushPcs
                 PROVE  /\ NonClean(entry'[loc'[u].fkey])
                        /\ entry'[loc'[u].fkey].ver = loc'[u].fver =>
                              entry'[loc'[u].fkey].val = loc'[u].fval
      BY DEF FlushesHeld, NonClean
    <3>1. /\ pc[u] \in FlushPcs /\ loc'[u].fkey = loc[u].fkey
          /\ loc'[u].fver = loc[u].fver /\ loc'[u].fval = loc[u].fval
      BY <1>1 DEF HoldsNoMore
    <3>2. CASE loc[u].fkey = k
      <4>1. loc[u].fver # loc[t].ver
        BY <1>0, <3>1 DEF OrderInv, VersionsApart
      <4> QED BY <2>1, <2>2, <3>1, <3>2, <4>1 DEF NonClean
    <3>3. CASE loc[u].fkey # k
      BY <2>1, <3>1, <3>3, HeldTypes DEF CleanInv, FlushesHeld
    <3> QED BY <3>2, <3>3
  <2>6. WrittenStays' /\ FillsCurrent'
    BY <1>0, <1>1, <2>3, StoreHeld
  <2>7. PeeksCurrent'
    <3> SUFFICES ASSUME NEW u \in Threads, pc'[u] \in PeekedPcs,
                        entry'[loc'[u].key].state = "Clean"
                 PROVE  loc'[u].ver = entry'[loc'[u].key].ver
      BY DEF PeeksCurrent
    <3>1. pc[u] \in PeekedPcs /\ loc'[u].key = loc[u].key /\ loc'[u].ver = loc[u].ver
      BY <1>1 DEF HoldsNoMore
    <3>2. loc[u].key \in Keys /\ entry'[loc[u].key] = entry[loc[u].key]
      BY <2>1, <2>2, <3>1, HeldTypes
    <3> QED BY <3>1, <3>2 DEF CleanInv, PeeksCurrent
  <2> QED BY <2>4, <2>5, <2>6, <2>7 DEF CleanInv
<1> QED
  BY <1>2, <1>3

\* A reader has read the store, or fills: the key is absent then, and an Invalidate that
\* is under way erases the fill, since it saw no version of its own.
LEMMA CleanGet ==
    ASSUME TypeOK, OrderInv, CleanInv, StoreUsesApart, NEW t \in Threads, GetStep(t)
    PROVE  CleanInv'
<1> DEFINE k == loc[t].key
           new == [val |-> loc[t].val, ver |-> 0, state |-> "Clean"]
<1>0. UNCHANGED backing /\ pc[t] \in FillPcs
  BY DEF GetStep, GetRead, GetFill, BackingSucceeds, BackingFails, FillPcs
<1>k. k \in Keys /\ loc[t].val \in Stored /\ loc[t] \in Locals
  BY HeldTypes DEF TypeOK
<1>1. CASE GetRead(t)
  <2>1. UNCHANGED shardVars /\ pc[t] = "get_read"
    BY <1>1 DEF GetRead
  <2>2. CASE \E r : Step(t, "idle", r)
    <3>1. \A u \in Threads : HoldsNoMore(u)
      BY <2>1, <2>2, LeavesStore DEF StorePcs, FlushPcs, PeekedPcs
    <3> QED BY <1>0, <2>1, <3>1, CleanPlain
  <2>3. CASE Step(t, "get_fill", [loc[t] EXCEPT !.val = backing[k]])
    <3>1. /\ pc'[t] = "get_fill" /\ loc'[t] = [loc[t] EXCEPT !.val = backing[k]]
          /\ \A u \in Threads \ {t} : pc'[u] = pc[u] /\ loc'[u] = loc[u]
      BY <2>3, StepEffect
    <3>2. loc'[t].key = k /\ loc'[t].val = backing[k]
      BY <1>k, <3>1 DEF Locals
    <3>3. pc'[t] \notin FlushPcs /\ pc'[t] \notin PeekedPcs
      BY <3>1 DEF FlushPcs, PeekedPcs
    <3>4. entry' = entry /\ fence' = fence
      BY <2>1 DEF shardVars
    <3> HIDE DEF k
    <3>5. ASSUME NEW j, NEW n, Removing(j, n) PROVE Removing(j, n)'
      BY <2>1, <3>1, <3>5 DEF Removing
    <3>6. CleanOrRemoved'
      BY <1>0, <3>4, <3>5 DEF CleanInv, CleanOrRemoved
    <3>7. FlushesHeld' /\ PeeksCurrent'
      BY <3>1, <3>3, <3>4 DEF CleanInv, FlushesHeld, PeeksCurrent
    <3>8. WrittenStays'
      BY <1>0, <3>1, <3>3 DEF CleanInv, WrittenStays, FlushPcs
    <3>9. FillsCurrent'
      <4> SUFFICES ASSUME NEW u \in Threads, pc'[u] = "get_fill",
                          loc'[u].fence = fence'[ShardOf[loc'[u].key]]
                   PROVE  \/ backing'[loc'[u].key] = loc'[u].val
                          \/ \E n \in Nat : Removing(loc[u].key, n)'
        BY DEF FillsCurrent
      <4>1. CASE u = t
        BY <1>0, <3>2, <4>1
      <4>2. CASE u # t
        <5>1. backing[loc[u].key] = loc[u].val \/ \E n \in Nat : Removing(loc[u].key, n)
          BY <3>1, <3>4, <4>2 DEF CleanInv, FillsCurrent
        <5>2. ASSUME NEW n \in Nat, Removing(loc[u].key, n) PROVE Removing(loc[u].key, n)'
          BY <2>1, <3>1, <4>2, <5>2 DEF Removing
        <5> QED BY <1>0, <3>1, <4>2, <5>1, <5>2
      <4> QED BY <4>1, <4>2
    <3> QED BY <3>6, <3>7, <3>8, <3>9 DEF CleanInv
  <2> QED BY <1>1, <2>2, <2>3 DEF GetRead
<1>2. CASE GetFill(t)
  <2>1. pc[t] = "get_fill" /\ Step(t, "idle", loc[t])
    BY <1>2 DEF GetFill
  <2>2. \A u \in Threads : HoldsNoMore(u)
    BY <2>1, LeavesStore DEF StorePcs, FlushPcs, PeekedPcs
  <2>3. CASE UNCHANGED shardVars
    BY <1>0, <2>2, <2>3, CleanPlain
  <2>4. ASSUME Touch(k) PROVE CleanInv'
    <3>1. Settle(entry, [lru EXCEPT ![k] = 0], {}) /\ UNCHANGED fence
      BY <2>4 DEF Touch
    <3> QED BY <1>0, <2>2, <3>1, CleanEvicts
  <2>5. ASSUME fence[ShardOf[k]] = loc[t].fence, InsertOrUpdateLocked(k, loc[t].val, 0, "Clean"),
               ~UNCHANGED shardVars
        PROVE  CleanInv'
    <3>1. /\ \A j \in Keys \ {k} : /\ entry'[j] \in {entry[j], NoEntry}
                                   /\ NonClean(entry[j]) => entry'[j] = entry[j]
          /\ entry'[k] \in {new, NoEntry} /\ fence' = [fence EXCEPT ![ShardOf[k]] = @ + 1]
      <4> HIDE DEF k
      <4>1. InsertResult(k, loc[t].val, 0, "Clean")
        BY <2>5, <1>k, InsertEffect
      <4> QED BY <4>1 DEF InsertResult
    <3>2. /\ new.state = "Clean" /\ new.ver = 0 /\ new.val = loc[t].val
          /\ NoEntry.state = "Absent"
      BY DEF NoEntry
    <3>3. Refills(t, k) /\ ~Cached(k)
      BY <2>1, <2>5, <1>0 DEF Refills, OrderInv, FillSnapshots
    <3>4. backing[k] = loc[t].val \/ \E n \in Nat : Removing(k, n)
      BY <2>1, <2>5 DEF CleanInv, FillsCurrent
    <3> HIDE DEF k, new
    <3>5. \A u \in Threads : Removes(u, k) => loc[u].ver = 0
      BY <1>k, <3>3 DEF StoreUsesApart
    <3>6. \A s \in Shards : fence[s] <= fence'[s]
      BY <3>1 DEF TypeOK
    <3>7. CleanOrRemoved'
      <4> SUFFICES ASSUME NEW j \in Keys, entry'[j].state = "Clean"
                   PROVE  backing'[j] = entry'[j].val \/ Removing(j, entry[j].ver)'
        BY DEF CleanOrRemoved
      <4>1. CASE j # k
        <5>1. entry'[j] = entry[j]
          BY <3>1, <3>2, <4>1
        <5>2. Removing(j, entry[j].ver) => Removing(j, entry[j].ver)'
          BY <2>2, <5>1 DEF Removing, HoldsNoMore
        <5> QED BY <1>0, <5>1, <5>2 DEF CleanInv, CleanOrRemoved
      <4>2. CASE j = k
        <5>1. entry'[j] = new
          BY <3>1, <3>2, <4>2
        <5>2. ASSUME NEW n \in Nat, Removing(k, n) PROVE Removing(j, entry[j].ver)'
          <6>1. PICK u \in Threads : pc[u] = "inv_commit" /\ loc[u].key = k
            BY <5>2 DEF Removing
          <6>2. loc[u].ver = 0
            BY <3>5, <6>1 DEF Removes, PeekedPcs
          <6>3. pc'[u] = "inv_commit" /\ loc'[u].key = k /\ loc'[u].ver = 0
            BY <2>2, <6>1, <6>2 DEF HoldsNoMore
          <6> QED BY <3>2, <4>2, <5>1, <6>3 DEF Removing
        <5> QED BY <1>0, <3>2, <3>4, <4>2, <5>1, <5>2
      <4> QED BY <4>1, <4>2
    <3>8. FlushesHeld'
      <4> SUFFICES ASSUME NEW u \in Threads, pc'[u] \in FlushPcs
                   PROVE  /\ NonClean(entry'[loc'[u].fkey])
                          /\ entry'[loc'[u].fkey].ver = loc'[u].fver =>
                                entry'[loc'[u].fkey].val = loc'[u].fval
        BY DEF FlushesHeld, NonClean
      <4>1. /\ pc[u] \in FlushPcs /\ loc'[u].fkey = loc[u].fkey
            /\ loc'[u].fver = loc[u].fver /\ loc'[u].fval = loc[u].fval
        BY <2>2 DEF HoldsNoMore
      <4>2. loc[u].fkey \in Keys /\ NonClean(entry[loc[u].fkey])
        BY <4>1, HeldTypes DEF CleanInv, FlushesHeld
      <4>3. loc[u].fkey # k
        BY <3>3, <4>2 DEF Cached, NonClean
      <4>4. entry'[loc[u].fkey] = entry[loc[u].fkey]
        BY <3>1, <4>2, <4>3
      <4> QED BY <4>1, <4>2, <4>4 DEF CleanInv, FlushesHeld
    <3>9. PeeksCurrent'
      <4> SUFFICES ASSUME NEW u \in Threads, pc'[u] \in PeekedPcs,
                          entry'[loc'[u].key].state = "Clean"
                   PROVE  loc'[u].ver = entry'[loc'[u].key].ver
        BY DEF PeeksCurrent
      <4>1. pc[u] \in PeekedPcs /\ loc'[u].key = loc[u].key /\ loc'[u].ver = loc[u].ver
        BY <2>2 DEF HoldsNoMore
      <4>2. CASE loc[u].key = k
        BY <3>1, <3>2, <3>5, <4>1, <4>2 DEF Removes
      <4>3. CASE loc[u].key # k
        <5>1. loc[u].key \in Keys /\ entry'[loc[u].key] = entry[loc[u].key]
          BY <3>1, <3>2, <4>1, <4>3, HeldTypes
        <5> QED BY <4>1, <5>1 DEF CleanInv, PeeksCurrent
      <4> QED BY <4>2, <4>3
    <3>10. WrittenStays' /\ FillsCurrent'
      BY <1>0, <2>2, <3>6, StoreHeld
    <3> QED BY <3>7, <3>8, <3>9, <3>10 DEF CleanInv
  <2> QED
    BY <1>2, <2>3, <2>4, <2>5 DEF GetFill
<1> QED
  BY <1>1, <1>2 DEF GetStep

\* An Invalidate peeks: it holds the version of the entry that is there.
LEMMA CleanPeek ==
    ASSUME TypeOK, OrderInv, CleanInv, NEW t \in Threads, InvalidatePeek(t)
    PROVE  CleanInv'
<1> DEFINE k == loc[t].key
<1>0. UNCHANGED backing /\ UNCHANGED shardVars /\ pc[t] = "inv_peek"
  BY DEF InvalidatePeek
<1>1. CASE Step(t, "release", loc[t])
  <2>1. \A u \in Threads : HoldsNoMore(u)
    BY <1>0, <1>1, LeavesStore DEF StorePcs, FlushPcs, PeekedPcs
  <2> QED BY <1>0, <2>1, CleanPlain
<1>2. CASE Step(t, "inv_append", [loc[t] EXCEPT !.ver = entry[k].ver])
  <2>1. /\ pc'[t] = "inv_append" /\ loc'[t] = [loc[t] EXCEPT !.ver = entry[k].ver]
        /\ \A u \in Threads \ {t} : pc'[u] = pc[u] /\ loc'[u] = loc[u]
    BY <1>2, StepEffect
  <2>2. loc'[t].key = k /\ loc'[t].ver = entry[k].ver
    BY <2>1 DEF TypeOK, Locals
  <2>3. pc'[t] \notin FlushPcs
    BY <2>1 DEF FlushPcs
  <2>4. entry' = entry /\ fence' = fence
    BY <1>0 DEF shardVars
  <2> HIDE DEF k
  <2>5. ASSUME NEW j, NEW n, Removing(j, n) PROVE Removing(j, n)'
    BY <1>0, <2>1, <2>5 DEF Removing
  <2>6. CleanOrRemoved'
    BY <1>0, <2>4, <2>5 DEF CleanInv, CleanOrRemoved
  <2>7. FlushesHeld' /\ WrittenStays'
    BY <1>0, <2>1, <2>3, <2>4 DEF CleanInv, FlushesHeld, WrittenStays, FlushPcs
  <2>8. PeeksCurrent'
    BY <2>1, <2>2, <2>4 DEF CleanInv, PeeksCurrent
  <2>9. FillsCurrent'
    <3> SUFFICES ASSUME NEW u \in Threads, pc'[u] = "get_fill",
                        loc'[u].fence = fence'[ShardOf[loc'[u].key]]
                 PROVE  \/ backing'[loc'[u].key] = loc'[u].val
                        \/ \E n \in Nat : Removing(loc[u].key, n)'
      BY DEF FillsCurrent
    <3>1. pc[u] = "get_fill" /\ loc'[u] = loc[u]
      BY <2>1
    <3>2. ASSUME NEW n \in Nat, Removing(loc[u].key, n) PROVE Removing(loc[u].key, n)'
      BY <1>0, <2>1, <3>1, <3>2 DEF Removing
    <3> QED BY <1>0, <2>4, <3>1, <3>2 DEF CleanInv, FillsCurrent
  <2> QED BY <2>6, <2>7, <2>8, <2>9 DEF CleanInv
<1> QED
  BY <1>1, <1>2 DEF InvalidatePeek

\* An Invalidate removes the key from the store: a Clean entry of it is the one that the
\* peek saw, so the commit will erase it, and no flush of the key is under way.
LEMMA CleanRemove ==
    ASSUME TypeOK, OrderInv, CleanInv, StoreUsesApart, NEW t \in Threads, InvalidateRemove(t)
    PROVE  CleanInv'
<1> DEFINE k == loc[t].key
<1>0. UNCHANGED shardVars /\ pc[t] = "inv_remove"
  BY DEF InvalidateRemove
<1>k. k \in Keys /\ loc[t].ver \in Nat
  BY HeldTypes
<1>1. CASE BackingFails /\ Step(t, "release", loc[t])
  <2>1. UNCHANGED backing
    BY <1>1 DEF BackingFails
  <2>2. \A u \in Threads : HoldsNoMore(u)
    BY <1>0, <1>1, LeavesStore DEF StorePcs, FlushPcs, PeekedPcs
  <2> QED BY <1>0, <2>1, <2>2, CleanPlain
<1>2. CASE /\ BackingSucceeds([backing EXCEPT ![k] = NoValue])
           /\ Step(t, "inv_commit", loc[t])
  <2>1. /\ pc'[t] = "inv_commit" /\ loc'[t] = loc[t]
        /\ \A u \in Threads \ {t} : pc'[u] = pc[u] /\ loc'[u] = loc[u]
    BY <1>2, StepEffect
  <2>2. \A j \in Keys \ {k} : backing'[j] = backing[j]
    BY <1>2, <1>k DEF BackingSucceeds, TypeOK
  <2>3. pc'[t] \notin FlushPcs /\ pc[t] \in PeekedPcs
    BY <1>0, <2>1 DEF FlushPcs, PeekedPcs
  <2>4. entry' = entry /\ fence' = fence
    BY <1>0 DEF shardVars
  <2>5. Removing(k, loc[t].ver)'
    BY <2>1 DEF Removing
  <2>6. \A u \in Threads : pc[u] \in FlushPcs => loc[u].fkey # k
    BY <1>k, <2>3 DEF StoreUsesApart, Flushes, Removes
  <2>7. CleanOrRemoved'
    <3> SUFFICES ASSUME NEW j \in Keys, entry'[j].state = "Clean"
                 PROVE  backing'[j] = entry'[j].val \/ Removing(j, entry[j].ver)'
      BY DEF CleanOrRemoved
    <3>1. CASE j = k
      <4>1. loc[t].ver = entry[k].ver
        BY <2>3, <2>4, <3>1 DEF CleanInv, PeeksCurrent
      <4> QED BY <2>1, <2>4, <3>1, <4>1 DEF Removing
    <3>2. CASE j # k
      <4>1. Removing(j, entry[j].ver) => Removing(j, entry[j].ver)'
        BY <1>0, <2>1, <2>4 DEF Removing
      <4> QED BY <2>2, <2>4, <3>2, <4>1 DEF CleanInv, CleanOrRemoved
    <3> QED BY <3>1, <3>2
  <2>8. FlushesHeld'
    BY <2>1, <2>3, <2>4 DEF CleanInv, FlushesHeld
  <2>9. WrittenStays'
    <3> SUFFICES ASSUME NEW u \in Threads, pc'[u] \in {"flush_complete", "flush_commit"}
                 PROVE  backing'[loc'[u].fkey] = loc'[u].fval
      BY DEF WrittenStays
    <3>1. u # t /\ pc[u] = pc'[u] /\ loc'[u] = loc[u] /\ pc[u] \in FlushPcs
      BY <2>1 DEF FlushPcs
    <3> QED BY <2>2, <2>6, <3>1, HeldTypes DEF CleanInv, WrittenStays
  <2>10. PeeksCurrent'
    BY <2>1, <2>3, <2>4 DEF CleanInv, PeeksCurrent
  <2>11. FillsCurrent'
    <3> SUFFICES ASSUME NEW u \in Threads, pc'[u] = "get_fill",
                        loc'[u].fence = fence'[ShardOf[loc'[u].key]]
                 PROVE  \/ backing'[loc'[u].key] = loc'[u].val
                        \/ \E n \in Nat : Removing(loc[u].key, n)'
      BY DEF FillsCurrent
    <3>1. pc[u] = "get_fill" /\ loc'[u] = loc[u] /\ loc[u].key \in Keys
      BY <2>1, HeldTypes
    <3>2. CASE loc[u].key = k
      BY <1>k, <2>1, <3>1, <3>2 DEF Removing
    <3>3. CASE loc[u].key # k
      <4>1. ASSUME NEW n \in Nat, Removing(loc[u].key, n) PROVE Removing(loc[u].key, n)'
        BY <1>0, <2>1, <3>1, <4>1 DEF Removing
      <4> QED BY <2>2, <2>4, <3>1, <3>3, <4>1 DEF CleanInv, FillsCurrent
    <3> QED BY <3>2, <3>3
  <2> QED BY <2>7, <2>8, <2>9, <2>10, <2>11 DEF CleanInv
<1> QED
  BY <1>1, <1>2 DEF InvalidateRemove

\* An Invalidate erases the version that it saw, and moves the fence so that no reader fills
\* the key with what it read before.
LEMMA CleanErase ==
    ASSUME TypeOK, OrderInv, CleanInv, StoreUsesApart, NEW t \in Threads, InvalidateCommit(t)
    PROVE  CleanInv'
<1> DEFINE k == loc[t].key
           erase == Cached(k) /\ entry[k].ver = loc[t].ver
<1>0. /\ pc[t] = "inv_commit" /\ UNCHANGED backing /\ Step(t, "release", loc[t])
      /\ Settle(entry, lru, IF erase THEN {k} ELSE {})
      /\ fence' = [fence EXCEPT ![ShardOf[k]] = @ + 1]
  BY DEF InvalidateCommit, BumpFence
<1>k. k \in Keys /\ ShardOf[k] \in Shards
  BY HeldTypes
<1>1. /\ pc'[t] = "release"
      /\ \A u \in Threads \ {t} : pc'[u] = pc[u] /\ loc'[u] = loc[u]
  BY <1>0, StepEffect
<1>2. pc'[t] \notin FlushPcs /\ pc'[t] \notin PeekedPcs /\ pc[t] \in PeekedPcs
  BY <1>0, <1>1 DEF FlushPcs, PeekedPcs
<1>3. /\ \A j \in Keys \ {k} : entry'[j] = entry[j]
      /\ entry'[k] = IF erase THEN NoEntry ELSE entry[k]
      /\ NoEntry.state = "Absent"
  BY <1>0, <1>k DEF Settle, NoEntry
<1>4. \A u \in Threads : pc[u] \in FlushPcs => loc[u].fkey # k
  BY <1>k, <1>2 DEF StoreUsesApart, Flushes, Removes
<1>5. CleanOrRemoved'
  <2> SUFFICES ASSUME NEW j \in Keys, entry'[j].state = "Clean"
               PROVE  backing'[j] = entry'[j].val \/ Removing(j, entry[j].ver)'
    BY DEF CleanOrRemoved
  <2>1. entry'[j] = entry[j]
    BY <1>3
  <2>2. j = k => entry[j].ver # loc[t].ver
    BY <1>3 DEF Cached
  <2>3. Removing(j, entry[j].ver) => Removing(j, entry[j].ver)'
    BY <1>1, <2>1, <2>2 DEF Removing
  <2> QED BY <1>0, <2>1, <2>3 DEF CleanInv, CleanOrRemoved
<1>6. FlushesHeld'
  <2> SUFFICES ASSUME NEW u \in Threads, pc'[u] \in FlushPcs
               PROVE  /\ NonClean(entry'[loc'[u].fkey])
                      /\ entry'[loc'[u].fkey].ver = loc'[u].fver =>
                            entry'[loc'[u].fkey].val = loc'[u].fval
    BY DEF FlushesHeld, NonClean
  <2>1. pc[u] \in FlushPcs /\ loc'[u] = loc[u]
    BY <1>1, <1>2
  <2>2. entry'[loc[u].fkey] = entry[loc[u].fkey]
    BY <1>3, <1>4, <2>1, HeldTypes
  <2> QED BY <2>1, <2>2 DEF CleanInv, FlushesHeld
<1>7. WrittenStays'
  BY <1>0, <1>1 DEF CleanInv, WrittenStays
<1>8. PeeksCurrent'
  BY <1>1, <1>2, <1>3, HeldTypes DEF CleanInv, PeeksCurrent
<1>9. FillsCurrent'
  <2> SUFFICES ASSUME NEW u \in Threads, pc'[u] = "get_fill",
                      loc'[u].fence = fence'[ShardOf[loc'[u].key]]
               PROVE  \/ backing'[loc'[u].key] = loc'[u].val
                      \/ \E n \in Nat : Removing(loc[u].key, n)'
    BY DEF FillsCurrent
  <2>1. pc[u] = "get_fill" /\ loc'[u] = loc[u] /\ loc[u].key \in Keys
    BY <1>1, HeldTypes
  <2>2. /\ \A s \in Shards : fence[s] \in Nat /\ fence[s] <= fence'[s]
        /\ fence'[ShardOf[k]] = fence[ShardOf[k]] + 1
    BY <1>0, <1>k DEF TypeOK
  <2>3. loc[u].fence = fence[ShardOf[loc[u].key]]
    BY <2>1, <2>2, FenceStood
  <2>4. loc[u].key # k
    BY <1>k, <2>1, <2>2, <2>3
  <2>5. ASSUME NEW n \in Nat, Removing(loc[u].key, n) PROVE Removing(loc[u].key, n)'
    BY <1>1, <2>1, <2>4, <2>5 DEF Removing
  <2> QED BY <1>0, <2>1, <2>3, <2>5 DEF CleanInv, FillsCurrent
<1> QED
  BY <1>5, <1>6, <1>7, <1>8, <1>9 DEF CleanInv

\* The other steps of an Invalidate.
LEMMA CleanInvalidate ==
    ASSUME TypeOK, OrderInv, CleanInv, StoreUsesApart, NEW t \in Threads, InvalidateStep(t)
    PROVE  CleanInv'
<1>1. CASE InvalidateAdmit(t) \/ InvalidateAppend(t)
  <2>1. UNCHANGED backing /\ UNCHANGED shardVars /\ pc[t] \in {"inv_admit", "inv_append"}
    BY <1>1 DEF InvalidateAdmit, TryAdmitWrite, InvalidateAppend
  <2>2. \/ \E l, r : Step(t, l, r) /\ l \in {"inv_peek", "idle", "release"}
        \/ pc[t] = "inv_append" /\ Step(t, "inv_remove", loc[t])
    BY <1>1 DEF InvalidateAdmit, TryAdmitWrite, InvalidateAppend
  <2>3. \A u \in Threads : HoldsNoMore(u)
    BY <2>1, <2>2, LeavesStore, StoreRetained DEF StorePcs, FlushPcs, PeekedPcs
  <2> QED BY <2>1, <2>3, CleanPlain
<1> QED
  BY <1>1, CleanPeek, CleanRemove, CleanErase DEF InvalidateStep

\* What an entry's change of state, in a flush, does to the keys and the threads that have no
\* part in it.
LEMMA CleanSetState ==
    ASSUME TypeOK, OrderInv, CleanInv, NEW t \in Threads, UNCHANGED backing, UNCHANGED fence,
           pc[t] # "inv_commit", pc'[t] \notin PeekedPcs, pc'[t] # "get_fill",
           pc'[t] \notin {"flush_complete", "flush_commit"},
           \A u \in Threads \ {t} : pc'[u] = pc[u] /\ loc'[u] = loc[u],
           NEW k \in Keys, NEW state, SetState(k, state),
           state = "Clean" => /\ backing[k] = entry[k].val
                              /\ \A u \in Threads \ {t} : ~Flushes(u, k) /\ ~Removes(u, k),
           state # "Clean" => state \in {"Dirty", "FlushInProgress"},
           pc'[t] \in FlushPcs => /\ loc'[t].fkey = k /\ loc'[t].fval = entry[k].val
                                  /\ state # "Clean"
    PROVE  CleanInv'
<1>1. /\ entry'[k].state = state /\ entry'[k].ver = entry[k].ver
      /\ entry'[k].val = entry[k].val
      /\ \A j \in Keys \ {k} : entry'[j] = entry[j]
  BY SetStateEffect
<1>2. CleanOrRemoved'
  <2> SUFFICES ASSUME NEW j \in Keys, entry'[j].state = "Clean"
               PROVE  backing'[j] = entry'[j].val \/ Removing(j, entry[j].ver)'
    BY DEF CleanOrRemoved
  <2>1. CASE j = k
    BY <1>1, <2>1
  <2>2. CASE j # k
    <3>1. entry'[j] = entry[j]
      BY <1>1, <2>2
    <3>2. Removing(j, entry[j].ver) => Removing(j, entry[j].ver)'
      BY <3>1 DEF Removing
    <3> QED BY <3>1, <3>2 DEF CleanInv, CleanOrRemoved
  <2> QED BY <2>1, <2>2
<1>3. FlushesHeld'
  <2> SUFFICES ASSUME NEW u \in Threads, pc'[u] \in FlushPcs
               PROVE  /\ NonClean(entry'[loc'[u].fkey])
                      /\ entry'[loc'[u].fkey].ver = loc'[u].fver =>
                            entry'[loc'[u].fkey].val = loc'[u].fval
    BY DEF FlushesHeld, NonClean
  <2>1. CASE u = t
    BY <1>1, <2>1 DEF NonClean
  <2>2. CASE u # t
    <3>1. pc[u] \in FlushPcs /\ loc'[u] = loc[u] /\ loc[u].fkey \in Keys
      BY <2>2, HeldTypes
    <3>2. /\ NonClean(entry[loc[u].fkey])
          /\ entry[loc[u].fkey].ver = loc[u].fver => entry[loc[u].fkey].val = loc[u].fval
      BY <3>1 DEF CleanInv, FlushesHeld
    <3>3. CASE loc[u].fkey = k
      <4>1. state # "Clean"
        BY <2>2, <3>1, <3>3 DEF Flushes
      <4> QED BY <1>1, <3>1, <3>2, <3>3, <4>1 DEF NonClean
    <3>4. CASE loc[u].fkey # k
      BY <1>1, <3>1, <3>2, <3>4
    <3> QED BY <3>3, <3>4
  <2> QED BY <2>1, <2>2
<1>4. WrittenStays'
  BY DEF CleanInv, WrittenStays
<1>5. PeeksCurrent'
  <2> SUFFICES ASSUME NEW u \in Threads, pc'[u] \in PeekedPcs,
                      entry'[loc'[u].key].state = "Clean"
               PROVE  loc'[u].ver = entry'[loc'[u].key].ver
    BY DEF PeeksCurrent
  <2>1. u # t /\ pc[u] \in PeekedPcs /\ loc'[u] = loc[u] /\ loc[u].key \in Keys
    BY HeldTypes
  <2>2. loc[u].key # k
    BY <1>1, <2>1 DEF Removes
  <2> QED BY <1>1, <2>1, <2>2 DEF CleanInv, PeeksCurrent
<1>6. FillsCurrent'
  <2> SUFFICES ASSUME NEW u \in Threads, pc'[u] = "get_fill",
                      loc'[u].fence = fence'[ShardOf[loc'[u].key]]
               PROVE  \/ backing'[loc'[u].key] = loc'[u].val
                      \/ \E n \in Nat : Removing(loc[u].key, n)'
    BY DEF FillsCurrent
  <2>1. pc[u] = "get_fill" /\ loc'[u] = loc[u]
    OBVIOUS
  <2>2. ASSUME NEW n \in Nat, Removing(loc[u].key, n) PROVE Removing(loc[u].key, n)'
    BY <2>1, <2>2 DEF Removing
  <2> QED BY <2>1, <2>2 DEF CleanInv, FillsCurrent
<1> QED
  BY <1>2, <1>3, <1>4, <1>5, <1>6 DEF CleanInv

\* A flush writes: its entry is not Clean, so no Clean entry and no reader depends on what
\* was stored, and no other flush has written something else.
LEMMA CleanFlushPut ==
    ASSUME TypeOK, OrderInv, CleanInv, StoreUsesApart, NEW t \in Threads, FlushPut(t)
    PROVE  CleanInv'
<1> DEFINE k == loc[t].fkey
<1>0. UNCHANGED shardVars /\ pc[t] = "flush_put" /\ pc[t] \in FlushPcs
  BY DEF FlushPut, FlushPcs
<1>k. k \in Keys
  BY HeldTypes
<1>1. CASE BackingFails /\ Step(t, "flush_revert", loc[t])
  <2>1. UNCHANGED backing
    BY <1>1 DEF BackingFails
  <2>2. \A u \in Threads : HoldsNoMore(u)
    BY <1>0, <1>1, StoreRetained DEF FlushPcs
  <2> QED BY <1>0, <2>1, <2>2, CleanPlain
<1>2. CASE /\ BackingSucceeds([backing EXCEPT ![k] = loc[t].fval])
           /\ Step(t, "flush_complete", loc[t])
  <2>1. /\ pc'[t] = "flush_complete" /\ loc'[t] = loc[t]
        /\ \A u \in Threads \ {t} : pc'[u] = pc[u] /\ loc'[u] = loc[u]
    BY <1>2, StepEffect
  <2>2. backing'[k] = loc[t].fval /\ \A j \in Keys \ {k} : backing'[j] = backing[j]
    BY <1>2, <1>k DEF BackingSucceeds, TypeOK
  <2>3. entry' = entry /\ fence' = fence
    BY <1>0 DEF shardVars
  <2>4. NonClean(entry[k])
    BY <1>0 DEF CleanInv, FlushesHeld
  <2>5. \A u \in Threads \ {t} : pc[u] \in FlushPcs => loc[u].fkey # k
    BY <1>0, <1>k DEF StoreUsesApart, Flushes
  <2>6. CleanOrRemoved'
    <3> SUFFICES ASSUME NEW j \in Keys, entry'[j].state = "Clean"
                 PROVE  backing'[j] = entry'[j].val \/ Removing(j, entry[j].ver)'
      BY DEF CleanOrRemoved
    <3>1. j # k
      BY <2>3, <2>4 DEF NonClean
    <3>2. Removing(j, entry[j].ver) => Removing(j, entry[j].ver)'
      BY <1>0, <2>1, <2>3 DEF Removing
    <3> QED BY <2>2, <2>3, <3>1, <3>2 DEF CleanInv, CleanOrRemoved
  <2>7. FlushesHeld'
    BY <1>0, <2>1, <2>3 DEF CleanInv, FlushesHeld
  <2>8. WrittenStays'
    <3> SUFFICES ASSUME NEW u \in Threads, pc'[u] \in {"flush_complete", "flush_commit"}
                 PROVE  backing'[loc'[u].fkey] = loc'[u].fval
      BY DEF WrittenStays
    <3>1. CASE u = t
      BY <2>1, <2>2, <3>1
    <3>2. CASE u # t
      <4>1. pc[u] = pc'[u] /\ loc'[u] = loc[u] /\ pc[u] \in FlushPcs
        BY <2>1, <3>2 DEF FlushPcs
      <4> QED BY <2>2, <2>5, <3>2, <4>1, HeldTypes DEF CleanInv, WrittenStays
    <3> QED BY <3>1, <3>2
  <2>9. PeeksCurrent'
    BY <2>1, <2>3 DEF CleanInv, PeeksCurrent, PeekedPcs
  <2>10. FillsCurrent'
    <3> SUFFICES ASSUME NEW u \in Threads, pc'[u] = "get_fill",
                        loc'[u].fence = fence'[ShardOf[loc'[u].key]]
                 PROVE  \/ backing'[loc'[u].key] = loc'[u].val
                        \/ \E n \in Nat : Removing(loc[u].key, n)'
      BY DEF FillsCurrent
    <3>1. pc[u] = "get_fill" /\ loc'[u] = loc[u] /\ loc[u].key \in Keys
      BY <2>1, HeldTypes
    <3>2. ~Cached(loc[u].key)
      BY <2>3, <3>1 DEF OrderInv, FillSnapshots, FillPcs
    <3>3. loc[u].key # k
      BY <2>4, <3>2 DEF Cached, NonClean
    <3>4. ASSUME NEW n \in Nat, Removing(loc[u].key, n) PROVE Removing(loc[u].key, n)'
      BY <1>0, <2>1, <3>1, <3>4 DEF Removing
    <3> QED BY <2>2, <2>3, <3>1, <3>3, <3>4 DEF CleanInv, FillsCurrent
  <2> QED BY <2>6, <2>7, <2>8, <2>9, <2>10 DEF CleanInv
<1> QED
  BY <1>1, <1>2 DEF FlushPut

\* The steps of a flush.
LEMMA CleanFlush ==
    ASSUME TypeOK, OrderInv, CleanInv, StoreUsesApart, NEW t \in Threads, FlushStep(t)
    PROVE  CleanInv'
<1> DEFINE k == loc[t].fkey
<1>k. k \in Keys
  BY HeldTypes
<1>f. loc[t].fret \in {"idle", "release", "relieve_after", "all_next"}
  BY DEF TypeOK, Locals
<1>0. /\ loc[t].fret \notin StorePcs /\ loc[t].fret \notin FlushPcs
      /\ loc[t].fret \notin PeekedPcs /\ loc[t].fret # "get_fill"
      /\ loc[t].fret \notin {"flush_complete", "flush_commit"}
  BY <1>f DEF StorePcs, FlushPcs, PeekedPcs
<1>1. CASE FlushIntent(t) \/ FlushComplete(t)
  <2>1. UNCHANGED backing /\ UNCHANGED shardVars
    BY <1>1 DEF FlushIntent, FlushComplete, FlushAppend
  <2>2. \/ pc[t] = "flush_intent" /\ Step(t, "flush_put", loc[t])
        \/ pc[t] = "flush_complete" /\ Step(t, "flush_commit", loc[t])
        \/ pc[t] \in FlushPcs /\ Step(t, "flush_revert", loc[t])
    BY <1>1 DEF FlushIntent, FlushComplete, FlushAppend, FlushPcs
  <2>3. \A u \in Threads : HoldsNoMore(u)
    BY <2>2, StoreRetained DEF FlushPcs
  <2> QED BY <2>1, <2>3, CleanPlain
<1>2. ASSUME UNCHANGED entry, UNCHANGED <<lru, dirtyCount, fence>>, UNCHANGED backing,
             pc[t] # "inv_commit", \E r : Step(t, loc[t].fret, r)
      PROVE  CleanInv'
  <2>1. \A u \in Threads : HoldsNoMore(u)
    BY <1>0, <1>2, LeavesStore
  <2>2. UNCHANGED shardVars
    BY <1>2 DEF shardVars
  <2> QED BY <1>2, <2>1, <2>2, CleanPlain
<1>3. CASE FlushPeek(t)
  <2>1. UNCHANGED backing /\ UNCHANGED <<lru, dirtyCount, fence>> /\ pc[t] = "flush_peek"
    BY <1>3 DEF FlushPeek
  <2>2. CASE ~Claimable(entry[k], loc[t].fexp)
    <3>1. UNCHANGED entry /\ \E r : Step(t, loc[t].fret, r)
      BY <1>3, <2>2 DEF FlushPeek, FlushReturn
    <3> QED BY <1>2, <2>1, <3>1
  <2>3. CASE Claimable(entry[k], loc[t].fexp)
    <3>1. /\ SetState(k, "FlushInProgress")
          /\ Step(t, "flush_intent", [loc[t] EXCEPT !.fval = entry[k].val, !.fver = entry[k].ver])
      BY <1>3, <2>3 DEF FlushPeek
    <3>2. /\ pc'[t] = "flush_intent"
          /\ loc'[t] = [loc[t] EXCEPT !.fval = entry[k].val, !.fver = entry[k].ver]
          /\ \A u \in Threads \ {t} : pc'[u] = pc[u] /\ loc'[u] = loc[u]
      BY <3>1, StepEffect
    <3>3. loc'[t].fkey = k /\ loc'[t].fval = entry[k].val
      BY <3>2 DEF TypeOK, Locals
    <3>4. pc'[t] \notin PeekedPcs
      BY <3>2 DEF PeekedPcs
    <3> HIDE DEF k
    <3> QED BY <1>k, <2>1, <3>1, <3>2, <3>3, <3>4, CleanSetState
  <2> QED BY <2>2, <2>3
<1>4. CASE FlushCommit(t) \/ RevertFlushInProgressLocked(t)
  <2>1. /\ UNCHANGED backing /\ UNCHANGED fence /\ pc[t] \in {"flush_commit", "flush_revert"}
        /\ pc[t] \in FlushPcs
    BY <1>4 DEF FlushCommit, RevertFlushInProgressLocked, FlushPcs
  <2>2. PICK r : Step(t, loc[t].fret, r)
    BY <1>4 DEF FlushCommit, RevertFlushInProgressLocked, FlushReturn
  <2>3. CASE ~StillMine(t)
    <3>1. UNCHANGED entry /\ UNCHANGED <<lru, dirtyCount, fence>>
      BY <1>4, <2>3 DEF FlushCommit, RevertFlushInProgressLocked
    <3> QED BY <1>2, <2>1, <2>2, <3>1
  <2>4. CASE StillMine(t)
    <3>1. \/ SetState(k, "Clean") /\ pc[t] = "flush_commit"
          \/ SetState(k, "Dirty")
      BY <1>4, <2>4 DEF FlushCommit, RevertFlushInProgressLocked
    <3>2. /\ pc'[t] = loc[t].fret
          /\ \A u \in Threads \ {t} : pc'[u] = pc[u] /\ loc'[u] = loc[u]
      BY <2>2, StepEffect
    <3>3. pc[t] = "flush_commit" => backing[k] = entry[k].val
      BY <2>1, <2>4 DEF StillMine, CleanInv, WrittenStays, FlushesHeld
    <3>4. \A u \in Threads \ {t} : ~Flushes(u, k) /\ ~Removes(u, k)
      BY <1>k, <2>1 DEF StoreUsesApart, Flushes
    <3> HIDE DEF k
    <3>5. CASE SetState(k, "Clean") /\ pc[t] = "flush_commit"
      BY <1>0, <1>k, <2>1, <3>2, <3>3, <3>4, <3>5, CleanSetState
    <3>6. CASE SetState(k, "Dirty")
      BY <1>0, <1>k, <2>1, <3>2, <3>6, CleanSetState
    <3> QED BY <3>1, <3>5, <3>6
  <2> QED BY <2>3, <2>4
<1> QED
  BY <1>1, <1>3, <1>4, CleanFlushPut DEF FlushStep

\* While no call is under way and nothing is Clean there is nothing to say.
LEMMA CleanIdle ==
    ASSUME \A t \in Threads : pc'[t] = "idle", \A k \in Keys : entry'[k].state # "Clean"
    PROVE  CleanInv'
BY DEF CleanInv, CleanOrRemoved, FlushesHeld, WrittenStays, PeeksCurrent, FillsCurrent,
   FlushPcs, PeekedPcs

\* Every step keeps CleanInv.
LEMMA CleanStep ==
    ASSUME TypeOK, StartUp, OrderInv, CleanInv, StoreUsesApart, [Next]_vars
    PROVE  CleanInv'
<1>0. NoEntry.state = "Absent"
  BY DEF NoEntry
<1>1. CASE Crash
  BY <1>0, <1>1, CleanIdle DEF Crash
<1>2. CASE ReplayRecord \/ ReplayFails
  <2>1. /\ UNCHANGED <<entry, pc>> /\ ~replay.done
    BY <1>2 DEF ReplayRecord, ReplayFails, Replaying, shardVars, threadVars
  <2>2. \A t \in Threads : pc[t] = "idle"
    BY <2>1 DEF StartUp, IdleUntilReady, EmptyUntilReplayed
  <2>3. \A k \in Keys : entry[k] = NoEntry
    BY <2>1 DEF StartUp, EmptyUntilReplayed
  <2> QED BY <1>0, <2>1, <2>2, <2>3, CleanIdle
<1>3. CASE ReplayEnd
  <2> DEFINE ent == [k \in Keys |-> IF replay.pending[k].state # "Absent"
                                    THEN [replay.pending[k] EXCEPT !.state = "Dirty"]
                                    ELSE NoEntry]
  <2>1. pc' = pc /\ lifecycle \in Unready /\ \E order : Settle(ent, order, {})
    BY <1>3 DEF ReplayEnd, threadVars, Unready
  <2>2. \A t \in Threads : pc[t] = "idle"
    BY <2>1 DEF StartUp, IdleUntilReady
  <2>3. \A k \in Keys : replay.pending[k] \in Entries
    BY DEF TypeOK
  <2>4. \A k \in Keys : ent[k].state # "Clean"
    BY <1>0, <2>3 DEF Entries
  <2> HIDE DEF ent
  <2>5. \A k \in Keys : entry'[k] = ent[k]
    BY <2>1 DEF Settle
  <2> QED BY <2>1, <2>2, <2>4, <2>5, CleanIdle
<1>4. CASE MarkRecoveryComplete \/ AtRest \/ UNCHANGED vars
  <2>1. UNCHANGED backing /\ UNCHANGED shardVars /\ UNCHANGED threadVars
    BY <1>4 DEF MarkRecoveryComplete, AtRest, vars
  <2>2. \A u \in Threads : HoldsNoMore(u)
    BY <2>1 DEF HoldsNoMore, threadVars
  <2> QED BY <2>1, <2>2, CleanPlain
<1>5. ASSUME NEW t \in Threads, Begin(t) \/ Continue(t) PROVE CleanInv'
  BY <1>5, CleanBegin, CleanLoops, CleanPut, CleanPutCommit, CleanGet, CleanInvalidate,
     CleanFlush DEF Continue, PutStep
<1> QED
  BY <1>1, <1>2, <1>3, <1>4, <1>5 DEF Next, Recover

\* CleanInv is an invariant of the runs that keep the uses of the store apart.
LEMMA CleanInvHolds == Spec /\ []StoreUsesApart => []CleanInv
<1>1. Init => CleanInv
  BY DEF Init, CleanInv, CleanOrRemoved, FlushesHeld, WrittenStays, PeeksCurrent,
     FillsCurrent, FlushPcs, PeekedPcs, NoEntry
<1>2. TypeOK /\ StartUp /\ OrderInv /\ StoreUsesApart /\ CleanInv /\ [Next]_vars => CleanInv'
  BY CleanStep
<1> QED
  BY <1>1, <1>2, TypeCorrect, StartUpHolds, OrderInvHolds, PTL DEF Spec

\* A Clean entry is what the backing store holds, at every moment when nobody writes,
\* invalidates or flushes its key, in every run that keeps the uses of the store apart:
\* through evictions, fills, failed writes and removals, crashes and replay.
THEOREM CleanStaysStored == Spec /\ []StoreUsesApart => []CleanIsStored
<1>1. CleanInv => CleanIsStored
  <2> SUFFICES ASSUME CleanInv, NEW k \in Keys, Quiet(k), entry[k].state = "Clean"
               PROVE  backing[k] = entry[k].val
    BY DEF CleanIsStored
  <2>1. ~Removing(k, entry[k].ver)
    BY DEF Quiet, Writing, Admitted, AdmittedPcs, InvalidatePcs, Removing
  <2> QED BY <2>1 DEF CleanInv, CleanOrRemoved
<1> QED
  BY <1>1, CleanInvHolds, PTL

-----------------------------------------------------------------------------
(* What the journal says of a key, and what a restart makes of it.  The    *)
(* newest Upsert of a key among the first n records is what replay of them *)
(* leaves pending, unless a FlushComplete of its version follows.          *)

IsUpsert(jn, i, k) == jn[i].type = "Upsert" /\ jn[i].key = k
Newest(jn, n, k, i) ==
    /\ i \in 1..n /\ IsUpsert(jn, i, k)
    /\ \A j \in 1..n : j > i => ~IsUpsert(jn, j, k)
Completes(r, k, ver) == r.type = "FlushComplete" /\ r.key = k /\ r.ver = ver
Flushed(jn, n, k, i) == \E j \in 1..n : j > i /\ Completes(jn[j], k, jn[i].ver)

\* A key has one newest Upsert at most.
LEMMA NewestUnique ==
    ASSUME NEW jn, NEW n \in Nat, NEW k, NEW i, NEW j, Newest(jn, n, k, i), Newest(jn, n, k, j)
    PROVE  i = j
BY DEF Newest

\* What one more record changes.
LEMMA OneMoreRecord ==
    ASSUME NEW jn, NEW n \in Nat, NEW k
    PROVE  /\ IsUpsert(jn, n + 1, k) =>
                 /\ \A i : Newest(jn, n + 1, k, i) <=> i = n + 1
                 /\ ~Flushed(jn, n + 1, k, n + 1)
           /\ ~IsUpsert(jn, n + 1, k) =>
                 \A i : Newest(jn, n + 1, k, i) <=> Newest(jn, n, k, i)
           /\ \A i \in 1..n : Flushed(jn, n + 1, k, i) <=>
                 Flushed(jn, n, k, i) \/ Completes(jn[n + 1], k, jn[i].ver)
<1>0. /\ 1..(n + 1) = 1..n \cup {n + 1}
      /\ \A i \in 1..n : i < n + 1 /\ i \in Nat
  OBVIOUS
<1>1. ASSUME IsUpsert(jn, n + 1, k)
      PROVE  /\ \A i : Newest(jn, n + 1, k, i) <=> i = n + 1
             /\ ~Flushed(jn, n + 1, k, n + 1)
  BY <1>0, <1>1 DEF Newest, Flushed
<1>2. ASSUME ~IsUpsert(jn, n + 1, k), NEW i
      PROVE  Newest(jn, n + 1, k, i) <=> Newest(jn, n, k, i)
  BY <1>0, <1>2 DEF Newest
<1>3. ASSUME NEW i \in 1..n
      PROVE  Flushed(jn, n + 1, k, i) <=>
                Flushed(jn, n, k, i) \/ Completes(jn[n + 1], k, jn[i].ver)
  BY <1>0, <1>3 DEF Flushed
<1> QED
  BY <1>1, <1>2, <1>3

\* The records that are there already say the same after an append.
LEMMA AppendedRecords ==
    ASSUME NEW jn \in Seq(Records), NEW r \in Records, NEW k
    PROVE  /\ Len(Append(jn, r)) = Len(jn) + 1 /\ Append(jn, r)[Len(jn) + 1] = r
           /\ \A i \in 1..Len(jn) : Append(jn, r)[i] = jn[i]
           /\ \A i : Newest(Append(jn, r), Len(jn), k, i) <=> Newest(jn, Len(jn), k, i)
           /\ \A i \in 1..Len(jn) :
                 Flushed(Append(jn, r), Len(jn), k, i) <=> Flushed(jn, Len(jn), k, i)
<1> DEFINE jm == Append(jn, r)
<1>1. Len(jm) = Len(jn) + 1 /\ jm[Len(jn) + 1] = r /\ \A i \in 1..Len(jn) : jm[i] = jn[i]
  OBVIOUS
<1> HIDE DEF jm
<1>2. ASSUME NEW i PROVE Newest(jm, Len(jn), k, i) <=> Newest(jn, Len(jn), k, i)
  BY <1>1 DEF Newest, IsUpsert
<1>3. ASSUME NEW i \in 1..Len(jn)
      PROVE  Flushed(jm, Len(jn), k, i) <=> Flushed(jn, Len(jn), k, i)
  BY <1>1 DEF Flushed
<1> QED
  BY <1>1, <1>2, <1>3 DEF jm
\* e is what replay of the first n records leaves pending of k.
Pends(jn, n, e, k) ==
    /\ e.state # "Absent" =>
          \E i : /\ Newest(jn, n, k, i) /\ ~Flushed(jn, n, k, i)
                 /\ jn[i].val = e.val /\ jn[i].ver = e.ver
    /\ e.state = "Absent" => \A i : Newest(jn, n, k, i) => Flushed(jn, n, k, i)

ReplayTypes == {"Upsert", "FlushIntent", "FlushComplete"}

\* Pended leaves the other keys alone and does to the key of its record what the record
\* says.
LEMMA PendedEffect ==
    ASSUME NEW pending \in [Keys -> Entries], NEW r \in Records, NEW k \in Keys
    PROVE  LET e == pending[k]
               after == Pended(pending, r)[k]
               matches == e.state # "Absent" /\ e.ver = r.ver
           IN  /\ r.key # k => after = e
               /\ r.key = k /\ r.type = "Upsert" =>
                     after.state = "Dirty" /\ after.val = r.val /\ after.ver = r.ver
               /\ r.key = k /\ r.type = "FlushIntent" =>
                     /\ after.val = e.val /\ after.ver = e.ver
                     /\ after.state = "Absent" <=> e.state = "Absent"
               /\ r.key = k /\ r.type = "FlushComplete" =>
                     after = IF matches THEN NoEntry ELSE e
<1> DEFINE matches == pending[r.key].state # "Absent" /\ pending[r.key].ver = r.ver
<1>1. r.key \in Keys /\ r.type \in RecordTypes
  BY DEF Records
<1>2. CASE r.type = "Upsert"
  <2>1. Pended(pending, r) =
           [pending EXCEPT ![r.key] = [val |-> r.val, ver |-> r.ver, state |-> "Dirty"]]
    BY <1>2 DEF Pended
  <2> QED BY <1>1, <1>2, <2>1
<1>3. CASE r.type = "FlushIntent" /\ matches
  <2>1. Pended(pending, r) = [pending EXCEPT ![r.key].state = "FlushInProgress"]
    BY <1>3 DEF Pended
  <2>2. pending[r.key] \in Entries
    BY <1>1
  <2> QED BY <1>1, <1>3, <2>1, <2>2 DEF Entries
<1>4. CASE r.type = "FlushComplete" /\ matches
  <2>1. Pended(pending, r) = [pending EXCEPT ![r.key] = NoEntry]
    BY <1>4 DEF Pended
  <2> QED BY <1>1, <1>4, <2>1
<1>5. CASE r.type = "Invalidate"
  <2>1. Pended(pending, r) = [pending EXCEPT ![r.key] = NoEntry]
    BY <1>5 DEF Pended
  <2> QED BY <1>1, <1>5, <2>1
<1>6. CASE r.type = "Torn" \/ (r.type \in {"FlushIntent", "FlushComplete"} /\ ~matches)
  <2>1. Pended(pending, r) = pending
    BY <1>6 DEF Pended
  <2> QED BY <1>6, <2>1
<1> QED
  BY <1>1, <1>2, <1>3, <1>4, <1>5, <1>6 DEF RecordTypes

\* Pended does to the pending entry of k what one more record does to the others.
LEMMA PendedPends ==
    ASSUME NEW jn \in Seq(Records), NEW n \in Nat, n + 1 <= Len(jn), NEW k \in Keys,
           jn[n + 1].key = k => jn[n + 1].type \in ReplayTypes,
           NEW pending \in [Keys -> Entries], Pends(jn, n, pending[k], k)
    PROVE  Pends(jn, n + 1, Pended(pending, jn[n + 1])[k], k)
<1> DEFINE r == jn[n + 1]
           after == Pended(pending, r)[k]
           e == pending[k]
<1>1. r \in Records
  <2>1. n + 1 \in 1..Len(jn)
    OBVIOUS
  <2> QED BY <2>1
<1>2. /\ r.key # k => after = e
      /\ r.key = k /\ r.type = "Upsert" =>
            after.state = "Dirty" /\ after.val = r.val /\ after.ver = r.ver
      /\ r.key = k /\ r.type = "FlushIntent" =>
            /\ after.val = e.val /\ after.ver = e.ver
            /\ after.state = "Absent" <=> e.state = "Absent"
      /\ r.key = k /\ r.type = "FlushComplete" =>
            after = IF e.state # "Absent" /\ e.ver = r.ver THEN NoEntry ELSE e
  BY <1>1, PendedEffect
<1>3. NoEntry.state = "Absent"
  BY DEF NoEntry
<1>4. /\ e.state # "Absent" =>
            \E i : /\ Newest(jn, n, k, i) /\ ~Flushed(jn, n, k, i)
                   /\ jn[i].val = e.val /\ jn[i].ver = e.ver
      /\ e.state = "Absent" => \A i : Newest(jn, n, k, i) => Flushed(jn, n, k, i)
  BY DEF Pends
<1>5. \A i : Newest(jn, n, k, i) => i \in 1..n
  BY DEF Newest
<1>6. IsUpsert(jn, n + 1, k) <=> r.type = "Upsert" /\ r.key = k
  BY DEF IsUpsert
<1>7. /\ IsUpsert(jn, n + 1, k) => /\ \A i : Newest(jn, n + 1, k, i) <=> i = n + 1
                                   /\ ~Flushed(jn, n + 1, k, n + 1)
      /\ ~IsUpsert(jn, n + 1, k) =>
            \A i : Newest(jn, n + 1, k, i) <=> Newest(jn, n, k, i)
  BY OneMoreRecord
<1>8. \A i \in 1..n : Flushed(jn, n + 1, k, i) <=>
         Flushed(jn, n, k, i) \/ Completes(r, k, jn[i].ver)
  BY OneMoreRecord
<1>9. \A v : Completes(r, k, v) <=> r.type = "FlushComplete" /\ r.key = k /\ r.ver = v
  BY DEF Completes
<1>10. jn[n + 1] = r
  OBVIOUS
<1> HIDE DEF r, after, e
<1>11. CASE r.key = k /\ r.type = "Upsert"
  <2>1. /\ \A i : Newest(jn, n + 1, k, i) <=> i = n + 1
        /\ ~Flushed(jn, n + 1, k, n + 1)
    BY <1>6, <1>7, <1>11
  <2>2. /\ after.state = "Dirty" /\ jn[n + 1].val = after.val /\ jn[n + 1].ver = after.ver
    BY <1>2, <1>10, <1>11
  <2> QED BY <2>1, <2>2 DEF Pends, after, r
<1>12. CASE r.key = k /\ r.type = "FlushComplete" /\ e.state # "Absent" /\ e.ver = r.ver
  <2>1. PICK i0 : Newest(jn, n, k, i0) /\ jn[i0].ver = e.ver
    BY <1>4, <1>12
  <2>2. ASSUME NEW i, Newest(jn, n + 1, k, i) PROVE Flushed(jn, n + 1, k, i)
    <3>1. Newest(jn, n, k, i)
      BY <1>6, <1>7, <1>12, <2>2
    <3>2. i = i0
      BY <2>1, <3>1, NewestUnique
    <3> QED BY <1>5, <1>8, <1>9, <1>12, <2>1, <3>1, <3>2
  <2>3. after.state = "Absent"
    BY <1>2, <1>3, <1>12
  <2> QED BY <2>2, <2>3 DEF Pends, after, r
<1>13. CASE /\ ~(r.key = k /\ r.type = "Upsert")
            /\ ~(r.key = k /\ r.type = "FlushComplete" /\ e.state # "Absent" /\ e.ver = r.ver)
  <2>1. \A i : Newest(jn, n + 1, k, i) <=> Newest(jn, n, k, i)
    BY <1>6, <1>7, <1>13
  <2>2. after.state = "Absent" <=> e.state = "Absent"
    BY <1>2, <1>13 DEF ReplayTypes, r
  <2>3. after.val = e.val /\ after.ver = e.ver
    BY <1>2, <1>13 DEF ReplayTypes, r
  <2>4. CASE e.state = "Absent"
    BY <1>4, <1>5, <1>8, <2>1, <2>2, <2>4 DEF Pends, after, r
  <2>5. CASE e.state # "Absent"
    <3>1. PICK i : /\ Newest(jn, n, k, i) /\ ~Flushed(jn, n, k, i)
                   /\ jn[i].val = e.val /\ jn[i].ver = e.ver
      BY <1>4, <2>5
    <3>2. ~Flushed(jn, n + 1, k, i)
      BY <1>5, <1>8, <1>9, <1>13, <2>5, <3>1
    <3>3. Newest(jn, n + 1, k, i)
      BY <2>1, <3>1
    <3> QED BY <2>2, <2>3, <2>5, <3>1, <3>2, <3>3 DEF Pends, after, r
  <2> QED BY <2>4, <2>5
<1> QED
  BY <1>11, <1>12, <1>13
-----------------------------------------------------------------------------
(* The invariant that ties the journal to the cache and the store, key by  *)
(* key.  It says nothing of a key whose records replay does not reach or   *)
(* undoes (Unspoiled), and of a key whose newest Upsert is of a Put that   *)
(* failed only that nobody else holds its version.                         *)

\* A Put of k on its way from the journal to the cache; a key has one at a time.
Puts(t, k) == pc[t] = "put_commit" /\ loc[t].key = k
PutsApart == \A k \in Keys, t, u \in Threads : Puts(t, k) /\ Puts(u, k) => t = u

NewestPut(k, i) == Newest(journal, Len(journal), k, i)
NewestFlushed(k, i) == Flushed(journal, Len(journal), k, i)

\* A Put on its way is the newest of its key, not flushed, and newer than what it replaces.
PutIsNewest(k) ==
    \A t \in Threads : Puts(t, k) =>
        /\ \E i : /\ NewestPut(k, i) /\ ~NewestFlushed(k, i)
                  /\ journal[i].val = loc[t].val /\ journal[i].ver = loc[t].ver
        /\ entry[k].ver < loc[t].ver

\* With no Put on its way, an unflushed entry is the newest Upsert of its key.
UnflushedIsNewest(k) ==
    NonClean(entry[k]) =>
        \/ \E t \in Threads : Puts(t, k)
        \/ \E i : /\ NewestPut(k, i)
                  /\ journal[i].val = entry[k].val /\ journal[i].ver = entry[k].ver

\* A newest Upsert that is not flushed is on its way or in the cache.
NewestIsHeld(k) ==
    \A i : NewestPut(k, i) /\ ~NewestFlushed(k, i) /\ replay.done =>
        (\E t \in Threads : Puts(t, k)) \/ NonClean(entry[k])

\* One that is flushed is in the store.
FlushedIsStored(k) ==
    \A i : NewestPut(k, i) /\ NewestFlushed(k, i) => backing[k] = journal[i].val

\* A flush of a key whose newest Upsert is flushed is a flush of that one.
FlushesNewest(k) ==
    \A t \in Threads : \A i : Flushes(t, k) /\ NewestPut(k, i) /\ NewestFlushed(k, i) =>
        loc[t].fver = journal[i].ver

\* A flush commits only what the journal has as flushed.
CommitIsFlushed(k) ==
    \A t \in Threads : \A i :
        /\ Flushes(t, k) /\ pc[t] = "flush_commit"
        /\ NewestPut(k, i) /\ journal[i].ver = loc[t].fver
        => NewestFlushed(k, i)

KeyHeld(k) ==
    /\ PutIsNewest(k) /\ UnflushedIsNewest(k) /\ NewestIsHeld(k)
    /\ FlushedIsStored(k) /\ FlushesNewest(k) /\ CommitIsFlushed(k)

\* The Put in doubt is in nobody's hands and not flushed.
DoubtIsUnheld(k) ==
    \A i : NewestPut(k, i) =>
        /\ ~NewestFlushed(k, i) /\ journal[i].ver # 0 /\ journal[i].ver # entry[k].ver
        /\ \A t \in Threads : /\ Puts(t, k) => journal[i].ver # loc[t].ver
                              /\ Flushes(t, k) => journal[i].ver # loc[t].fver

KeyInv(k) == Unspoiled(k) => IF k \in inDoubt THEN DoubtIsUnheld(k) ELSE KeyHeld(k)

\* Replay has made of the records up to pos what they say.
ReplayPends ==
    ~replay.done =>
        /\ replay.pos <= Len(journal) /\ inDoubt = {}
        /\ \A i \in 1..replay.pos : journal[i].type # "Torn"
        /\ \A k \in Keys : Unspoiled(k) => Pends(journal, replay.pos, replay.pending[k], k)

RecordInv == (\A k \in Keys : KeyInv(k)) /\ ReplayPends

-----------------------------------------------------------------------------
(* Steps that change nothing of that.                                      *)

\* The journal says the same of k.
SaysAlike(k) ==
    /\ Unspoiled(k) /\ (k \in inDoubt' <=> k \in inDoubt)
    /\ \A i : NewestPut(k, i)' <=> NewestPut(k, i)
    /\ \A i : NewestPut(k, i) => /\ NewestFlushed(k, i)' <=> NewestFlushed(k, i)
                                 /\ journal'[i] = journal[i]

\* Thread u is on its way with the same Put of k, and in no new flush of k but of the entry;
\* it comes to a commit only of what is flushed.
WritesAlike(u, k) ==
    /\ Puts(u, k)' <=> Puts(u, k)
    /\ Puts(u, k) => loc'[u].val = loc[u].val /\ loc'[u].ver = loc[u].ver
    /\ Flushes(u, k)' => \/ Flushes(u, k) /\ loc'[u].fver = loc[u].fver
                         \/ NonClean(entry[k]) /\ loc'[u].fver = entry[k].ver
    /\ Flushes(u, k)' /\ pc'[u] = "flush_commit" =>
          \/ Flushes(u, k) /\ pc[u] = "flush_commit" /\ loc'[u].fver = loc[u].fver
          \/ \A i : NewestPut(k, i) => journal[i].ver # loc'[u].fver

\* The entry of k is no newer and no more unflushed; it is as unflushed as it was unless
\* its newest Upsert is flushed or on its way.
EntryAlike(k) ==
    /\ entry'[k].ver \in {entry[k].ver, 0}
    /\ NonClean(entry'[k]) => /\ NonClean(entry[k]) /\ entry'[k].val = entry[k].val
                              /\ entry'[k].ver = entry[k].ver
    /\ NonClean(entry[k]) => \/ NonClean(entry'[k]) \/ k \in inDoubt
                             \/ \E t \in Threads : Puts(t, k)
                             \/ \A i : NewestPut(k, i) => NewestFlushed(k, i)

\* The store holds of k what it held, or the newest Upsert if that is flushed.
StoreAlike(k) ==
    \/ backing'[k] = backing[k] \/ k \in inDoubt
    \/ \A i : NewestPut(k, i) /\ NewestFlushed(k, i) => backing'[k] = journal[i].val

\* A key has one newest Upsert at most.
LEMMA OneNewest ==
    ASSUME TypeOK, NEW k, NEW i, NEW j, NewestPut(k, i), NewestPut(k, j)
    PROVE  i = j
<1>1. journal \in Seq(Records) /\ Len(journal) \in Nat
  BY DEF TypeOK
<1> QED
  BY <1>1, NewestUnique DEF NewestPut

\* The newest Upsert of a key with a Put on its way is that Put's.
LEMMA PutsNewest ==
    ASSUME TypeOK, NEW k, PutIsNewest(k), NEW u \in Threads, Puts(u, k), NEW i, NewestPut(k, i)
    PROVE  ~NewestFlushed(k, i) /\ journal[i].ver = loc[u].ver
<1>1. PICK j : /\ NewestPut(k, j) /\ ~NewestFlushed(k, j) /\ journal[j].ver = loc[u].ver
  BY DEF PutIsNewest
<1> QED
  BY <1>1, OneNewest

\* The newest Upsert of an unflushed entry, no Put being on its way, is the entry's.
LEMMA UnflushedNewest ==
    ASSUME TypeOK, NEW k, UnflushedIsNewest(k), NonClean(entry[k]), NEW i, NewestPut(k, i),
           \A u \in Threads : ~Puts(u, k)
    PROVE  journal[i].val = entry[k].val /\ journal[i].ver = entry[k].ver
<1>1. PICK j : /\ NewestPut(k, j) /\ journal[j].val = entry[k].val
               /\ journal[j].ver = entry[k].ver
  BY DEF UnflushedIsNewest
<1> QED
  BY <1>1, OneNewest

\* A step that changes nothing of what KeyInv is about keeps it.
LEMMA KeyCarried ==
    ASSUME TypeOK, TypeOK', NEW k \in Keys, KeyInv(k),
           Unspoiled(k)' => SaysAlike(k) /\ EntryAlike(k) /\ StoreAlike(k),
           \A u \in Threads : WritesAlike(u, k), replay'.done => replay.done
    PROVE  KeyInv(k)'
<1> SUFFICES ASSUME Unspoiled(k)'
             PROVE  /\ k \in inDoubt' => DoubtIsUnheld(k)'
                    /\ k \notin inDoubt' => KeyHeld(k)'
  BY DEF KeyInv
<1>1. /\ Unspoiled(k) /\ (k \in inDoubt' <=> k \in inDoubt)
      /\ \A i : NewestPut(k, i)' <=> NewestPut(k, i)
      /\ \A i : NewestPut(k, i) => /\ NewestFlushed(k, i)' <=> NewestFlushed(k, i)
                                   /\ journal'[i] = journal[i]
  BY DEF SaysAlike
<1>2. /\ entry[k].ver \in Nat /\ entry'[k].ver \in Nat
      /\ \A u \in Threads : loc[u].ver \in Nat
  BY HeldTypes DEF TypeOK, Entries
<1>3. (\E u \in Threads : Puts(u, k)) => \E u \in Threads : Puts(u, k)'
  BY DEF WritesAlike
<1>4. EntryAlike(k) /\ StoreAlike(k)
  OBVIOUS
<1>5. CASE k \in inDoubt
  <2>1. DoubtIsUnheld(k)
    BY <1>1, <1>5 DEF KeyInv
  <2>2. DoubtIsUnheld(k)'
    BY <1>1, <1>4, <2>1 DEF DoubtIsUnheld, WritesAlike, EntryAlike
  <2> QED BY <1>1, <1>5, <2>2
<1>6. CASE k \notin inDoubt
  <2>1. /\ PutIsNewest(k) /\ UnflushedIsNewest(k) /\ NewestIsHeld(k)
        /\ FlushedIsStored(k) /\ FlushesNewest(k) /\ CommitIsFlushed(k)
    BY <1>1, <1>6 DEF KeyInv, KeyHeld
  <2>2. PutIsNewest(k)'
    <3> SUFFICES ASSUME NEW u \in Threads, Puts(u, k)'
                 PROVE  /\ \E i : /\ NewestPut(k, i)' /\ ~NewestFlushed(k, i)'
                                  /\ journal'[i].val = loc'[u].val
                                  /\ journal'[i].ver = loc'[u].ver
                        /\ entry'[k].ver < loc'[u].ver
      BY DEF PutIsNewest
    <3>1. Puts(u, k) /\ loc'[u].val = loc[u].val /\ loc'[u].ver = loc[u].ver
      BY DEF WritesAlike
    <3>2. entry[k].ver < loc[u].ver
      BY <2>1, <3>1 DEF PutIsNewest
    <3>3. entry'[k].ver < loc[u].ver
      BY <1>2, <1>4, <3>2 DEF EntryAlike
    <3> QED BY <1>1, <2>1, <3>1, <3>3 DEF PutIsNewest
  <2>3. UnflushedIsNewest(k)'
    BY <1>1, <1>3, <1>4, <2>1 DEF UnflushedIsNewest, EntryAlike, NonClean
  <2>4. NewestIsHeld(k)'
    <3> SUFFICES ASSUME NEW i, NewestPut(k, i)', ~NewestFlushed(k, i)', replay'.done
                 PROVE  (\E u \in Threads : Puts(u, k)') \/ NonClean(entry'[k])
      BY DEF NewestIsHeld, NonClean
    <3>1. NewestPut(k, i) /\ ~NewestFlushed(k, i) /\ replay.done
      BY <1>1
    <3>2. (\E u \in Threads : Puts(u, k)) \/ NonClean(entry[k])
      BY <2>1, <3>1 DEF NewestIsHeld
    <3> QED BY <1>3, <1>4, <1>6, <3>1, <3>2 DEF EntryAlike
  <2>5. FlushedIsStored(k)'
    BY <1>1, <1>4, <1>6, <2>1 DEF FlushedIsStored, StoreAlike
  <2>6. FlushesNewest(k)'
    <3> SUFFICES ASSUME NEW u \in Threads, NEW i, Flushes(u, k)', NewestPut(k, i),
                        NewestFlushed(k, i)
                 PROVE  loc'[u].fver = journal[i].ver
      BY <1>1 DEF FlushesNewest
    <3>1. \A t \in Threads : ~Puts(t, k)
      BY <2>1, PutsNewest
    <3>2. NonClean(entry[k]) => journal[i].ver = entry[k].ver
      BY <2>1, <3>1, UnflushedNewest
    <3> QED BY <2>1, <3>2 DEF WritesAlike, FlushesNewest
  <2>7. CommitIsFlushed(k)'
    <3> SUFFICES ASSUME NEW u \in Threads, NEW i, Flushes(u, k)', pc'[u] = "flush_commit",
                        NewestPut(k, i), journal[i].ver = loc'[u].fver
                 PROVE  NewestFlushed(k, i)
      BY <1>1 DEF CommitIsFlushed
    <3>1. Flushes(u, k) /\ pc[u] = "flush_commit" /\ loc'[u].fver = loc[u].fver
      BY DEF WritesAlike
    <3> QED BY <2>1, <3>1 DEF CommitIsFlushed
  <2> QED BY <1>1, <1>6, <2>2, <2>3, <2>4, <2>5, <2>6, <2>7 DEF KeyHeld
<1> QED
  BY <1>5, <1>6

\* The types of the journal and of what one reads in it.
LEMMA JournalFacts ==
    ASSUME TypeOK
    PROVE  /\ journal \in Seq(Records) /\ Len(journal) \in Nat
           /\ DOMAIN journal = 1..Len(journal)
           /\ \A i \in 1..Len(journal) : journal[i] \in Records
           /\ \A k, i : NewestPut(k, i) => i \in 1..Len(journal)
<1>1. journal \in Seq(Records)
  BY DEF TypeOK
<1> QED
  BY <1>1 DEF NewestPut, Newest

\* What the journal says of a key after an append.
LEMMA AppendSays ==
    ASSUME TypeOK, NEW r \in Records, journal' = Append(journal, r), NEW k
    PROVE  LET n == Len(journal)
               upsert == r.type = "Upsert" /\ r.key = k
           IN  /\ journal'[n + 1] = r /\ \A i \in 1..n : journal'[i] = journal[i]
               /\ upsert => \A i : /\ NewestPut(k, i)' <=> i = n + 1
                                   /\ i = n + 1 => ~NewestFlushed(k, i)'
               /\ ~upsert => \A i : NewestPut(k, i)' <=> NewestPut(k, i)
               /\ \A i \in 1..n : NewestFlushed(k, i)' <=>
                     NewestFlushed(k, i) \/ Completes(r, k, journal[i].ver)
<1> DEFINE n == Len(journal)
<1>0. journal \in Seq(Records) /\ n \in Nat
  BY JournalFacts
<1>1. /\ Len(journal') = n + 1 /\ journal'[n + 1] = r
      /\ \A i \in 1..n : journal'[i] = journal[i]
  BY <1>0, AppendedRecords
<1>2. /\ \A i : Newest(journal', n, k, i) <=> NewestPut(k, i)
      /\ \A i \in 1..n : Flushed(journal', n, k, i) <=> NewestFlushed(k, i)
  BY <1>0, AppendedRecords DEF NewestPut, NewestFlushed
<1>a. /\ \A i : NewestPut(k, i)' <=> Newest(journal', n + 1, k, i)
      /\ \A i : NewestFlushed(k, i)' <=> Flushed(journal', n + 1, k, i)
  BY <1>1 DEF NewestPut, NewestFlushed
<1> HIDE DEF n
<1>3. IsUpsert(journal', n + 1, k) <=> r.type = "Upsert" /\ r.key = k
  BY <1>1 DEF IsUpsert
<1>4. /\ IsUpsert(journal', n + 1, k) =>
            /\ \A i : Newest(journal', n + 1, k, i) <=> i = n + 1
            /\ ~Flushed(journal', n + 1, k, n + 1)
      /\ ~IsUpsert(journal', n + 1, k) =>
            \A i : Newest(journal', n + 1, k, i) <=> Newest(journal', n, k, i)
  BY <1>0, OneMoreRecord
<1>5. \A i \in 1..n : Flushed(journal', n + 1, k, i) <=>
         Flushed(journal', n, k, i) \/ Completes(journal'[n + 1], k, journal'[i].ver)
  BY <1>0, OneMoreRecord
<1>6. \A i \in 1..n : Flushed(journal', n + 1, k, i) <=>
         NewestFlushed(k, i) \/ Completes(r, k, journal[i].ver)
  BY <1>1, <1>2, <1>5
<1>7. r.type = "Upsert" /\ r.key = k =>
         \A i : (NewestPut(k, i)' <=> i = n + 1) /\ (i = n + 1 => ~NewestFlushed(k, i)')
  BY <1>3, <1>4, <1>a
<1>8. ~(r.type = "Upsert" /\ r.key = k) => \A i : NewestPut(k, i)' <=> NewestPut(k, i)
  BY <1>2, <1>3, <1>4, <1>a
<1>9. \A i \in 1..n : NewestFlushed(k, i)' <=>
         NewestFlushed(k, i) \/ Completes(r, k, journal[i].ver)
  BY <1>6, <1>a
<1> QED
  BY <1>1, <1>7, <1>8, <1>9 DEF n

\* A journal that tells all of k after it grew did so before.
LEMMA WasUnspoiled ==
    ASSUME TypeOK, NEW k, Unspoiled(k)',
           journal' = journal \/ \E r \in Records : journal' = Append(journal, r)
    PROVE  Unspoiled(k)
<1>1. /\ DOMAIN journal = 1..Len(journal) /\ Len(journal) \in Nat /\ journal \in Seq(Records)
  BY JournalFacts
<1>2. \A i \in DOMAIN journal : i \in DOMAIN journal' /\ journal'[i] = journal[i]
  BY <1>1
<1>3. \A i \in DOMAIN journal : \A j \in 1..(i - 1) : j \in DOMAIN journal
  BY <1>1
<1> QED
  BY <1>2, <1>3 DEF Unspoiled

\* A frame more that is neither an Upsert nor a FlushComplete of k says nothing of k.
LEMMA AlikeAfter ==
    ASSUME TypeOK, NEW k, Unspoiled(k)', k \in inDoubt' <=> k \in inDoubt,
           \/ journal' = journal
           \/ \E r \in Records : /\ journal' = Append(journal, r)
                                 /\ ~(r.key = k /\ r.type \in {"Upsert", "FlushComplete"})
    PROVE  SaysAlike(k)
<1>1. Unspoiled(k)
  BY WasUnspoiled
<1>2. CASE journal' = journal
  BY <1>1, <1>2 DEF SaysAlike, NewestPut, NewestFlushed
<1>3. ASSUME NEW r \in Records, journal' = Append(journal, r),
             ~(r.key = k /\ r.type \in {"Upsert", "FlushComplete"})
      PROVE  SaysAlike(k)
  <2>1. /\ \A i : NewestPut(k, i)' <=> NewestPut(k, i)
        /\ \A i \in 1..Len(journal) :
              /\ journal'[i] = journal[i]
              /\ NewestFlushed(k, i)' <=>
                    NewestFlushed(k, i) \/ Completes(r, k, journal[i].ver)
    BY <1>3, AppendSays
  <2>2. \A v : ~Completes(r, k, v)
    BY <1>3 DEF Completes
  <2>3. \A i : NewestPut(k, i) => i \in 1..Len(journal)
    BY JournalFacts
  <2> QED BY <1>1, <2>1, <2>2, <2>3 DEF SaysAlike
<1> QED
  BY <1>2, <1>3

\* What an append does: the record is there and acknowledged, there and in doubt if it is
\* a Put's, or not there; a torn frame may be.
LEMMA AttemptEffect ==
    ASSUME TypeOK, NEW r \in Records, AppendOk(r) \/ AppendFails(r)
    PROVE  \/ /\ inDoubt' = inDoubt /\ AppendFails(r)
              /\ \/ journal' = journal
                 \/ \E s \in Records : s.type = "Torn" /\ journal' = Append(journal, s)
           \/ /\ journal' = Append(journal, r) /\ AppendOk(r)
              /\ inDoubt' = IF r.type = "Upsert" THEN inDoubt \ {r.key} ELSE inDoubt
           \/ /\ journal' = Append(journal, r) /\ AppendFails(r)
              /\ inDoubt' = IF r.type = "Upsert" THEN inDoubt \cup {r.key} ELSE inDoubt
<1> DEFINE s == Record("Torn", r.key, r.val, r.ver)
<1>1. s \in Records /\ s.type = "Torn"
  BY DEF Record, Records, RecordTypes
<1> HIDE DEF s
<1>2. CASE AppendOk(r)
  BY <1>2 DEF AppendOk
<1>3. CASE AppendFails(r) /\ journal' = Append(journal, r)
  BY <1>3 DEF AppendFails
<1>4. CASE AppendFails(r) /\ journal' # Append(journal, r)
  BY <1>1, <1>4 DEF AppendFails, LeavesBehind, s
<1> QED
  BY <1>2, <1>3, <1>4

\* Entries that stay, or are Clean and leave.
LEMMA KeptAlike ==
    ASSUME TypeOK, NEW k \in Keys, entry'[k] \in {entry[k], NoEntry},
           NonClean(entry[k]) => entry'[k] = entry[k]
    PROVE  EntryAlike(k)
<1>1. entry[k].ver \in Nat /\ NoEntry.ver = 0 /\ ~NonClean(NoEntry)
  BY DEF TypeOK, Entries, NoEntry, NonClean
<1> QED
  BY <1>1 DEF EntryAlike

\* A step that leaves the store alone, says nothing of k and evicts k at most.
LEMMA KeyPlain ==
    ASSUME TypeOK, TypeOK', NEW k \in Keys, KeyInv(k), Unspoiled(k)' => SaysAlike(k),
           backing'[k] = backing[k], \A u \in Threads : WritesAlike(u, k), UNCHANGED replay,
           entry'[k] \in {entry[k], NoEntry}, NonClean(entry[k]) => entry'[k] = entry[k]
    PROVE  KeyInv(k)'
BY KeptAlike, KeyCarried DEF StoreAlike

\* The threads that do not step are on their way with the same Put.
LEMMA OthersWriteAlike ==
    ASSUME TypeOK, NEW t \in Threads, NEW l, NEW r, Step(t, l, r), NEW k
    PROVE  \A u \in Threads \ {t} : WritesAlike(u, k)
<1> SUFFICES ASSUME NEW u \in Threads \ {t} PROVE WritesAlike(u, k)
  OBVIOUS
<1>1. pc'[u] = pc[u] /\ loc'[u] = loc[u]
  BY StepEffect
<1> QED
  BY <1>1 DEF WritesAlike, Puts, Flushes

\* So is a thread that is not at the commit of a Put of k, and goes where no write of k is
\* under way or on with the same flush.
LEMMA MovesAlike ==
    ASSUME TypeOK, NEW t \in Threads, NEW l, NEW r, Step(t, l, r), NEW k, ~Puts(t, k),
           l = "put_commit" => r.key # k,
           l \in FlushPcs => r = loc[t] /\ pc[t] \in FlushPcs,
           l = "flush_commit" => r.fkey # k
    PROVE  \A u \in Threads : WritesAlike(u, k)
<1>1. pc'[t] = l /\ (l # "idle" => loc'[t] = r)
  BY StepEffect
<1>2. "idle" \notin FlushPcs \cup {"put_commit", "flush_commit"}
  BY DEF FlushPcs
<1>3. WritesAlike(t, k)
  BY <1>1, <1>2 DEF WritesAlike, Puts, Flushes
<1> QED
  BY <1>3, OthersWriteAlike

\* A thread that stays where it was.
LEMMA StaysAlike ==
    ASSUME UNCHANGED threadVars, NEW k
    PROVE  \A u \in Threads : WritesAlike(u, k)
BY DEF threadVars, WritesAlike, Puts, Flushes

\* Where FlushKey returns to, no write is under way.
LEMMA ReturnsAlike ==
    ASSUME TypeOK, NEW t \in Threads, NEW ok, FlushReturn(t, ok), pc[t] # "put_commit", NEW k
    PROVE  /\ \A u \in Threads : WritesAlike(u, k)
           /\ pc'[t] \notin FlushPcs
<1>1. loc[t].fret \in {"idle", "release", "relieve_after", "all_next"}
  BY DEF TypeOK, Locals
<1>2. loc[t].fret \notin FlushPcs \cup {"put_commit", "flush_commit"}
  BY <1>1 DEF FlushPcs
<1>3. PICK r : Step(t, loc[t].fret, r)
  BY DEF FlushReturn
<1>4. pc'[t] = loc[t].fret
  BY <1>3, StepEffect
<1>5. ~Puts(t, k)
  BY DEF Puts
<1> QED
  BY <1>2, <1>3, <1>4, <1>5, MovesAlike

\* Eviction and the LRU list.
LEMMA RecordsEvict ==
    ASSUME TypeOK, NEW pos, NEW out, Settle(entry, pos, out),
           \A j \in out : entry[j].state = "Clean"
    PROVE  \A k \in Keys : /\ entry'[k] \in {entry[k], NoEntry}
                           /\ NonClean(entry[k]) => entry'[k] = entry[k]
BY DEF Settle, NonClean, TypeOK

\* A truncation: nothing unflushed and no Put on its way is left behind.
LEMMA KeyGone ==
    ASSUME journal' = << >>, inDoubt' = {}, UnflushedIsJournaled', NEW k \in Keys
    PROVE  KeyInv(k)'
<1>1. ~NonClean(entry'[k])
  BY DEF UnflushedIsJournaled, Journaled, NonClean
<1>2. \A t \in Threads : ~Puts(t, k)'
  BY DEF UnflushedIsJournaled, Journaled, Puts
<1>3. Len(journal') = 0 /\ 1..Len(journal') = {}
  OBVIOUS
<1>4. \A i : ~NewestPut(k, i)'
  BY <1>3 DEF NewestPut, Newest
<1> QED
  BY <1>1, <1>2, <1>4 DEF KeyInv, KeyHeld, PutIsNewest, UnflushedIsNewest, NewestIsHeld,
     FlushedIsStored, FlushesNewest, CommitIsFlushed, NonClean
-----------------------------------------------------------------------------
(* The steps, one by one.                                                  *)

\* Calls run once the replay is over.
LEMMA CallReplayed ==
    ASSUME StartUp, NEW t \in Threads, Begin(t) \/ Continue(t)
    PROVE  replay.done
BY CallReady DEF StartUp, EmptyUntilReplayed

\* The first step of a call.
LEMMA KeyBegin ==
    ASSUME TypeOK, TypeOK', NEW k \in Keys, KeyInv(k), NEW t \in Threads, Begin(t)
    PROVE  KeyInv(k)'
<1>1. pc[t] = "idle" /\ UNCHANGED <<backing, journal, inDoubt, replay>>
  BY DEF Begin, PutBegin, GetBegin, InvalidateBegin, FlushBegin, FlushAllBegin, ShutdownBegin,
     Call, lifeVars, journalVars
<1>2. \/ UNCHANGED threadVars
      \/ \E l, r : Step(t, l, r) /\ l \in {"put_admit", "inv_admit", "flush_peek", "collect",
                                            "shut_drain", "get_read"}
  BY DEF Begin, PutBegin, GetBegin, InvalidateBegin, FlushBegin, FlushAllBegin, StartFlushAll,
     ShutdownBegin
<1>3. \A u \in Threads : WritesAlike(u, k)
  <2>1. ~Puts(t, k)
    BY <1>1 DEF Puts
  <2> QED BY <1>2, <2>1, MovesAlike, StaysAlike DEF FlushPcs
<1>4. Unspoiled(k)' => SaysAlike(k)
  BY <1>1, AlikeAfter
<1>5. UNCHANGED shardVars \/ \E j : Touch(j)
  BY DEF Begin, PutBegin, GetBegin, InvalidateBegin, FlushBegin, FlushAllBegin,
     ShutdownBegin
<1>6. entry'[k] \in {entry[k], NoEntry} /\ (NonClean(entry[k]) => entry'[k] = entry[k])
  <2>1. CASE UNCHANGED shardVars
    BY <2>1 DEF shardVars
  <2>2. ASSUME NEW j, Touch(j)
        PROVE  entry'[k] \in {entry[k], NoEntry} /\ (NonClean(entry[k]) => entry'[k] = entry[k])
    <3>1. Settle(entry, [lru EXCEPT ![j] = 0], {})
      BY <2>2 DEF Touch
    <3>2. \A i \in Keys : /\ entry'[i] \in {entry[i], NoEntry}
                          /\ NonClean(entry[i]) => entry'[i] = entry[i]
      BY <3>1, RecordsEvict
    <3> QED BY <3>2
  <2> QED BY <1>5, <2>1, <2>2
<1> QED
  BY <1>1, <1>3, <1>4, <1>6, KeyPlain

\* The steps of FlushAll, compaction and Shutdown.
LEMMA KeyLoops ==
    ASSUME TypeOK, TypeOK', NEW k \in Keys, KeyInv(k), UnflushedIsJournaled',
           NEW t \in Threads, FlushAllStep(t) \/ ShutdownStep(t)
    PROVE  KeyInv(k)'
<1>1. UNCHANGED <<backing, replay>> /\ UNCHANGED shardVars /\ pc[t] # "put_commit"
  BY DEF FlushAllStep, ShutdownStep, FlushAllCollect, FlushAllNext, CompactCheck,
     CompactPause, CompactDrain, DrainInFlightWrites, CompactScan, SumDirty, CompactTruncate,
     CompactResume, ShutdownDrain, ShutdownJoin, ShutdownStopped, ShutdownScan,
     ShutdownTruncate, lifeVars
<1>2. loc[t].aret \in {"idle", "shut_stopped"}
  BY DEF TypeOK, Locals
<1>3. ASSUME FlushAllNext(t)
      PROVE  \E l, r : Step(t, l, r) /\ l \notin FlushPcs \cup {"put_commit", "flush_commit"}
  <2> DEFINE m == [loc[t] EXCEPT !.failed = @ \/ ~loc[t].ok, !.ok = TRUE]
  <2>1. m.aret = loc[t].aret
    BY DEF TypeOK, Locals
  <2>2. PICK l, r : Step(t, l, r) /\ l \in {"flush_peek", "collect", m.aret, "compact_check"}
    BY <1>3 DEF FlushAllNext
  <2> QED BY <1>2, <2>1, <2>2 DEF FlushPcs
<1>4. PICK l, r : Step(t, l, r) /\ l \notin FlushPcs \cup {"put_commit", "flush_commit"}
  <2>1. CASE FlushAllStep(t)
    BY <1>2, <1>3, <2>1 DEF FlushAllStep, FlushAllCollect, CompactCheck,
       CompactPause, CompactDrain, DrainInFlightWrites, CompactScan, SumDirty,
       CompactTruncate, CompactResume, FlushPcs
  <2>2. CASE ShutdownStep(t)
    BY <2>2 DEF ShutdownStep, ShutdownDrain, ShutdownJoin, StartFlushAll,
       ShutdownStopped, ShutdownScan, SumDirty, ShutdownTruncate, FlushPcs
  <2> QED BY <2>1, <2>2
<1>5. \A u \in Threads : WritesAlike(u, k)
  BY <1>1, <1>4, MovesAlike DEF Puts
<1>6. UNCHANGED <<journal, inDoubt>> \/ (journal' = << >> /\ inDoubt' = {})
  BY DEF FlushAllStep, ShutdownStep, FlushAllCollect, FlushAllNext, CompactCheck,
     CompactPause, CompactDrain, DrainInFlightWrites, CompactScan, SumDirty, CompactTruncate,
     CompactResume, ShutdownDrain, ShutdownJoin, ShutdownStopped, ShutdownScan,
     ShutdownTruncate, journalVars, TruncateOk, TruncateFails
<1>7. CASE UNCHANGED <<journal, inDoubt>>
  <2>1. Unspoiled(k)' => SaysAlike(k)
    BY <1>7, AlikeAfter
  <2> QED BY <1>1, <1>5, <2>1, KeyPlain DEF shardVars
<1>8. CASE journal' = << >> /\ inDoubt' = {}
  BY <1>8, KeyGone
<1> QED
  BY <1>6, <1>7, <1>8

\* The steps of a Put that wait, make room or return.
LEMMA KeyPut ==
    ASSUME TypeOK, TypeOK', NEW k \in Keys, KeyInv(k), NEW t \in Threads,
           \/ PutAdmit(t) \/ RelievePeek(t) \/ RelieveAfter(t) \/ ReleaseWriteAdmission(t)
    PROVE  KeyInv(k)'
<1>1. UNCHANGED <<backing, replay, journal, inDoubt>> /\ pc[t] # "put_commit"
  BY DEF PutAdmit, TryAdmitWrite, RelievePeek, RelieveAfter, ReleaseWriteAdmission,
     lifeVars, journalVars
<1>2. PICK l, r : /\ Step(t, l, r)
                  /\ l \in {"put_append", "idle", "release", "flush_peek", "relieve_peek"}
  BY DEF PutAdmit, TryAdmitWrite, RelievePeek, RelieveAfter, PutRelieved,
     ReleaseWriteAdmission
<1>3. \A u \in Threads : WritesAlike(u, k)
  <2>1. ~Puts(t, k)
    BY <1>1 DEF Puts
  <2> QED BY <1>2, <2>1, MovesAlike DEF FlushPcs
<1>4. Unspoiled(k)' => SaysAlike(k)
  BY <1>1, AlikeAfter
<1>5. UNCHANGED shardVars \/ \E s : EvictCleanEntriesLocked(s)
  BY DEF PutAdmit, TryAdmitWrite, RelievePeek, RelieveAfter, ReleaseWriteAdmission
<1>6. entry'[k] \in {entry[k], NoEntry} /\ (NonClean(entry[k]) => entry'[k] = entry[k])
  BY <1>5, RecordsEvict, VictimsClean DEF EvictCleanEntriesLocked, shardVars
<1> QED
  BY <1>1, <1>3, <1>4, <1>6, KeyPlain

\* A reader adds Clean entries only, where nothing was.
LEMMA KeyGet ==
    ASSUME TypeOK, TypeOK', OrderInv, NEW k \in Keys, KeyInv(k), NEW t \in Threads, GetStep(t)
    PROVE  KeyInv(k)'
<1>1. UNCHANGED <<backing, replay, journal, inDoubt>> /\ pc[t] \in FillPcs
  BY DEF GetStep, GetRead, GetFill, BackingSucceeds, BackingFails, lifeVars, journalVars,
     FillPcs
<1>2. PICK l, r : Step(t, l, r) /\ l \in {"get_fill", "idle"}
  BY DEF GetStep, GetRead, GetFill
<1>3. \A u \in Threads : WritesAlike(u, k)
  <2>1. ~Puts(t, k)
    BY <1>1 DEF Puts, FillPcs
  <2> QED BY <1>2, <2>1, MovesAlike DEF FlushPcs
<1>4. Unspoiled(k)' => SaysAlike(k)
  BY <1>1, AlikeAfter
<1>5. CASE UNCHANGED shardVars \/ Touch(loc[t].key)
  <2>1. entry'[k] \in {entry[k], NoEntry} /\ (NonClean(entry[k]) => entry'[k] = entry[k])
    BY <1>5, RecordsEvict DEF Touch, shardVars
  <2> QED BY <1>1, <1>3, <1>4, <2>1, KeyPlain
<1>6. CASE ~UNCHANGED shardVars /\ ~Touch(loc[t].key)
  <2> DEFINE j == loc[t].key
             new == [val |-> loc[t].val, ver |-> 0, state |-> "Clean"]
  <2>1. /\ fence[ShardOf[j]] = loc[t].fence
        /\ InsertOrUpdateLocked(j, loc[t].val, 0, "Clean")
    BY <1>6 DEF GetStep, GetRead, GetFill
  <2>2. ~Cached(j)
    BY <1>1, <2>1 DEF OrderInv, FillSnapshots
  <2>3. j \in Keys /\ loc[t].val \in Stored
    BY HeldTypes
  <2> HIDE DEF j
  <2>4. InsertResult(j, loc[t].val, 0, "Clean")
    BY <1>6, <2>1, <2>3, InsertEffect
  <2>5. CASE k = j
    <3>1. entry'[k].ver = 0 /\ ~NonClean(entry'[k])
      BY <2>4, <2>5 DEF InsertResult, NoEntry, NonClean
    <3>2. ~NonClean(entry[k])
      BY <2>2, <2>5 DEF Cached, NonClean
    <3>3. EntryAlike(k)
      BY <3>1, <3>2 DEF EntryAlike
    <3> QED BY <1>1, <1>3, <1>4, <3>3, KeyCarried DEF StoreAlike
  <2>6. CASE k # j
    <3>1. entry'[k] \in {entry[k], NoEntry} /\ (NonClean(entry[k]) => entry'[k] = entry[k])
      BY <2>4, <2>6 DEF InsertResult
    <3> QED BY <1>1, <1>3, <1>4, <3>1, KeyPlain
  <2> QED BY <2>5, <2>6
<1> QED
  BY <1>5, <1>6
\* An Invalidate that removes its key from the store and the cache is in the journal.
RemovalPcs == {"inv_remove", "inv_commit"}
Recorded(k) == \E i \in DOMAIN journal : journal[i].type = "Invalidate" /\ journal[i].key = k
RemovalsRecorded == \A t \in Threads : pc[t] \in RemovalPcs => Recorded(loc[t].key)

\* A thread arrives at the removal only by journaling it.
LEMMA RemovalArrives ==
    ASSUME TypeOK, [Next]_vars, NEW u \in Threads, pc'[u] \in RemovalPcs
    PROVE  (pc[u] \in RemovalPcs /\ loc'[u] = loc[u]) \/ InvalidateAppend(u)
<1>0. loc[u].fret \notin RemovalPcs /\ loc[u].aret \notin RemovalPcs
  BY DEF TypeOK, Locals, RemovalPcs
<1>1. ASSUME NEW l, NEW r, Step(u, l, r) PROVE l \in {"inv_remove", "inv_commit"}
  BY <1>1, StepEffect DEF RemovalPcs
<1>2. CASE UNCHANGED threadVars
  BY <1>2 DEF threadVars
<1>3. CASE Recover \/ Crash \/ UNCHANGED vars
  BY <1>2, <1>3 DEF Recover, ReplayRecord, ReplayFails, ReplayEnd, Replaying,
     MarkRecoveryComplete, Crash, vars, RemovalPcs
<1>4. CASE \E t \in Threads \ {u} : Begin(t) \/ Continue(t)
  BY <1>4, OthersStay
<1>a. \A r : /\ ~Step(u, "put_admit", r) /\ ~Step(u, "get_read", r)
             /\ ~Step(u, "inv_admit", r) /\ ~Step(u, "flush_peek", r)
             /\ ~Step(u, "collect", r) /\ ~Step(u, "shut_drain", r)
             /\ ~Step(u, "put_append", r) /\ ~Step(u, "idle", r) /\ ~Step(u, "put_commit", r)
             /\ ~Step(u, "release", r) /\ ~Step(u, "relieve_peek", r)
             /\ ~Step(u, "compact_check", r) /\ ~Step(u, loc[u].aret, r)
  BY <1>0, <1>1 DEF RemovalPcs
<1>5. CASE Begin(u)
  BY <1>2, <1>5, <1>a DEF Begin, PutBegin, GetBegin, InvalidateBegin, FlushBegin,
     FlushAllBegin, StartFlushAll, ShutdownBegin
<1>6. CASE PutStep(u)
  BY <1>6, <1>a DEF PutStep, PutAdmit, TryAdmitWrite, PutAppend, PutCommit, RelievePeek,
     RelieveAfter, PutRelieved, ReleaseWriteAdmission
<1>7. CASE GetStep(u)
  BY <1>1, <1>7 DEF GetStep, GetRead, GetFill, RemovalPcs
<1>8. CASE InvalidateStep(u)
  <2>1. CASE InvalidateRemove(u)
    <3>1. pc[u] = "inv_remove"
      BY <2>1 DEF InvalidateRemove
    <3>2. Step(u, "inv_commit", loc[u])
      BY <1>1, <2>1 DEF InvalidateRemove, RemovalPcs
    <3> QED BY <3>1, <3>2, StepEffect DEF RemovalPcs
  <2> QED BY <1>1, <1>8, <2>1 DEF InvalidateStep, InvalidateAdmit, TryAdmitWrite,
     InvalidatePeek, InvalidateCommit, RemovalPcs
<1>9. CASE FlushStep(u)
  BY <1>0, <1>1, <1>9 DEF FlushStep, FlushPeek, FlushIntent, FlushPut, FlushComplete,
     FlushAppend, FlushCommit, RevertFlushInProgressLocked, FlushReturn, RemovalPcs
<1>10. CASE FlushAllStep(u)
  <2>1. CASE FlushAllNext(u)
    <3>1. [loc[u] EXCEPT !.failed = @ \/ ~loc[u].ok, !.ok = TRUE].aret = loc[u].aret
      BY DEF TypeOK, Locals
    <3> QED BY <1>a, <2>1, <3>1 DEF FlushAllNext
  <2> QED
    BY <1>0, <1>1, <1>10, <2>1 DEF FlushAllStep, FlushAllCollect, CompactCheck, CompactPause,
       CompactDrain, DrainInFlightWrites, CompactScan, SumDirty, CompactTruncate,
       CompactResume, RemovalPcs
<1>11. CASE ShutdownStep(u)
  BY <1>1, <1>11 DEF ShutdownStep, ShutdownDrain, ShutdownJoin, StartFlushAll,
     ShutdownStopped, ShutdownScan, SumDirty, ShutdownTruncate, RemovalPcs
<1> QED
  BY <1>3, <1>4, <1>5, <1>6, <1>7, <1>8, <1>9, <1>10, <1>11 DEF Next, AtRest, Continue

\* No truncation meets a removal: both drains wait for it.
LEMMA RemovalsStayRecorded == Spec /\ []OneCompactor => []RemovalsRecorded
<1>1. Init => RemovalsRecorded
  BY DEF Init, RemovalsRecorded, RemovalPcs
<1>2. /\ TypeOK /\ InFlightExact /\ LoopInv /\ RemovalsRecorded /\ [Next]_vars
      => RemovalsRecorded'
  <2> SUFFICES ASSUME TypeOK, InFlightExact, LoopInv, RemovalsRecorded, [Next]_vars,
                      NEW u \in Threads, pc'[u] \in RemovalPcs
               PROVE  \E i \in DOMAIN journal' : /\ journal'[i].type = "Invalidate"
                                                 /\ journal'[i].key = loc'[u].key
    BY DEF RemovalsRecorded, Recorded
  <2>1. CASE InvalidateAppend(u)
    <3> DEFINE r == Record("Invalidate", loc[u].key, NoValue, loc[u].ver)
    <3>1. ~Step(u, "release", loc[u])
      BY StepEffect DEF RemovalPcs
    <3>2. journal' = Append(journal, r) /\ Step(u, "inv_remove", loc[u])
      BY <2>1, <3>1 DEF InvalidateAppend, AppendOk
    <3>3. r.type = "Invalidate" /\ r.key = loc[u].key
      BY DEF Record
    <3> HIDE DEF r
    <3>4. Len(journal) + 1 \in DOMAIN journal' /\ journal'[Len(journal) + 1] = r
      BY <3>2, AppendKeeps
    <3>5. loc'[u] = loc[u]
      BY <3>2, StepEffect
    <3> QED BY <3>3, <3>4, <3>5
  <2>2. CASE pc[u] \in RemovalPcs /\ loc'[u] = loc[u]
    <3>1. CASE JournalKept
      BY <2>2, <3>1 DEF RemovalsRecorded, Recorded, JournalKept
    <3>2. ASSUME NEW t \in Threads, CompactTruncate(t) \/ ShutdownTruncate(t) PROVE FALSE
      <4>1. pc[t] \in {"compact_truncate", "shut_truncate"}
        BY <3>2 DEF CompactTruncate, ShutdownTruncate
      <4>2. inFlight = 0
        BY <4>1 DEF LoopInv, LoopSafe, Drained, ShutPcs
      <4>3. pc[u] \in AdmittedPcs
        BY <2>2 DEF RemovalPcs, AdmittedPcs, InvalidatePcs
      <4> QED BY <4>2, <4>3, NoneAdmitted
    <3> QED BY <3>1, <3>2, JournalGrows
  <2> QED BY <2>1, <2>2, RemovalArrives
<1> QED
  BY <1>1, <1>2, CompactionSafe, TypeCorrect, InFlightIsExact, PTL DEF Spec

\* The steps of an Invalidate: of its own key the journal then no longer tells all.
LEMMA KeyInvalidate ==
    ASSUME TypeOK, TypeOK', RemovalsRecorded, NEW k \in Keys, KeyInv(k), NEW t \in Threads,
           InvalidateStep(t)
    PROVE  KeyInv(k)'
<1>1. UNCHANGED replay /\ pc[t] \in InvalidatePcs \cup {"inv_admit"}
  BY DEF InvalidateStep, InvalidateAdmit, TryAdmitWrite, InvalidatePeek, InvalidateAppend,
     InvalidateRemove, InvalidateCommit, lifeVars, InvalidatePcs
<1>2. \A u \in Threads : WritesAlike(u, k)
  <2>1. PICK l, r : Step(t, l, r) /\ l \in InvalidatePcs \cup {"idle", "release"}
    BY DEF InvalidateStep, InvalidateAdmit, TryAdmitWrite, InvalidatePeek, InvalidateAppend,
       InvalidateRemove, InvalidateCommit, InvalidatePcs
  <2>2. ~Puts(t, k)
    BY <1>1 DEF Puts, InvalidatePcs
  <2>3. l \notin FlushPcs \cup {"put_commit", "flush_commit"}
    BY <2>1 DEF InvalidatePcs, FlushPcs
  <2> QED BY <2>1, <2>2, <2>3, MovesAlike
<1>k. loc[t].key \in Keys /\ loc[t].ver \in Nat
  BY HeldTypes
<1>3. CASE InvalidateAdmit(t) \/ InvalidatePeek(t)
  <2>1. UNCHANGED <<backing, journal, inDoubt, entry>>
    BY <1>3 DEF InvalidateAdmit, TryAdmitWrite, InvalidatePeek, journalVars, shardVars
  <2>2. Unspoiled(k)' => SaysAlike(k)
    BY <2>1, AlikeAfter
  <2> QED BY <1>1, <1>2, <2>1, <2>2, KeyPlain
<1>4. CASE InvalidateAppend(t)
  <2> DEFINE r == Record("Invalidate", loc[t].key, NoValue, loc[t].ver)
  <2>1. UNCHANGED <<backing, entry>> /\ (AppendOk(r) \/ AppendFails(r))
    BY <1>4 DEF InvalidateAppend, shardVars
  <2>2. r \in Records /\ r.type = "Invalidate"
    BY <1>k DEF Record, Records, RecordTypes, Stored
  <2> HIDE DEF r
  <2>3. /\ inDoubt' = inDoubt
        /\ \/ journal' = journal
           \/ \E s \in Records : /\ s.type \in {"Torn", "Invalidate"}
                                 /\ journal' = Append(journal, s)
    BY <2>1, <2>2, AttemptEffect
  <2>4. Unspoiled(k)' => SaysAlike(k)
    BY <2>3, AlikeAfter
  <2> QED BY <1>1, <1>2, <2>1, <2>4, KeyPlain
<1>5. CASE InvalidateRemove(t) \/ InvalidateCommit(t)
  <2>1. UNCHANGED <<journal, inDoubt>> /\ pc[t] \in RemovalPcs
    BY <1>5 DEF InvalidateRemove, InvalidateCommit, BackingSucceeds, BackingFails,
       journalVars, RemovalPcs
  <2>2. CASE k = loc[t].key
    <3>1. ~Unspoiled(k)
      BY <2>1, <2>2 DEF RemovalsRecorded, Recorded, Unspoiled
    <3> QED BY <2>1, <3>1 DEF KeyInv, Unspoiled
  <2>3. CASE k # loc[t].key
    <3>1. Unspoiled(k)' => SaysAlike(k)
      BY <2>1, AlikeAfter
    <3>2. backing'[k] = backing[k]
      BY <1>5, <2>3 DEF InvalidateRemove, InvalidateCommit, BackingSucceeds, BackingFails,
         TypeOK
    <3>3. entry'[k] = entry[k]
      <4>1. CASE InvalidateRemove(t)
        BY <4>1 DEF InvalidateRemove, shardVars
      <4>2. CASE InvalidateCommit(t)
        <5>1. PICK out : Settle(entry, lru, out) /\ out \subseteq {loc[t].key}
          BY <4>2 DEF InvalidateCommit
        <5> QED BY <2>3, <5>1 DEF Settle
      <4> QED BY <1>5, <4>1, <4>2
    <3> QED BY <1>1, <1>2, <3>1, <3>2, <3>3, KeyPlain
  <2> QED BY <2>2, <2>3
<1> QED
  BY <1>3, <1>4, <1>5 DEF InvalidateStep

\* The steps of a flush that change neither the store nor an entry.
LEMMA KeyFlushPlain ==
    ASSUME TypeOK, TypeOK', NEW k \in Keys, KeyInv(k), NEW t \in Threads,
           \/ FlushPeek(t) /\ ~Claimable(entry[loc[t].fkey], loc[t].fexp)
           \/ FlushIntent(t)
           \/ FlushPut(t) /\ pc'[t] = "flush_revert"
           \/ FlushCommit(t) /\ ~StillMine(t)
    PROVE  KeyInv(k)'
<1>k. loc[t].fkey \in Keys /\ loc[t].fver \in Nat
  BY HeldTypes
<1>1. CASE \/ FlushPeek(t) /\ ~Claimable(entry[loc[t].fkey], loc[t].fexp)
           \/ FlushCommit(t) /\ ~StillMine(t)
  <2>1. /\ pc[t] # "put_commit" /\ UNCHANGED <<entry, backing, replay, journal, inDoubt>>
        /\ \E ok : FlushReturn(t, ok)
    BY <1>1 DEF FlushPeek, FlushCommit, lifeVars, journalVars
  <2>2. \A u \in Threads : WritesAlike(u, k)
    BY <2>1, ReturnsAlike
  <2>3. Unspoiled(k)' => SaysAlike(k)
    BY <2>1, AlikeAfter
  <2> QED BY <2>1, <2>2, <2>3, KeyPlain
<1>2. CASE FlushIntent(t)
  <2> DEFINE r == Record("FlushIntent", loc[t].fkey, NoValue, loc[t].fver)
  <2>1. /\ pc[t] = "flush_intent" /\ UNCHANGED <<entry, backing, replay>>
        /\ AppendOk(r) \/ AppendFails(r)
        /\ \E l \in {"flush_put", "flush_revert"} : Step(t, l, loc[t])
    BY <1>2 DEF FlushIntent, FlushAppend, shardVars, lifeVars
  <2>2. r \in Records /\ r.type = "FlushIntent"
    BY <1>k DEF Record, Records, RecordTypes, Stored
  <2> HIDE DEF r
  <2>3. /\ inDoubt' = inDoubt
        /\ \/ journal' = journal
           \/ \E s \in Records : /\ s.type \in {"Torn", "FlushIntent"}
                                 /\ journal' = Append(journal, s)
    BY <2>1, <2>2, AttemptEffect
  <2>4. Unspoiled(k)' => SaysAlike(k)
    BY <2>3, AlikeAfter
  <2>5. \A u \in Threads : WritesAlike(u, k)
    BY <2>1, MovesAlike DEF Puts, FlushPcs
  <2> QED BY <2>1, <2>4, <2>5, KeyPlain
<1>3. CASE FlushPut(t) /\ pc'[t] = "flush_revert"
  <2>1. ~Step(t, "flush_complete", loc[t])
    BY <1>3, StepEffect
  <2>2. /\ pc[t] = "flush_put" /\ UNCHANGED <<entry, backing, replay, journal, inDoubt>>
        /\ Step(t, "flush_revert", loc[t])
    BY <1>3, <2>1 DEF FlushPut, BackingFails, shardVars, lifeVars
  <2>3. Unspoiled(k)' => SaysAlike(k)
    BY <2>2, AlikeAfter
  <2>4. \A u \in Threads : WritesAlike(u, k)
    BY <2>2, MovesAlike DEF Puts, FlushPcs
  <2> QED BY <2>2, <2>3, <2>4, KeyPlain
<1> QED
  BY <1>1, <1>2, <1>3

\* A flush claims an entry, or gives it back: the entry keeps its version.
LEMMA KeyClaim ==
    ASSUME TypeOK, TypeOK', NEW k \in Keys, KeyInv(k), NEW t \in Threads,
           \/ FlushPeek(t) /\ Claimable(entry[loc[t].fkey], loc[t].fexp)
           \/ RevertFlushInProgressLocked(t)
    PROVE  KeyInv(k)'
<1> DEFINE j == loc[t].fkey
           m == [loc[t] EXCEPT !.fval = entry[j].val, !.fver = entry[j].ver]
<1>1. j \in Keys /\ loc[t] \in Locals /\ entry[j] \in Entries
  BY HeldTypes DEF TypeOK
<1>2. m.fkey = j /\ m.fver = entry[j].ver
  BY <1>1 DEF Locals, Entries
<1>3. /\ UNCHANGED <<backing, journal, inDoubt, replay>> /\ pc[t] # "put_commit"
      /\ \/ \E ok : FlushReturn(t, ok)
         \/ NonClean(entry[j]) /\ Step(t, "flush_intent", m)
      /\ \/ UNCHANGED entry
         \/ /\ NonClean(entry[j])
            /\ \E state : SetState(j, state) /\ state \in {"Dirty", "FlushInProgress"}
  BY DEF FlushPeek, RevertFlushInProgressLocked, Claimable, StillMine, NonClean, lifeVars,
     journalVars
<1> HIDE DEF m, j
<1>4. EntryAlike(k)
  <2>1. CASE UNCHANGED entry
    BY <2>1, KeptAlike
  <2>2. ASSUME NonClean(entry[j]), NEW state \in {"Dirty", "FlushInProgress"},
               SetState(j, state)
        PROVE  EntryAlike(k)
    <3>1. /\ entry'[j].state = state /\ entry'[j].ver = entry[j].ver
          /\ entry'[j].val = entry[j].val /\ \A i \in Keys \ {j} : entry'[i] = entry[i]
      BY <1>1, <2>2, SetStateEffect
    <3>2. CASE k = j
      BY <2>2, <3>1, <3>2 DEF EntryAlike, NonClean
    <3>3. CASE k # j
      BY <3>1, <3>3, KeptAlike
    <3> QED BY <3>2, <3>3
  <2> QED BY <1>3, <2>1, <2>2
<1>5. \A u \in Threads : WritesAlike(u, k)
  <2>1. ASSUME NonClean(entry[j]), Step(t, "flush_intent", m)
        PROVE  \A u \in Threads : WritesAlike(u, k)
    <3>1. pc'[t] = "flush_intent" /\ loc'[t] = m
      BY <2>1, StepEffect
    <3>2. WritesAlike(t, k)
      BY <1>2, <1>3, <2>1, <3>1 DEF WritesAlike, Puts, Flushes
    <3> QED BY <2>1, <3>2, OthersWriteAlike
  <2> QED BY <1>3, <2>1, ReturnsAlike
<1>6. Unspoiled(k)' => SaysAlike(k)
  BY <1>3, AlikeAfter
<1> QED
  BY <1>3, <1>4, <1>5, <1>6, KeyCarried DEF StoreAlike

\* A flush writes: if the newest is flushed already, it is the one being written.
LEMMA KeyWrite ==
    ASSUME TypeOK, TypeOK', CleanInv, NEW k \in Keys, KeyInv(k), NEW t \in Threads,
           FlushPut(t), pc'[t] = "flush_complete"
    PROVE  KeyInv(k)'
<1> DEFINE j == loc[t].fkey
<1>0. /\ pc[t] = "flush_put" /\ UNCHANGED <<entry, journal, inDoubt, replay>>
      /\ backing' = [backing EXCEPT ![j] = loc[t].fval] /\ Step(t, "flush_complete", loc[t])
  <2>1. ~Step(t, "flush_revert", loc[t])
    BY StepEffect
  <2> QED BY <2>1 DEF FlushPut, BackingSucceeds, lifeVars, shardVars, journalVars
<1>1. j \in Keys /\ backing'[j] = loc[t].fval /\ \A i \in Keys \ {j} : backing'[i] = backing[i]
  BY <1>0, HeldTypes DEF TypeOK
<1>2. /\ NonClean(entry[j]) /\ (entry[j].ver = loc[t].fver => entry[j].val = loc[t].fval)
  BY <1>0 DEF CleanInv, FlushesHeld, FlushPcs
<1>3. Flushes(t, j)
  BY <1>0 DEF Flushes, FlushPcs
<1>4. \A u \in Threads : WritesAlike(u, k)
  BY <1>0, MovesAlike DEF Puts, FlushPcs
<1>5. Unspoiled(k)' => SaysAlike(k)
  BY <1>0, AlikeAfter
<1>6. EntryAlike(k)
  BY <1>0, KeptAlike
<1> HIDE DEF j
<1>7. ASSUME Unspoiled(k)' PROVE StoreAlike(k)
  <2>1. CASE k # j \/ k \in inDoubt
    BY <1>1, <2>1 DEF StoreAlike
  <2>2. CASE k = j /\ k \notin inDoubt
    <3>1. KeyHeld(k)
      BY <1>5, <1>7, <2>2 DEF KeyInv, SaysAlike
    <3> SUFFICES ASSUME NEW i, NewestPut(k, i), NewestFlushed(k, i)
                 PROVE  backing'[k] = journal[i].val
      BY DEF StoreAlike
    <3>2. loc[t].fver = journal[i].ver
      BY <1>3, <2>2, <3>1 DEF KeyHeld, FlushesNewest
    <3>3. \A u \in Threads : ~Puts(u, k)
      BY <3>1, PutsNewest DEF KeyHeld
    <3>4. journal[i].val = entry[k].val /\ journal[i].ver = entry[k].ver
      BY <1>2, <2>2, <3>1, <3>3, UnflushedNewest DEF KeyHeld
    <3> QED BY <1>1, <1>2, <2>2, <3>2, <3>4
  <2> QED BY <2>1, <2>2
<1> QED
  BY <1>0, <1>4, <1>5, <1>6, <1>7, KeyCarried

\* A flush commits what the journal has as flushed.
LEMMA KeyFlushed ==
    ASSUME TypeOK, TypeOK', NEW k \in Keys, KeyInv(k), NEW t \in Threads, FlushCommit(t),
           StillMine(t)
    PROVE  KeyInv(k)'
<1> DEFINE j == loc[t].fkey
<1>0. /\ pc[t] = "flush_commit" /\ UNCHANGED <<backing, journal, inDoubt, replay>>
      /\ SetState(j, "Clean") /\ FlushReturn(t, TRUE)
  BY DEF FlushCommit, lifeVars, journalVars
<1>1. j \in Keys
  BY HeldTypes
<1>2. NonClean(entry[j]) /\ entry[j].ver = loc[t].fver /\ Flushes(t, j)
  BY <1>0 DEF StillMine, NonClean, Flushes, FlushPcs
<1> HIDE DEF j
<1>3. /\ entry'[j].state = "Clean" /\ entry'[j].ver = entry[j].ver
      /\ \A i \in Keys \ {j} : entry'[i] = entry[i]
  BY <1>0, <1>1, SetStateEffect
<1>4. \A u \in Threads : WritesAlike(u, k)
  BY <1>0, ReturnsAlike
<1>5. Unspoiled(k)' => SaysAlike(k)
  BY <1>0, AlikeAfter
<1>6. ASSUME Unspoiled(k)' PROVE EntryAlike(k)
  <2>1. CASE k # j
    BY <1>3, <2>1, KeptAlike
  <2>2. CASE k = j
    <3>1. \/ k \in inDoubt \/ (\E u \in Threads : Puts(u, k))
          \/ \A i : NewestPut(k, i) => NewestFlushed(k, i)
      <4> SUFFICES ASSUME k \notin inDoubt, \A u \in Threads : ~Puts(u, k),
                          NEW i, NewestPut(k, i)
                   PROVE  NewestFlushed(k, i)
        OBVIOUS
      <4>1. KeyHeld(k)
        BY <1>5, <1>6 DEF KeyInv, SaysAlike
      <4>2. journal[i].ver = entry[k].ver
        BY <1>2, <2>2, <4>1, UnflushedNewest DEF KeyHeld
      <4> QED BY <1>0, <1>2, <2>2, <4>1, <4>2 DEF KeyHeld, CommitIsFlushed
    <3> QED BY <1>3, <2>2, <3>1 DEF EntryAlike, NonClean
  <2> QED BY <2>1, <2>2
<1> QED
  BY <1>0, <1>4, <1>5, <1>6, KeyCarried DEF StoreAlike

\* A Put is journaled: it is now the newest of its key, its caller's or in doubt.
LEMMA KeyAppend ==
    ASSUME TypeOK, TypeOK', OrderInv, PutsApart', NEW k \in Keys, KeyInv(k), NEW t \in Threads,
           PutAppend(t)
    PROVE  KeyInv(k)'
<1> DEFINE j == loc[t].key
           v == NewVersion
           r == Record("Upsert", j, loc[t].val, v)
           m == [loc[t] EXCEPT !.ver = v]
           n == Len(journal)
<1>k. j \in Keys /\ loc[t].val \in Stored /\ versionCounter \in Nat /\ v = versionCounter + 1
  BY HeldTypes DEF TypeOK, NewVersion
<1>1. /\ pc[t] = "put_append" /\ UNCHANGED <<replay, entry, backing>>
      /\ \/ AppendOk(r) /\ Step(t, "put_commit", m)
         \/ AppendFails(r) /\ Step(t, "release", loc[t])
  BY DEF PutAppend, shardVars
<1>2. /\ r \in Records /\ r.type = "Upsert" /\ r.key = j /\ r.val = loc[t].val /\ r.ver = v
      /\ v # 0 /\ v \in Nat
  BY <1>k DEF Record, Records, RecordTypes
<1>3. m.key = j /\ m.val = loc[t].val /\ m.ver = v
  <2>1. loc[t] \in Locals
    BY DEF TypeOK
  <2> QED BY <1>k, <2>1 DEF Locals
<1>4. ~Puts(t, k) /\ \A u \in Threads : Flushes(u, k) => u # t
  BY <1>1 DEF Puts, Flushes, FlushPcs
<1>5. /\ entry[k].ver <= versionCounter /\ entry[k].ver \in Nat
      /\ \A u \in Threads : /\ Flushes(u, k) => loc[u].fver <= versionCounter
                            /\ Puts(u, k) => loc[u].ver <= versionCounter
                            /\ loc[u].fver \in Nat /\ loc[u].ver \in Nat
  <2>1. entry[k].ver <= versionCounter /\ entry[k].ver \in Nat
    BY DEF OrderInv, VersionsIssued, TypeOK, Entries
  <2>2. \A u \in Threads : Flushes(u, k) => loc[u].fver <= versionCounter
    BY DEF OrderInv, VersionsIssued, Flushes
  <2>3. ASSUME NEW u \in Threads, Puts(u, k) PROVE loc[u].ver <= versionCounter
    <3>1. loc[u].ver \in 1..versionCounter
      BY <2>3 DEF OrderInv, VersionsUnique, Puts
    <3> QED BY <1>k, <3>1
  <2> QED BY <2>1, <2>2, <2>3, HeldTypes
<1> HIDE DEF j, v, r, m
<1>6. CASE k # j
  <2>1. \A u \in Threads : WritesAlike(u, k)
    <3>1. ASSUME Step(t, "put_commit", m) PROVE \A u \in Threads : WritesAlike(u, k)
      BY <1>3, <1>4, <1>6, <3>1, MovesAlike DEF FlushPcs
    <3>2. ASSUME Step(t, "release", loc[t]) PROVE \A u \in Threads : WritesAlike(u, k)
      BY <1>4, <3>2, MovesAlike DEF FlushPcs
    <3> QED BY <1>1, <3>1, <3>2
  <2>2. /\ k \in inDoubt' <=> k \in inDoubt
        /\ \/ journal' = journal
           \/ \E s \in Records : /\ journal' = Append(journal, s)
                                 /\ ~(s.key = k /\ s.type \in {"Upsert", "FlushComplete"})
    BY <1>1, <1>2, <1>6, AttemptEffect
  <2>3. Unspoiled(k)' => SaysAlike(k)
    BY <2>2, AlikeAfter
  <2> QED BY <1>1, <2>1, <2>3, KeyPlain
<1>7. CASE k = j /\ AppendOk(r) /\ Step(t, "put_commit", m)
  <2>1. k \notin inDoubt' /\ journal' = Append(journal, r)
    BY <1>2, <1>7 DEF AppendOk
  <2>2. /\ pc'[t] = "put_commit" /\ loc'[t] = m
        /\ \A u \in Threads \ {t} : pc'[u] = pc[u] /\ loc'[u] = loc[u]
    BY <1>7, StepEffect
  <2>3. /\ journal'[n + 1] = r
        /\ \A i : (NewestPut(k, i)' <=> i = n + 1) /\ (i = n + 1 => ~NewestFlushed(k, i)')
    BY <1>2, <1>7, <2>1, AppendSays
  <2> HIDE DEF n
  <2>4. Puts(t, k)'
    BY <1>3, <1>7, <2>2 DEF Puts
  <2>5. \A u \in Threads : Puts(u, k)' => u = t
    BY <2>4 DEF PutsApart
  <2>6. PutIsNewest(k)'
    <3>1. entry'[k].ver < loc'[t].ver
      BY <1>1, <1>3, <1>5, <1>k, <2>2
    <3>2. \E i : /\ NewestPut(k, i)' /\ ~NewestFlushed(k, i)'
                 /\ journal'[i].val = loc'[t].val /\ journal'[i].ver = loc'[t].ver
      BY <1>2, <1>3, <2>2, <2>3
    <3> QED BY <2>5, <3>1, <3>2 DEF PutIsNewest
  <2>7. UnflushedIsNewest(k)' /\ NewestIsHeld(k)' /\ FlushedIsStored(k)' /\ FlushesNewest(k)'
    BY <2>3, <2>4 DEF UnflushedIsNewest, NewestIsHeld, FlushedIsStored, FlushesNewest
  <2>8. CommitIsFlushed(k)'
    <3> SUFFICES ASSUME NEW u \in Threads, Flushes(u, k)', loc'[u].fver = v PROVE FALSE
      BY <1>2, <2>3 DEF CommitIsFlushed
    <3>1. u # t
      BY <2>2 DEF Flushes, FlushPcs
    <3>2. Flushes(u, k) /\ loc[u].fver = v
      BY <2>2, <3>1 DEF Flushes
    <3> QED BY <1>5, <1>k, <3>2
  <2> QED BY <2>1, <2>6, <2>7, <2>8 DEF KeyInv, KeyHeld
<1>8. CASE k = j /\ AppendFails(r) /\ Step(t, "release", loc[t])
  <2>1. /\ pc'[t] = "release"
        /\ \A u \in Threads \ {t} : pc'[u] = pc[u] /\ loc'[u] = loc[u]
    BY <1>8, StepEffect
  <2>2. \A u \in Threads : WritesAlike(u, k)
    BY <1>4, <1>8, MovesAlike DEF FlushPcs
  <2>3. CASE journal' # Append(journal, r)
    <3>1. /\ inDoubt' = inDoubt
          /\ \/ journal' = journal
             \/ \E s \in Records : s.type = "Torn" /\ journal' = Append(journal, s)
      BY <1>2, <1>8, <2>3, AttemptEffect
    <3>2. Unspoiled(k)' => SaysAlike(k)
      BY <3>1, AlikeAfter
    <3> QED BY <1>1, <2>2, <3>2, KeyPlain
  <2>4. CASE journal' = Append(journal, r)
    <3>1. k \in inDoubt'
      BY <1>2, <1>8, <2>4 DEF AppendFails
    <3>2. /\ journal'[n + 1] = r
          /\ \A i : (NewestPut(k, i)' <=> i = n + 1) /\ (i = n + 1 => ~NewestFlushed(k, i)')
      BY <1>2, <1>8, <2>4, AppendSays
    <3> HIDE DEF n
    <3>3. entry'[k].ver # v
      BY <1>1, <1>5, <1>k
    <3>4. ASSUME NEW u \in Threads
          PROVE  (Puts(u, k)' => loc'[u].ver # v) /\ (Flushes(u, k)' => loc'[u].fver # v)
      <4>1. Puts(u, k)' => Puts(u, k) /\ loc'[u] = loc[u]
        BY <2>1 DEF Puts
      <4>2. Flushes(u, k)' => Flushes(u, k) /\ loc'[u] = loc[u]
        BY <2>1 DEF Flushes, FlushPcs
      <4> QED BY <1>5, <1>k, <4>1, <4>2
    <3>5. DoubtIsUnheld(k)'
      BY <1>2, <3>2, <3>3, <3>4 DEF DoubtIsUnheld
    <3> QED BY <3>1, <3>5 DEF KeyInv
  <2> QED BY <2>3, <2>4
<1> QED
  BY <1>1, <1>6, <1>7, <1>8

\* A Put commits: it is newer than what it replaces, and the newest of its key.
LEMMA KeyCommit ==
    ASSUME TypeOK, TypeOK', PutsApart, NEW k \in Keys, KeyInv(k), NEW t \in Threads,
           PutCommit(t)
    PROVE  KeyInv(k)'
<1> DEFINE j == loc[t].key
           new == [val |-> loc[t].val, ver |-> loc[t].ver, state |-> "Dirty"]
<1>0. /\ pc[t] = "put_commit" /\ UNCHANGED <<backing, journal, inDoubt, replay>>
      /\ Step(t, "relieve_peek", loc[t])
      /\ InsertOrUpdateLocked(j, loc[t].val, loc[t].ver, "Dirty")
  BY DEF PutCommit, lifeVars, journalVars
<1>k. j \in Keys /\ loc[t].val \in Stored /\ loc[t].ver \in Nat /\ Puts(t, j)
  BY <1>0, HeldTypes DEF Puts
<1>1. /\ pc'[t] = "relieve_peek"
      /\ \A u \in Threads \ {t} : pc'[u] = pc[u] /\ loc'[u] = loc[u]
  BY <1>0, StepEffect
<1> HIDE DEF j
<1>2. \/ Superseded(j, loc[t].ver) /\ UNCHANGED entry
      \/ InsertResult(j, loc[t].val, loc[t].ver, "Dirty")
  BY <1>0, <1>k, InsertEffect DEF shardVars
<1>3. Unspoiled(k)' => SaysAlike(k)
  BY <1>0, AlikeAfter
<1>4. CASE k # j
  <2>1. entry'[k] \in {entry[k], NoEntry} /\ (NonClean(entry[k]) => entry'[k] = entry[k])
    BY <1>2, <1>4 DEF InsertResult
  <2>2. ~Puts(t, k)
    BY <1>4 DEF Puts, j
  <2>3. \A u \in Threads : WritesAlike(u, k)
    BY <1>0, <2>2, MovesAlike DEF FlushPcs
  <2> QED BY <1>0, <1>3, <2>1, <2>3, KeyPlain
<1>5. CASE k = j
  <2> SUFFICES ASSUME Unspoiled(k)'
               PROVE  /\ k \in inDoubt' => DoubtIsUnheld(k)'
                      /\ k \notin inDoubt' => KeyHeld(k)'
    BY DEF KeyInv
  <2>1. Unspoiled(k)
    BY <1>3 DEF SaysAlike
  <2>2. \A i : /\ NewestPut(k, i)' <=> NewestPut(k, i)
               /\ NewestFlushed(k, i)' <=> NewestFlushed(k, i)
    BY <1>0 DEF NewestPut, NewestFlushed
  <2>3. \A u \in Threads : /\ Puts(u, k)' => u # t /\ Puts(u, k)
                           /\ Flushes(u, k)' => Flushes(u, k)
                           /\ Puts(u, k)' \/ Flushes(u, k)' =>
                                 pc'[u] = pc[u] /\ loc'[u] = loc[u]
    BY <1>1 DEF Puts, Flushes, FlushPcs
  <2>4. CASE k \in inDoubt
    <3>1. DoubtIsUnheld(k)
      BY <2>1, <2>4 DEF KeyInv
    <3>2. entry'[k].ver \in {entry[k].ver, loc[t].ver}
      BY <1>2, <1>5 DEF InsertResult
    <3>3. DoubtIsUnheld(k)'
      BY <1>0, <1>5, <1>k, <2>2, <2>3, <3>1, <3>2 DEF DoubtIsUnheld
    <3> QED BY <1>0, <2>4, <3>3
  <2>5. CASE k \notin inDoubt
    <3>1. /\ PutIsNewest(k) /\ FlushedIsStored(k) /\ FlushesNewest(k) /\ CommitIsFlushed(k)
      BY <2>1, <2>5 DEF KeyInv, KeyHeld
    <3>2. PICK i : /\ NewestPut(k, i) /\ journal[i].val = loc[t].val
                   /\ journal[i].ver = loc[t].ver
      BY <1>5, <1>k, <3>1 DEF PutIsNewest
    <3>3. ~Superseded(j, loc[t].ver)
      <4>1. entry[k].ver < loc[t].ver /\ entry[k].ver \in Nat
        BY <1>5, <1>k, <3>1 DEF PutIsNewest, TypeOK, Entries
      <4> QED BY <1>5, <1>k, <4>1 DEF Superseded
    <3>4. entry'[k] = new
      BY <1>2, <1>5, <3>3 DEF InsertResult
    <3>5. NonClean(entry'[k]) /\ entry'[k].val = loc[t].val /\ entry'[k].ver = loc[t].ver
      BY <3>4 DEF NonClean
    <3>6. \A u \in Threads : ~Puts(u, k)'
      BY <1>5, <1>k, <2>3 DEF PutsApart
    <3>7. PutIsNewest(k)'
      BY <3>6 DEF PutIsNewest
    <3>8. UnflushedIsNewest(k)'
      BY <1>0, <2>2, <3>2, <3>5 DEF UnflushedIsNewest
    <3>9. NewestIsHeld(k)'
      BY <3>5 DEF NewestIsHeld, NonClean
    <3>10. FlushedIsStored(k)' /\ FlushesNewest(k)' /\ CommitIsFlushed(k)'
      BY <1>0, <2>2, <2>3, <3>1 DEF FlushedIsStored, FlushesNewest, CommitIsFlushed
    <3> QED BY <1>0, <2>5, <3>7, <3>8, <3>9, <3>10 DEF KeyHeld
  <2> QED BY <2>4, <2>5
<1> QED
  BY <1>4, <1>5

\* What a flush of the newest Upsert has written is in the store, and no Put is on its way.
LEMMA CompleteStored ==
    ASSUME TypeOK, OrderInv, CleanInv, NEW k \in Keys, KeyHeld(k), NEW t \in Threads,
           pc[t] = "flush_complete", loc[t].fkey = k,
           NEW i, NewestPut(k, i), journal[i].ver = loc[t].fver
    PROVE  backing[k] = journal[i].val /\ \A u \in Threads : ~Puts(u, k)
<1>1. pc[t] \in FlushPcs
  BY DEF FlushPcs
<1>2. ASSUME NEW u \in Threads, Puts(u, k) PROVE FALSE
  <2>1. journal[i].ver = loc[u].ver
    BY <1>2, PutsNewest DEF KeyHeld
  <2>2. loc[t].fver # loc[u].ver
    BY <1>1, <1>2 DEF OrderInv, VersionsApart, Puts
  <2> QED BY <2>1, <2>2
<1>3. NonClean(entry[k]) /\ (entry[k].ver = loc[t].fver => entry[k].val = loc[t].fval)
  BY <1>1 DEF CleanInv, FlushesHeld
<1>4. journal[i].val = entry[k].val /\ journal[i].ver = entry[k].ver
  BY <1>2, <1>3, UnflushedNewest DEF KeyHeld
<1>5. backing[k] = loc[t].fval
  BY DEF CleanInv, WrittenStays
<1> QED
  BY <1>2, <1>3, <1>4, <1>5

\* A flush is journaled as complete: the newest Upsert is then flushed, if it is the one.
LEMMA KeyComplete ==
    ASSUME TypeOK, TypeOK', OrderInv, CleanInv, StoreUsesApart, NEW k \in Keys, KeyInv(k),
           NEW t \in Threads, FlushComplete(t)
    PROVE  KeyInv(k)'
<1> DEFINE j == loc[t].fkey
           r == Record("FlushComplete", j, NoValue, loc[t].fver)
<1>0. /\ pc[t] = "flush_complete" /\ UNCHANGED <<replay, entry, backing>>
      /\ \/ AppendOk(r) /\ Step(t, "flush_commit", loc[t])
         \/ AppendFails(r) /\ Step(t, "flush_revert", loc[t])
  BY DEF FlushComplete, FlushAppend, lifeVars, shardVars
<1>1. /\ r \in Records /\ r.type = "FlushComplete" /\ r.key = j /\ r.ver = loc[t].fver
      /\ j \in Keys
  BY HeldTypes DEF Record, Records, RecordTypes, Stored
<1>2. ~Puts(t, k) /\ pc[t] \in FlushPcs /\ Flushes(t, j)
  BY <1>0 DEF Puts, FlushPcs, Flushes
<1> HIDE DEF r
<1>3. /\ inDoubt' = inDoubt
      /\ \/ journal' = Append(journal, r)
         \/ /\ Step(t, "flush_revert", loc[t])
            /\ \/ journal' = journal
               \/ \E s \in Records : s.type = "Torn" /\ journal' = Append(journal, s)
  BY <1>0, <1>1, AttemptEffect DEF AppendOk
<1>4. \A u \in Threads \ {t} : WritesAlike(u, k)
  BY <1>0, OthersWriteAlike
<1>5. /\ pc'[t] \in {"flush_commit", "flush_revert"} /\ loc'[t] = loc[t]
      /\ \A u \in Threads \ {t} : pc'[u] = pc[u] /\ loc'[u] = loc[u]
  BY <1>0, StepEffect
<1>6. CASE k # j
  <2>1. WritesAlike(t, k)
    BY <1>2, <1>5, <1>6 DEF WritesAlike, Puts, Flushes
  <2>2. Unspoiled(k)' => SaysAlike(k)
    BY <1>1, <1>3, <1>6, AlikeAfter
  <2> QED BY <1>0, <1>4, <2>1, <2>2, KeyPlain
<1>7. CASE k = j /\ journal' # Append(journal, r)
  <2>1. WritesAlike(t, k)
    <3>1. pc'[t] = "flush_revert"
      BY <1>3, <1>7, StepEffect
    <3> QED BY <1>2, <1>5, <3>1 DEF WritesAlike, Puts, Flushes
  <2>2. Unspoiled(k)' => SaysAlike(k)
    BY <1>3, <1>7, AlikeAfter
  <2> QED BY <1>0, <1>4, <2>1, <2>2, KeyPlain
<1>8. CASE k = j /\ journal' = Append(journal, r)
  <2>1. /\ \A i : NewestPut(k, i)' <=> NewestPut(k, i)
        /\ \A i \in 1..Len(journal) :
              /\ journal'[i] = journal[i]
              /\ NewestFlushed(k, i)' <=>
                    NewestFlushed(k, i) \/ Completes(r, k, journal[i].ver)
    BY <1>1, <1>8, AppendSays
  <2>2. \A i : NewestPut(k, i) => i \in 1..Len(journal)
    BY JournalFacts
  <2>3. \A v : Completes(r, k, v) <=> v = loc[t].fver
    BY <1>1, <1>8 DEF Completes
  <2>4. Unspoiled(k)' => Unspoiled(k)
    BY <1>1, <1>8, WasUnspoiled
  <2>5. CASE \A i : NewestPut(k, i) => journal[i].ver # loc[t].fver
    <3>1. WritesAlike(t, k)
      BY <1>2, <1>5, <1>8, <2>5 DEF WritesAlike, Puts, Flushes
    <3>2. Unspoiled(k)' => SaysAlike(k)
      BY <1>3, <2>1, <2>2, <2>3, <2>4, <2>5 DEF SaysAlike
    <3> QED BY <1>0, <1>4, <3>1, <3>2, KeyPlain
  <2>6. ASSUME NEW i, NewestPut(k, i), journal[i].ver = loc[t].fver, Unspoiled(k)'
        PROVE  k \notin inDoubt /\ KeyHeld(k)'
    <3>1. k \notin inDoubt
      BY <1>2, <1>8, <2>4, <2>6 DEF KeyInv, DoubtIsUnheld
    <3>2. KeyHeld(k)
      BY <2>4, <2>6, <3>1 DEF KeyInv
    <3>3. backing[k] = journal[i].val /\ \A u \in Threads : ~Puts(u, k)
      BY <1>0, <1>8, <2>6, <3>2, CompleteStored
    <3>4. \A u \in Threads : ~Puts(u, k)'
      BY <1>5, <3>3 DEF Puts
    <3>5. \A h : NewestPut(k, h)' => h = i /\ NewestFlushed(k, h)' /\ journal'[h] = journal[h]
      BY <2>1, <2>2, <2>3, <2>6, OneNewest
    <3>6. \A u \in Threads : Flushes(u, k)' => loc'[u].fver = loc[t].fver
      <4> SUFFICES ASSUME NEW u \in Threads, Flushes(u, k)' PROVE loc'[u].fver = loc[t].fver
        OBVIOUS
      <4>1. CASE u = t
        BY <1>5, <4>1
      <4>2. CASE u # t
        BY <1>2, <1>5, <1>8, <4>2 DEF Flushes, StoreUsesApart
      <4> QED BY <4>1, <4>2
    <3>7. PutIsNewest(k)' /\ NewestIsHeld(k)'
      BY <3>4, <3>5 DEF PutIsNewest, NewestIsHeld
    <3>8. UnflushedIsNewest(k)'
      BY <1>0, <2>1, <2>2, <3>2, <3>3 DEF KeyHeld, UnflushedIsNewest, NonClean
    <3>9. FlushedIsStored(k)' /\ FlushesNewest(k)' /\ CommitIsFlushed(k)'
      BY <1>0, <2>6, <3>3, <3>5, <3>6 DEF FlushedIsStored, FlushesNewest, CommitIsFlushed
    <3> QED BY <3>1, <3>7, <3>8, <3>9 DEF KeyHeld
  <2> QED BY <1>3, <2>5, <2>6 DEF KeyInv
<1> QED
  BY <1>6, <1>7, <1>8

\* The record an append was cut short of; a FlushComplete is one of a flush that has written.
LEMMA PendingFacts ==
    ASSUME TypeOK, NEW t \in Threads, Appending(t)
    PROVE  /\ PendingRecord(t) \in Records
           /\ PendingRecord(t).type = "FlushComplete" =>
                 /\ pc[t] = "flush_complete" /\ PendingRecord(t).key = loc[t].fkey
                 /\ PendingRecord(t).ver = loc[t].fver
<1> DEFINE r == PendingRecord(t)
<1>1. /\ loc[t].key \in Keys /\ loc[t].fkey \in Keys /\ loc[t].val \in Stored
      /\ loc[t].ver \in Nat /\ loc[t].fver \in Nat /\ NoValue \in Stored
  BY HeldTypes DEF Stored
<1>2. NewVersion \in Nat
  BY DEF TypeOK, NewVersion
<1>3. CASE pc[t] = "put_append"
  <2>1. r = Record("Upsert", loc[t].key, loc[t].val, NewVersion)
    BY <1>3 DEF PendingRecord
  <2> HIDE DEF r
  <2>2. r \in Records /\ r.type = "Upsert"
    BY <1>1, <1>2, <2>1 DEF Record, Records, RecordTypes
  <2> QED BY <2>2 DEF r
<1>4. CASE pc[t] = "inv_append"
  <2>1. r = Record("Invalidate", loc[t].key, NoValue, loc[t].ver)
    BY <1>4 DEF PendingRecord
  <2> HIDE DEF r
  <2>2. r \in Records /\ r.type = "Invalidate"
    BY <1>1, <2>1 DEF Record, Records, RecordTypes
  <2> QED BY <2>2 DEF r
<1>5. CASE pc[t] = "flush_intent"
  <2>1. r = Record("FlushIntent", loc[t].fkey, NoValue, loc[t].fver)
    BY <1>5 DEF PendingRecord
  <2> HIDE DEF r
  <2>2. r \in Records /\ r.type = "FlushIntent"
    BY <1>1, <2>1 DEF Record, Records, RecordTypes
  <2> QED BY <2>2 DEF r
<1>6. CASE pc[t] = "flush_complete"
  <2>1. r = Record("FlushComplete", loc[t].fkey, NoValue, loc[t].fver)
    BY <1>6 DEF PendingRecord
  <2> HIDE DEF r
  <2>2. r \in Records /\ r.key = loc[t].fkey /\ r.ver = loc[t].fver
    BY <1>1, <2>1 DEF Record, Records, RecordTypes
  <2> QED BY <1>6, <2>2 DEF r
<1> QED
  BY <1>3, <1>4, <1>5, <1>6 DEF Appending

\* What a crash leaves at the end of the journal.
LEMMA CrashLeaves ==
    ASSUME TypeOK, Crash
    PROVE  \/ journal' = journal
           \/ \E r \in Records :
                 /\ journal' = Append(journal, r)
                 /\ r.type = "FlushComplete" =>
                       \E t \in Threads : /\ pc[t] = "flush_complete" /\ r.key = loc[t].fkey
                                          /\ r.ver = loc[t].fver
<1>1. ASSUME NEW t \in Threads, Appending(t), LeavesBehind(PendingRecord(t), CrashResidue),
             journal' # journal
      PROVE  \E r \in Records :
                 /\ journal' = Append(journal, r)
                 /\ r.type = "FlushComplete" =>
                       \E u \in Threads : /\ pc[u] = "flush_complete" /\ r.key = loc[u].fkey
                                          /\ r.ver = loc[u].fver
  <2> DEFINE p == PendingRecord(t)
             s == Record("Torn", p.key, p.val, p.ver)
  <2>1. /\ p \in Records
        /\ p.type = "FlushComplete" =>
              pc[t] = "flush_complete" /\ p.key = loc[t].fkey /\ p.ver = loc[t].fver
    BY <1>1, PendingFacts
  <2> HIDE DEF p
  <2>2. s \in Records /\ s.type = "Torn"
    BY <2>1 DEF Record, Records, RecordTypes
  <2>3. journal' = Append(journal, s) \/ journal' = Append(journal, p)
    BY <1>1 DEF LeavesBehind, p
  <2> HIDE DEF s
  <2> QED BY <2>1, <2>2, <2>3
<1> QED
  BY <1>1 DEF Crash

\* A crash: all that is left to say is that what is flushed is stored.
LEMMA KeyCrash ==
    ASSUME TypeOK, OrderInv, CleanInv, NEW k \in Keys, KeyInv(k), Crash
    PROVE  KeyInv(k)'
<1>0. /\ backing' = backing /\ inDoubt' = {} /\ entry'[k] = NoEntry /\ ~replay'.done
      /\ \A t \in Threads : ~Puts(t, k)' /\ ~Flushes(t, k)'
  BY DEF Crash, NotReplayed, Puts, Flushes, FlushPcs
<1>1. ~NonClean(entry'[k])
  BY <1>0 DEF NonClean, NoEntry
<1> SUFFICES ASSUME Unspoiled(k)', NEW i, NewestPut(k, i)', NewestFlushed(k, i)'
             PROVE  backing[k] = journal'[i].val
  BY <1>0, <1>1 DEF KeyInv, KeyHeld, PutIsNewest, UnflushedIsNewest, NewestIsHeld,
     FlushedIsStored, FlushesNewest, CommitIsFlushed, NonClean
<1>2. Unspoiled(k)
  BY CrashLeaves, WasUnspoiled
<1>3. ASSUME NewestPut(k, i), NewestFlushed(k, i) PROVE backing[k] = journal[i].val
  BY <1>2, <1>3 DEF KeyInv, KeyHeld, FlushedIsStored, DoubtIsUnheld
<1>4. CASE journal' = journal
  BY <1>3, <1>4 DEF NewestPut, NewestFlushed
<1>5. ASSUME NEW r \in Records, journal' = Append(journal, r),
             r.type = "FlushComplete" =>
                \E t \in Threads : /\ pc[t] = "flush_complete" /\ r.key = loc[t].fkey
                                   /\ r.ver = loc[t].fver
      PROVE  backing[k] = journal'[i].val
  <2>1. /\ ~(r.type = "Upsert" /\ r.key = k) /\ NewestPut(k, i)
        /\ \A h \in 1..Len(journal) :
              /\ journal'[h] = journal[h]
              /\ NewestFlushed(k, h)' <=>
                    NewestFlushed(k, h) \/ Completes(r, k, journal[h].ver)
    BY <1>5, AppendSays
  <2>2. i \in 1..Len(journal)
    BY <2>1, JournalFacts
  <2>3. CASE NewestFlushed(k, i)
    BY <1>3, <2>1, <2>2, <2>3
  <2>4. CASE Completes(r, k, journal[i].ver)
    <3>1. PICK t \in Threads : /\ pc[t] = "flush_complete" /\ loc[t].fkey = k
                               /\ journal[i].ver = loc[t].fver
      BY <1>5, <2>4 DEF Completes
    <3>2. Flushes(t, k)
      BY <3>1 DEF Flushes, FlushPcs
    <3>3. KeyHeld(k)
      BY <1>2, <2>1, <3>1, <3>2 DEF KeyInv, DoubtIsUnheld
    <3>4. backing[k] = journal[i].val
      BY <2>1, <3>1, <3>3, CompleteStored
    <3> QED BY <2>1, <2>2, <3>4
  <2> QED BY <2>1, <2>2, <2>3, <2>4
<1> QED
  BY <1>4, <1>5, CrashLeaves

\* Behind the frame where replay stops, the journal says nothing of a key of which it tells
\* all.
LEMMA PrefixSays ==
    ASSUME TypeOK, NEW k, Unspoiled(k), NEW m \in Nat, m <= Len(journal),
           m = Len(journal) \/ journal[m + 1].type = "Torn"
    PROVE  /\ \A i : Newest(journal, m, k, i) <=> NewestPut(k, i)
           /\ \A i : Newest(journal, m, k, i) =>
                 (Flushed(journal, m, k, i) <=> NewestFlushed(k, i))
<1>1. Len(journal) \in Nat /\ DOMAIN journal = 1..Len(journal)
  BY JournalFacts
<1>2. ASSUME NEW j \in 1..Len(journal), j \notin 1..m, journal[j].key = k
      PROVE  journal[j].type = "Torn"
  <2>1. j = m + 1 \/ m + 1 \in 1..(j - 1)
    BY <1>1, <1>2
  <2>2. journal[m + 1].type = "Torn"
    BY <1>1, <1>2
  <2> QED BY <1>1, <1>2, <2>1, <2>2 DEF Unspoiled
<1>3. \A j \in 1..m : j \in 1..Len(journal)
  <2>1. \A x, y \in Nat : x <= y => \A j \in 1..x : j \in 1..y
    OBVIOUS
  <2> QED BY <1>1, <2>1
<1>4. \A j \in 1..Len(journal) : IsUpsert(journal, j, k) => j \in 1..m
  BY <1>2 DEF IsUpsert
<1>5. ASSUME NEW j \in 1..Len(journal), NEW v, Completes(journal[j], k, v) PROVE j \in 1..m
  BY <1>2, <1>5 DEF Completes
<1>6. ASSUME NEW i PROVE Newest(journal, m, k, i) <=> NewestPut(k, i)
  BY <1>3, <1>4 DEF Newest, NewestPut
<1>7. ASSUME NEW i PROVE Flushed(journal, m, k, i) <=> NewestFlushed(k, i)
  BY <1>3, <1>5 DEF Flushed, NewestFlushed
<1> QED
  BY <1>6, <1>7

\* One record is replayed, and no key of which the journal tells all is removed by it.
LEMMA RecordsReplay ==
    ASSUME TypeOK, TypeOK', RecordInv, ReplayRecord
    PROVE  RecordInv'
<1> DEFINE r == journal[replay.pos + 1]
<1>0. /\ replay \in [pos : Nat, pending : [Keys -> Entries], done : BOOLEAN]
      /\ Len(journal) \in Nat /\ DOMAIN journal = 1..Len(journal)
      /\ journal \in Seq(Records)
  BY JournalFacts DEF TypeOK
<1>1. /\ UNCHANGED <<journal, inDoubt, entry>> /\ UNCHANGED threadVars
      /\ ~replay.done /\ replay.pos + 1 \in 1..Len(journal) /\ r.type # "Torn"
      /\ backing' = IF r.type = "Invalidate" THEN [backing EXCEPT ![r.key] = NoValue]
                                             ELSE backing
  BY <1>0 DEF ReplayRecord, Replaying, ReplayAtEnd, journalVars, shardVars
<1>2. /\ replay'.pos = replay.pos + 1 /\ replay'.done = replay.done
      /\ replay'.pending = Pended(replay.pending, r)
  BY <1>0 DEF ReplayRecord
<1>3. \A k \in Keys : Unspoiled(k) /\ r.key = k => r.type # "Invalidate"
  BY <1>0, <1>1 DEF Unspoiled
<1> HIDE DEF r
<1>4. ASSUME NEW k \in Keys PROVE KeyInv(k)'
  <2>1. Unspoiled(k)' => SaysAlike(k)
    BY <1>1, AlikeAfter
  <2>2. ASSUME Unspoiled(k)' PROVE backing'[k] = backing[k]
    <3>1. Unspoiled(k)
      BY <2>1, <2>2 DEF SaysAlike
    <3> QED BY <1>1, <1>3, <3>1 DEF TypeOK
  <2>3. EntryAlike(k)
    BY <1>1, KeptAlike
  <2>4. \A u \in Threads : WritesAlike(u, k)
    BY <1>1, StaysAlike
  <2>5. KeyInv(k)
    BY DEF RecordInv
  <2> QED BY <1>2, <2>1, <2>2, <2>3, <2>4, <2>5, KeyCarried DEF StoreAlike
<1>5. ReplayPends'
  <2>1. /\ inDoubt = {} /\ \A i \in 1..replay.pos : journal[i].type # "Torn"
        /\ \A k \in Keys : Unspoiled(k) => Pends(journal, replay.pos, replay.pending[k], k)
    BY <1>1 DEF RecordInv, ReplayPends
  <2>2. replay.pos + 1 <= Len(journal)
    BY <1>0, <1>1
  <2>3. \A i \in 1..(replay.pos + 1) : journal[i].type # "Torn"
    BY <1>0, <1>1, <2>1 DEF r
  <2>4. ASSUME NEW k \in Keys, Unspoiled(k)'
        PROVE  Pends(journal', replay'.pos, replay'.pending[k], k)
    <3>1. Unspoiled(k)
      BY <1>1, <2>4 DEF Unspoiled
    <3>2. r.key = k => r.type \in ReplayTypes
      <4>1. r \in Records
        BY <1>0, <1>1 DEF r
      <4> QED BY <1>1, <1>3, <3>1, <4>1 DEF Records, RecordTypes, ReplayTypes
    <3>3. Pends(journal, replay.pos + 1, Pended(replay.pending, r)[k], k)
      BY <1>0, <2>1, <2>2, <3>1, <3>2, PendedPends DEF r
    <3> QED BY <1>1, <1>2, <3>3
  <2> QED BY <1>1, <1>2, <2>1, <2>2, <2>3, <2>4 DEF ReplayPends
<1> QED
  BY <1>4, <1>5 DEF RecordInv

\* The end of the replay: what is pending is what the cache then holds.
LEMMA RecordsRestored ==
    ASSUME TypeOK, StartUp, RecordInv, ReplayEnd
    PROVE  RecordInv'
<1> DEFINE ent == [k \in Keys |-> IF replay.pending[k].state # "Absent"
                                  THEN [replay.pending[k] EXCEPT !.state = "Dirty"]
                                  ELSE NoEntry]
<1>0. /\ replay \in [pos : Nat, pending : [Keys -> Entries], done : BOOLEAN]
      /\ Len(journal) \in Nat /\ DOMAIN journal = 1..Len(journal)
  BY JournalFacts DEF TypeOK
<1>1. /\ UNCHANGED <<journal, inDoubt, backing>> /\ UNCHANGED threadVars
      /\ ~replay.done /\ lifecycle \in Unready /\ ReplayAtEnd
  BY DEF ReplayEnd, journalVars, Unready
<1>2. replay'.done
  BY <1>0 DEF ReplayEnd
<1>3. \E order : Settle(ent, order, {})
  BY DEF ReplayEnd
<1>4. \A k \in Keys : /\ NonClean(ent[k]) <=> replay.pending[k].state # "Absent"
                      /\ NonClean(ent[k]) => /\ ent[k].val = replay.pending[k].val
                                             /\ ent[k].ver = replay.pending[k].ver
  <2>1. \A k \in Keys : replay.pending[k] \in Entries
    BY <1>0
  <2> QED BY <2>1 DEF NonClean, NoEntry, Entries
<1> HIDE DEF ent
<1>5. \A k \in Keys : entry'[k] = ent[k]
  BY <1>3 DEF Settle
<1>6. \A u \in Threads : pc'[u] = "idle"
  BY <1>1 DEF StartUp, IdleUntilReady, threadVars
<1>7. ASSUME NEW k \in Keys PROVE KeyInv(k)'
  <2> SUFFICES ASSUME Unspoiled(k)' PROVE k \notin inDoubt' /\ KeyHeld(k)'
    BY DEF KeyInv
  <2>1. Unspoiled(k)
    BY <1>1 DEF Unspoiled
  <2>2. /\ replay.pos <= Len(journal) /\ inDoubt = {}
        /\ Pends(journal, replay.pos, replay.pending[k], k)
    BY <1>1, <2>1 DEF RecordInv, ReplayPends
  <2>3. replay.pos = Len(journal) \/ journal[replay.pos + 1].type = "Torn"
    BY <1>0, <1>1, <2>2 DEF ReplayAtEnd
  <2>4. \A i : /\ Newest(journal, replay.pos, k, i) <=> NewestPut(k, i)
               /\ NewestPut(k, i) =>
                     (Flushed(journal, replay.pos, k, i) <=> NewestFlushed(k, i))
    BY <1>0, <2>1, <2>2, <2>3, PrefixSays
  <2>5. \A u \in Threads : ~Puts(u, k)' /\ ~Flushes(u, k)'
    BY <1>6 DEF Puts, Flushes, FlushPcs
  <2>6. \A i : /\ NewestPut(k, i)' <=> NewestPut(k, i)
               /\ NewestFlushed(k, i)' <=> NewestFlushed(k, i)
    BY <1>1 DEF NewestPut, NewestFlushed
  <2>7. FlushedIsStored(k)
    BY <2>1, <2>2 DEF RecordInv, KeyInv, KeyHeld
  <2>8. UnflushedIsNewest(k)'
    BY <1>1, <1>4, <1>5, <2>2, <2>4, <2>6 DEF UnflushedIsNewest, Pends
  <2>9. NewestIsHeld(k)'
    BY <1>4, <1>5, <2>2, <2>4, <2>6 DEF NewestIsHeld, Pends
  <2>10. FlushedIsStored(k)'
    BY <1>1, <2>6, <2>7 DEF FlushedIsStored
  <2> QED BY <1>1, <2>2, <2>5, <2>8, <2>9, <2>10
             DEF KeyHeld, PutIsNewest, FlushesNewest, CommitIsFlushed
<1> QED
  BY <1>2, <1>7 DEF RecordInv, ReplayPends

\* Every step keeps RecordInv.
LEMMA RecordStep ==
    ASSUME TypeOK, TypeOK', StartUp, OrderInv, CleanInv, RemovalsRecorded,
           UnflushedIsJournaled', StoreUsesApart, PutsApart, PutsApart', RecordInv, [Next]_vars
    PROVE  RecordInv'
<1>0. \A k \in Keys : KeyInv(k)
  BY DEF RecordInv
<1>1. CASE UNCHANGED vars \/ AtRest \/ MarkRecoveryComplete \/ ReplayFails
  <2>1. UNCHANGED <<entry, journal, inDoubt, backing, replay>> /\ UNCHANGED threadVars
    BY <1>1 DEF AtRest, MarkRecoveryComplete, ReplayFails, Replaying, BackingFails, vars,
       lifeVars, shardVars, journalVars
  <2>2. ASSUME NEW k \in Keys PROVE KeyInv(k)'
    <3>1. \A u \in Threads : WritesAlike(u, k)
      BY <2>1, StaysAlike
    <3>2. Unspoiled(k)' => SaysAlike(k)
      BY <2>1, AlikeAfter
    <3> QED BY <1>0, <2>1, <3>1, <3>2, KeyPlain
  <2>3. ReplayPends'
    BY <2>1 DEF RecordInv, ReplayPends, Unspoiled
  <2> QED BY <2>2, <2>3 DEF RecordInv
<1>2. CASE Crash
  <2>1. /\ replay' = NotReplayed /\ inDoubt' = {}
    BY <1>2 DEF Crash
  <2>2. Len(journal') \in Nat
    BY DEF TypeOK
  <2>3. /\ replay'.pos = 0 /\ \A k \in Keys : replay'.pending[k].state = "Absent"
    BY <2>1 DEF NotReplayed, NoEntry
  <2>4. \A i : i \notin 1..0
    OBVIOUS
  <2>5. \A k \in Keys : Pends(journal', 0, replay'.pending[k], k)
    BY <2>3, <2>4 DEF Pends, Newest
  <2>6. replay'.pos <= Len(journal') /\ \A i \in 1..replay'.pos : FALSE
    BY <2>2, <2>3
  <2>7. ReplayPends'
    BY <2>1, <2>3, <2>5, <2>6 DEF ReplayPends
  <2> QED BY <1>0, <1>2, <2>7, KeyCrash DEF RecordInv
<1>3. CASE ReplayRecord \/ ReplayEnd
  BY <1>3, RecordsReplay, RecordsRestored
<1>4. ASSUME NEW t \in Threads, Begin(t) \/ Continue(t) PROVE RecordInv'
  <2>1. replay'.done
    BY <1>4, CallReplayed, CallLifecycle
  <2>2. ASSUME NEW k \in Keys PROVE KeyInv(k)'
    <3>1. CASE PutStep(t)
      BY <1>0, <3>1, KeyPut, KeyAppend, KeyCommit DEF PutStep
    <3>2. CASE FlushStep(t)
      <4>1. FlushPut(t) => pc'[t] \in {"flush_complete", "flush_revert"}
        BY StepEffect DEF FlushPut
      <4> QED BY <1>0, <3>2, <4>1, KeyFlushPlain, KeyClaim, KeyWrite, KeyComplete, KeyFlushed
         DEF FlushStep
    <3> QED BY <1>0, <1>4, <3>1, <3>2, KeyBegin, KeyLoops, KeyGet, KeyInvalidate DEF Continue
  <2> QED BY <2>1, <2>2 DEF RecordInv, ReplayPends
<1> QED
  BY <1>1, <1>2, <1>3, <1>4 DEF Next, Recover

\* What makes the journal, the cache and the store agree: one compactor at a time, the uses
\* of the store for one key apart, and one Put of a key at a time between journal and cache.
WritesApart == OneCompactor /\ StoreUsesApart /\ PutsApart

\* RecordInv is an invariant of the runs that keep the writes apart.
LEMMA RecordInvHolds == Spec /\ []WritesApart => [](RecordInv /\ CleanInv)
<1>1. Init => RecordInv
  <2> SUFFICES ASSUME Init PROVE RecordInv
    OBVIOUS
  <2>1. /\ \A u \in Threads : pc[u] = "idle"
        /\ \A k \in Keys : entry[k] = NoEntry
        /\ replay = NotReplayed /\ journal = << >> /\ inDoubt = {}
    BY DEF Init
  <2>2. Len(journal) = 0 /\ \A i : i \notin 1..0
    BY <2>1
  <2>3. replay.pos = 0 /\ \A k \in Keys : replay.pending[k].state = "Absent"
    BY <2>1 DEF NotReplayed, NoEntry
  <2>4. \A k \in Keys : Pends(journal, 0, replay.pending[k], k)
    BY <2>2, <2>3 DEF Pends, Newest
  <2>5. \A k \in Keys : ~NonClean(entry[k])
    BY <2>1 DEF NonClean, NoEntry
  <2>6. ReplayPends
    BY <2>1, <2>2, <2>3, <2>4 DEF ReplayPends
  <2>7. \A k : \A i : ~NewestPut(k, i)
    BY <2>2 DEF NewestPut, Newest
  <2>8. \A k : \A u \in Threads : ~Puts(u, k)
    BY <2>1 DEF Puts
  <2> QED BY <2>1, <2>5, <2>6, <2>7, <2>8 DEF RecordInv, KeyInv, KeyHeld, PutIsNewest,
     UnflushedIsNewest, NewestIsHeld, FlushedIsStored, FlushesNewest, CommitIsFlushed
<1>2. /\ TypeOK /\ TypeOK' /\ StartUp /\ OrderInv /\ CleanInv /\ RemovalsRecorded
      /\ UnflushedIsJournaled' /\ WritesApart /\ WritesApart' /\ RecordInv /\ [Next]_vars
      => RecordInv'
  BY RecordStep DEF WritesApart
<1>3. WritesApart => OneCompactor /\ StoreUsesApart
  BY DEF WritesApart
<1> QED
  BY <1>1, <1>2, <1>3, CleanInvHolds, UnflushedStaysJournaled, RemovalsStayRecorded,
     TypeCorrect, StartUpHolds, OrderInvHolds, PTL DEF Spec

\* The newest Put of a key wins, whatever torn frames failed appends and power cuts leave and
\* whatever other keys are invalidated: with nobody writing, invalidating or flushing the
\* key, a reader gets its value, through evictions, flushes, truncations, crashes and
\* replays, as long as the writes of one key are kept apart.
THEOREM NewestPutWins == Spec /\ []WritesApart => []NewestWriteWins
<1>1. TypeOK /\ StartUp /\ RecordInv /\ CleanInv => NewestWriteWins
  <2> SUFFICES ASSUME TypeOK, StartUp, RecordInv, CleanInv, NEW k \in Keys,
                      NEW i \in DOMAIN journal, lifecycle = "Ready", Quiet(k), Promised(k),
                      journal[i].key = k, journal[i].type = "Upsert",
                      \A j \in DOMAIN journal :
                         journal[j].key = k /\ journal[j].type = "Upsert" => j <= i
               PROVE  LiveValue(k) = journal[i].val
    BY DEF NewestWriteWins
  <2>1. DOMAIN journal = 1..Len(journal) /\ Len(journal) \in Nat
    BY JournalFacts
  <2>2. NewestPut(k, i)
    BY <2>1 DEF NewestPut, Newest, IsUpsert
  <2>3. \A u \in Threads : ~Puts(u, k)
    BY DEF Quiet, Writing, Admitted, AdmittedPcs, PutPcs, Puts
  <2>4. ~Removing(k, entry[k].ver)
    BY DEF Quiet, Writing, Admitted, AdmittedPcs, InvalidatePcs, Removing
  <2>5. replay.done
    BY DEF StartUp, EmptyUntilReplayed, Unready
  <2>6. KeyHeld(k)
    BY DEF Promised, RecordInv, KeyInv
  <2>7. CASE NonClean(entry[k])
    <3>1. journal[i].val = entry[k].val
      BY <2>2, <2>3, <2>6, <2>7, UnflushedNewest DEF KeyHeld
    <3> QED BY <2>7, <3>1 DEF LiveValue, Cached, NonClean
  <2>8. CASE ~NonClean(entry[k])
    <3>1. NewestFlushed(k, i)
      BY <2>2, <2>3, <2>5, <2>6, <2>8 DEF KeyHeld, NewestIsHeld
    <3>2. backing[k] = journal[i].val
      BY <2>2, <2>6, <3>1 DEF KeyHeld, FlushedIsStored
    <3>3. entry[k].state \in {"Absent", "Clean"}
      BY <2>8 DEF NonClean, TypeOK, Entries
    <3> QED BY <2>4, <3>2, <3>3 DEF LiveValue, Cached, CleanInv, CleanOrRemoved
  <2> QED BY <2>7, <2>8
<1> QED
  BY <1>1, RecordInvHolds, TypeCorrect, StartUpHolds, PTL

-----------------------------------------------------------------------------
(* Replay of the journal, computed: ReplayedUpTo is what Pends says.       *)

\* A set of numbers that is not empty has a least one.
LEMMA LeastNumber ==
    ASSUME NEW S, S \subseteq Nat, S # {}
    PROVE  \E x \in S : \A y \in S : x <= y
<1>1. PICK x \in S : \A y \in S : ~(<<y, x>> \in OpToRel(<, Nat))
  BY NatLessThanWellFounded, WFMin
<1>2. ASSUME NEW y \in S PROVE x <= y
  <2>1. x \in Nat /\ y \in Nat
    OBVIOUS
  <2>2. y < x => <<y, x>> \in OpToRel(<, Nat)
    BY <2>1 DEF OpToRel
  <2>3. ~(y < x)
    BY <1>1, <2>2
  <2> QED BY <2>1, <2>3
<1> QED
  BY <1>2

\* f replays the first m records of the journal, one after the other.
ReplayAt(f, n) == IF n = 0 THEN NotReplayed.pending ELSE Pended(f[n - 1], journal[n])
ReplaysTo(f, m) == \A n \in 0..m : f[n] = ReplayAt(f, n)

\* Any number of records can be replayed.
LEMMA ReplayExists ==
    ASSUME NEW m \in Nat PROVE \E f : ReplaysTo(f, m)
<1> DEFINE Bad == {x \in Nat : ~\E f : ReplaysTo(f, x)}
<1> SUFFICES ASSUME Bad # {} PROVE FALSE
  OBVIOUS
<1>1. PICK x \in Bad : \A y \in Bad : x <= y
  <2>1. Bad \subseteq Nat
    OBVIOUS
  <2> HIDE DEF Bad
  <2> QED BY <2>1, LeastNumber
<1>2. x \in Nat /\ ~\E f : ReplaysTo(f, x)
  OBVIOUS
<1>3. CASE x = 0
  <2> DEFINE g == [n \in {0} |-> NotReplayed.pending]
  <2>1. ReplaysTo(g, 0)
    BY DEF ReplaysTo, ReplayAt
  <2> QED BY <1>2, <1>3, <2>1
<1>4. CASE x # 0
  <2>1. x - 1 \in Nat /\ ~(x <= x - 1)
    BY <1>2, <1>4
  <2>2. x - 1 \notin Bad
    <3> HIDE DEF Bad
    <3> QED BY <1>1, <2>1
  <2>3. PICK f : ReplaysTo(f, x - 1)
    BY <2>1, <2>2
  <2> DEFINE g == [n \in 0..x |-> IF n = x THEN Pended(f[x - 1], journal[x]) ELSE f[n]]
  <2>4. ASSUME NEW n \in 0..x PROVE g[n] = ReplayAt(g, n)
    <3>1. CASE n = x
      <4>1. x - 1 \in 0..x /\ x - 1 # x
        BY <1>2, <2>1
      <4>2. g[x - 1] = f[x - 1] /\ g[n] = Pended(f[x - 1], journal[x])
        BY <3>1, <4>1
      <4> HIDE DEF g
      <4> QED BY <1>4, <3>1, <4>2 DEF ReplayAt
    <3>2. CASE n # x /\ n # 0
      <4>1. n \in 0..(x - 1) /\ n - 1 \in 0..x /\ n - 1 # x
        BY <1>2, <3>2
      <4>2. f[n] = ReplayAt(f, n)
        BY <2>3, <4>1 DEF ReplaysTo
      <4>3. g[n - 1] = f[n - 1] /\ g[n] = f[n]
        BY <3>2, <4>1
      <4> HIDE DEF g
      <4> QED BY <3>2, <4>2, <4>3 DEF ReplayAt
    <3>3. CASE n = 0 /\ n # x
      <4>1. 0 \in 0..(x - 1)
        BY <2>1
      <4>2. f[0] = ReplayAt(f, 0)
        BY <2>3, <4>1 DEF ReplaysTo
      <4>3. g[n] = f[0]
        BY <3>3
      <4> HIDE DEF g
      <4> QED BY <3>3, <4>2, <4>3 DEF ReplayAt
    <3> QED BY <3>1, <3>2, <3>3
  <2>5. ReplaysTo(g, x)
    BY <2>4 DEF ReplaysTo
  <2> QED BY <1>2, <2>5
<1> QED
  BY <1>3, <1>4

\* ReplayedUpTo is such a replay.
LEMMA ReplayedSteps ==
    ASSUME TypeOK PROVE ReplaysTo(ReplayedUpTo, Len(journal))
<1> DEFINE N == Len(journal)
           Is(f) == f = [n \in 0..N |-> IF n = 0 THEN NotReplayed.pending
                                        ELSE Pended(f[n - 1], journal[n])]
<1>0. N \in Nat
  BY JournalFacts
<1>1. PICK f : ReplaysTo(f, N)
  BY <1>0, ReplayExists
<1> DEFINE g == [n \in 0..N |-> f[n]]
<1>2. Is(g)
  <2>1. ASSUME NEW n \in 0..N
        PROVE  f[n] = IF n = 0 THEN NotReplayed.pending ELSE Pended(g[n - 1], journal[n])
    <3>1. f[n] = ReplayAt(f, n)
      BY <1>1 DEF ReplaysTo
    <3>2. n # 0 => n - 1 \in 0..N
      BY <1>0
    <3>3. n # 0 => g[n - 1] = f[n - 1]
      BY <3>2
    <3> HIDE DEF g
    <3> QED BY <3>1, <3>3 DEF ReplayAt
  <2> QED BY <2>1
<1>3. PICK h : h = CHOOSE f1 : Is(f1)
  OBVIOUS
<1>4. Is(h)
  <2> HIDE DEF Is
  <2> QED BY <1>2, <1>3
<1>5. ReplayedUpTo = h
  BY <1>3 DEF ReplayedUpTo
<1>6. \A n \in 0..N : h[n] = ReplayAt(h, n)
  BY <1>4 DEF ReplayAt
<1> QED
  BY <1>5, <1>6 DEF ReplaysTo

\* What replay of the first m records leaves of a key is what they say of it.
LEMMA ReplayedPends ==
    ASSUME TypeOK, NEW k \in Keys, Unspoiled(k), NEW m \in 0..Len(journal),
           \A i \in 1..m : journal[i].type # "Torn"
    PROVE  Pends(journal, m, ReplayedUpTo[m][k], k)
<1> DEFINE N == Len(journal)
           Good(x) == /\ ReplayedUpTo[x] \in [Keys -> Entries]
                      /\ Pends(journal, x, ReplayedUpTo[x][k], k)
           Bad == {x \in 0..m : ~Good(x)}
<1>0. /\ N \in Nat /\ m \in Nat /\ m <= N /\ journal \in Seq(Records)
      /\ DOMAIN journal = 1..N /\ ReplaysTo(ReplayedUpTo, N)
  BY JournalFacts, ReplayedSteps
<1> SUFFICES ASSUME Bad # {} PROVE FALSE
  BY <1>0
<1>1. PICK x \in Bad : \A y \in Bad : x <= y
  <2>1. Bad \subseteq Nat
    BY <1>0
  <2> HIDE DEF Bad
  <2> QED BY <2>1, LeastNumber
<1>2. x \in 0..m /\ x \in Nat /\ ~Good(x)
  BY <1>0, <1>1
<1>3. ReplayedUpTo[x] = ReplayAt(ReplayedUpTo, x)
  <2>1. x \in 0..N
    BY <1>0, <1>2
  <2> QED BY <1>0, <2>1 DEF ReplaysTo
<1>4. CASE x = 0
  <2>1. ReplayedUpTo[x] = [j \in Keys |-> NoEntry]
    BY <1>3, <1>4 DEF ReplayAt, NotReplayed
  <2>2. NoEntry \in Entries /\ NoEntry.state = "Absent" /\ \A i : i \notin 1..0
    BY DEF NoEntry, Entries, Stored
  <2>3. ReplayedUpTo[x] \in [Keys -> Entries] /\ ReplayedUpTo[x][k] = NoEntry
    BY <2>1, <2>2
  <2>4. Pends(journal, x, NoEntry, k)
    BY <1>4, <2>2 DEF Pends, Newest
  <2> QED BY <1>2, <2>3, <2>4
<1>5. CASE x # 0
  <2>1. PICK y \in Nat : /\ x = y + 1 /\ y \in 0..m /\ y + 1 \in 1..m /\ y + 1 <= N
                         /\ ~(x <= y) /\ x - 1 = y
    <3>1. /\ x - 1 \in Nat /\ x = (x - 1) + 1 /\ x - 1 \in 0..m /\ x \in 1..m
          /\ ~(x <= x - 1) /\ x <= N
      BY <1>0, <1>2, <1>5
    <3> QED BY <3>1
  <2>2. y \notin Bad
    <3> HIDE DEF Bad
    <3> QED BY <1>1, <2>1
  <2>3. Good(y)
    BY <2>1, <2>2
  <2>4. y + 1 \in 1..N
    BY <1>0, <2>1
  <2>5. journal[y + 1] \in Records /\ journal[y + 1].type # "Torn"
    BY <1>0, <2>1, <2>4
  <2>6. journal[y + 1].key = k => journal[y + 1].type \in ReplayTypes
    BY <1>0, <2>4, <2>5 DEF Unspoiled, Records, RecordTypes, ReplayTypes
  <2>7. ReplayedUpTo[y + 1] = Pended(ReplayedUpTo[y], journal[y + 1])
    BY <1>3, <1>5, <2>1 DEF ReplayAt
  <2>8. ReplayedUpTo[y + 1] \in [Keys -> Entries]
    BY <2>3, <2>5, <2>7, PendedType
  <2>9. Pends(journal, y + 1, ReplayedUpTo[y + 1][k], k)
    BY <1>0, <2>1, <2>3, <2>6, <2>7, PendedPends
  <2> QED BY <1>2, <2>1, <2>8, <2>9
<1> QED
  BY <1>4, <1>5

\* Replay reads up to the end or to the first torn frame.
LEMMA ValidPrefix ==
    ASSUME TypeOK
    PROVE  /\ ValidLength \in 0..Len(journal)
           /\ \A i \in 1..ValidLength : journal[i].type # "Torn"
           /\ ValidLength = Len(journal) \/ journal[ValidLength + 1].type = "Torn"
<1> DEFINE N == Len(journal)
           S == {n \in 0..N : \A i \in 1..n : journal[i].type # "Torn"}
           T == {N - n : n \in S}
           Top(x) == x \in S /\ \A y \in S : x >= y
<1>1. N \in Nat
  BY JournalFacts
<1>2. 0 \in S /\ \A n \in S : n \in Nat /\ n <= N
  BY <1>1
<1>3. PICK x \in S : \A y \in S : N - x <= N - y
  <2>1. T \subseteq Nat /\ T # {}
    <3> HIDE DEF S
    <3> QED BY <1>1, <1>2
  <2>2. PICK z \in T : \A y \in T : z <= y
    <3> HIDE DEF T
    <3> QED BY <2>1, LeastNumber
  <2> HIDE DEF S
  <2> QED BY <2>2
<1>4. Top(x)
  <2> HIDE DEF S
  <2> QED BY <1>1, <1>2, <1>3
<1>5. ValidLength = Max(S)
  BY DEF ValidLength
<1>6. Max(S) = CHOOSE y \in S : \A z \in S : y >= z
  BY DEF Max
<1>7. Top(ValidLength)
  <2> HIDE DEF S
  <2> QED BY <1>4, <1>5, <1>6
<1>8. ValidLength \in 0..N /\ \A i \in 1..ValidLength : journal[i].type # "Torn"
  BY <1>7
<1>9. ASSUME ValidLength # N, journal[ValidLength + 1].type # "Torn" PROVE FALSE
  <2> DEFINE v == ValidLength
  <2>1. v \in 0..N /\ \A i \in 1..v : journal[i].type # "Torn"
    BY <1>8
  <2>2. journal[v + 1].type # "Torn" /\ v # N
    BY <1>9
  <2> HIDE DEF v
  <2>3. v \in Nat /\ v + 1 \in 0..N /\ \A i \in 1..(v + 1) : i \in 1..v \/ i = v + 1
    BY <1>1, <2>1, <2>2
  <2>4. v + 1 \in S
    BY <2>1, <2>2, <2>3
  <2>5. v >= v + 1
    BY <1>7, <2>4 DEF v
  <2> QED BY <2>3, <2>5
<1> QED
  BY <1>8, <1>9

\* A crash loses nothing of what the journal can keep: a restart finds for every key that no

\* Put or Invalidate is busy with the value a reader would have got, whatever failed appends
\* and power cuts leave in the journal and whatever other keys are invalidated, flushes
\* under way, evictions, truncations and earlier crashes notwithstanding, as long as the
\* writes of one key are kept apart.
THEOREM NothingIsLost == Spec /\ []WritesApart => []PutsRecoverable
<1>1. TypeOK /\ StartUp /\ RecordInv /\ CleanInv => PutsRecoverable
  <2> SUFFICES ASSUME TypeOK, StartUp, RecordInv, CleanInv,
                      lifecycle \in {"Ready", "Stopping", "Stopped"}, NEW k \in Keys,
                      Promised(k), \A t \in Threads : ~Writing(t, k)
               PROVE  RecoveredValue(k) = LiveValue(k)
    BY DEF PutsRecoverable
  <2> DEFINE v == ValidLength
             pending == ReplayedUpTo[v]
  <2>0. Unspoiled(k) /\ KeyHeld(k)
    BY DEF Promised, RecordInv, KeyInv
  <2>1. /\ v \in 0..Len(journal) /\ \A i \in 1..v : journal[i].type # "Torn"
        /\ v = Len(journal) \/ journal[v + 1].type = "Torn"
    BY ValidPrefix
  <2>2. /\ v \in Nat /\ v <= Len(journal) /\ DOMAIN journal = 1..Len(journal)
        /\ \A i \in 1..v : i \in DOMAIN journal
    <3>1. \A n \in Nat : \A x \in 0..n : x \in Nat /\ x <= n /\ \A i \in 1..x : i \in 1..n
      OBVIOUS
    <3>2. Len(journal) \in Nat /\ DOMAIN journal = 1..Len(journal)
      BY JournalFacts
    <3> HIDE DEF v
    <3> QED BY <2>1, <3>1, <3>2
  <2>3. \A i \in 1..v : ~(journal[i].type = "Invalidate" /\ journal[i].key = k)
    BY <2>0, <2>2 DEF Unspoiled
  <2>4. RecoveredValue(k) = IF pending[k].state # "Absent" THEN pending[k].val ELSE backing[k]
    BY <2>3 DEF RecoveredValue
  <2>5. Pends(journal, v, pending[k], k)
    BY <2>0, <2>1, ReplayedPends
  <2> HIDE DEF pending, v
  <2>6. \A i : /\ Newest(journal, v, k, i) <=> NewestPut(k, i)
               /\ NewestPut(k, i) => (Flushed(journal, v, k, i) <=> NewestFlushed(k, i))
    BY <2>0, <2>1, <2>2, PrefixSays
  <2>7. \A u \in Threads : ~Puts(u, k)
    BY DEF Writing, Admitted, AdmittedPcs, PutPcs, Puts
  <2>8. ~Removing(k, entry[k].ver)
    BY DEF Writing, Admitted, AdmittedPcs, InvalidatePcs, Removing
  <2>9. replay.done
    BY DEF StartUp, EmptyUntilReplayed, Unready
  <2>10. entry[k].state \in {"Absent", "Clean", "Dirty", "FlushInProgress"}
    BY DEF TypeOK, Entries
  <2>11. CASE pending[k].state # "Absent"
    <3>1. PICK i : /\ NewestPut(k, i) /\ ~NewestFlushed(k, i)
                   /\ journal[i].val = pending[k].val
      BY <2>5, <2>6, <2>11 DEF Pends
    <3>2. NonClean(entry[k])
      BY <2>0, <2>7, <2>9, <3>1 DEF KeyHeld, NewestIsHeld
    <3>3. journal[i].val = entry[k].val
      BY <2>0, <2>7, <3>1, <3>2, UnflushedNewest DEF KeyHeld
    <3> QED BY <2>4, <2>11, <3>1, <3>2, <3>3 DEF LiveValue, Cached, NonClean
  <2>12. CASE pending[k].state = "Absent"
    <3>1. \A i : NewestPut(k, i) => NewestFlushed(k, i)
      BY <2>5, <2>6, <2>12 DEF Pends
    <3>2. CASE NonClean(entry[k])
      <4>1. PICK i : NewestPut(k, i) /\ journal[i].val = entry[k].val
        BY <2>0, <2>7, <3>2 DEF KeyHeld, UnflushedIsNewest
      <4>2. backing[k] = entry[k].val
        BY <2>0, <3>1, <4>1 DEF KeyHeld, FlushedIsStored
      <4> QED BY <2>4, <2>12, <4>2 DEF LiveValue
    <3>3. CASE ~NonClean(entry[k])
      BY <2>4, <2>8, <2>10, <2>12, <3>3
         DEF LiveValue, Cached, NonClean, CleanInv, CleanOrRemoved
    <3> QED BY <3>2, <3>3
  <2> QED BY <2>11, <2>12
<1> QED
  BY <1>1, RecordInvHolds, TypeCorrect, StartUpHolds, PTL
====
