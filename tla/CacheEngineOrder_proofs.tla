----------------------- MODULE CacheEngineOrder_proofs -----------------------
(***************************************************************************)
(* What holds of the cache engine whatever order its threads run in:       *)
(* admitted writes are counted, a fill finds its key absent, versions are  *)
(* never shared, a flush owns what it claimed, and unflushed data leaves   *)
(* the cache only where it is meant to.                                    *)
(***************************************************************************)
EXTENDS CacheEngine_proofs

-----------------------------------------------------------------------------
(* Threads.                                                                *)

\* What Step(t, l, r) does to the thread variables.
LEMMA StepEffect ==
    ASSUME TypeOK, NEW t \in Threads, NEW l, NEW r, Step(t, l, r)
    PROVE  /\ pc'[t] = l
           /\ loc'[t] = IF l = "idle" THEN NoLocals ELSE r
           /\ \A u \in Threads \ {t} : pc'[u] = pc[u] /\ loc'[u] = loc[u]
BY DEF TypeOK, Step

-----------------------------------------------------------------------------
(* Admission.  InFlightExact is inductive together with TypeOK: the thread *)
(* that steps keeps its place among the admitted, except at TryAdmitWrite  *)
(* and ~WriteAdmissionGuard, which count it.  A flush is admitted with the *)
(* Put it works for, which its return label tells.                         *)

\* Admitted for a thread that is at label l with locals r.
AdmittedAt(l, r) ==
    \/ l \in AdmittedPcs
    \/ l \in FlushPcs \cup {"flush_peek"} /\ r.fret \in {"release", "relieve_after"}

AdmittedThreads == {t \in Threads : Admitted(t)}

\* The admitted threads are finitely many.
LEMMA AdmittedFinite ==
    IsFiniteSet(AdmittedThreads) /\ Cardinality(AdmittedThreads) \in Nat
BY ThreadAssumption, FS_Subset, FS_CardinalityType DEF AdmittedThreads

\* Only the thread that steps can join or leave the admitted ones.
LEMMA AdmittedAfterStep ==
    ASSUME TypeOK, NEW t \in Threads, NEW l, NEW r, Step(t, l, r)
    PROVE  AdmittedThreads' = IF AdmittedAt(l, r) THEN AdmittedThreads \cup {t}
                                                  ELSE AdmittedThreads \ {t}
<1>1. /\ pc'[t] = l
      /\ loc'[t] = IF l = "idle" THEN NoLocals ELSE r
      /\ \A u \in Threads \ {t} : pc'[u] = pc[u] /\ loc'[u] = loc[u]
  BY StepEffect
<1>2. Admitted(t)' <=> AdmittedAt(l, r)
  BY <1>1 DEF Admitted, AdmittedAt, AdmittedPcs, PutPcs, InvalidatePcs, FlushPcs
<1>3. \A u \in Threads \ {t} : Admitted(u)' <=> Admitted(u)
  BY <1>1 DEF Admitted
<1> QED
  BY <1>2, <1>3 DEF AdmittedThreads

\* A step that neither admits nor releases.
LEMMA AdmissionKept ==
    ASSUME TypeOK, InFlightExact, NEW t \in Threads, NEW l, NEW r, Step(t, l, r),
           AdmittedAt(l, r) <=> Admitted(t), inFlight' = inFlight
    PROVE  InFlightExact'
<1>1. AdmittedThreads' = AdmittedThreads
  BY AdmittedAfterStep DEF AdmittedThreads
<1> QED
  BY <1>1 DEF InFlightExact, AdmittedThreads

\* TryAdmitWrite counts the thread it admits.
LEMMA AdmissionGained ==
    ASSUME TypeOK, InFlightExact, NEW t \in Threads, NEW l, NEW r, Step(t, l, r),
           AdmittedAt(l, r), ~Admitted(t), inFlight' = inFlight + 1
    PROVE  InFlightExact'
<1>1. AdmittedThreads' = AdmittedThreads \cup {t} /\ t \notin AdmittedThreads
  BY AdmittedAfterStep DEF AdmittedThreads
<1>2. Cardinality(AdmittedThreads \cup {t}) = Cardinality(AdmittedThreads) + 1
  BY <1>1, AdmittedFinite, FS_AddElement
<1> QED
  BY <1>1, <1>2 DEF InFlightExact, AdmittedThreads

\* ~WriteAdmissionGuard uncounts it; the counter is not zero then.
LEMMA AdmissionLost ==
    ASSUME TypeOK, InFlightExact, NEW t \in Threads, NEW l, NEW r, Step(t, l, r),
           ~AdmittedAt(l, r), Admitted(t),
           inFlight' = IF inFlight > 0 THEN inFlight - 1 ELSE 0
    PROVE  InFlightExact'
<1>1. AdmittedThreads' = AdmittedThreads \ {t} /\ t \in AdmittedThreads
  BY AdmittedAfterStep DEF AdmittedThreads
<1>2. Cardinality(AdmittedThreads \ {t}) = Cardinality(AdmittedThreads) - 1
  BY <1>1, AdmittedFinite, FS_RemoveElement
<1>3. Cardinality(AdmittedThreads) # 0
  BY <1>1, AdmittedFinite, FS_EmptySet
<1> QED
  BY <1>1, <1>2, <1>3, AdmittedFinite DEF InFlightExact, AdmittedThreads

\* Every step of a call keeps the count of admitted writes exact.
LEMMA InFlightStep ==
    ASSUME TypeOK, InFlightExact, NEW t \in Threads, Begin(t) \/ Continue(t)
    PROVE  InFlightExact'
<1> USE DEF AdmittedAt, AdmittedPcs, PutPcs, InvalidatePcs, FlushPcs
<1>0. ASSUME UNCHANGED <<pc, loc, inFlight>> PROVE InFlightExact'
  <2>1. AdmittedThreads' = AdmittedThreads
    BY <1>0 DEF AdmittedThreads, Admitted
  <2> QED BY <1>0, <2>1 DEF InFlightExact, AdmittedThreads
<1>f. loc[t].fret \in {"idle", "release", "relieve_after", "all_next"}
      /\ loc[t].aret \in {"idle", "shut_stopped"}
  BY DEF TypeOK, Locals
<1>1. CASE Begin(t)
  <2>1. pc[t] = "idle"
    BY <1>1 DEF Begin, PutBegin, GetBegin, InvalidateBegin, FlushBegin, FlushAllBegin,
       ShutdownBegin, Call
  <2>2. ~Admitted(t) /\ inFlight' = inFlight
    BY <1>1, <2>1 DEF Begin, PutBegin, GetBegin, InvalidateBegin, FlushBegin, FlushAllBegin,
       ShutdownBegin, admissionVars, Admitted
  <2>3. CASE PutBegin(t)
    BY <2>2, <2>3, AdmissionKept DEF PutBegin
  <2>4. CASE GetBegin(t)
    BY <1>0, <2>2, <2>4, AdmissionKept DEF GetBegin, threadVars
  <2>5. CASE InvalidateBegin(t)
    BY <2>2, <2>5, AdmissionKept DEF InvalidateBegin
  <2>6. CASE FlushBegin(t)
    <3>1. PICK k \in Keys : Step(t, "flush_peek", [loc[t] EXCEPT !.fkey = k, !.fret = "idle"])
      BY <2>6 DEF FlushBegin
    <3>2. [loc[t] EXCEPT !.fkey = k, !.fret = "idle"].fret = "idle"
      BY DEF TypeOK, Locals
    <3> QED BY <2>2, <3>1, <3>2, AdmissionKept
  <2>7. CASE FlushAllBegin(t) \/ ShutdownBegin(t)
    BY <2>2, <2>7, AdmissionKept DEF FlushAllBegin, StartFlushAll, ShutdownBegin
  <2> QED
    BY <1>1, <2>3, <2>4, <2>5, <2>6, <2>7 DEF Begin
<1>2. CASE PutAdmit(t) \/ InvalidateAdmit(t)
  <2>1. PICK from, to : /\ TryAdmitWrite(t, from, to) /\ from \in {"put_admit", "inv_admit"}
                        /\ to \in {"put_append", "inv_peek"}
    BY <1>2 DEF PutAdmit, InvalidateAdmit
  <2>2. ~Admitted(t)
    BY <2>1 DEF TryAdmitWrite, Admitted
  <2> QED
    BY <2>1, <2>2, AdmissionKept, AdmissionGained DEF TryAdmitWrite
<1>3. CASE ReleaseWriteAdmission(t)
  BY <1>3, AdmissionLost DEF ReleaseWriteAdmission, Admitted
<1>r. ASSUME PutRelieved(t), Admitted(t), inFlight' = inFlight PROVE InFlightExact'
  <2> DEFINE r == [loc[t] EXCEPT !.fkey = loc[t].key, !.fexp = loc[t].ver, !.fret = "release"]
  <2>1. r.fret = "release"
    BY DEF TypeOK, Locals
  <2>2. Step(t, "flush_peek", r) \/ Step(t, "release", loc[t])
    BY <1>r DEF PutRelieved
  <2> HIDE DEF r
  <2> QED BY <1>r, <2>1, <2>2, AdmissionKept
<1>4. CASE PutStep(t) /\ ~PutAdmit(t) /\ ~ReleaseWriteAdmission(t)
  <2>1. Admitted(t) /\ inFlight' = inFlight
    BY <1>4 DEF PutStep, PutAppend, PutCommit, RelievePeek, RelieveAfter, Admitted,
       admissionVars
  <2>2. CASE PutAppend(t) \/ PutCommit(t)
    BY <2>1, <2>2, AdmissionKept DEF PutAppend, PutCommit
  <2>3. CASE RelievePeek(t)
    <3>1. ASSUME NEW k \in Keys,
                 Step(t, "flush_peek",
                      [loc[t] EXCEPT !.before = dirtyCount[ShardOf[loc[t].key]], !.fkey = k,
                                     !.fexp = 0, !.fret = "relieve_after"])
          PROVE  InFlightExact'
      <4> DEFINE r == [loc[t] EXCEPT !.before = dirtyCount[ShardOf[loc[t].key]], !.fkey = k,
                                     !.fexp = 0, !.fret = "relieve_after"]
      <4>1. r.fret = "relieve_after"
        BY DEF TypeOK, Locals
      <4>2. Step(t, "flush_peek", r)
        BY <3>1
      <4> HIDE DEF r
      <4> QED BY <2>1, <4>1, <4>2, AdmissionKept
    <3> QED BY <1>r, <2>1, <2>3, <3>1 DEF RelievePeek, DirtyIn, InShard
  <2>4. CASE RelieveAfter(t)
    BY <1>r, <2>1, <2>4, AdmissionKept DEF RelieveAfter
  <2> QED
    BY <1>4, <2>2, <2>3, <2>4 DEF PutStep
<1>5. CASE GetStep(t)
  <2>1. ~Admitted(t) /\ inFlight' = inFlight
    BY <1>5 DEF GetStep, GetRead, GetFill, Admitted, admissionVars
  <2> QED
    BY <1>5, <2>1, AdmissionKept DEF GetStep, GetRead, GetFill
<1>6. CASE InvalidateStep(t) /\ ~InvalidateAdmit(t)
  <2>1. Admitted(t) /\ inFlight' = inFlight
    BY <1>6 DEF InvalidateStep, InvalidatePeek, InvalidateAppend, InvalidateRemove,
       InvalidateCommit, Admitted, admissionVars
  <2> QED
    BY <1>6, <2>1, AdmissionKept DEF InvalidateStep, InvalidatePeek, InvalidateAppend,
       InvalidateRemove, InvalidateCommit
<1>7. CASE FlushStep(t)
  <2>0. pc[t] \in FlushPcs \cup {"flush_peek"} /\ inFlight' = inFlight
    BY <1>7 DEF FlushStep, FlushPeek, FlushIntent, FlushPut, FlushComplete, FlushAppend,
       FlushCommit, RevertFlushInProgressLocked, admissionVars
  <2>1. Admitted(t) <=> loc[t].fret \in {"release", "relieve_after"}
    BY <2>0 DEF Admitted
  <2>2. ASSUME NEW ok, FlushReturn(t, ok) PROVE InFlightExact'
    <3>1. Step(t, loc[t].fret, [loc[t] EXCEPT !.ok = ok])
      BY <2>2 DEF FlushReturn
    <3> QED BY <1>f, <2>0, <2>1, <3>1, AdmissionKept
  <2>3. CASE FlushPeek(t) /\ Claimable(entry[loc[t].fkey], loc[t].fexp)
    <3> DEFINE r == [loc[t] EXCEPT !.fval = entry[loc[t].fkey].val,
                                   !.fver = entry[loc[t].fkey].ver]
    <3>1. r.fret = loc[t].fret
      BY DEF TypeOK, Locals
    <3>2. Step(t, "flush_intent", r)
      BY <2>3 DEF FlushPeek
    <3> HIDE DEF r
    <3> QED BY <2>0, <2>1, <3>1, <3>2, AdmissionKept
  <2>4. CASE FlushPeek(t) /\ ~Claimable(entry[loc[t].fkey], loc[t].fexp)
    BY <2>2, <2>4 DEF FlushPeek
  <2>5. CASE FlushIntent(t) \/ FlushPut(t) \/ FlushComplete(t)
    BY <2>0, <2>1, <2>5, AdmissionKept DEF FlushIntent, FlushPut, FlushComplete, FlushAppend
  <2>6. CASE FlushCommit(t) \/ RevertFlushInProgressLocked(t)
    BY <2>2, <2>6 DEF FlushCommit, RevertFlushInProgressLocked
  <2> QED
    BY <1>7, <2>3, <2>4, <2>5, <2>6 DEF FlushStep
<1>8. CASE FlushAllStep(t)
  <2>0. ~Admitted(t) /\ inFlight' = inFlight
    BY <1>8 DEF FlushAllStep, FlushAllCollect, FlushAllNext, CompactCheck, CompactPause,
       CompactDrain, DrainInFlightWrites, CompactScan, SumDirty, CompactTruncate,
       CompactResume, Admitted, admissionVars
  <2>1. ASSUME NEW l \in Pcs, NEW r, Step(t, l, r),
               l \notin AdmittedPcs \cup FlushPcs \cup {"flush_peek"}
        PROVE  InFlightExact'
    BY <2>0, <2>1, AdmissionKept
  <2>2. CASE FlushAllNext(t)
    <3> DEFINE l == [loc[t] EXCEPT !.failed = @ \/ ~loc[t].ok, !.ok = TRUE]
    <3>1. ASSUME NEW k \in l.todo,
                 Step(t, "flush_peek", [l EXCEPT !.todo = @ \ {k}, !.fkey = k, !.fexp = 0,
                                                 !.fret = "all_next"])
          PROVE  InFlightExact'
      <4> DEFINE r == [l EXCEPT !.todo = @ \ {k}, !.fkey = k, !.fexp = 0, !.fret = "all_next"]
      <4>1. r.fret = "all_next"
        BY DEF TypeOK, Locals
      <4>2. Step(t, "flush_peek", r)
        BY <3>1
      <4> HIDE DEF r
      <4> QED BY <2>0, <4>1, <4>2, AdmissionKept
    <3>2. l.aret \in {"idle", "shut_stopped"}
      BY DEF TypeOK, Locals
    <3>3. \/ \E k \in l.todo :
                 Step(t, "flush_peek", [l EXCEPT !.todo = @ \ {k}, !.fkey = k, !.fexp = 0,
                                                 !.fret = "all_next"])
          \/ Step(t, "collect", [l EXCEPT !.shard = @ + 1])
          \/ Step(t, IF l.failed THEN l.aret ELSE "compact_check", l)
      BY <2>2 DEF FlushAllNext
    <3> HIDE DEF l
    <3> QED BY <2>1, <3>1, <3>2, <3>3 DEF Pcs
  <2>3. CASE FlushAllCollect(t) \/ CompactCheck(t) \/ CompactPause(t) \/ CompactDrain(t)
    BY <1>f, <2>1, <2>3 DEF FlushAllCollect, CompactCheck, CompactPause, CompactDrain,
       DrainInFlightWrites, Pcs
  <2>4. CASE CompactScan(t) \/ CompactTruncate(t) \/ CompactResume(t)
    BY <1>f, <2>1, <2>4 DEF CompactScan, SumDirty, CompactTruncate, CompactResume, Pcs
  <2> QED
    BY <1>8, <2>2, <2>3, <2>4 DEF FlushAllStep
<1>9. CASE ShutdownStep(t)
  <2>0. ~Admitted(t) /\ inFlight' = inFlight
    BY <1>9 DEF ShutdownStep, ShutdownDrain, ShutdownJoin, ShutdownStopped, ShutdownScan,
       SumDirty, ShutdownTruncate, Admitted, admissionVars
  <2> QED
    BY <1>9, <2>0, AdmissionKept DEF ShutdownStep, ShutdownDrain, ShutdownJoin, StartFlushAll,
       ShutdownStopped, ShutdownScan, SumDirty, ShutdownTruncate
<1> QED
  BY <1>1, <1>2, <1>3, <1>4, <1>5, <1>6, <1>7, <1>8, <1>9
     DEF Continue, PutStep, InvalidateStep

\* inFlightWriteCount_ is the number of admitted writes for every number of threads and
\* whichever I/O fails: both drains wait for exactly the writes that are under way, and
\* the "never below zero" test of ReleaseWriteAdmission never hides a miscount.
THEOREM InFlightIsExact == Spec => []InFlightExact
<1>1. ASSUME \A t \in Threads : pc[t] = "idle" PROVE AdmittedThreads = {}
  BY <1>1 DEF AdmittedThreads, Admitted, AdmittedPcs, PutPcs, InvalidatePcs, FlushPcs
<1>2. Init => InFlightExact
  BY <1>1, FS_EmptySet DEF Init, InFlightExact, AdmittedThreads
<1>3. TypeOK /\ InFlightExact /\ [Next]_vars => InFlightExact'
  <2> SUFFICES ASSUME TypeOK, InFlightExact, [Next]_vars PROVE InFlightExact'
    OBVIOUS
  <2>1. CASE Crash
    <3>1. AdmittedThreads' = {} /\ inFlight' = 0
      BY <2>1 DEF Crash, AdmittedThreads, Admitted, AdmittedPcs, PutPcs, InvalidatePcs,
         FlushPcs
    <3> QED BY <3>1, FS_EmptySet DEF InFlightExact, AdmittedThreads
  <2>2. CASE UNCHANGED <<inFlight, pc, loc>>
    <3>1. AdmittedThreads' = AdmittedThreads
      BY <2>2 DEF AdmittedThreads, Admitted
    <3> QED BY <2>2, <3>1 DEF InFlightExact, AdmittedThreads
  <2>3. CASE Recover \/ AtRest \/ UNCHANGED vars
    BY <2>2, <2>3 DEF Recover, ReplayRecord, ReplayFails, Replaying, ReplayEnd,
       MarkRecoveryComplete, AtRest, vars, admissionVars, threadVars
  <2> QED
    BY <2>1, <2>3, InFlightStep DEF Next
<1> QED
  BY <1>2, <1>3, TypeCorrect, PTL DEF Spec

-----------------------------------------------------------------------------
(* Start-up: until MarkRecoveryComplete no call runs, and until the end of *)
(* the replay nothing is cached.                                           *)

Unready == {"NotReady", "RecoveryFailed"}

IdleUntilReady == lifecycle \in Unready => \A t \in Threads : pc[t] = "idle"
EmptyUntilReplayed ==
    ~replay.done => lifecycle \in Unready /\ \A k \in Keys : entry[k] = NoEntry
StartUp == IdleUntilReady /\ EmptyUntilReplayed

\* A call makes its first step in a ready or stopping engine, and a later one while its
\* thread is not idle.
LEMMA CallReady ==
    ASSUME NEW t \in Threads, Begin(t) \/ Continue(t), IdleUntilReady
    PROVE  lifecycle \notin Unready
<1>1. CASE Begin(t)
  BY <1>1 DEF Begin, PutBegin, GetBegin, InvalidateBegin, FlushBegin, FlushAllBegin,
     ShutdownBegin, CheckReadyForRead, CheckReadyForWrite, Unready
<1>2. ASSUME Continue(t) PROVE pc[t] # "idle"
  <2>1. CASE PutStep(t) \/ GetStep(t) \/ InvalidateStep(t)
    BY <2>1 DEF PutStep, GetStep, InvalidateStep, PutAdmit, TryAdmitWrite, PutAppend,
       PutCommit, RelievePeek, RelieveAfter, ReleaseWriteAdmission, GetRead, GetFill,
       InvalidateAdmit, InvalidatePeek, InvalidateAppend, InvalidateRemove, InvalidateCommit
  <2>2. CASE FlushStep(t) \/ FlushAllStep(t)
    BY <2>2 DEF FlushStep, FlushAllStep, FlushPeek, FlushIntent, FlushPut, FlushComplete,
       FlushAppend, FlushCommit, RevertFlushInProgressLocked, FlushAllCollect, FlushAllNext,
       CompactCheck, CompactPause, CompactDrain, DrainInFlightWrites, CompactScan, SumDirty,
       CompactTruncate, CompactResume
  <2>3. CASE ShutdownStep(t)
    BY <2>3 DEF ShutdownStep, ShutdownDrain, ShutdownJoin, ShutdownStopped, ShutdownScan,
       SumDirty, ShutdownTruncate
  <2> QED BY <1>2, <2>1, <2>2, <2>3 DEF Continue
<1> QED
  BY <1>1, <1>2 DEF IdleUntilReady

\* What a call does to the lifecycle: Shutdown alone moves it, from Ready to Stopping to
\* Stopped; no call touches the replay.
LEMMA CallLifecycle ==
    ASSUME NEW t \in Threads, Begin(t) \/ Continue(t)
    PROVE  /\ UNCHANGED <<replay, crashes>>
           /\ \/ UNCHANGED lifecycle
              \/ ShutdownBegin(t) /\ lifecycle = "Ready" /\ lifecycle' = "Stopping"
              \/ ShutdownStopped(t) /\ lifecycle' = "Stopped"
<1>1. CASE Begin(t)
  BY <1>1 DEF Begin, PutBegin, GetBegin, InvalidateBegin, FlushBegin, FlushAllBegin,
     ShutdownBegin, lifeVars
<1>2. CASE PutStep(t) \/ GetStep(t) \/ InvalidateStep(t)
  BY <1>2 DEF PutStep, GetStep, InvalidateStep, PutAdmit, TryAdmitWrite, PutAppend,
     PutCommit, RelievePeek, RelieveAfter, ReleaseWriteAdmission, GetRead, GetFill,
     InvalidateAdmit, InvalidatePeek, InvalidateAppend, InvalidateRemove, InvalidateCommit,
     lifeVars
<1>3. CASE FlushStep(t) \/ FlushAllStep(t)
  BY <1>3 DEF FlushStep, FlushAllStep, FlushPeek, FlushIntent, FlushPut, FlushComplete,
     FlushAppend, FlushCommit, RevertFlushInProgressLocked, FlushAllCollect, FlushAllNext,
     CompactCheck, CompactPause, CompactDrain, DrainInFlightWrites, CompactScan, SumDirty,
     CompactTruncate, CompactResume, lifeVars
<1>4. CASE ShutdownStep(t)
  BY <1>4 DEF ShutdownStep, ShutdownDrain, ShutdownJoin, ShutdownStopped, ShutdownScan,
     SumDirty, ShutdownTruncate, lifeVars
<1> QED
  BY <1>1, <1>2, <1>3, <1>4 DEF Continue

\* StartUp is an invariant.
LEMMA StartUpHolds == Spec => []StartUp
<1> USE DEF StartUp, IdleUntilReady, EmptyUntilReplayed, Unready
<1>1. Init => StartUp
  BY DEF Init
<1>2. StartUp /\ TypeOK /\ [Next]_vars => StartUp'
  <2> SUFFICES ASSUME StartUp, TypeOK, [Next]_vars PROVE StartUp'
    OBVIOUS
  <2>0. replay \in [pos : Nat, pending : [Keys -> Entries], done : BOOLEAN]
    BY DEF TypeOK
  <2>1. CASE ReplayRecord
    <3>1. replay'.done = replay.done /\ UNCHANGED <<lifecycle, pc, entry>>
      BY <2>0, <2>1 DEF ReplayRecord, Replaying, threadVars, shardVars
    <3> QED BY <3>1
  <2>2. CASE ReplayFails
    BY <2>2 DEF ReplayFails, Replaying, threadVars, shardVars
  <2>3. CASE ReplayEnd
    <3>1. replay'.done /\ UNCHANGED <<lifecycle, pc>>
      BY <2>0, <2>3 DEF ReplayEnd, threadVars
    <3> QED BY <3>1
  <2>4. CASE MarkRecoveryComplete
    BY <2>4 DEF MarkRecoveryComplete, threadVars, shardVars
  <2>5. CASE Crash
    BY <2>5 DEF Crash, NotReplayed
  <2>6. CASE UNCHANGED vars
    BY <2>6 DEF vars, lifeVars, shardVars, threadVars
  <2>7. ASSUME NEW t \in Threads, Begin(t) \/ Continue(t) PROVE StartUp'
    BY <2>7, CallReady, CallLifecycle
  <2> QED
    BY <2>1, <2>2, <2>3, <2>4, <2>5, <2>6, <2>7 DEF Next, Recover, AtRest
<1> QED
  BY <1>1, <1>2, TypeCorrect, PTL DEF Spec

-----------------------------------------------------------------------------
(* The inductive invariant.  Four kinds of threads hold something they     *)
(* read under a shard lock and use after giving it up: a reader its fence, *)
(* a Put its version, an Invalidate the version it saw, a flush the        *)
(* version it claimed.  OrderInv says how what they hold relates to the    *)
(* cache as it is now and to what the others hold.                         *)

FillPcs == {"get_read", "get_fill"}
PeekedPcs == {"inv_append", "inv_remove", "inv_commit"}

\* A reader's fence is not ahead of its shard's, and while they agree its key is absent.
FillSnapshots ==
    \A t \in Threads : pc[t] \in FillPcs =>
        /\ loc[t].fence <= fence[ShardOf[loc[t].key]]
        /\ fence[ShardOf[loc[t].key]] = loc[t].fence => ~Cached(loc[t].key)

\* Every version in the cache or in a thread's hands has been issued.
VersionsIssued ==
    /\ \A k \in Keys : entry[k].ver <= versionCounter
    /\ \A t \in Threads : /\ pc[t] \in FlushPcs => loc[t].fver <= versionCounter
                          /\ pc[t] \in PeekedPcs => loc[t].ver <= versionCounter

\* A version that is still to be committed has been neither claimed nor peeked at.
VersionsApart ==
    \A t \in Threads : pc[t] = "put_commit" =>
        \A u \in Threads : /\ pc[u] \in FlushPcs => loc[u].fver # loc[t].ver
                           /\ pc[u] \in PeekedPcs => loc[u].ver # loc[t].ver

\* A claimed version is not Dirty again before its flush ends, and has one flush.
FlushClaims ==
    \A t \in Threads : pc[t] \in FlushPcs =>
        /\ entry[loc[t].fkey].ver = loc[t].fver => entry[loc[t].fkey].state # "Dirty"
        /\ \A u \in Threads : Flushing(u, loc[t].fkey, loc[t].fver) => u = t

\* The version a soft Invalidate saw Clean or absent has not become unflushed.
SoftPeeks ==
    \A t \in Threads : pc[t] \in PeekedPcs /\ ~loc[t].force =>
        (entry[loc[t].key].ver = loc[t].ver => ~NonClean(entry[loc[t].key]))

OrderInv ==
    /\ FillSnapshots
    /\ VersionsIssued /\ VersionsUnique /\ VersionsApart
    /\ FlushClaims /\ FlushOwned
    /\ SoftPeeks

\* Thread u holds after the step nothing that it did not hold before, and still runs
\* the flush that it ran.
Carries(u) ==
    /\ pc'[u] \in FillPcs =>
          pc[u] \in FillPcs /\ loc'[u].key = loc[u].key /\ loc'[u].fence = loc[u].fence
    /\ pc'[u] = "put_commit" => pc[u] = "put_commit" /\ loc'[u].ver = loc[u].ver
    /\ pc'[u] \in PeekedPcs => /\ pc[u] \in PeekedPcs /\ loc'[u].key = loc[u].key
                               /\ loc'[u].ver = loc[u].ver /\ loc'[u].force = loc[u].force
    /\ pc'[u] \in FlushPcs <=> pc[u] \in FlushPcs
    /\ pc'[u] \in FlushPcs => loc'[u].fkey = loc[u].fkey /\ loc'[u].fver = loc[u].fver

\* The types of what the threads hold.
LEMMA HeldTypes ==
    ASSUME TypeOK, NEW t \in Threads
    PROVE  /\ loc[t].key \in Keys /\ loc[t].fkey \in Keys
           /\ ShardOf[loc[t].key] \in Shards /\ ShardOf[loc[t].fkey] \in Shards
           /\ loc[t].val \in Stored /\ loc[t].fval \in Stored
           /\ loc[t].ver \in Nat /\ loc[t].fver \in Nat /\ loc[t].fence \in Nat
           /\ loc[t].force \in BOOLEAN
BY ShardAssumption DEF TypeOK, Locals

\* A step that adds nothing to the cache and to what the threads hold keeps OrderInv.
LEMMA OrderCarried ==
    ASSUME TypeOK, TypeOK', OrderInv,
           \A u \in Threads : Carries(u),
           \A k \in Keys : entry'[k] \in {entry[k], NoEntry},
           \A s \in Shards : fence[s] <= fence'[s],
           versionCounter <= versionCounter'
    PROVE  OrderInv'
<1>1. NoEntry.ver = 0 /\ NoEntry.state = "Absent"
  BY DEF NoEntry
<1>2. /\ versionCounter \in Nat /\ versionCounter' \in Nat
      /\ \A k \in Keys : entry[k].ver \in Nat
      /\ \A s \in Shards : fence[s] \in Nat /\ fence'[s] \in Nat
  BY DEF TypeOK, Entries
<1>3. FillSnapshots'
  <2> SUFFICES ASSUME NEW t \in Threads, pc'[t] \in FillPcs
               PROVE  /\ loc'[t].fence <= fence'[ShardOf[loc'[t].key]]
                      /\ fence'[ShardOf[loc'[t].key]] = loc'[t].fence =>
                            entry'[loc'[t].key].state = "Absent"
    BY DEF FillSnapshots, Cached
  <2>1. /\ pc[t] \in FillPcs /\ loc'[t].key = loc[t].key /\ loc'[t].fence = loc[t].fence
    BY DEF Carries
  <2>2. /\ loc[t].fence <= fence[ShardOf[loc[t].key]]
        /\ fence[ShardOf[loc[t].key]] = loc[t].fence => entry[loc[t].key].state = "Absent"
    BY <2>1 DEF OrderInv, FillSnapshots, Cached
  <2> QED
    BY <1>1, <1>2, <2>1, <2>2, HeldTypes
<1>4. VersionsIssued'
  <2>1. \A k \in Keys : entry'[k].ver <= versionCounter'
    BY <1>1, <1>2 DEF OrderInv, VersionsIssued
  <2>2. ASSUME NEW t \in Threads
        PROVE  /\ pc'[t] \in FlushPcs => loc'[t].fver <= versionCounter'
               /\ pc'[t] \in PeekedPcs => loc'[t].ver <= versionCounter'
    BY <1>2, HeldTypes DEF OrderInv, VersionsIssued, Carries
  <2> QED BY <2>1, <2>2 DEF VersionsIssued
<1>5. VersionsUnique'
  <2> SUFFICES ASSUME NEW t \in Threads, pc'[t] = "put_commit"
               PROVE  /\ loc'[t].ver \in 1..versionCounter'
                      /\ \A k \in Keys : entry'[k].ver # loc'[t].ver
                      /\ \A u \in Threads \ {t} : pc'[u] = "put_commit" =>
                                                     loc'[u].ver # loc'[t].ver
    BY DEF VersionsUnique
  <2>1. /\ pc[t] = "put_commit" /\ loc'[t].ver = loc[t].ver
        /\ loc[t].ver \in 1..versionCounter /\ \A k \in Keys : entry[k].ver # loc[t].ver
    BY DEF Carries, OrderInv, VersionsUnique
  <2>2. \A u \in Threads \ {t} : pc'[u] = "put_commit" => loc'[u].ver # loc'[t].ver
    BY <2>1 DEF Carries, OrderInv, VersionsUnique
  <2> QED
    BY <1>1, <1>2, <2>1, <2>2, HeldTypes
<1>6. VersionsApart'
  BY DEF OrderInv, VersionsApart, Carries
<1>7. FlushClaims'
  <2> SUFFICES ASSUME NEW t \in Threads, pc'[t] \in FlushPcs
               PROVE  /\ entry'[loc'[t].fkey].ver = loc'[t].fver =>
                            entry'[loc'[t].fkey].state # "Dirty"
                      /\ \A u \in Threads : pc'[u] \in FlushPcs /\ loc'[u].fkey = loc'[t].fkey
                                            /\ loc'[u].fver = loc'[t].fver => u = t
    BY DEF FlushClaims, Flushing
  <2>1. pc[t] \in FlushPcs /\ loc'[t].fkey = loc[t].fkey /\ loc'[t].fver = loc[t].fver
    BY DEF Carries
  <2>2. /\ entry[loc[t].fkey].ver = loc[t].fver => entry[loc[t].fkey].state # "Dirty"
        /\ \A u \in Threads : Flushing(u, loc[t].fkey, loc[t].fver) => u = t
    BY <2>1 DEF OrderInv, FlushClaims
  <2>3. entry'[loc'[t].fkey].ver = loc'[t].fver => entry'[loc'[t].fkey].state # "Dirty"
    BY <1>1, <2>1, <2>2, HeldTypes
  <2> QED
    BY <2>1, <2>2, <2>3 DEF Carries, Flushing
<1>8. FlushOwned'
  <2> SUFFICES ASSUME NEW k \in Keys, entry'[k].state = "FlushInProgress"
               PROVE  /\ \E t \in Threads : Flushing(t, k, entry[k].ver)'
                      /\ \A t, u \in Threads :
                            Flushing(t, k, entry[k].ver)' /\ Flushing(u, k, entry[k].ver)' => t = u
    BY DEF FlushOwned
  <2>1. entry'[k] = entry[k]
    BY <1>1
  <2>2. /\ \E t \in Threads : Flushing(t, k, entry[k].ver)
        /\ \A t, u \in Threads :
              Flushing(t, k, entry[k].ver) /\ Flushing(u, k, entry[k].ver) => t = u
    BY <2>1 DEF OrderInv, FlushOwned
  <2>3. \A t \in Threads : Flushing(t, k, entry[k].ver)' <=> Flushing(t, k, entry[k].ver)
    BY <2>1 DEF Flushing, Carries
  <2> QED
    BY <2>2, <2>3
<1>9. SoftPeeks'
  <2> SUFFICES ASSUME NEW t \in Threads, pc'[t] \in PeekedPcs, ~loc'[t].force,
                      entry'[loc'[t].key].ver = loc'[t].ver
               PROVE  ~NonClean(entry'[loc'[t].key])
    BY DEF SoftPeeks, NonClean
  <2>1. /\ pc[t] \in PeekedPcs /\ loc'[t].key = loc[t].key /\ loc'[t].ver = loc[t].ver
        /\ ~loc[t].force
    BY DEF Carries
  <2>2. entry[loc[t].key].ver = loc[t].ver => ~NonClean(entry[loc[t].key])
    BY <2>1 DEF OrderInv, SoftPeeks
  <2> QED
    BY <1>1, <2>1, <2>2, HeldTypes DEF NonClean
<1> QED
  BY <1>3, <1>4, <1>5, <1>6, <1>7, <1>8, <1>9 DEF OrderInv

\* The threads that do not step hold what they held.
LEMMA OthersCarry ==
    ASSUME TypeOK, NEW t \in Threads, NEW l, NEW r, Step(t, l, r)
    PROVE  \A u \in Threads \ {t} : Carries(u)
BY StepEffect DEF Carries

HoldingPcs == FillPcs \cup {"put_commit"} \cup PeekedPcs \cup FlushPcs

\* A thread that runs no flush and goes where nothing is held.
LEMMA PlainMove ==
    ASSUME TypeOK, NEW t \in Threads, NEW l, NEW r, Step(t, l, r),
           pc[t] \notin FlushPcs, l \notin HoldingPcs
    PROVE  \A u \in Threads : Carries(u)
<1>1. Carries(t)
  BY StepEffect DEF Carries, HoldingPcs
<1> QED
  BY <1>1, OthersCarry

\* Taking entries out of the cache.
LEMMA SettleRemoves ==
    ASSUME TypeOK, NEW pos, NEW out, Settle(entry, pos, out)
    PROVE  \A k \in Keys : entry'[k] \in {entry[k], NoEntry}
BY DEF Settle, TypeOK

\* A step of a call that leaves entries, fences and versions alone.
LEMMA PlainOrder ==
    ASSUME TypeOK, TypeOK', OrderInv, \A u \in Threads : Carries(u),
           UNCHANGED shardVars, UNCHANGED versionCounter
    PROVE  OrderInv'
<1>1. \A s \in Shards : fence[s] \in Nat
  BY DEF TypeOK
<1>2. versionCounter \in Nat
  BY DEF TypeOK
<1>3. \A k \in Keys : entry'[k] \in {entry[k], NoEntry}
  BY DEF shardVars
<1>4. (\A s \in Shards : fence[s] <= fence'[s]) /\ versionCounter <= versionCounter'
  BY <1>1, <1>2 DEF shardVars
<1> QED
  BY <1>3, <1>4, OrderCarried

\* The first step of every call but Get.
LEMMA BeginOrder ==
    ASSUME TypeOK, TypeOK', OrderInv, NEW t \in Threads, Begin(t), ~GetBegin(t)
    PROVE  OrderInv'
<1>1. pc[t] = "idle" /\ UNCHANGED shardVars /\ UNCHANGED versionCounter
  BY DEF Begin, PutBegin, InvalidateBegin, FlushBegin, FlushAllBegin, ShutdownBegin, Call,
     lifeVars
<1>2. PICK l, r : Step(t, l, r) /\ l \in {"put_admit", "inv_admit", "flush_peek", "collect",
                                           "shut_drain"}
  BY DEF Begin, PutBegin, InvalidateBegin, FlushBegin, FlushAllBegin, StartFlushAll,
     ShutdownBegin
<1>3. \A u \in Threads : Carries(u)
  BY <1>1, <1>2, PlainMove DEF HoldingPcs, FillPcs, PeekedPcs, FlushPcs
<1> QED
  BY <1>1, <1>3, PlainOrder

\* Admission, the relief of capacity pressure and release.
LEMMA AdmitReliefOrder ==
    ASSUME TypeOK, TypeOK', OrderInv, NEW t \in Threads,
           \/ PutAdmit(t) \/ InvalidateAdmit(t) \/ RelievePeek(t) \/ RelieveAfter(t)
           \/ ReleaseWriteAdmission(t)
    PROVE  OrderInv'
<1>1. /\ pc[t] \in {"put_admit", "inv_admit", "relieve_peek", "relieve_after", "release"}
      /\ UNCHANGED versionCounter
      /\ UNCHANGED shardVars \/ \E s : EvictCleanEntriesLocked(s)
  BY DEF PutAdmit, InvalidateAdmit, TryAdmitWrite, RelievePeek, RelieveAfter,
     ReleaseWriteAdmission, lifeVars
<1>2. \E l, r : Step(t, l, r) /\ l \in {"put_append", "inv_peek", "idle", "release",
                                        "flush_peek", "relieve_peek"}
  BY DEF PutAdmit, InvalidateAdmit, TryAdmitWrite, RelievePeek, RelieveAfter, PutRelieved,
     ReleaseWriteAdmission
<1>3. \A u \in Threads : Carries(u)
  BY <1>1, <1>2, PlainMove DEF HoldingPcs, FillPcs, PeekedPcs, FlushPcs
<1>4. ASSUME NEW s, EvictCleanEntriesLocked(s) PROVE OrderInv'
  <2>1. \A k \in Keys : entry'[k] \in {entry[k], NoEntry}
    BY <1>4, SettleRemoves DEF EvictCleanEntriesLocked
  <2>2. \A q \in Shards : fence[q] <= fence'[q]
    BY <1>4 DEF EvictCleanEntriesLocked, TypeOK
  <2>3. versionCounter <= versionCounter'
    BY <1>1 DEF TypeOK
  <2> QED BY <1>3, <2>1, <2>2, <2>3, OrderCarried
<1> QED
  BY <1>1, <1>3, <1>4, PlainOrder

\* Invalidate after its peek: the journal, the backing store, the commit.
LEMMA InvalidateOrder ==
    ASSUME TypeOK, TypeOK', OrderInv, NEW t \in Threads,
           InvalidateAppend(t) \/ InvalidateRemove(t) \/ InvalidateCommit(t)
    PROVE  OrderInv'
<1>1. pc[t] \in PeekedPcs /\ UNCHANGED versionCounter
  BY DEF InvalidateAppend, InvalidateRemove, InvalidateCommit, PeekedPcs, lifeVars
<1>2. PICK l : Step(t, l, loc[t]) /\ l \in {"inv_remove", "inv_commit", "release"}
  BY DEF InvalidateAppend, InvalidateRemove, InvalidateCommit
<1>3. pc'[t] = l /\ loc'[t] = loc[t]
  BY <1>2, StepEffect
<1>4. Carries(t)
  BY <1>1, <1>2, <1>3 DEF Carries, PeekedPcs, FlushPcs, FillPcs
<1>5. \A u \in Threads : Carries(u)
  BY <1>2, <1>4, OthersCarry
<1>6. CASE InvalidateCommit(t)
  <2>1. \A k \in Keys : entry'[k] \in {entry[k], NoEntry}
    BY <1>6, SettleRemoves DEF InvalidateCommit
  <2>2. fence' = [fence EXCEPT ![ShardOf[loc[t].key]] = @ + 1]
    BY <1>6 DEF InvalidateCommit, BumpFence
  <2>3. \A s \in Shards : fence[s] <= fence'[s]
    <3>1. fence \in [Shards -> Nat]
      BY DEF TypeOK
    <3> QED BY <2>2, <3>1
  <2>4. versionCounter <= versionCounter'
    BY <1>1 DEF TypeOK
  <2> QED BY <1>5, <2>1, <2>3, <2>4, OrderCarried
<1>7. CASE InvalidateAppend(t) \/ InvalidateRemove(t)
  <2>1. UNCHANGED shardVars
    BY <1>7 DEF InvalidateAppend, InvalidateRemove
  <2> QED BY <1>1, <1>5, <2>1, PlainOrder
<1> QED
  BY <1>6, <1>7

\* The I/O of a flush.
LEMMA FlushIOOrder ==
    ASSUME TypeOK, TypeOK', OrderInv, NEW t \in Threads,
           FlushIntent(t) \/ FlushPut(t) \/ FlushComplete(t)
    PROVE  OrderInv'
<1>1. pc[t] \in FlushPcs /\ UNCHANGED versionCounter /\ UNCHANGED shardVars
  BY DEF FlushIntent, FlushPut, FlushComplete, FlushAppend, FlushPcs, lifeVars
<1>2. PICK l : Step(t, l, loc[t]) /\ l \in FlushPcs
  BY DEF FlushIntent, FlushPut, FlushComplete, FlushAppend, FlushPcs
<1>3. pc'[t] = l /\ loc'[t] = loc[t]
  BY <1>2, StepEffect DEF FlushPcs
<1>4. Carries(t)
  BY <1>1, <1>2, <1>3 DEF Carries, PeekedPcs, FlushPcs, FillPcs
<1> QED
  BY <1>1, <1>2, <1>4, OthersCarry, PlainOrder

\* FlushAll, compaction and Shutdown hold nothing between their steps.
LEMMA LoopOrder ==
    ASSUME TypeOK, TypeOK', OrderInv, NEW t \in Threads, FlushAllStep(t) \/ ShutdownStep(t)
    PROVE  OrderInv'
<1> DEFINE LoopPcs == {"collect", "all_next", "compact_check", "compact_pause",
                       "compact_drain", "compact_scan", "compact_truncate", "compact_resume",
                       "shut_drain", "shut_join", "shut_stopped", "shut_scan",
                       "shut_truncate", "idle", "flush_peek"}
<1>1. pc[t] \in LoopPcs /\ UNCHANGED versionCounter /\ UNCHANGED shardVars
  BY DEF FlushAllStep, ShutdownStep, FlushAllCollect, FlushAllNext, CompactCheck,
     CompactPause, CompactDrain, DrainInFlightWrites, CompactScan, SumDirty, CompactTruncate,
     CompactResume, ShutdownDrain, ShutdownJoin, ShutdownStopped, ShutdownScan,
     ShutdownTruncate, lifeVars
<1>2. loc[t].aret \in LoopPcs
  BY DEF TypeOK, Locals
<1>3. ASSUME FlushAllNext(t) PROVE \E m, r : Step(t, m, r) /\ m \in LoopPcs
  <2> DEFINE l == [loc[t] EXCEPT !.failed = @ \/ ~loc[t].ok, !.ok = TRUE]
  <2>1. l.aret = loc[t].aret
    BY DEF TypeOK, Locals
  <2>2. \E m, r : Step(t, m, r) /\ m \in {"flush_peek", "collect", l.aret, "compact_check"}
    BY <1>3 DEF FlushAllNext
  <2> HIDE DEF l
  <2> QED BY <1>2, <2>1, <2>2
<1>4. ASSUME FlushAllStep(t), ~FlushAllNext(t)
      PROVE  \E m, r : Step(t, m, r) /\ m \in LoopPcs
  BY <1>2, <1>4 DEF FlushAllStep, FlushAllCollect, CompactCheck, CompactPause, CompactDrain,
     DrainInFlightWrites, CompactScan, SumDirty, CompactTruncate, CompactResume
<1>5. ASSUME ShutdownStep(t) PROVE \E m, r : Step(t, m, r) /\ m \in LoopPcs
  BY <1>5 DEF ShutdownStep, ShutdownDrain, ShutdownJoin, StartFlushAll, ShutdownStopped,
     ShutdownScan, SumDirty, ShutdownTruncate
<1>6. PICK m, r : Step(t, m, r) /\ m \in LoopPcs
  BY <1>3, <1>4, <1>5
<1>7. \A u \in Threads : Carries(u)
  BY <1>1, <1>6, PlainMove DEF HoldingPcs, FillPcs, PeekedPcs, FlushPcs
<1> QED
  BY <1>1, <1>7, PlainOrder

\* What an insertion leaves in the cache: the new entry, unless it is Clean and evicted at
\* once, and of the others all that is not Clean.
InsertResult(k, v, n, state) ==
    LET new == [val |-> v, ver |-> n, state |-> state]
    IN  /\ ~Superseded(k, n)
        /\ \A j \in Keys \ {k} : /\ entry'[j] \in {entry[j], NoEntry}
                                 /\ NonClean(entry[j]) => entry'[j] = entry[j]
        /\ entry'[k] \in {new, NoEntry}
        /\ state = "Dirty" => entry'[k] = new
        /\ fence' = [fence EXCEPT ![ShardOf[k]] = @ + 1]

\* An insertion does nothing or has that result.
LEMMA InsertEffect ==
    ASSUME TypeOK, NEW k \in Keys, NEW v \in Stored, NEW n \in Nat,
           NEW state \in {"Clean", "Dirty"}, InsertOrUpdateLocked(k, v, n, state)
    PROVE  \/ Superseded(k, n) /\ UNCHANGED shardVars
           \/ InsertResult(k, v, n, state)
<1>1. CASE Superseded(k, n)
  BY <1>1 DEF InsertOrUpdateLocked
<1>2. CASE ~Superseded(k, n)
  <2> DEFINE s == ShardOf[k]
             new == [val |-> v, ver |-> n, state |-> state]
             ent == [entry EXCEPT ![k] = new]
             pos == [lru EXCEPT ![k] = 0]
             dirty == DirtyAfter(s, entry[k], state)
             out == Victims(ent, pos, s, dirty)
  <2>1. Settle(ent, pos, out) /\ fence' = [fence EXCEPT ![s] = @ + 1]
    BY <1>2 DEF InsertOrUpdateLocked, BumpFence
  <2>2. \A j \in out : ent[j].state = "Clean"
    BY VictimsClean
  <2>3. ent[k] = new /\ \A j \in Keys \ {k} : ent[j] = entry[j]
    BY DEF TypeOK
  <2>4. new.state = state
    OBVIOUS
  <2> HIDE DEF new, ent, pos, dirty, out
  <2>5. \A j \in Keys : entry'[j] = IF j \in out THEN NoEntry ELSE ent[j]
    BY <2>1 DEF Settle
  <2>6. \A j \in Keys \ {k} : /\ entry'[j] \in {entry[j], NoEntry}
                              /\ NonClean(entry[j]) => entry'[j] = entry[j]
    BY <2>2, <2>3, <2>5 DEF NonClean
  <2>7. entry'[k] \in {new, NoEntry} /\ (state = "Dirty" => entry'[k] = new)
    BY <2>2, <2>3, <2>4, <2>5
  <2> QED
    BY <1>2, <2>1, <2>6, <2>7 DEF new, InsertResult
<1> QED
  BY <1>1, <1>2

\* An insertion keeps OrderInv if nobody else holds the version that it commits.
LEMMA InsertOrder ==
    ASSUME TypeOK, TypeOK', OrderInv, \A u \in Threads : Carries(u), UNCHANGED versionCounter,
           NEW k \in Keys, NEW v \in Stored, NEW n \in Nat, NEW state \in {"Clean", "Dirty"},
           InsertOrUpdateLocked(k, v, n, state), n <= versionCounter,
           \A u \in Threads : pc'[u] = "put_commit" => loc[u].ver # n,
           \A u \in Threads : state = "Dirty" => /\ pc[u] \in FlushPcs => loc[u].fver # n
                                                 /\ pc[u] \in PeekedPcs => loc[u].ver # n
    PROVE  OrderInv'
<1>1. CASE UNCHANGED shardVars
  BY <1>1, PlainOrder
<1>2. CASE ~UNCHANGED shardVars
  <2> DEFINE new == [val |-> v, ver |-> n, state |-> state]
  <2>0. new.ver = n /\ new.state = state /\ NoEntry.ver = 0 /\ NoEntry.state = "Absent"
    BY DEF NoEntry
  <2>1. /\ \A j \in Keys \ {k} : /\ entry'[j] \in {entry[j], NoEntry}
                                 /\ NonClean(entry[j]) => entry'[j] = entry[j]
        /\ entry'[k] \in {new, NoEntry} /\ (state = "Dirty" => entry'[k] = new)
        /\ fence' = [fence EXCEPT ![ShardOf[k]] = @ + 1]
    <3>1. InsertResult(k, v, n, state)
      BY <1>2, InsertEffect
    <3> QED BY <3>1 DEF InsertResult
  <2> HIDE DEF new
  <2>2. versionCounter \in Nat /\ fence \in [Shards -> Nat]
    BY DEF TypeOK
  <2>3. \A j \in Keys : entry[j].ver \in Nat
    BY DEF TypeOK, Entries
  <2>4. FillSnapshots'
    <3> SUFFICES ASSUME NEW t \in Threads, pc'[t] \in FillPcs
                 PROVE  /\ loc'[t].fence <= fence'[ShardOf[loc'[t].key]]
                        /\ fence'[ShardOf[loc'[t].key]] = loc'[t].fence =>
                              entry'[loc'[t].key].state = "Absent"
      BY DEF FillSnapshots, Cached
    <3>1. pc[t] \in FillPcs /\ loc'[t].key = loc[t].key /\ loc'[t].fence = loc[t].fence
      BY DEF Carries
    <3>2. /\ loc[t].fence <= fence[ShardOf[loc[t].key]]
          /\ fence[ShardOf[loc[t].key]] = loc[t].fence => entry[loc[t].key].state = "Absent"
      BY <3>1 DEF OrderInv, FillSnapshots, Cached
    <3>3. CASE ShardOf[loc[t].key] = ShardOf[k]
      BY <2>1, <2>2, <3>1, <3>2, <3>3, HeldTypes
    <3>4. CASE ShardOf[loc[t].key] # ShardOf[k]
      <4>1. loc[t].key # k /\ loc[t].key \in Keys /\ ShardOf[loc[t].key] \in Shards
        BY <3>4, HeldTypes
      <4>2. fence'[ShardOf[loc[t].key]] = fence[ShardOf[loc[t].key]]
        BY <2>1, <2>2, <3>4, <4>1
      <4> QED BY <2>0, <2>1, <3>1, <3>2, <4>1, <4>2
    <3> QED BY <3>3, <3>4
  <2>5. VersionsIssued'
    <3>1. \A j \in Keys : entry'[j].ver <= versionCounter'
      BY <2>0, <2>1, <2>2 DEF OrderInv, VersionsIssued
    <3> QED BY <3>1 DEF OrderInv, VersionsIssued, Carries
  <2>6. VersionsUnique'
    <3> SUFFICES ASSUME NEW t \in Threads, pc'[t] = "put_commit"
                 PROVE  /\ loc'[t].ver \in 1..versionCounter'
                        /\ \A j \in Keys : entry'[j].ver # loc'[t].ver
                        /\ \A u \in Threads \ {t} : pc'[u] = "put_commit" =>
                                                       loc'[u].ver # loc'[t].ver
      BY DEF VersionsUnique
    <3>1. /\ pc[t] = "put_commit" /\ loc'[t].ver = loc[t].ver /\ loc[t].ver # n
          /\ loc[t].ver \in 1..versionCounter /\ \A j \in Keys : entry[j].ver # loc[t].ver
      BY DEF Carries, OrderInv, VersionsUnique
    <3>2. \A u \in Threads \ {t} : pc'[u] = "put_commit" => loc'[u].ver # loc'[t].ver
      BY <3>1 DEF Carries, OrderInv, VersionsUnique
    <3>3. loc[t].ver # 0
      BY <2>2, <3>1
    <3> QED
      BY <2>0, <2>1, <3>1, <3>2, <3>3
  <2>7. VersionsApart'
    BY DEF OrderInv, VersionsApart, Carries
  <2>8. FlushClaims'
    <3> SUFFICES ASSUME NEW t \in Threads, pc'[t] \in FlushPcs
                 PROVE  /\ entry'[loc'[t].fkey].ver = loc'[t].fver =>
                              entry'[loc'[t].fkey].state # "Dirty"
                        /\ \A u \in Threads :
                              pc'[u] \in FlushPcs /\ loc'[u].fkey = loc'[t].fkey
                              /\ loc'[u].fver = loc'[t].fver => u = t
      BY DEF FlushClaims, Flushing
    <3>1. pc[t] \in FlushPcs /\ loc'[t].fkey = loc[t].fkey /\ loc'[t].fver = loc[t].fver
      BY DEF Carries
    <3>2. /\ entry[loc[t].fkey].ver = loc[t].fver => entry[loc[t].fkey].state # "Dirty"
          /\ \A u \in Threads : Flushing(u, loc[t].fkey, loc[t].fver) => u = t
      BY <3>1 DEF OrderInv, FlushClaims
    <3>3. entry'[loc'[t].fkey].ver = loc'[t].fver => entry'[loc'[t].fkey].state # "Dirty"
      BY <2>0, <2>1, <3>1, <3>2, HeldTypes
    <3> QED
      BY <3>1, <3>2, <3>3 DEF Carries, Flushing
  <2>9. FlushOwned'
    <3> SUFFICES ASSUME NEW j \in Keys, entry'[j].state = "FlushInProgress"
                 PROVE  /\ \E t \in Threads : Flushing(t, j, entry[j].ver)'
                        /\ \A t, u \in Threads : Flushing(t, j, entry[j].ver)'
                                                 /\ Flushing(u, j, entry[j].ver)' => t = u
      BY DEF FlushOwned
    <3>1. entry'[j] = entry[j]
      BY <2>0, <2>1
    <3>2. /\ \E t \in Threads : Flushing(t, j, entry[j].ver)
          /\ \A t, u \in Threads :
                Flushing(t, j, entry[j].ver) /\ Flushing(u, j, entry[j].ver) => t = u
      BY <3>1 DEF OrderInv, FlushOwned
    <3>3. \A t \in Threads : Flushing(t, j, entry[j].ver)' <=> Flushing(t, j, entry[j].ver)
      BY <3>1 DEF Flushing, Carries
    <3> QED
      BY <3>2, <3>3
  <2>10. SoftPeeks'
    <3> SUFFICES ASSUME NEW t \in Threads, pc'[t] \in PeekedPcs, ~loc'[t].force,
                        entry'[loc'[t].key].ver = loc'[t].ver
                 PROVE  ~NonClean(entry'[loc'[t].key])
      BY DEF SoftPeeks, NonClean
    <3>1. /\ pc[t] \in PeekedPcs /\ loc'[t].key = loc[t].key /\ loc'[t].ver = loc[t].ver
          /\ ~loc[t].force
      BY DEF Carries
    <3>2. entry[loc[t].key].ver = loc[t].ver => ~NonClean(entry[loc[t].key])
      BY <3>1 DEF OrderInv, SoftPeeks
    <3> QED
      BY <2>0, <2>1, <3>1, <3>2, HeldTypes DEF NonClean
  <2> QED
    BY <2>4, <2>5, <2>6, <2>7, <2>8, <2>9, <2>10 DEF OrderInv
<1> QED
  BY <1>1, <1>2

\* A Put draws its version: it is above every version in the cache or held by a thread.
LEMMA PutAppendOrder ==
    ASSUME TypeOK, TypeOK', OrderInv, NEW t \in Threads, PutAppend(t)
    PROVE  OrderInv'
<1>0. /\ pc[t] = "put_append" /\ UNCHANGED shardVars
      /\ versionCounter' = versionCounter + 1 /\ versionCounter \in Nat
  BY DEF PutAppend, NewVersion, TypeOK
<1>e. \A k \in Keys : entry[k].ver \in Nat
  BY DEF TypeOK, Entries
<1>1. CASE Step(t, "release", loc[t])
  <2>1. \A u \in Threads : Carries(u)
    BY <1>0, <1>1, PlainMove DEF HoldingPcs, FillPcs, PeekedPcs, FlushPcs
  <2>2. \A k \in Keys : entry'[k] \in {entry[k], NoEntry}
    BY <1>0 DEF shardVars
  <2>3. \A s \in Shards : fence[s] <= fence'[s]
    BY <1>0 DEF shardVars, TypeOK
  <2> QED BY <1>0, <2>1, <2>2, <2>3, OrderCarried
<1>2. CASE Step(t, "put_commit", [loc[t] EXCEPT !.ver = versionCounter + 1])
  <2>1. /\ pc'[t] = "put_commit" /\ loc'[t] = [loc[t] EXCEPT !.ver = versionCounter + 1]
        /\ \A u \in Threads \ {t} : pc'[u] = pc[u] /\ loc'[u] = loc[u]
    BY <1>2, StepEffect
  <2>2. loc'[t].ver = versionCounter + 1
    BY <2>1 DEF TypeOK, Locals
  <2>3. /\ pc'[t] \notin FillPcs /\ pc'[t] \notin PeekedPcs /\ pc'[t] \notin FlushPcs
        /\ pc[t] \notin FlushPcs
    BY <1>0, <2>1 DEF FillPcs, PeekedPcs, FlushPcs
  <2>4. UNCHANGED <<entry, fence>>
    BY <1>0 DEF shardVars
  <2>5. FillSnapshots'
    BY <2>1, <2>3, <2>4 DEF OrderInv, FillSnapshots, Cached
  <2>6. VersionsIssued'
    <3>1. \A k \in Keys : entry'[k].ver <= versionCounter'
      BY <1>0, <1>e, <2>4 DEF OrderInv, VersionsIssued
    <3>2. ASSUME NEW u \in Threads
          PROVE  /\ pc'[u] \in FlushPcs => loc'[u].fver <= versionCounter'
                 /\ pc'[u] \in PeekedPcs => loc'[u].ver <= versionCounter'
      BY <1>0, <2>1, <2>3, HeldTypes DEF OrderInv, VersionsIssued
    <3> QED BY <3>1, <3>2 DEF VersionsIssued
  <2>7. VersionsUnique'
    <3>1. loc'[t].ver \in 1..versionCounter' /\ \A k \in Keys : entry'[k].ver # loc'[t].ver
      BY <1>0, <1>e, <2>2, <2>4 DEF OrderInv, VersionsIssued
    <3>2. ASSUME NEW u \in Threads \ {t}, pc'[u] = "put_commit"
          PROVE  /\ loc'[u].ver \in 1..versionCounter' /\ loc'[u].ver # loc'[t].ver
                 /\ \A k \in Keys : entry'[k].ver # loc'[u].ver
                 /\ \A w \in Threads \ {t, u} : pc'[w] = "put_commit" => loc'[w].ver # loc'[u].ver
      <4>1. pc[u] = "put_commit" /\ loc'[u] = loc[u]
        BY <2>1, <3>2
      <4>2. /\ loc[u].ver \in 1..versionCounter
            /\ \A k \in Keys : entry[k].ver # loc[u].ver
            /\ \A w \in Threads \ {u} : pc[w] = "put_commit" => loc[w].ver # loc[u].ver
        BY <4>1 DEF OrderInv, VersionsUnique
      <4> QED BY <1>0, <2>1, <2>2, <2>4, <4>1, <4>2
    <3> QED BY <3>1, <3>2 DEF VersionsUnique
  <2>8. VersionsApart'
    <3> SUFFICES ASSUME NEW w \in Threads, pc'[w] = "put_commit", NEW u \in Threads
                 PROVE  /\ pc'[u] \in FlushPcs => loc'[u].fver # loc'[w].ver
                        /\ pc'[u] \in PeekedPcs => loc'[u].ver # loc'[w].ver
      BY DEF VersionsApart
    <3>1. CASE u = t
      BY <2>3, <3>1
    <3>2. CASE u # t /\ w = t
      <4>1. /\ pc[u] \in FlushPcs => loc[u].fver <= versionCounter
            /\ pc[u] \in PeekedPcs => loc[u].ver <= versionCounter
        BY DEF OrderInv, VersionsIssued
      <4>2. pc'[u] = pc[u] /\ loc'[u] = loc[u] /\ loc'[w].ver = versionCounter + 1
        BY <2>1, <2>2, <3>2
      <4>3. loc[u].fver \in Nat /\ loc[u].ver \in Nat
        BY HeldTypes
      <4> QED BY <1>0, <4>1, <4>2, <4>3
    <3>3. CASE u # t /\ w # t
      BY <2>1, <3>3 DEF OrderInv, VersionsApart
    <3> QED BY <3>1, <3>2, <3>3
  <2>9. FlushClaims'
    BY <2>1, <2>3, <2>4 DEF OrderInv, FlushClaims, Flushing
  <2>10. FlushOwned'
    <3>1. \A u \in Threads, k \in Keys : Flushing(u, k, entry[k].ver)'
                                         <=> Flushing(u, k, entry[k].ver)
      BY <2>1, <2>3, <2>4 DEF Flushing
    <3> QED BY <2>4, <3>1 DEF OrderInv, FlushOwned
  <2>11. SoftPeeks'
    BY <2>1, <2>3, <2>4 DEF OrderInv, SoftPeeks, NonClean
  <2> QED
    BY <2>5, <2>6, <2>7, <2>8, <2>9, <2>10, <2>11 DEF OrderInv
<1> QED
  BY <1>1, <1>2 DEF PutAppend, NewVersion

\* A Put commits its version.
LEMMA PutCommitOrder ==
    ASSUME TypeOK, TypeOK', OrderInv, NEW t \in Threads, PutCommit(t)
    PROVE  OrderInv'
<1> DEFINE k == loc[t].key
           v == loc[t].val
           n == loc[t].ver
<1>1. /\ pc[t] = "put_commit" /\ InsertOrUpdateLocked(k, v, n, "Dirty")
      /\ Step(t, "relieve_peek", loc[t]) /\ UNCHANGED versionCounter
  BY DEF PutCommit, lifeVars
<1>2. \A u \in Threads : Carries(u)
  BY <1>1, PlainMove DEF HoldingPcs, FillPcs, PeekedPcs, FlushPcs
<1>3. k \in Keys /\ v \in Stored /\ n \in Nat
  BY HeldTypes
<1>4. n <= versionCounter
  BY <1>1 DEF OrderInv, VersionsUnique, TypeOK
<1>5. ASSUME NEW u \in Threads, pc'[u] = "put_commit" PROVE loc[u].ver # n
  <2>1. u # t /\ pc[u] = "put_commit"
    BY <1>1, <1>5, StepEffect
  <2> QED BY <1>1, <2>1 DEF OrderInv, VersionsUnique
<1>6. ASSUME NEW u \in Threads
      PROVE  /\ pc[u] \in FlushPcs => loc[u].fver # n
             /\ pc[u] \in PeekedPcs => loc[u].ver # n
  BY <1>1 DEF OrderInv, VersionsApart
<1> HIDE DEF k, v, n
<1> QED
  BY <1>1, <1>2, <1>3, <1>4, <1>5, <1>6, InsertOrder

\* A Get takes a snapshot of the fence of a key that is absent.
LEMMA GetBeginOrder ==
    ASSUME TypeOK, TypeOK', OrderInv, NEW t \in Threads, GetBegin(t)
    PROVE  OrderInv'
<1>0. pc[t] = "idle" /\ UNCHANGED versionCounter /\ versionCounter \in Nat
  BY DEF GetBegin, Call, lifeVars, TypeOK
<1>1. ASSUME NEW k \in Keys, Touch(k), UNCHANGED threadVars PROVE OrderInv'
  <2>1. \A j \in Keys : entry'[j] \in {entry[j], NoEntry}
    BY <1>1, SettleRemoves DEF Touch
  <2>2. \A s \in Shards : fence[s] <= fence'[s]
    BY <1>1 DEF Touch, TypeOK
  <2>3. \A u \in Threads : Carries(u)
    BY <1>1 DEF Carries, threadVars
  <2> QED BY <1>0, <2>1, <2>2, <2>3, OrderCarried
<1>2. ASSUME NEW k \in Keys, ~Cached(k), UNCHANGED shardVars,
             Step(t, "get_read", [loc[t] EXCEPT !.key = k, !.fence = fence[ShardOf[k]]])
      PROVE  OrderInv'
  <2>1. /\ pc'[t] = "get_read"
        /\ loc'[t] = [loc[t] EXCEPT !.key = k, !.fence = fence[ShardOf[k]]]
        /\ \A u \in Threads \ {t} : pc'[u] = pc[u] /\ loc'[u] = loc[u]
    BY <1>2, StepEffect
  <2>2. loc'[t].key = k /\ loc'[t].fence = fence[ShardOf[k]]
    BY <2>1 DEF TypeOK, Locals
  <2>3. /\ pc'[t] # "put_commit" /\ pc'[t] \notin PeekedPcs /\ pc'[t] \notin FlushPcs
        /\ pc[t] \notin FlushPcs
    BY <1>0, <2>1 DEF PeekedPcs, FlushPcs
  <2>4. UNCHANGED <<entry, fence>> /\ fence[ShardOf[k]] \in Nat
    BY <1>2, ShardAssumption DEF shardVars, TypeOK
  <2>5. FillSnapshots'
    <3>1. ASSUME NEW u \in Threads, pc'[u] \in FillPcs
          PROVE  /\ loc'[u].fence <= fence'[ShardOf[loc'[u].key]]
                 /\ fence'[ShardOf[loc'[u].key]] = loc'[u].fence =>
                      entry'[loc'[u].key].state = "Absent"
      <4>1. CASE u = t
        BY <1>2, <2>2, <2>4, <4>1 DEF Cached
      <4>2. CASE u # t
        BY <2>1, <2>4, <3>1, <4>2 DEF OrderInv, FillSnapshots, Cached
      <4> QED BY <4>1, <4>2
    <3> QED BY <3>1 DEF FillSnapshots, Cached
  <2>6. VersionsIssued' /\ VersionsUnique' /\ VersionsApart'
    BY <1>0, <2>1, <2>3, <2>4 DEF OrderInv, VersionsIssued, VersionsUnique, VersionsApart
  <2>7. FlushClaims'
    BY <2>1, <2>3, <2>4 DEF OrderInv, FlushClaims, Flushing
  <2>8. FlushOwned'
    <3>1. \A u \in Threads, j \in Keys : Flushing(u, j, entry[j].ver)'
                                         <=> Flushing(u, j, entry[j].ver)
      BY <2>1, <2>3, <2>4 DEF Flushing
    <3> QED BY <2>4, <3>1 DEF OrderInv, FlushOwned
  <2>9. SoftPeeks'
    BY <2>1, <2>3, <2>4 DEF OrderInv, SoftPeeks, NonClean
  <2> QED
    BY <2>5, <2>6, <2>7, <2>8, <2>9 DEF OrderInv
<1> QED
  BY <1>1, <1>2 DEF GetBegin

\* A Get reads the backing store, and fills the cache if the fence has not moved.
LEMMA GetOrder ==
    ASSUME TypeOK, TypeOK', OrderInv, NEW t \in Threads, GetStep(t)
    PROVE  OrderInv'
<1>1. CASE GetRead(t)
  <2>1. pc[t] = "get_read" /\ UNCHANGED shardVars /\ UNCHANGED versionCounter
    BY <1>1 DEF GetRead, lifeVars
  <2>2. CASE Step(t, "idle", loc[t])
    <3>1. \A u \in Threads : Carries(u)
      BY <2>1, <2>2, PlainMove DEF HoldingPcs, FillPcs, PeekedPcs, FlushPcs
    <3> QED BY <2>1, <3>1, PlainOrder
  <2>3. CASE Step(t, "get_fill", [loc[t] EXCEPT !.val = backing[loc[t].key]])
    <3>1. pc'[t] = "get_fill" /\ loc'[t] = [loc[t] EXCEPT !.val = backing[loc[t].key]]
      BY <2>3, StepEffect
    <3>2. loc'[t].key = loc[t].key /\ loc'[t].fence = loc[t].fence
      BY <3>1 DEF TypeOK, Locals
    <3>3. Carries(t)
      BY <2>1, <3>1, <3>2 DEF Carries, FillPcs, PeekedPcs, FlushPcs
    <3> QED BY <2>1, <2>3, <3>3, OthersCarry, PlainOrder
  <2> QED BY <1>1, <2>2, <2>3 DEF GetRead
<1>2. CASE GetFill(t)
  <2> DEFINE k == loc[t].key
  <2>1. /\ pc[t] = "get_fill" /\ Step(t, "idle", loc[t]) /\ UNCHANGED versionCounter
        /\ \/ InsertOrUpdateLocked(k, loc[t].val, 0, "Clean")
           \/ Touch(k) \/ UNCHANGED shardVars
    BY <1>2 DEF GetFill, lifeVars
  <2>2. \A u \in Threads : Carries(u)
    BY <2>1, PlainMove DEF HoldingPcs, FillPcs, PeekedPcs, FlushPcs
  <2>3. versionCounter \in Nat /\ 0 \in Nat
    BY DEF TypeOK
  <2>4. CASE UNCHANGED shardVars
    BY <2>1, <2>2, <2>4, PlainOrder
  <2>5. CASE Touch(k)
    <3>1. \A j \in Keys : entry'[j] \in {entry[j], NoEntry}
      BY <2>5, SettleRemoves DEF Touch
    <3>2. \A s \in Shards : fence[s] <= fence'[s]
      BY <2>5 DEF Touch, TypeOK
    <3> QED BY <2>1, <2>2, <2>3, <3>1, <3>2, OrderCarried
  <2>6. CASE InsertOrUpdateLocked(k, loc[t].val, 0, "Clean")
    <3>1. k \in Keys /\ loc[t].val \in Stored
      BY HeldTypes
    <3>2. ASSUME NEW u \in Threads, pc'[u] = "put_commit" PROVE loc[u].ver # 0
      BY <2>2, <2>3, <3>2 DEF Carries, OrderInv, VersionsUnique
    <3> HIDE DEF k
    <3> QED BY <2>1, <2>2, <2>3, <2>6, <3>1, <3>2, InsertOrder
  <2> QED BY <2>1, <2>4, <2>5, <2>6
<1> QED
  BY <1>1, <1>2 DEF GetStep

\* An Invalidate notes the version it sees; a soft one goes on only if it is flushed.
LEMMA InvalidatePeekOrder ==
    ASSUME TypeOK, TypeOK', OrderInv, NEW t \in Threads, InvalidatePeek(t)
    PROVE  OrderInv'
<1> DEFINE e == entry[loc[t].key]
<1>0. pc[t] = "inv_peek" /\ UNCHANGED shardVars /\ UNCHANGED versionCounter
  BY DEF InvalidatePeek, lifeVars
<1>1. CASE Step(t, "release", loc[t])
  <2>1. \A u \in Threads : Carries(u)
    BY <1>0, <1>1, PlainMove DEF HoldingPcs, FillPcs, PeekedPcs, FlushPcs
  <2> QED BY <1>0, <2>1, PlainOrder
<1>2. CASE ~(~loc[t].force /\ NonClean(e)) /\ Step(t, "inv_append", [loc[t] EXCEPT !.ver = e.ver])
  <2>1. /\ pc'[t] = "inv_append" /\ loc'[t] = [loc[t] EXCEPT !.ver = e.ver]
        /\ \A u \in Threads \ {t} : pc'[u] = pc[u] /\ loc'[u] = loc[u]
    BY <1>2, StepEffect
  <2>2. loc'[t].key = loc[t].key /\ loc'[t].ver = e.ver /\ loc'[t].force = loc[t].force
    BY <2>1 DEF TypeOK, Locals
  <2>3. /\ pc'[t] \notin FillPcs /\ pc'[t] # "put_commit" /\ pc'[t] \notin FlushPcs
        /\ pc[t] \notin FlushPcs
    BY <1>0, <2>1 DEF FillPcs, FlushPcs
  <2>4. UNCHANGED <<entry, fence>> /\ loc[t].key \in Keys
    BY <1>0, HeldTypes DEF shardVars
  <2>5. FillSnapshots'
    BY <2>1, <2>3, <2>4 DEF OrderInv, FillSnapshots, Cached
  <2>6. VersionsIssued'
    BY <1>0, <2>1, <2>2, <2>3, <2>4 DEF OrderInv, VersionsIssued
  <2>7. VersionsUnique'
    BY <1>0, <2>1, <2>3, <2>4 DEF OrderInv, VersionsUnique
  <2>8. VersionsApart'
    <3> SUFFICES ASSUME NEW w \in Threads, pc'[w] = "put_commit", NEW u \in Threads
                 PROVE  /\ pc'[u] \in FlushPcs => loc'[u].fver # loc'[w].ver
                        /\ pc'[u] \in PeekedPcs => loc'[u].ver # loc'[w].ver
      BY DEF VersionsApart
    <3>1. w # t /\ pc[w] = "put_commit" /\ loc'[w] = loc[w]
      BY <2>1, <2>3
    <3>2. CASE u = t
      BY <2>2, <2>3, <2>4, <3>1, <3>2 DEF OrderInv, VersionsUnique
    <3>3. CASE u # t
      BY <2>1, <3>1, <3>3 DEF OrderInv, VersionsApart
    <3> QED BY <3>2, <3>3
  <2>9. FlushClaims'
    BY <2>1, <2>3, <2>4 DEF OrderInv, FlushClaims, Flushing
  <2>10. FlushOwned'
    <3>1. \A u \in Threads, j \in Keys : Flushing(u, j, entry[j].ver)'
                                         <=> Flushing(u, j, entry[j].ver)
      BY <2>1, <2>3, <2>4 DEF Flushing
    <3> QED BY <2>4, <3>1 DEF OrderInv, FlushOwned
  <2>11. SoftPeeks'
    <3> SUFFICES ASSUME NEW u \in Threads, pc'[u] \in PeekedPcs, ~loc'[u].force,
                        entry'[loc'[u].key].ver = loc'[u].ver
                 PROVE  ~NonClean(entry'[loc'[u].key])
      BY DEF SoftPeeks, NonClean
    <3>1. CASE u = t
      BY <1>2, <2>2, <2>4, <3>1
    <3>2. CASE u # t
      BY <2>1, <2>4, <3>2 DEF OrderInv, SoftPeeks
    <3> QED BY <3>1, <3>2
  <2> QED
    BY <2>5, <2>6, <2>7, <2>8, <2>9, <2>10, <2>11 DEF OrderInv
<1> QED
  BY <1>1, <1>2 DEF InvalidatePeek

\* What SetState does to the entries.
LEMMA SetStateEffect ==
    ASSUME TypeOK, NEW k \in Keys, NEW state, SetState(k, state)
    PROVE  /\ entry'[k].state = state /\ entry'[k].ver = entry[k].ver
           /\ entry'[k].val = entry[k].val
           /\ \A j \in Keys \ {k} : entry'[j] = entry[j]
BY DEF SetState, TypeOK, Entries

\* A flush claims a Dirty entry: no other flush holds that version, or it would not be
\* Dirty.
LEMMA FlushPeekOrder ==
    ASSUME TypeOK, TypeOK', OrderInv, NEW t \in Threads, FlushPeek(t)
    PROVE  OrderInv'
<1> DEFINE k == loc[t].fkey
           e == entry[k]
<1>0. /\ pc[t] = "flush_peek" /\ UNCHANGED fence /\ UNCHANGED versionCounter
      /\ UNCHANGED <<lru, dirtyCount>>
  BY DEF FlushPeek, lifeVars
<1>1. CASE ~Claimable(e, loc[t].fexp)
  <2>1. Step(t, loc[t].fret, [loc[t] EXCEPT !.ok = Cached(k)]) /\ UNCHANGED entry
    BY <1>1 DEF FlushPeek, FlushReturn
  <2>2. loc[t].fret \in {"idle", "release", "relieve_after", "all_next"}
    BY DEF TypeOK, Locals
  <2>3. loc[t].fret \notin HoldingPcs /\ pc[t] \notin FlushPcs
    BY <1>0, <2>2 DEF HoldingPcs, FillPcs, PeekedPcs, FlushPcs
  <2>4. \A u \in Threads : Carries(u)
    BY <2>1, <2>3, PlainMove
  <2> QED BY <1>0, <2>1, <2>4, PlainOrder DEF shardVars
<1>2. CASE Claimable(e, loc[t].fexp)
  <2>0. /\ SetState(k, "FlushInProgress") /\ e.state = "Dirty"
        /\ Step(t, "flush_intent", [loc[t] EXCEPT !.fval = e.val, !.fver = e.ver])
    BY <1>2 DEF FlushPeek, Claimable
  <2>1. /\ pc'[t] = "flush_intent"
        /\ loc'[t] = [loc[t] EXCEPT !.fval = e.val, !.fver = e.ver]
        /\ \A u \in Threads \ {t} : pc'[u] = pc[u] /\ loc'[u] = loc[u]
    BY <2>0, StepEffect
  <2>2. loc'[t].fkey = k /\ loc'[t].fver = e.ver
    BY <2>1 DEF TypeOK, Locals
  <2>3. /\ pc'[t] \notin FillPcs /\ pc'[t] # "put_commit" /\ pc'[t] \notin PeekedPcs
        /\ pc'[t] \in FlushPcs /\ pc[t] \notin FlushPcs
    BY <1>0, <2>1 DEF FillPcs, PeekedPcs, FlushPcs
  <2>k. k \in Keys
    BY HeldTypes
  <2>4. /\ entry'[k].state = "FlushInProgress" /\ entry'[k].ver = e.ver
        /\ \A j \in Keys \ {k} : entry'[j] = entry[j]
    <3> HIDE DEF k
    <3> QED BY <2>0, <2>k, SetStateEffect
  <2>5. \A j \in Keys : /\ entry'[j].ver = entry[j].ver
                        /\ entry'[j].state = "Absent" <=> entry[j].state = "Absent"
                        /\ NonClean(entry'[j]) <=> NonClean(entry[j])
                        /\ entry'[j].state = "Dirty" => entry[j].state = "Dirty"
    BY <2>0, <2>4 DEF NonClean
  <2> HIDE DEF k, e
  <2>6. FillSnapshots'
    BY <1>0, <2>1, <2>3, <2>5, HeldTypes DEF OrderInv, FillSnapshots, Cached
  <2>7. VersionsIssued'
    <3>1. e.ver <= versionCounter
      BY <2>k DEF e, OrderInv, VersionsIssued
    <3> QED BY <1>0, <2>1, <2>2, <2>3, <2>5, <3>1 DEF OrderInv, VersionsIssued
  <2>8. VersionsUnique'
    BY <1>0, <2>1, <2>3, <2>5 DEF OrderInv, VersionsUnique
  <2>9. VersionsApart'
    <3> SUFFICES ASSUME NEW w \in Threads, pc'[w] = "put_commit", NEW u \in Threads
                 PROVE  /\ pc'[u] \in FlushPcs => loc'[u].fver # loc'[w].ver
                        /\ pc'[u] \in PeekedPcs => loc'[u].ver # loc'[w].ver
      BY DEF VersionsApart
    <3>1. w # t /\ pc[w] = "put_commit" /\ loc'[w] = loc[w]
      BY <2>1, <2>3
    <3>2. CASE u = t
      BY <2>2, <2>3, <2>k, <3>1, <3>2 DEF OrderInv, VersionsUnique, e
    <3>3. CASE u # t
      BY <2>1, <3>1, <3>3 DEF OrderInv, VersionsApart
    <3> QED BY <3>2, <3>3
  <2>10. \A u \in Threads : ~Flushing(u, k, e.ver)
    BY <2>0 DEF OrderInv, FlushClaims, Flushing, e
  <2>11. FlushClaims'
    <3> SUFFICES ASSUME NEW u \in Threads, pc'[u] \in FlushPcs
                 PROVE  /\ entry'[loc'[u].fkey].ver = loc'[u].fver =>
                              entry'[loc'[u].fkey].state # "Dirty"
                        /\ \A w \in Threads :
                              pc'[w] \in FlushPcs /\ loc'[w].fkey = loc'[u].fkey
                              /\ loc'[w].fver = loc'[u].fver => w = u
      BY DEF FlushClaims, Flushing
    <3>1. CASE u = t
      BY <2>1, <2>2, <2>4, <2>10, <3>1 DEF Flushing
    <3>2. CASE u # t
      <4>1. /\ pc[u] \in FlushPcs /\ loc'[u] = loc[u] /\ loc[u].fkey \in Keys
        BY <2>1, <3>2, HeldTypes
      <4>2. /\ entry[loc[u].fkey].ver = loc[u].fver => entry[loc[u].fkey].state # "Dirty"
            /\ \A w \in Threads : Flushing(w, loc[u].fkey, loc[u].fver) => w = u
        BY <4>1 DEF OrderInv, FlushClaims
      <4>3. ~(loc[u].fkey = k /\ loc[u].fver = e.ver)
        BY <2>10, <4>1 DEF Flushing
      <4> QED BY <2>1, <2>2, <2>5, <4>1, <4>2, <4>3 DEF Flushing
    <3> QED BY <3>1, <3>2
  <2>12. FlushOwned'
    <3> SUFFICES ASSUME NEW j \in Keys, entry'[j].state = "FlushInProgress"
                 PROVE  /\ \E u \in Threads : Flushing(u, j, entry[j].ver)'
                        /\ \A u, w \in Threads : Flushing(u, j, entry[j].ver)'
                                                 /\ Flushing(w, j, entry[j].ver)' => u = w
      BY DEF FlushOwned
    <3>1. CASE j = k
      <4>1. Flushing(t, j, entry[j].ver)'
        BY <2>2, <2>3, <2>4, <3>1 DEF Flushing
      <4>2. \A u \in Threads \ {t} : ~Flushing(u, j, entry[j].ver)'
        BY <2>1, <2>4, <2>10, <3>1 DEF Flushing
      <4> QED BY <4>1, <4>2
    <3>2. CASE j # k
      <4>1. entry'[j] = entry[j] /\ entry[j].state = "FlushInProgress"
        BY <2>4, <3>2
      <4>2. \A u \in Threads : Flushing(u, j, entry[j].ver)' <=> Flushing(u, j, entry[j].ver)
        BY <2>1, <2>2, <2>3, <3>2, <4>1 DEF Flushing
      <4> QED BY <4>1, <4>2 DEF OrderInv, FlushOwned
    <3> QED BY <3>1, <3>2
  <2>13. SoftPeeks'
    BY <2>1, <2>3, <2>5, HeldTypes DEF OrderInv, SoftPeeks
  <2> QED
    BY <2>6, <2>7, <2>8, <2>9, <2>11, <2>12, <2>13 DEF OrderInv
<1> QED
  BY <1>1, <1>2

\* A flush ends: the version it claimed, if it is still there, becomes Clean or Dirty.
LEMMA FlushEndOrder ==
    ASSUME TypeOK, TypeOK', OrderInv, NEW t \in Threads,
           FlushCommit(t) \/ RevertFlushInProgressLocked(t)
    PROVE  OrderInv'
<1> DEFINE k == loc[t].fkey
           e == entry[k]
<1>0. /\ pc[t] \in {"flush_commit", "flush_revert"} /\ pc[t] \in FlushPcs
      /\ UNCHANGED <<fence, versionCounter>>
  BY DEF FlushCommit, RevertFlushInProgressLocked, lifeVars, FlushPcs
<1>k. k \in Keys
  BY HeldTypes
<1>1. \/ StillMine(t) /\ (SetState(k, "Clean") \/ SetState(k, "Dirty"))
      \/ ~StillMine(t) /\ UNCHANGED entry
  BY DEF FlushCommit, RevertFlushInProgressLocked
<1>2. PICK r : Step(t, loc[t].fret, r)
  BY DEF FlushCommit, RevertFlushInProgressLocked, FlushReturn
<1>3. loc[t].fret \in {"idle", "release", "relieve_after", "all_next"}
  BY DEF TypeOK, Locals
<1>4. /\ pc'[t] = loc[t].fret
      /\ \A u \in Threads \ {t} : pc'[u] = pc[u] /\ loc'[u] = loc[u]
  BY <1>2, StepEffect
<1>5. /\ pc'[t] \notin FillPcs /\ pc'[t] # "put_commit" /\ pc'[t] \notin PeekedPcs
      /\ pc'[t] \notin FlushPcs
  BY <1>3, <1>4 DEF FillPcs, PeekedPcs, FlushPcs
<1>6. /\ \A j \in Keys \ {k} : entry'[j] = entry[j]
      /\ entry'[k].ver = e.ver
      /\ ~StillMine(t) => entry'[k] = e
      /\ StillMine(t) => entry'[k].state \in {"Clean", "Dirty"}
  <2> HIDE DEF k
  <2> QED BY <1>1, <1>k, SetStateEffect
<1>7. StillMine(t) <=> e.state = "FlushInProgress" /\ e.ver = loc[t].fver
  BY DEF StillMine
<1>8. \A j \in Keys : /\ entry'[j].ver = entry[j].ver
                      /\ entry'[j].state = "Absent" <=> entry[j].state = "Absent"
                      /\ NonClean(entry'[j]) => NonClean(entry[j])
                      /\ entry'[j].state = "FlushInProgress" => entry'[j] = entry[j]
  BY <1>6, <1>7 DEF NonClean
<1>9. FillSnapshots'
  BY <1>0, <1>4, <1>5, <1>8, HeldTypes DEF OrderInv, FillSnapshots, Cached
<1>10. VersionsIssued'
  BY <1>0, <1>4, <1>5, <1>8 DEF OrderInv, VersionsIssued
<1>11. VersionsUnique'
  BY <1>0, <1>4, <1>5, <1>8 DEF OrderInv, VersionsUnique
<1>12. VersionsApart'
  BY <1>4, <1>5 DEF OrderInv, VersionsApart
<1>13. FlushClaims'
  <2> SUFFICES ASSUME NEW u \in Threads, pc'[u] \in FlushPcs
               PROVE  /\ entry'[loc'[u].fkey].ver = loc'[u].fver =>
                            entry'[loc'[u].fkey].state # "Dirty"
                      /\ \A w \in Threads :
                            pc'[w] \in FlushPcs /\ loc'[w].fkey = loc'[u].fkey
                            /\ loc'[w].fver = loc'[u].fver => w = u
    BY DEF FlushClaims, Flushing
  <2>1. u # t /\ pc[u] \in FlushPcs /\ loc'[u] = loc[u] /\ loc[u].fkey \in Keys
    BY <1>4, <1>5, HeldTypes
  <2>2. /\ entry[loc[u].fkey].ver = loc[u].fver => entry[loc[u].fkey].state # "Dirty"
        /\ \A w \in Threads : Flushing(w, loc[u].fkey, loc[u].fver) => w = u
    BY <2>1 DEF OrderInv, FlushClaims
  <2>3. ~(loc[u].fkey = k /\ loc[u].fver = loc[t].fver)
    BY <1>0, <2>1, <2>2 DEF Flushing
  <2>4. entry'[loc[u].fkey].ver = loc[u].fver => entry'[loc[u].fkey].state # "Dirty"
    BY <1>6, <1>7, <2>1, <2>2, <2>3
  <2> QED
    BY <1>4, <1>5, <2>1, <2>2, <2>4 DEF Flushing
<1>14. FlushOwned'
  <2> SUFFICES ASSUME NEW j \in Keys, entry'[j].state = "FlushInProgress"
               PROVE  /\ \E u \in Threads : Flushing(u, j, entry[j].ver)'
                      /\ \A u, w \in Threads : Flushing(u, j, entry[j].ver)'
                                               /\ Flushing(w, j, entry[j].ver)' => u = w
    BY DEF FlushOwned
  <2>1. entry'[j] = entry[j]
    BY <1>8
  <2>2. ~Flushing(t, j, entry[j].ver)
    BY <1>6, <1>7, <2>1 DEF Flushing
  <2>3. \A u \in Threads : Flushing(u, j, entry[j].ver)' <=> Flushing(u, j, entry[j].ver)
    BY <1>4, <1>5, <2>1, <2>2 DEF Flushing
  <2> QED
    BY <2>1, <2>3 DEF OrderInv, FlushOwned
<1>15. SoftPeeks'
  BY <1>4, <1>5, <1>8, HeldTypes DEF OrderInv, SoftPeeks
<1> QED
  BY <1>9, <1>10, <1>11, <1>12, <1>13, <1>14, <1>15 DEF OrderInv

\* Every step keeps OrderInv.
LEMMA OrderStep ==
    ASSUME TypeOK, TypeOK', StartUp, StartUp', OrderInv, [Next]_vars
    PROVE  OrderInv'
<1>1. CASE UNCHANGED <<threadVars, shardVars, versionCounter>>
  <2>1. \A u \in Threads : Carries(u)
    BY <1>1 DEF Carries, threadVars
  <2> QED BY <1>1, <2>1, PlainOrder
<1>2. CASE ReplayRecord \/ ReplayFails \/ MarkRecoveryComplete \/ UNCHANGED vars
  BY <1>1, <1>2 DEF ReplayRecord, ReplayFails, Replaying, MarkRecoveryComplete, vars, lifeVars
<1>3. CASE ReplayEnd
  <2> DEFINE restored == {k \in Keys : replay.pending[k].state # "Absent"}
             ent == [k \in Keys |-> IF k \in restored
                                    THEN [replay.pending[k] EXCEPT !.state = "Dirty"]
                                    ELSE NoEntry]
  <2>1. PICK order : Settle(ent, order, {})
    BY <1>3 DEF ReplayEnd
  <2>2. \A k \in Keys : ent[k].ver <= versionCounter'
    BY <1>3 DEF ReplayEnd
  <2>3. \A k \in Keys : ent[k].state \in {"Dirty", "Absent"}
    BY DEF TypeOK, Entries, NoEntry
  <2>4. \A t \in Threads : pc'[t] = "idle"
    BY <1>3 DEF ReplayEnd, StartUp, IdleUntilReady, Unready, threadVars
  <2> HIDE DEF ent
  <2>5. \A k \in Keys : entry'[k] = ent[k]
    BY <2>1 DEF Settle
  <2> QED
    BY <2>2, <2>3, <2>4, <2>5 DEF OrderInv, FillSnapshots, VersionsIssued,
       VersionsUnique, VersionsApart, FlushClaims, FlushOwned, SoftPeeks, FillPcs, PeekedPcs,
       FlushPcs
<1>4. CASE Crash
  <2>1. /\ \A t \in Threads : pc'[t] = "idle"
        /\ \A k \in Keys : entry'[k] = NoEntry
        /\ versionCounter' = 0
    BY <1>4 DEF Crash
  <2>2. NoEntry.ver <= 0 /\ NoEntry.state # "FlushInProgress"
    BY DEF NoEntry
  <2> QED
    BY <2>1, <2>2 DEF OrderInv, FillSnapshots, VersionsIssued,
       VersionsUnique, VersionsApart, FlushClaims, FlushOwned, SoftPeeks, FillPcs, PeekedPcs,
       FlushPcs
<1>5. ASSUME NEW t \in Threads, Begin(t) PROVE OrderInv'
  BY <1>5, BeginOrder, GetBeginOrder
<1>6. ASSUME NEW t \in Threads, Continue(t) PROVE OrderInv'
  <2>1. CASE PutStep(t)
    BY <2>1, AdmitReliefOrder, PutAppendOrder, PutCommitOrder DEF PutStep
  <2>2. CASE GetStep(t)
    BY <2>2, GetOrder
  <2>3. CASE InvalidateStep(t)
    BY <2>3, AdmitReliefOrder, InvalidatePeekOrder, InvalidateOrder DEF InvalidateStep
  <2>4. CASE FlushStep(t)
    BY <2>4, FlushPeekOrder, FlushIOOrder, FlushEndOrder DEF FlushStep
  <2>5. CASE FlushAllStep(t) \/ ShutdownStep(t)
    BY <2>5, LoopOrder
  <2> QED BY <1>6, <2>1, <2>2, <2>3, <2>4, <2>5 DEF Continue
<1> QED
  BY <1>2, <1>3, <1>4, <1>5, <1>6 DEF Next, Recover, AtRest

\* OrderInv is an invariant: whatever order the threads' steps come in, what a thread read
\* under a lock and uses after it still relates to the cache as the code takes it to.
THEOREM OrderInvHolds == Spec => []OrderInv
<1>1. Init => OrderInv
  <2> SUFFICES ASSUME Init PROVE OrderInv
    OBVIOUS
  <2>1. /\ \A t \in Threads : pc[t] = "idle"
        /\ \A k \in Keys : entry[k] = NoEntry
        /\ versionCounter = 0
    BY DEF Init
  <2>2. NoEntry.ver <= 0 /\ NoEntry.state # "FlushInProgress"
    BY DEF NoEntry
  <2> QED
    BY <2>1, <2>2 DEF OrderInv, FillSnapshots, VersionsIssued,
       VersionsUnique, VersionsApart, FlushClaims, FlushOwned, SoftPeeks, FillPcs, PeekedPcs,
       FlushPcs
<1>2. TypeOK /\ TypeOK' /\ StartUp /\ StartUp' /\ OrderInv /\ [Next]_vars => OrderInv'
  BY OrderStep
<1> QED
  BY <1>1, <1>2, TypeCorrect, StartUpHolds, PTL DEF Spec

\* "isUpdate is necessarily false here": a Get whose fence has not moved finds its key
\* absent, for any number of writers, invalidations and evictions in between.
THEOREM FillNeverReplaces == Spec => []FillFindsKeyAbsent
<1>1. OrderInv => FillFindsKeyAbsent
  BY DEF OrderInv, FillSnapshots, FillFindsKeyAbsent, FillPcs
<1> QED
  BY <1>1, OrderInvHolds, PTL

\* No two Puts ever hold the same version, and none holds one that is in the cache.
THEOREM VersionsAreUnique == Spec => []VersionsUnique
<1>1. OrderInv => VersionsUnique
  BY DEF OrderInv
<1> QED
  BY <1>1, OrderInvHolds, PTL

\* A FlushInProgress entry always has its one flush: the early return of FlushKey for an
\* entry that "another flush owns" never leaves an entry that nobody will finish.
THEOREM FlushIsOwned == Spec => []FlushOwned
<1>1. OrderInv => FlushOwned
  BY DEF OrderInv
<1> QED
  BY <1>1, OrderInvHolds, PTL

-----------------------------------------------------------------------------
(* What happens to data that is not yet in the backing store.              *)

\* The step of DirtyDataKept, for one key.
KeptOrDropped(k) ==
    \/ entry'[k].state # "Absent" /\ entry'[k].ver >= entry[k].ver
    \/ \E t \in Threads : /\ pc[t] = "inv_commit" /\ loc[t].force
                          /\ loc[t].key = k /\ loc[t].ver = entry[k].ver
    \/ crashes' # crashes

\* An entry that the step does not change is kept.
LEMMA SameIsKept ==
    ASSUME TypeOK, NEW k \in Keys, NonClean(entry[k]), entry'[k] = entry[k]
    PROVE  KeptOrDropped(k)
BY DEF TypeOK, Entries, NonClean, KeptOrDropped

\* An insertion keeps unflushed data or puts a newer version in its place; one that is
\* Clean is a fill, and its key is absent.
LEMMA InsertKeeps ==
    ASSUME TypeOK, NEW k \in Keys, NonClean(entry[k]), NEW j \in Keys, NEW v \in Stored,
           NEW n \in Nat, NEW state \in {"Clean", "Dirty"},
           InsertOrUpdateLocked(j, v, n, state), state = "Clean" => ~Cached(j)
    PROVE  KeptOrDropped(k)
<1>1. CASE UNCHANGED shardVars
  BY <1>1, SameIsKept DEF shardVars
<1>2. CASE ~UNCHANGED shardVars
  <2>1. InsertResult(j, v, n, state)
    BY <1>2, InsertEffect
  <2>2. CASE j # k
    BY <2>1, <2>2, SameIsKept DEF InsertResult
  <2>3. CASE j = k
    <3>1. Cached(k) /\ state = "Dirty"
      BY <2>3 DEF Cached, NonClean
    <3>2. ~Superseded(k, n) /\ entry'[k].state = "Dirty" /\ entry'[k].ver = n
      BY <2>1, <2>3, <3>1 DEF InsertResult
    <3>3. entry[k].ver \in Nat
      BY DEF TypeOK, Entries
    <3>4. n >= entry[k].ver
      BY <3>1, <3>2, <3>3 DEF Superseded
    <3> QED BY <3>2, <3>4 DEF KeptOrDropped
  <2> QED BY <2>2, <2>3
<1> QED
  BY <1>1, <1>2

\* Every step keeps the unflushed data of k, or may drop it.
LEMMA KeepStep ==
    ASSUME TypeOK, StartUp, OrderInv, [Next]_vars, NEW k \in Keys, NonClean(entry[k])
    PROVE  KeptOrDropped(k)
<1>0. ASSUME NEW t \in Threads
      PROVE  /\ loc[t].key \in Keys /\ loc[t].fkey \in Keys
             /\ loc[t].val \in Stored /\ loc[t].ver \in Nat
  BY HeldTypes
<1>1. CASE UNCHANGED shardVars
  BY <1>1, SameIsKept DEF shardVars
<1>2. CASE ReplayEnd
  <2>1. entry[k] = NoEntry
    BY <1>2 DEF ReplayEnd, StartUp, EmptyUntilReplayed
  <2> QED BY <2>1 DEF NonClean, NoEntry
<1>3. CASE Crash
  BY <1>3 DEF Crash, KeptOrDropped, TypeOK
<1>4. ASSUME NEW pos, NEW out, Settle(entry, pos, out), \A j \in out : entry[j].state = "Clean"
      PROVE  KeptOrDropped(k)
  <2>1. entry'[k] = entry[k]
    BY <1>4 DEF Settle, NonClean
  <2> QED BY <2>1, SameIsKept
<1>5. ASSUME NEW j, Touch(j) PROVE KeptOrDropped(k)
  BY <1>4, <1>5 DEF Touch
<1>6. ASSUME NEW s, EvictCleanEntriesLocked(s) PROVE KeptOrDropped(k)
  BY <1>4, <1>6, VictimsClean DEF EvictCleanEntriesLocked
<1>7. ASSUME NEW t \in Threads, PutCommit(t) PROVE KeptOrDropped(k)
  BY <1>0, <1>7, InsertKeeps DEF PutCommit
<1>8. ASSUME NEW t \in Threads, RelievePeek(t) \/ RelieveAfter(t) PROVE KeptOrDropped(k)
  BY <1>1, <1>6, <1>8 DEF RelievePeek, RelieveAfter
<1>9. ASSUME NEW t \in Threads, GetBegin(t) PROVE KeptOrDropped(k)
  BY <1>1, <1>5, <1>9 DEF GetBegin
<1>10. ASSUME NEW t \in Threads, GetFill(t) PROVE KeptOrDropped(k)
  <2>1. CASE /\ fence[ShardOf[loc[t].key]] = loc[t].fence
             /\ InsertOrUpdateLocked(loc[t].key, loc[t].val, 0, "Clean")
    <3>1. ~Cached(loc[t].key)
      BY <1>10, <2>1 DEF GetFill, OrderInv, FillSnapshots, FillPcs
    <3> QED BY <1>0, <2>1, <3>1, InsertKeeps
  <2> QED
    BY <1>1, <1>5, <1>10, <2>1 DEF GetFill
<1>11. ASSUME NEW t \in Threads, InvalidateCommit(t) PROVE KeptOrDropped(k)
  <2>1. pc[t] = "inv_commit" /\ pc[t] \in PeekedPcs
    BY <1>11 DEF InvalidateCommit, PeekedPcs
  <2>2. CASE loc[t].key = k /\ entry[k].ver = loc[t].ver
    <3>1. loc[t].force
      BY <2>1, <2>2 DEF OrderInv, SoftPeeks
    <3> QED BY <2>1, <2>2, <3>1 DEF KeptOrDropped
  <2>3. CASE ~(loc[t].key = k /\ entry[k].ver = loc[t].ver)
    <3>1. entry'[k] = entry[k]
      BY <1>11, <2>3 DEF InvalidateCommit, Settle
    <3> QED BY <3>1, SameIsKept
  <2> QED BY <2>2, <2>3
<1>12. ASSUME NEW t \in Threads,
              FlushPeek(t) \/ FlushCommit(t) \/ RevertFlushInProgressLocked(t)
       PROVE  KeptOrDropped(k)
  <2>1. \/ UNCHANGED entry
        \/ \E state \in {"Clean", "Dirty", "FlushInProgress"} : SetState(loc[t].fkey, state)
    BY <1>12 DEF FlushPeek, FlushCommit, RevertFlushInProgressLocked
  <2>2. ASSUME NEW state \in {"Clean", "Dirty", "FlushInProgress"},
               SetState(loc[t].fkey, state)
        PROVE  KeptOrDropped(k)
    <3>1. CASE loc[t].fkey = k
      <4>1. entry'[k].state = state /\ entry'[k].ver = entry[k].ver /\ entry[k].ver \in Nat
        BY <2>2, <3>1, SetStateEffect DEF TypeOK, Entries
      <4> QED BY <4>1 DEF KeptOrDropped
    <3>2. CASE loc[t].fkey # k
      BY <1>0, <2>2, <3>2, SetStateEffect, SameIsKept
    <3> QED BY <3>1, <3>2
  <2> QED BY <2>1, <2>2, SameIsKept
<1> QED
  BY <1>1, <1>2, <1>3, <1>7, <1>8, <1>9, <1>10, <1>11, <1>12, ShardFrame DEF ShardStep

\* Unflushed data leaves the cache for a newer version, by a forced invalidation of exactly
\* that version or with the process, and in no other way: no eviction, fill or soft
\* Invalidate, however it interleaves with Puts and flushes, destroys it.
THEOREM UnflushedIsKept == Spec => DirtyDataKept
<1>1. TypeOK /\ StartUp /\ OrderInv /\ [Next]_vars
      => [\A k \in Keys : NonClean(entry[k]) =>
             \/ entry'[k].state # "Absent" /\ entry'[k].ver >= entry[k].ver
             \/ \E t \in Threads : /\ pc[t] = "inv_commit" /\ loc[t].force
                                   /\ loc[t].key = k /\ loc[t].ver = entry[k].ver
             \/ crashes' # crashes]_vars
  BY KeepStep DEF KeptOrDropped
<1> QED
  BY <1>1, TypeCorrect, StartUpHolds, OrderInvHolds, PTL DEF Spec, DirtyDataKept
=============================================================================
