--------------------------- MODULE ServiceSession ---------------------------
(***************************************************************************)
(* The life of the service: the session marker (SessionMarker.cpp), the    *)
(* recovery manager (RecoveryManager.cpp), and the start, the stop and the *)
(* IPC thread of the service (main_service.cpp, Win32ServiceHost.cpp),     *)
(* across power cuts and restarts.                                         *)
(*                                                                         *)
(* The engine is reduced to what a session can lose: the keys whose newest *)
(* acknowledged value is not in the backing store, those of them the       *)
(* engine holds, and those whose record a Replay of the journal would hand *)
(* over.  Its own steps are in CacheEngine, those of the journal in        *)
(* WriteAheadJournal.                                                      *)
(*                                                                         *)
(* A definition named Op_Variant is Op with a mistake in it; nothing uses  *)
(* it but the check that the properties notice the mistake.                *)
(***************************************************************************)
EXTENDS Integers, FiniteSets

CONSTANTS
    Keys,
    MaxFaults,     \* how many operations fail (bound)
    MaxCrashes,    \* how often the power fails (bound)
    MaxStarts      \* how often the service is started (bound)

ASSUME SessionAssumption ==
    /\ MaxFaults \in Nat /\ MaxCrashes \in Nat /\ MaxStarts \in Nat

VARIABLES
    marker,      \* the marker file, as the process sees it
    diskMarker,  \* the marker file as FlushDurable last left it
    lastKnownGeneration,
    main,        \* step of OnServiceStart / OnServiceStop, or "running" or "down"
    state,       \* RecoveryState
    engine,      \* the engine's lifecycle; "none" if there is no process
    unflushed,   \* keys the engine holds as Dirty
    owed,        \* history: keys whose newest acknowledged value the store does not have
    readable,    \* those of them whose record in the journal Replay would hand over
    torn,        \* a frame of the journal is one that Replay does not accept
    hidden,      \* history: owed keys whose record was appended behind such a frame
    leftBehind,  \* history: owed keys that a Shutdown could not flush
    unread,      \* history: owed keys whose record a Replay did not read for an I/O error
    ipc,         \* the IPC thread: "none", "accept", "receive", "handle", "close"
    ipcStop,     \* g_ipcShouldStop, and the server's stop event
    faults, crashes, starts

markerVars == <<marker, diskMarker, lastKnownGeneration>>
journalVars == <<readable, torn>>
causes == <<hidden, leftBehind, unread>>
keyVars == <<unflushed, owed, journalVars, causes>>
engineVars == <<engine, keyVars>>
ipcVars == <<ipc, ipcStop>>
bounds == <<faults, crashes, starts>>
vars == <<markerVars, main, state, engineVars, ipcVars, bounds>>

\* A marker file: empty; cut off before 29 bytes; long enough but with a bad checksum;
\* or a valid record with closedCleanly 0 or 1.
Marker(kind, gen) == [kind |-> kind, gen |-> gen]
Intact(m) == m.kind \in {"open", "closed"}

Init ==
    /\ \/ marker = Marker("empty", 0) /\ readable = {}
       \/ marker = Marker("closed", 1) /\ readable = {}
       \/ marker = Marker("open", 1) /\ readable \in SUBSET Keys  \* an earlier power cut
    /\ owed = readable /\ torn = FALSE /\ hidden = {} /\ leftBehind = {} /\ unread = {}
    /\ diskMarker = marker /\ lastKnownGeneration = 0
    /\ main = "down" /\ state = "Unknown"
    /\ engine = "none" /\ unflushed = {}
    /\ ipc = "none" /\ ipcStop = FALSE
    /\ faults = 0 /\ crashes = 0 /\ starts = 0

Fault == faults < MaxFaults /\ faults' = faults + 1 /\ UNCHANGED <<crashes, starts>>

-----------------------------------------------------------------------------
(* The marker file.                                                        *)

\* ReadLastState, when no read fails: only a valid record sets lastKnownGeneration_.
ClosedCleanly_IgnoresChecksum(m) == m.kind \in {"empty", "corrupt", "closed"}
ClosedCleanly(m) == m.kind \in {"empty", "closed"}
GenerationRead_Forgotten(m) == lastKnownGeneration
GenerationRead(m) == IF Intact(m) THEN m.gen ELSE lastKnownGeneration

\* A record that is written over m and cut short.
Torn(m) == IF m.kind \in {"empty", "short"} THEN Marker("short", 0) ELSE Marker("corrupt", 0)

\* WriteRecord, first half: seek and write.
WriteRecord(kind, gen, ok, failed) ==
    \/ /\ marker' = Marker(kind, gen)
       /\ main' = ok
       /\ UNCHANGED bounds
    \/ /\ Fault
       /\ marker' \in {marker, Torn(marker)}
       /\ main' = failed

\* Second half: FlushDurable.
FlushDurable_Skipped(ok, failed) ==
    /\ UNCHANGED <<marker, diskMarker>>
    /\ main' = ok /\ UNCHANGED bounds
FlushDurable(ok, failed) ==
    /\ UNCHANGED marker
    /\ \/ diskMarker' = marker /\ main' = ok /\ UNCHANGED bounds
       \/ Fault /\ main' = failed /\ UNCHANGED diskMarker

\* What may be in the marker file after a power cut.
Survivors ==
    {diskMarker, marker} \cup (IF marker # diskMarker THEN {Torn(diskMarker)} ELSE {})

-----------------------------------------------------------------------------
(* OnServiceStart.                                                         *)

\* Opening the files and creating the components, one of which may fail.
Start ==
    /\ main = "down" /\ starts < MaxStarts /\ starts' = starts + 1
    /\ \/ engine' = "NotReady" /\ main' = "read" /\ UNCHANGED faults
       \/ /\ faults < MaxFaults /\ faults' = faults + 1
          /\ main' = "refused" /\ UNCHANGED engine
    /\ state' = "Unknown" /\ lastKnownGeneration' = 0
    /\ UNCHANGED <<marker, diskMarker, keyVars, ipcVars, crashes>>

\* InitializeAndRecover reads the marker.
ReadLastState ==
    /\ main = "read"
    /\ \/ /\ lastKnownGeneration' = GenerationRead(marker)
          /\ state' = IF ClosedCleanly(marker) THEN "CleanShutdown" ELSE "RecoveryInProgress"
          /\ main' = IF ClosedCleanly(marker) THEN "session_write" ELSE "replay"
          /\ UNCHANGED bounds
       \/ /\ Fault
          /\ state' = "RecoveryFailed" /\ main' = "refused"
          /\ UNCHANGED lastKnownGeneration
    /\ UNCHANGED <<marker, diskMarker, engineVars, ipcVars>>

\* onReplayNeeded: the engine's ReplayFromJournal.  Replay stops without an error at the
\* first frame that it does not accept, and takes a read error for the end of the journal.
ReplayFromJournal ==
    /\ main = "replay"
    /\ \/ /\ \/ unflushed' = readable /\ UNCHANGED bounds
             \/ unflushed' \in SUBSET readable /\ Fault
          /\ unread' = unread \cup (readable \ unflushed')
          /\ state' = "RecoveryComplete" /\ main' = "session_write"
          /\ UNCHANGED engine
       \/ /\ Fault  \* a record is not decoded or not applied
          /\ engine' = "RecoveryFailed"
          /\ state' = "RecoveryFailed" /\ main' = "refused"
          /\ UNCHANGED <<unflushed, unread>>
    /\ UNCHANGED <<markerVars, owed, journalVars, hidden, leftBehind, ipcVars>>

\* OnSessionStart, and the rest of InitializeAndRecover.
SessionStartWrite ==
    /\ main = "session_write"
    /\ lastKnownGeneration' = lastKnownGeneration + 1
    /\ WriteRecord("open", lastKnownGeneration + 1, "session_flush", "refused")
    /\ state' = IF main' = "refused" THEN "RecoveryFailed" ELSE state
    /\ UNCHANGED <<diskMarker, engineVars, ipcVars>>

\* From here on the next start replays, so what has been replayed is no longer in doubt.
SessionStartFlush ==
    /\ main = "session_flush"
    /\ FlushDurable("mark_ready", "refused")
    /\ IF main' = "refused"
       THEN state' = "RecoveryFailed" /\ UNCHANGED <<leftBehind, unread>>
       ELSE /\ state' = "RecoveryComplete"
            /\ leftBehind' = leftBehind \ unflushed /\ unread' = unread \ unflushed
    /\ UNCHANGED <<lastKnownGeneration, engine, unflushed, owed, journalVars, hidden, ipcVars>>

MarkRecoveryComplete ==
    /\ main = "mark_ready"
    /\ engine' = "Ready" /\ main' = "create_ipc"
    /\ UNCHANGED <<markerVars, state, keyVars, ipcVars, bounds>>

\* Without its pipe the service runs on without remote management.
CreateIpcServer ==
    /\ main = "create_ipc" /\ main' = "running"
    /\ \/ ipc' = "accept" /\ ipcStop' = FALSE /\ UNCHANGED bounds
       \/ Fault /\ UNCHANGED ipcVars
    /\ UNCHANGED <<markerVars, state, engineVars>>

\* ServiceMain reports SERVICE_STOPPED when onStart fails, and the process ends.
Refused ==
    /\ main = "refused" /\ main' = "down"
    /\ engine' = "none" /\ unflushed' = {}
    /\ UNCHANGED <<markerVars, state, owed, journalVars, causes, ipcVars, bounds>>

-----------------------------------------------------------------------------
(* The engine while the service runs: Put by its callers in the process,   *)
(* and flushes, among them OnServicePreShutdown's FlushAll.                *)

\* The record of k is appended: behind a frame that is not accepted, or as such a frame if
\* the payload is too long, or where Replay will find it.
Put(k) ==
    /\ engine = "Ready"
    /\ unflushed' = unflushed \cup {k} /\ owed' = owed \cup {k}
    /\ torn' \in {torn, TRUE}
    /\ readable' = IF torn' THEN readable \ {k} ELSE readable \cup {k}
    /\ hidden' = IF torn' THEN hidden \cup {k} ELSE hidden \ {k}
    /\ leftBehind' = leftBehind \ {k} /\ unread' = unread \ {k}
    /\ UNCHANGED <<markerVars, main, state, engine, ipcVars, bounds>>

\* An Append fails, and may leave a part of its frame.
PutFails ==
    /\ engine = "Ready" /\ Fault
    /\ torn' \in {torn, TRUE}
    /\ UNCHANGED <<markerVars, main, state, engine, unflushed, owed, readable, causes, ipcVars>>

\* The keys of done are no longer owed.
Settle(done) ==
    /\ owed' = owed \ done
    /\ hidden' = hidden \ done /\ leftBehind' = leftBehind \ done /\ unread' = unread \ done

\* FlushAll flushes every key and truncates the journal, with all that is in it; or fails
\* for the keys of left, or with the Truncate, and its Appends may leave a part of a frame.
FlushAll(left) ==
    /\ \/ left = {} /\ readable' = {} /\ torn' = FALSE /\ UNCHANGED bounds
       \/ Fault /\ torn' \in {torn, TRUE} /\ readable' = readable \ (unflushed \ left)
    /\ unflushed' = left

OnServicePreShutdown ==
    /\ main = "running"
    /\ \E left \in SUBSET unflushed : FlushAll(left) /\ Settle(unflushed \ left)
    /\ UNCHANGED <<markerVars, main, state, engine, ipcVars>>

-----------------------------------------------------------------------------
(* IpcServerThreadBody.                                                    *)

\* A client connects: AcceptOnce returns, and the stop flag is read once more.
IpcAccept ==
    /\ ipc = "accept" /\ ~ipcStop
    /\ ipc' = "receive"
    /\ UNCHANGED <<markerVars, main, state, engineVars, ipcStop, bounds>>

\* RequestShutdown ends a pending AcceptOnce; the thread returns.
IpcExit ==
    /\ ipc = "accept" /\ ipcStop
    /\ ipc' = "none"
    /\ UNCHANGED <<markerVars, main, state, engineVars, ipcStop, bounds>>

\* ReceiveFrame: the client sends its request, or goes away.
ClientSends ==
    /\ ipc = "receive" /\ ipc' \in {"handle", "accept"}
    /\ UNCHANGED <<markerVars, main, state, engineVars, ipcStop, bounds>>

\* ForceInvalidate(k) destroys the value of k by design; if the backing store then
\* refuses the removal, the entry stays but the journal already holds the Invalidate.
\* If the Append fails, nothing else happens.
ForceInvalidate(k) ==
    \/ /\ Settle({k}) /\ readable' = readable \ {k} /\ UNCHANGED torn
       /\ \/ unflushed' = unflushed \ {k} /\ UNCHANGED bounds
          \/ unflushed' = unflushed /\ Fault
    \/ Fault /\ torn' \in {torn, TRUE} /\ UNCHANGED <<unflushed, owed, readable, causes>>

\* HandleOneIpcRequest: a request that comes to nothing; a status or statistics query,
\* FlushAll, or ForceInvalidate, and the reply to it.
IpcHandle ==
    /\ ipc = "handle"
    /\ \/ ipc' = "accept" /\ UNCHANGED <<keyVars, bounds>>
       \/ /\ ipc' = "close"
          /\ \/ UNCHANGED <<keyVars, bounds>>
             \/ \E left \in SUBSET unflushed : FlushAll(left) /\ Settle(unflushed \ left)
             \/ \E k \in Keys : ForceInvalidate(k)
    /\ UNCHANGED <<markerVars, main, state, engine, ipcStop>>

\* The transport's Close: FlushFileBuffers returns when the client has read the reply, or
\* has gone away.
ClientReads ==
    /\ ipc = "close" /\ ipc' = "accept"
    /\ UNCHANGED <<markerVars, main, state, engineVars, ipcStop, bounds>>

-----------------------------------------------------------------------------
(* OnServiceStop.                                                          *)

OnServiceStop_NoWakeUp ==
    /\ main = "running"
    /\ main' = "join"
    /\ UNCHANGED <<markerVars, state, engineVars, ipcVars, bounds>>
OnServiceStop ==
    /\ main = "running"
    /\ ipcStop' = TRUE /\ main' = "join"
    /\ UNCHANGED <<markerVars, state, engineVars, ipc, bounds>>

JoinIpcThread_Detached ==
    /\ main = "join"
    /\ main' = "engine_stop"
    /\ UNCHANGED <<markerVars, state, engineVars, ipcVars, bounds>>
JoinIpcThread ==
    /\ main = "join" /\ ipc = "none"
    /\ main' = "engine_stop"
    /\ UNCHANGED <<markerVars, state, engineVars, ipcVars, bounds>>

\* Shutdown flushes what it can; a failure is logged, and the stop goes on.
EngineShutdown ==
    /\ main = "engine_stop"
    /\ \E left \in SUBSET unflushed :
          LET done == unflushed \ left
          IN  /\ FlushAll(left)
              /\ owed' = owed \ done /\ hidden' = hidden \ done /\ unread' = unread \ done
              /\ leftBehind' = (leftBehind \ done) \cup (left \cap owed)
    /\ engine' = "Stopped" /\ main' = "clean_write"
    /\ UNCHANGED <<markerVars, state, ipcVars>>

\* MarkCleanShutdown; the process ends whether it succeeds or not.
CleanShutdownWrite ==
    /\ main = "clean_write"
    /\ WriteRecord("closed", lastKnownGeneration, "clean_flush", "stopped")
    /\ UNCHANGED <<diskMarker, lastKnownGeneration, state, engineVars, ipcVars>>

CleanShutdownFlush ==
    /\ main = "clean_flush"
    /\ FlushDurable("stopped", "stopped")
    /\ UNCHANGED <<lastKnownGeneration, state, engineVars, ipcVars>>

\* ServiceMain reports SERVICE_STOPPED and the process ends.
Stopped ==
    /\ main = "stopped" /\ main' = "down"
    /\ engine' = "none" /\ unflushed' = {}
    /\ ipc' = "none" /\ ipcStop' = FALSE
    /\ UNCHANGED <<markerVars, state, owed, journalVars, causes, bounds>>

-----------------------------------------------------------------------------

\* An Append of a ready engine may be cut short by it.
PowerCut ==
    /\ crashes < MaxCrashes /\ crashes' = crashes + 1
    /\ \E m \in Survivors : marker' = m /\ diskMarker' = m
    /\ main' = "down" /\ engine' = "none" /\ unflushed' = {}
    /\ torn' \in (IF engine = "Ready" THEN {torn, TRUE} ELSE {torn})
    /\ ipc' = "none" /\ ipcStop' = FALSE
    /\ UNCHANGED <<lastKnownGeneration, state, owed, readable, causes, faults, starts>>

\* The service is down for good within the bounds.
AtRest == main = "down" /\ starts = MaxStarts /\ UNCHANGED vars

MainStep ==
    \/ ReadLastState \/ ReplayFromJournal \/ SessionStartWrite \/ SessionStartFlush
    \/ MarkRecoveryComplete \/ CreateIpcServer \/ Refused
    \/ JoinIpcThread \/ EngineShutdown \/ CleanShutdownWrite \/ CleanShutdownFlush \/ Stopped
IpcStep == IpcExit \/ IpcHandle

Next ==
    \/ Start \/ MainStep \/ OnServiceStop \/ OnServicePreShutdown
    \/ (\E k \in Keys : Put(k)) \/ PutFails
    \/ IpcStep \/ IpcAccept \/ ClientSends \/ ClientReads
    \/ PowerCut \/ AtRest

Spec == Init /\ [][Next]_vars

\* The scheduler runs the service's own threads, and every client that has connected
\* sends its request and reads the reply, or goes away.
FairSpec ==
    /\ Spec /\ WF_vars(MainStep) /\ WF_vars(IpcStep)
    /\ WF_vars(ClientSends) /\ WF_vars(ClientReads)

-----------------------------------------------------------------------------
(* Properties.                                                             *)

\* However often the power fails, in whatever step of a start or a stop: of the values it
\* has acknowledged and the store does not have, a ready engine has forgotten only those
\* that a Shutdown failed to flush and then closed the marker over, that were journaled
\* behind a frame which Replay does not accept, or that a Replay did not read because of an
\* I/O error it takes for the end of the journal; and only until a session that replays
\* them begins, or another Put or a flush settles them.
ForgottenIsExplained ==
    engine = "Ready" => owed \subseteq unflushed \cup leftBehind \cup hidden \cup unread

\* "unflushed data remains durably journaled and will be recovered/replayed on the next
\* startup, so a flush failure here does not lose data" (ICacheEngine.h:159, of Shutdown):
\* what a ready engine has forgotten is not what a Shutdown left.
LeftIsReplayed ==
    engine = "Ready" => owed \cap leftBehind \subseteq unflushed

\* While the engine serves, a power cut is seen by the next start: no marker that may
\* be found then reads as closed cleanly.
PowerCutIsSeen == engine = "Ready" => \A m \in Survivors : ~ClosedCleanly(m)

\* Once the marker says the session was closed cleanly, neither the engine nor the IPC
\* thread, which the stop has joined, can change anything any more.
ClosedIsFinal ==
    marker.kind = "closed" /\ main \in {"clean_flush", "stopped"} =>
        engine # "Ready" /\ ipc = "none"

\* The generation of a session is greater than that of any session before whose marker
\* can still be read.
GenerationGrows ==
    [][main = "session_write" /\ main' = "session_flush" /\ Intact(marker)
       => marker'.gen > marker.gen]_vars

\* A stop ends, given clients that neither hold back their request nor leave the reply
\* unread (the stop event interrupts neither wait): "we can deterministically unblock any
\* pending AcceptOnce() call and then JOIN the thread, guaranteeing it has fully exited"
\* (main_service.cpp).
StopCompletes == main = "join" ~> main = "down"
=============================================================================
