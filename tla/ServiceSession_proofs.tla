----------------------- MODULE ServiceSession_proofs -----------------------
(***************************************************************************)
(* Proofs about the life of the service: what a power cut in any step of a *)
(* start or a stop can make the next session believe, and what it can      *)
(* forget.                                                                 *)
(***************************************************************************)
EXTENDS ServiceSession, TLAPS

\* The steps of main during which the engine is Ready.
ServingPcs == {"create_ipc", "running", "join", "engine_stop"}
\* The steps after the engine's Shutdown.
StoppedPcs == {"clean_write", "clean_flush", "stopped"}
\* The steps after the journal has been replayed, or the marker said it need not be.
RestoredPcs == {"session_write", "session_flush", "mark_ready"} \cup ServingPcs

\* The steps before that in which nothing but a Replay can have changed the engine.
StartingPcs == {"down", "read", "replay", "session_write", "session_flush"}

Markers == [kind : {"empty", "short", "corrupt", "open", "closed"}, gen : Nat]

\* The variables whose values matter have their types.
MarkerTypes == marker \in Markers /\ diskMarker \in Markers /\ lastKnownGeneration \in Nat

\* The marker of a serving session is durably open.
MarkerOpen ==
    /\ main = "session_flush" => marker.kind = "open"
    /\ main \in ServingPcs \cup {"mark_ready"} => marker.kind = "open" /\ diskMarker = marker

\* The session that starts knows the generation that the marker names.
GenerationKnown ==
    main \in {"replay", "session_write"} /\ Intact(marker) => lastKnownGeneration = marker.gen

\* Which steps of the service the engine's life and the IPC thread's belong to.
EngineServes ==
    /\ engine = "Ready" => main \in ServingPcs
    /\ ipc # "none" => main \in {"running", "join"}

\* Why a value that is owed may be unknown to the engine.
Explained == leftBehind \cup hidden \cup unread

\* Replay hands over what is owed, as far as nothing explains that it does not.
JournalHasOwed == owed \subseteq readable \cup Explained

\* A marker that may be found after a power cut speaks of a clean shutdown only if
\* all that is missing from the backing store is explained.
ClosedOverExplained ==
    \A m \in Survivors : ClosedCleanly(m) => owed \subseteq Explained

\* What is owed is known to the engine, or explained; and what the engine knows before it
\* is ready comes from the journal.
NothingForgotten ==
    /\ main \in RestoredPcs => owed \subseteq unflushed \cup Explained
    /\ main \in StoppedPcs => owed \subseteq Explained
    /\ main \in StartingPcs => unflushed \subseteq readable

SessionInv ==
    /\ MarkerTypes
    /\ MarkerOpen
    /\ GenerationKnown
    /\ EngineServes
    /\ JournalHasOwed
    /\ ClosedOverExplained
    /\ NothingForgotten

-----------------------------------------------------------------------------
(* The marker file.                                                        *)

\* A record that was cut short never reads as a clean shutdown, nor as a session.
LEMMA TornIsNoticed ==
    ASSUME NEW m \in Markers
    PROVE  /\ Torn(m) \in Markers /\ ~ClosedCleanly(Torn(m)) /\ ~Intact(Torn(m))
BY DEF Torn, Marker, Markers, ClosedCleanly, Intact

\* Only the marker file and what is durable of it can say that the shutdown was clean.
LEMMA CleanSurvivors ==
    ASSUME MarkerTypes
    PROVE  ClosedOverExplained <=>
             (ClosedCleanly(marker) \/ ClosedCleanly(diskMarker) => owed \subseteq Explained)
BY TornIsNoticed DEF MarkerTypes, ClosedOverExplained, Survivors

\* A power cut leaves a marker, and one that says no more than the one before.
LEMMA SurvivorTypes ==
    ASSUME MarkerTypes, NEW m \in Survivors
    PROVE  /\ m \in Markers
           /\ ClosedCleanly(m) => ClosedCleanly(marker) \/ ClosedCleanly(diskMarker)
BY TornIsNoticed DEF MarkerTypes, Survivors

-----------------------------------------------------------------------------
(* The invariant, action by action.                                        *)

\* Steps that leave the marker, main and the engine's life as they are: what the engine
\* and the IPC thread do with keys.
LEMMA KeySteps ==
    ASSUME SessionInv, UNCHANGED <<marker, diskMarker, lastKnownGeneration, main, engine>>,
           ipc = "none" => ipc' = "none", JournalHasOwed',
           main \in ServingPcs => owed' \subseteq unflushed' \cup Explained',
           main \notin ServingPcs => UNCHANGED keyVars
    PROVE  SessionInv'
<1>1. MarkerTypes' /\ MarkerOpen' /\ GenerationKnown' /\ EngineServes'
  BY DEF SessionInv, MarkerTypes, MarkerOpen, GenerationKnown, Intact, EngineServes
<1>2. ClosedCleanly(marker) \/ ClosedCleanly(diskMarker) => main \notin ServingPcs
  BY DEF SessionInv, MarkerOpen, ClosedCleanly
<1>3. ClosedCleanly(marker) \/ ClosedCleanly(diskMarker) => owed' \subseteq Explained'
  BY <1>2, CleanSurvivors DEF SessionInv, keyVars, causes, Explained
<1>4. ClosedOverExplained'
  BY <1>3, TornIsNoticed DEF ClosedOverExplained, Survivors, SessionInv, MarkerTypes,
     ClosedCleanly, Torn
<1>5. main \in StoppedPcs => main \notin ServingPcs
  BY DEF StoppedPcs, ServingPcs
<1>6. NothingForgotten'
  <2>1. CASE main \in ServingPcs
    <3>1. main' \notin StartingPcs
      BY <2>1 DEF StartingPcs, ServingPcs
    <3> QED BY <1>5, <2>1, <3>1 DEF NothingForgotten
  <2>2. CASE main \notin ServingPcs
    BY <2>2 DEF SessionInv, NothingForgotten, keyVars, journalVars, causes, Explained
  <2> QED BY <2>1, <2>2
<1> QED
  BY <1>1, <1>4, <1>6 DEF SessionInv

\* The engine and the IPC thread.
LEMMA ServiceSteps ==
    ASSUME SessionInv,
           \/ \E k \in Keys : Put(k)
           \/ PutFails \/ OnServicePreShutdown
           \/ IpcStep \/ IpcAccept \/ ClientSends \/ ClientReads
    PROVE  SessionInv'
<1> USE DEF markerVars, engineVars, ServingPcs
<1>0. /\ main \in ServingPcs => owed \subseteq unflushed \cup Explained
      /\ JournalHasOwed
      /\ engine = "Ready" => main \in ServingPcs
      /\ ipc = "handle" => main \in ServingPcs
  BY DEF SessionInv, NothingForgotten, RestoredPcs, EngineServes
<1>k. UNCHANGED keyVars =>
        JournalHasOwed' /\ (main \in ServingPcs => owed' \subseteq unflushed' \cup Explained')
  BY <1>0 DEF keyVars, journalVars, causes, JournalHasOwed, Explained
<1>1. ASSUME NEW k \in Keys, Put(k) PROVE SessionInv'
  <2>1. JournalHasOwed' /\ owed' \subseteq unflushed' \cup Explained'
    BY <1>0, <1>1 DEF Put, JournalHasOwed, Explained
  <2> QED BY <1>0, <1>1, <2>1, KeySteps DEF Put, ipcVars
<1>2. CASE PutFails
  <2>1. JournalHasOwed' /\ owed' \subseteq unflushed' \cup Explained'
    BY <1>0, <1>2 DEF PutFails, JournalHasOwed, Explained, causes
  <2> QED BY <1>0, <1>2, <2>1, KeySteps DEF PutFails, ipcVars
<1>3. ASSUME NEW left \in SUBSET unflushed, FlushAll(left), Settle(unflushed \ left),
             main \in ServingPcs
      PROVE  JournalHasOwed' /\ owed' \subseteq unflushed' \cup Explained'
  BY <1>0, <1>3 DEF FlushAll, Settle, JournalHasOwed, Explained
<1>4. ASSUME NEW k \in Keys, ForceInvalidate(k), main \in ServingPcs
      PROVE  JournalHasOwed' /\ owed' \subseteq unflushed' \cup Explained'
  BY <1>0, <1>4 DEF ForceInvalidate, Settle, JournalHasOwed, Explained, causes
<1>5. CASE OnServicePreShutdown
  <2>1. main \in ServingPcs /\ UNCHANGED <<markerVars, main, engine, ipcVars>>
    BY <1>5 DEF OnServicePreShutdown
  <2>2. JournalHasOwed' /\ owed' \subseteq unflushed' \cup Explained'
    BY <1>3, <1>5, <2>1 DEF OnServicePreShutdown
  <2> QED BY <2>1, <2>2, KeySteps DEF ipcVars
<1>6. CASE IpcHandle
  <2>1. ipc = "handle" /\ main \in ServingPcs /\ UNCHANGED <<markerVars, main, engine>>
    BY <1>0, <1>6 DEF IpcHandle
  <2>2. JournalHasOwed' /\ owed' \subseteq unflushed' \cup Explained'
    BY <1>k, <1>3, <1>4, <1>6, <2>1 DEF IpcHandle
  <2> QED BY <2>1, <2>2, KeySteps
<1>7. CASE IpcExit \/ IpcAccept \/ ClientSends \/ ClientReads
  <2>1. /\ UNCHANGED <<markerVars, main, engine, keyVars>>
        /\ ipc = "none" => ipc' = "none"
    BY <1>7 DEF IpcExit, IpcAccept, ClientSends, ClientReads
  <2> QED BY <1>k, <2>1, KeySteps
<1> QED
  BY <1>1, <1>2, <1>5, <1>6, <1>7 DEF IpcStep

\* The start of the service.
LEMMA StartSteps ==
    ASSUME SessionInv,
           \/ Start \/ ReadLastState \/ ReplayFromJournal \/ SessionStartWrite
           \/ SessionStartFlush \/ MarkRecoveryComplete \/ CreateIpcServer \/ Refused
    PROVE  SessionInv'
<1> USE DEF markerVars, engineVars, keyVars, journalVars, ServingPcs, StoppedPcs, RestoredPcs,
             StartingPcs
<1>0. /\ MarkerTypes /\ MarkerOpen /\ GenerationKnown /\ EngineServes /\ NothingForgotten
      /\ JournalHasOwed
      /\ ClosedCleanly(marker) \/ ClosedCleanly(diskMarker) => owed \subseteq Explained
  BY CleanSurvivors DEF SessionInv
<1>1. ASSUME MarkerTypes',
             ClosedCleanly(marker') \/ ClosedCleanly(diskMarker')
                => owed' \subseteq Explained'
      PROVE  ClosedOverExplained'
  BY <1>1, TornIsNoticed DEF ClosedOverExplained, Survivors, MarkerTypes,
     ClosedCleanly, Torn
<1>k. UNCHANGED <<owed, readable, causes>> =>
        JournalHasOwed' /\ owed' = owed /\ Explained' = Explained
  BY <1>0 DEF causes, JournalHasOwed, Explained
<1>2. CASE Start
  <2>k. JournalHasOwed' /\ owed' = owed /\ Explained' = Explained
    BY <1>k, <1>2 DEF Start
  <2>1. MarkerTypes' /\ MarkerOpen' /\ GenerationKnown' /\ EngineServes'
    BY <1>0, <1>2 DEF Start, MarkerTypes, MarkerOpen, GenerationKnown, EngineServes, ipcVars
  <2>2. ClosedOverExplained'
    BY <1>0, <1>1, <1>2, <2>k, <2>1 DEF Start
  <2>3. NothingForgotten'
    BY <1>0, <1>2 DEF Start, NothingForgotten
  <2> QED BY <2>k, <2>1, <2>2, <2>3 DEF SessionInv
<1>3. CASE ReadLastState
  <2>k. JournalHasOwed' /\ owed' = owed /\ Explained' = Explained
    BY <1>k, <1>3 DEF ReadLastState
  <2>1. MarkerTypes'
    BY <1>0, <1>3 DEF ReadLastState, GenerationRead, MarkerTypes, Markers
  <2>2. MarkerOpen' /\ EngineServes'
    BY <1>0, <1>3 DEF ReadLastState, MarkerOpen, EngineServes, ipcVars
  <2>3. GenerationKnown'
    BY <1>3 DEF ReadLastState, GenerationRead, GenerationKnown, Intact
  <2>4. ClosedOverExplained'
    BY <1>0, <1>1, <1>3, <2>k, <2>1 DEF ReadLastState
  <2>5. NothingForgotten'
    BY <1>0, <1>3, <2>k DEF ReadLastState, NothingForgotten
  <2> QED BY <2>k, <2>1, <2>2, <2>3, <2>4, <2>5 DEF SessionInv
<1>4. CASE ReplayFromJournal
  <2>k. /\ JournalHasOwed' /\ owed' = owed
        /\ main' = "session_write" => owed' \subseteq unflushed' \cup Explained'
        /\ Explained \subseteq Explained'
    BY <1>0, <1>4 DEF ReplayFromJournal, JournalHasOwed, Explained
  <2>1. MarkerTypes' /\ MarkerOpen' /\ EngineServes'
    BY <1>0, <1>4 DEF ReplayFromJournal, MarkerTypes, MarkerOpen, EngineServes, ipcVars
  <2>2. GenerationKnown'
    BY <1>0, <1>4 DEF ReplayFromJournal, GenerationKnown, Intact
  <2>3. ClosedOverExplained'
    BY <1>0, <1>1, <1>4, <2>k, <2>1 DEF ReplayFromJournal
  <2>4. NothingForgotten'
    BY <1>4, <2>k DEF ReplayFromJournal, NothingForgotten
  <2> QED BY <2>k, <2>1, <2>2, <2>3, <2>4 DEF SessionInv
<1>5. CASE SessionStartWrite
  <2>1. \/ /\ main' = "session_flush"
           /\ marker' = Marker("open", lastKnownGeneration + 1)
        \/ main' = "refused" /\ marker' \in {marker, Torn(marker)}
    BY <1>5 DEF SessionStartWrite, WriteRecord
  <2>2. /\ main = "session_write" /\ lastKnownGeneration' = lastKnownGeneration + 1
        /\ UNCHANGED <<diskMarker, engineVars, ipcVars>>
    BY <1>5 DEF SessionStartWrite
  <2>k. JournalHasOwed' /\ owed' = owed /\ Explained' = Explained
    BY <1>k, <2>2
  <2>3. marker' \in Markers /\ (ClosedCleanly(marker') => ClosedCleanly(marker))
    BY <1>0, <2>1, TornIsNoticed DEF MarkerTypes, Markers, Marker, ClosedCleanly
  <2>4. MarkerTypes'
    BY <1>0, <2>2, <2>3 DEF MarkerTypes
  <2>5. MarkerOpen' /\ GenerationKnown' /\ EngineServes'
    BY <1>0, <2>1, <2>2 DEF MarkerOpen, GenerationKnown, EngineServes, Marker, ipcVars
  <2>6. ClosedOverExplained'
    BY <1>0, <1>1, <2>k, <2>2, <2>3, <2>4
  <2>7. NothingForgotten'
    BY <1>0, <2>k, <2>1, <2>2 DEF NothingForgotten
  <2> QED BY <2>k, <2>4, <2>5, <2>6, <2>7 DEF SessionInv
<1>6. CASE SessionStartFlush
  <2>1. /\ main = "session_flush"
        /\ \/ /\ main' = "mark_ready" /\ diskMarker' = marker
              /\ leftBehind' = leftBehind \ unflushed /\ unread' = unread \ unflushed
           \/ main' = "refused" /\ diskMarker' = diskMarker /\ UNCHANGED <<leftBehind, unread>>
        /\ UNCHANGED <<marker, lastKnownGeneration, engine, unflushed, owed, readable, hidden,
                       ipcVars>>
    BY <1>6 DEF SessionStartFlush, FlushDurable
  <2>2. MarkerTypes' /\ MarkerOpen' /\ GenerationKnown' /\ EngineServes'
    BY <1>0, <2>1 DEF MarkerTypes, MarkerOpen, GenerationKnown, EngineServes, ipcVars
  <2>3. CASE main' = "mark_ready"
    <3>1. ~ClosedCleanly(marker') /\ ~ClosedCleanly(diskMarker')
      BY <1>0, <2>1, <2>3 DEF MarkerOpen, ClosedCleanly
    <3>2. ClosedOverExplained'
      BY <1>1, <2>2, <3>1
    <3>3. NothingForgotten'
      BY <1>0, <2>1, <2>3 DEF NothingForgotten, Explained
    <3>4. JournalHasOwed'
      BY <1>0, <2>1, <2>3 DEF JournalHasOwed, NothingForgotten, Explained
    <3> QED BY <2>2, <3>2, <3>3, <3>4 DEF SessionInv
  <2>4. CASE main' = "refused"
    <3>1. JournalHasOwed' /\ owed' = owed /\ Explained' = Explained
      BY <1>k, <2>1, <2>4 DEF causes
    <3>2. ClosedOverExplained'
      BY <1>0, <1>1, <2>1, <2>2, <2>4, <3>1
    <3>3. NothingForgotten'
      BY <2>4 DEF NothingForgotten
    <3> QED BY <2>2, <3>1, <3>2, <3>3 DEF SessionInv
  <2> QED BY <2>1, <2>3, <2>4 DEF SessionInv
<1>7. CASE MarkRecoveryComplete \/ CreateIpcServer \/ Refused
  <2>1. /\ \/ main = "mark_ready" /\ main' = "create_ipc" /\ UNCHANGED unflushed
           \/ main = "create_ipc" /\ main' = "running" /\ UNCHANGED unflushed
           \/ main = "refused" /\ main' = "down" /\ engine' = "none"
        /\ main' = "down" => unflushed' = {}
        /\ ipc # ipc' => main' = "running"
        /\ UNCHANGED <<marker, diskMarker, lastKnownGeneration, owed, readable, causes>>
    BY <1>7 DEF MarkRecoveryComplete, CreateIpcServer, Refused, ipcVars
  <2>k. JournalHasOwed' /\ owed' = owed /\ Explained' = Explained
    BY <1>k, <2>1
  <2>2. MarkerTypes' /\ MarkerOpen' /\ GenerationKnown' /\ EngineServes'
    BY <1>0, <2>1 DEF MarkerTypes, MarkerOpen, GenerationKnown, EngineServes
  <2>3. ClosedOverExplained'
    BY <1>0, <1>1, <2>k, <2>1, <2>2
  <2>4. NothingForgotten'
    BY <1>0, <2>k, <2>1 DEF NothingForgotten
  <2> QED BY <2>k, <2>2, <2>3, <2>4 DEF SessionInv
<1> QED
  BY <1>2, <1>3, <1>4, <1>5, <1>6, <1>7

\* The stop of the service, and a power cut.
LEMMA StopSteps ==
    ASSUME SessionInv,
           \/ OnServiceStop \/ JoinIpcThread \/ EngineShutdown \/ CleanShutdownWrite
           \/ CleanShutdownFlush \/ Stopped \/ PowerCut
    PROVE  SessionInv'
<1> USE DEF markerVars, engineVars, keyVars, journalVars, ServingPcs, StoppedPcs, RestoredPcs,
             StartingPcs
<1>0. /\ MarkerTypes /\ MarkerOpen /\ GenerationKnown /\ EngineServes /\ NothingForgotten
      /\ JournalHasOwed
      /\ ClosedCleanly(marker) \/ ClosedCleanly(diskMarker) => owed \subseteq Explained
  BY CleanSurvivors DEF SessionInv
<1>1. ASSUME MarkerTypes',
             ClosedCleanly(marker') \/ ClosedCleanly(diskMarker')
                => owed' \subseteq Explained'
      PROVE  ClosedOverExplained'
  BY <1>1, TornIsNoticed DEF ClosedOverExplained, Survivors, MarkerTypes,
     ClosedCleanly, Torn
<1>k. UNCHANGED <<owed, readable, causes>> =>
        JournalHasOwed' /\ owed' = owed /\ Explained' = Explained
  BY <1>0 DEF causes, JournalHasOwed, Explained
<1>2. CASE OnServiceStop \/ JoinIpcThread
  <2>1. /\ \/ main = "running" /\ main' = "join"
           \/ main = "join" /\ main' = "engine_stop" /\ ipc' = "none"
        /\ UNCHANGED <<markerVars, engineVars>>
    BY <1>2 DEF OnServiceStop, JoinIpcThread, ipcVars
  <2>k. JournalHasOwed' /\ owed' = owed /\ Explained' = Explained
    BY <1>k, <2>1
  <2>2. MarkerTypes' /\ MarkerOpen' /\ GenerationKnown' /\ EngineServes'
    BY <1>0, <2>1 DEF MarkerTypes, MarkerOpen, GenerationKnown, EngineServes
  <2>3. ClosedOverExplained'
    BY <1>0, <1>1, <2>k, <2>1, <2>2
  <2>4. NothingForgotten'
    BY <1>0, <2>k, <2>1 DEF NothingForgotten
  <2> QED BY <2>k, <2>2, <2>3, <2>4 DEF SessionInv
<1>3. CASE EngineShutdown
  <2>1. /\ main = "engine_stop" /\ main' = "clean_write" /\ engine' = "Stopped"
        /\ UNCHANGED <<markerVars, ipc>>
    BY <1>3 DEF EngineShutdown, ipcVars
  <2>k. PICK left \in SUBSET unflushed :
            /\ owed' = owed \ (unflushed \ left) /\ hidden' = hidden \ (unflushed \ left)
            /\ unread' = unread \ (unflushed \ left)
            /\ leftBehind' = (leftBehind \ (unflushed \ left)) \cup (left \cap owed)
    BY <1>3 DEF EngineShutdown
  <2>2. owed' \subseteq Explained' /\ JournalHasOwed'
    BY <1>0, <2>1, <2>k DEF NothingForgotten, Explained, JournalHasOwed
  <2>3. MarkerTypes' /\ MarkerOpen' /\ GenerationKnown' /\ EngineServes'
    BY <1>0, <2>1 DEF MarkerTypes, MarkerOpen, GenerationKnown, EngineServes
  <2>4. ClosedOverExplained'
    BY <1>1, <2>2, <2>3
  <2>5. NothingForgotten'
    BY <2>1, <2>2 DEF NothingForgotten
  <2> QED BY <2>3, <2>4, <2>5, <2>2 DEF SessionInv
<1>4. CASE CleanShutdownWrite \/ CleanShutdownFlush
  <2>1. /\ main \in {"clean_write", "clean_flush"} /\ main' \in {"clean_flush", "stopped"}
        /\ \/ marker' \in {marker, Torn(marker), Marker("closed", lastKnownGeneration)}
              /\ diskMarker' = diskMarker
           \/ marker' = marker /\ diskMarker' \in {marker, diskMarker}
        /\ UNCHANGED <<lastKnownGeneration, engineVars, ipc>>
    BY <1>4 DEF CleanShutdownWrite, CleanShutdownFlush, WriteRecord, FlushDurable, ipcVars
  <2>k. JournalHasOwed' /\ owed' = owed /\ Explained' = Explained
    BY <1>k, <2>1
  <2>2. Marker("closed", lastKnownGeneration) \in Markers
    BY <1>0 DEF Marker, Markers, MarkerTypes
  <2>3. MarkerTypes'
    BY <1>0, <2>1, <2>2, TornIsNoticed DEF MarkerTypes
  <2>4. owed' \subseteq Explained'
    BY <1>0, <2>k, <2>1 DEF NothingForgotten
  <2>5. MarkerOpen' /\ GenerationKnown' /\ EngineServes'
    BY <1>0, <2>1 DEF MarkerOpen, GenerationKnown, EngineServes
  <2>6. ClosedOverExplained'
    BY <1>1, <2>3, <2>4
  <2>7. NothingForgotten'
    BY <2>1, <2>4 DEF NothingForgotten
  <2> QED BY <2>k, <2>3, <2>5, <2>6, <2>7 DEF SessionInv
<1>5. CASE Stopped \/ PowerCut
  <2>1. /\ main' = "down" /\ engine' = "none"
        /\ unflushed' = {} /\ ipc' = "none"
        /\ UNCHANGED <<lastKnownGeneration, owed, readable, causes>>
        /\ \/ UNCHANGED <<marker, diskMarker>>
           \/ \E m \in Survivors : marker' = m /\ diskMarker' = m
    BY <1>5 DEF Stopped, PowerCut
  <2>k. JournalHasOwed' /\ owed' = owed /\ Explained' = Explained
    BY <1>k, <2>1
  <2>2. MarkerTypes'
    BY <1>0, <2>1, SurvivorTypes DEF MarkerTypes
  <2>3. ClosedCleanly(marker') \/ ClosedCleanly(diskMarker')
          => ClosedCleanly(marker) \/ ClosedCleanly(diskMarker)
    BY <1>0, <2>1, SurvivorTypes
  <2>4. ClosedOverExplained'
    BY <1>0, <1>1, <2>k, <2>1, <2>2, <2>3
  <2>5. MarkerOpen' /\ GenerationKnown' /\ EngineServes' /\ NothingForgotten'
    BY <2>1 DEF MarkerOpen, GenerationKnown, EngineServes, NothingForgotten
  <2> QED BY <2>k, <2>2, <2>4, <2>5 DEF SessionInv
<1> QED
  BY <1>2, <1>3, <1>4, <1>5

-----------------------------------------------------------------------------
(* The theorems.                                                           *)

\* The invariant that they rest on.
THEOREM SessionInvHolds == Spec => []SessionInv
<1>1. Init => SessionInv
  <2> SUFFICES ASSUME Init PROVE SessionInv
    OBVIOUS
  <2>1. MarkerTypes
    BY DEF Init, MarkerTypes, Markers, Marker
  <2>2. MarkerOpen /\ GenerationKnown /\ EngineServes /\ NothingForgotten /\ JournalHasOwed
    BY DEF Init, MarkerOpen, GenerationKnown, EngineServes, NothingForgotten, ServingPcs,
       StoppedPcs, RestoredPcs, JournalHasOwed
  <2>3. ClosedOverExplained
    BY DEF Init, ClosedOverExplained, Survivors, ClosedCleanly, Marker, Explained
  <2> QED BY <2>1, <2>2, <2>3 DEF SessionInv
<1>2. SessionInv /\ [Next]_vars => SessionInv'
  <2> SUFFICES ASSUME SessionInv, [Next]_vars PROVE SessionInv'
    OBVIOUS
  <2>1. CASE UNCHANGED vars
    BY <2>1 DEF vars, markerVars, engineVars, keyVars, journalVars, causes, ipcVars,
       SessionInv, MarkerTypes, MarkerOpen, GenerationKnown, EngineServes, JournalHasOwed,
       ClosedOverExplained, NothingForgotten, Explained, Survivors
  <2> QED
    BY <2>1, ServiceSteps, StartSteps, StopSteps DEF Next, MainStep, AtRest
<1> QED
  BY <1>1, <1>2, PTL DEF Spec

\* A power cut during a session is seen by the next start, whichever of the states of the
\* marker file it finds: OnSessionStart is durable before the engine is made ready.
THEOREM PowerCutsAreSeen == Spec => []PowerCutIsSeen
<1>1. SessionInv => PowerCutIsSeen
  BY DEF SessionInv, EngineServes, MarkerOpen, PowerCutIsSeen, Survivors, ClosedCleanly
<1> QED
  BY <1>1, SessionInvHolds, PTL

\* Once OnServiceStop has closed the marker, the engine and the IPC thread are at rest.
THEOREM ClosedSessionsAreFinal == Spec => []ClosedIsFinal
<1>1. SessionInv => ClosedIsFinal
  BY DEF SessionInv, EngineServes, ClosedIsFinal, ServingPcs, StoppedPcs
<1> QED
  BY <1>1, SessionInvHolds, PTL

\* Over any number of sessions, failed operations and power cuts, what a ready engine has
\* forgotten of the values it owes to the store is what some Shutdown failed to flush before
\* the marker was closed, what was journaled behind a frame that Replay does not accept, and
\* what a Replay did not read for an I/O error.
THEOREM NothingElseIsForgotten == Spec => []ForgottenIsExplained
<1>1. SessionInv => ForgottenIsExplained
  BY DEF SessionInv, EngineServes, NothingForgotten, RestoredPcs, ForgottenIsExplained, Explained
<1> QED
  BY <1>1, SessionInvHolds, PTL

\* OnSessionStart writes a generation greater than the one that the marker names.
THEOREM GenerationsGrow == Spec => GenerationGrows
<1>1. ASSUME SessionInv, main = "session_write", main' = "session_flush", Intact(marker),
             [Next]_vars
      PROVE  marker'.gen > marker.gen
  <2>1. lastKnownGeneration = marker.gen /\ marker.gen \in Nat
    BY <1>1 DEF SessionInv, GenerationKnown, MarkerTypes
  <2>2. SessionStartWrite
    BY <1>1 DEF Next, MainStep, IpcStep, Start, ReadLastState, ReplayFromJournal,
       SessionStartFlush, MarkRecoveryComplete, CreateIpcServer, Refused, JoinIpcThread,
       EngineShutdown, CleanShutdownWrite, CleanShutdownFlush, Stopped, OnServiceStop,
       OnServicePreShutdown, Put, PutFails, IpcExit, IpcHandle, IpcAccept, ClientSends, ClientReads,
       PowerCut, AtRest, vars
  <2>3. marker' = Marker("open", lastKnownGeneration + 1)
    BY <1>1, <2>2 DEF SessionStartWrite, WriteRecord
  <2> QED BY <2>1, <2>3 DEF Marker
<1>2. SessionInv /\ [Next]_vars =>
        [main = "session_write" /\ main' = "session_flush" /\ Intact(marker)
         => marker'.gen > marker.gen]_vars
  BY <1>1
<1> QED
  BY <1>2, SessionInvHolds, PTL DEF Spec, GenerationGrows
=============================================================================
