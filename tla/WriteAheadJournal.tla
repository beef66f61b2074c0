------------------------- MODULE WriteAheadJournal -------------------------
(***************************************************************************)
(* The write-ahead journal of src/PowerResilience/src/WriteAheadJournal.cpp*)
(* on a file that keeps what FlushDurable has confirmed and may lose, keep *)
(* or tear what it has not.                                                *)
(*                                                                         *)
(* A frame is its sequence number and its payload; "accepted" is what the  *)
(* magic, length and CRC checks of Replay find out.  Payloads are numbered *)
(* in the order of the Append calls, so that every record can be told from *)
(* every other.  Calls come one at a time, as the engine's journalMutex_   *)
(* sees to.                                                                *)
(*                                                                         *)
(* A definition named Op_Variant is Op with a mistake in it; nothing uses  *)
(* it but the check that the properties notice the mistake.                *)
(***************************************************************************)
EXTENDS Integers, Sequences, FiniteSets, SequencesExt

CONSTANTS
    MaxAppends,   \* how many Appends are called (bound)
    MaxFaults,    \* how many I/O operations fail (bound)
    MaxCrashes,   \* how often the power fails (bound)
    MaxExits      \* how often the process ends while the power stays on (bound)

ASSUME JournalAssumption ==
    MaxAppends \in Nat /\ MaxFaults \in Nat /\ MaxCrashes \in Nat /\ MaxExits \in Nat

VARIABLES
    file,        \* the frames in the file, as the running process sees it
    synced,      \* the frames in the file at the last FlushDurable that succeeded
    nextSequenceNumber, recordCount,
    pc,          \* "idle", "append_flush", "replay", "truncate_flush" or "failed"
    pos,         \* Replay: how many frames have been handed to the callback
    open,        \* Append and Truncate may be called: the session has replayed, or was
                 \* started without a Replay because the marker said "closed cleanly"
    appends,     \* how many Appends have been called
    acked,       \* records whose Append returned Ok, since Truncate was last called
    truncated,   \* records appended before the last Truncate that returned Ok
    run,         \* history: how many sessions were started without a Replay
    faults, crashes, exits

fileVars == <<file, synced>>
counters == <<nextSequenceNumber, recordCount>>
ghosts == <<appends, acked, truncated>>
sessions == <<run, crashes, exits>>
vars == <<fileVars, counters, pc, pos, open, ghosts, sessions, faults>>

Init ==
    /\ file = <<>> /\ synced = <<>>
    /\ nextSequenceNumber = 0 /\ recordCount = 0
    /\ pc = "idle" /\ pos = 0
    /\ open \in BOOLEAN  \* the marker file is new as well, or is an older one
    /\ appends = 0 /\ acked = <<>> /\ truncated = {} /\ run = 0
    /\ faults = 0 /\ crashes = 0 /\ exits = 0

Fault == faults < MaxFaults /\ faults' = faults + 1

-----------------------------------------------------------------------------
(* Append: seek to the end, write the frame, flush.                        *)

\* The frame that is in the file after a write, and whether Replay will accept it; run is
\* the history of it and not in the file.
Frame(n, accepted) ==
    [seq |-> nextSequenceNumber, payload |-> n, accepted |-> accepted, run |-> run]

AppendWrite ==
    /\ pc = "idle" /\ open /\ appends < MaxAppends
    /\ appends' = appends + 1
    /\ \/ /\ file' = Append(file, Frame(appends + 1, TRUE))
          /\ pc' = "append_flush"
          /\ UNCHANGED faults
       \/ \* complete, but the payload is longer than kMaxReasonablePayloadLength
          /\ file' = Append(file, Frame(appends + 1, FALSE))
          /\ pc' = "append_flush"
          /\ UNCHANGED faults
       \/ /\ Fault  \* the seek or the write fails, nothing is written
          /\ UNCHANGED <<file, pc>>
       \/ /\ Fault  \* short write: what was written stays
          /\ file' = Append(file, Frame(appends + 1, FALSE))
          /\ UNCHANGED pc
    /\ UNCHANGED <<synced, counters, pos, open, acked, truncated, sessions>>

\* FlushDurable, and what follows its success.
AppendFlush_NotDurable ==
    /\ pc = "append_flush" /\ pc' = "idle"
    /\ \/ /\ nextSequenceNumber' = nextSequenceNumber + 1
          /\ recordCount' = recordCount + 1
          /\ acked' = Append(acked, appends)
          /\ UNCHANGED <<synced, faults>>
       \/ Fault /\ UNCHANGED <<synced, counters, acked>>
    /\ UNCHANGED <<file, pos, open, appends, truncated, sessions>>
AppendFlush ==
    /\ pc = "append_flush" /\ pc' = "idle"
    /\ \/ /\ synced' = file
          /\ nextSequenceNumber' = nextSequenceNumber + 1
          /\ recordCount' = recordCount + 1
          /\ acked' = Append(acked, appends)
          /\ UNCHANGED faults
       \/ Fault /\ UNCHANGED <<synced, counters, acked>>
    /\ UNCHANGED <<file, pos, open, appends, truncated, sessions>>

-----------------------------------------------------------------------------
(* Replay, the first call of a session that the marker does not spare it.  *)

\* The frames a Replay that meets no error hands over: all before the first
\* one it does not accept.
Valid(f) ==
    LET bad == {i \in DOMAIN f : ~f[i].accepted}
    IN  IF bad = {} THEN f ELSE SubSeq(f, 1, Min(bad) - 1)

ReplayBegin ==
    /\ pc = "idle" /\ ~open
    /\ \/ pc' = "replay" /\ UNCHANGED faults
       \/ pc' = "failed" /\ Fault  \* the seek fails
    /\ UNCHANGED <<fileVars, counters, pos, open, ghosts, sessions>>

ReplayRecord ==
    /\ pc = "replay" /\ pos < Len(Valid(file))
    /\ \/ pos' = pos + 1 /\ UNCHANGED <<pc, faults>>
       \/ pc' = "failed" /\ Fault /\ UNCHANGED pos  \* the callback fails
    /\ UNCHANGED <<fileVars, counters, open, ghosts, sessions>>

\* ReadExact takes an error, like a short read, for the end of the journal.
ReplayStops ==
    \/ pos = Len(Valid(file)) /\ UNCHANGED faults
    \/ pos < Len(Valid(file)) /\ Fault

\* nextSequenceNumber_ = highestSeqSeen + 1, if any record was seen.
SequenceAfterReplay_Restarts == 0
SequenceAfterReplay == IF pos = 0 THEN nextSequenceNumber ELSE file[pos].seq + 1

ReplayEnd ==
    /\ pc = "replay" /\ ReplayStops
    /\ pc' = "idle" /\ open' = TRUE
    /\ nextSequenceNumber' = SequenceAfterReplay
    /\ UNCHANGED <<fileVars, recordCount, pos, ghosts, sessions>>

-----------------------------------------------------------------------------
(* Truncate: SetLength(0), seek, flush.                                    *)

TruncateBegin ==
    /\ pc = "idle" /\ open
    /\ acked' = <<>>  \* the caller no longer needs them
    /\ \/ file' = <<>> /\ pc' = "truncate_flush" /\ UNCHANGED faults
       \/ file' = <<>> /\ Fault /\ UNCHANGED pc  \* the seek fails
       \/ Fault /\ UNCHANGED <<file, pc>>        \* SetLength fails
    /\ UNCHANGED <<synced, counters, pos, open, appends, truncated, sessions>>

TruncateFlush_NotDurable ==
    /\ pc = "truncate_flush" /\ pc' = "idle"
    /\ \/ /\ nextSequenceNumber' = 0 /\ recordCount' = 0
          /\ truncated' = 1..appends
          /\ UNCHANGED <<synced, faults>>
       \/ Fault /\ UNCHANGED <<synced, counters, truncated>>
    /\ UNCHANGED <<file, pos, open, appends, acked, sessions>>
TruncateFlush ==
    /\ pc = "truncate_flush" /\ pc' = "idle"
    /\ \/ /\ synced' = file
          /\ nextSequenceNumber' = 0 /\ recordCount' = 0
          /\ truncated' = 1..appends
          /\ UNCHANGED faults
       \/ Fault /\ UNCHANGED <<synced, counters, truncated>>
    /\ UNCHANGED <<file, pos, open, appends, acked, sessions>>

-----------------------------------------------------------------------------
(* The end of a session, and the next start of the service.                *)

TornLast(f) == [f EXCEPT ![Len(f)].accepted = FALSE]

\* What may be in the file after a power cut: at least what was synced (unless it has
\* been cut off since), more or less of what was written after that, the last frame of
\* it possibly torn.
Survivors ==
    LET grown == IsPrefix(synced, file)
        from == IF grown THEN Len(synced) ELSE 0
        cuts == {SubSeq(file, 1, n) : n \in from..Len(file)}
        torn == {TornLast(f) : f \in {c \in cuts : Len(c) > from}}
    IN  {synced} \cup cuts \cup torn

\* The next session begins with a new WriteAheadJournal.  InitializeAndRecover calls
\* Replay unless the marker says that the session before was closed cleanly; it says so
\* only if that session's engine was open and has been shut down, whether the journal was
\* truncated then or not.
NextSession ==
    /\ nextSequenceNumber' = 0 /\ recordCount' = 0
    /\ pc' = "idle" /\ pos' = 0
    /\ \/ open' = FALSE /\ UNCHANGED run
       \/ pc = "idle" /\ open /\ open' = TRUE /\ run' = run + 1
    /\ UNCHANGED <<appends, acked, truncated, faults>>

PowerCut ==
    /\ crashes < MaxCrashes /\ crashes' = crashes + 1
    /\ \E f \in Survivors : file' = f /\ synced' = f
    /\ NextSession
    /\ UNCHANGED exits

\* The process ends, at a stop or anywhere; what it has written is still in the file.
ProcessExit ==
    /\ exits < MaxExits /\ exits' = exits + 1
    /\ NextSession
    /\ UNCHANGED <<fileVars, crashes>>

\* Nothing is left to do within the bounds: a state the system may rest in.
AtRest ==
    /\ pc = "failed" \/ (pc = "idle" /\ open /\ appends = MaxAppends)
    /\ UNCHANGED vars

Next ==
    \/ AppendWrite \/ AppendFlush
    \/ ReplayBegin \/ ReplayRecord \/ ReplayEnd
    \/ TruncateBegin \/ TruncateFlush
    \/ PowerCut \/ ProcessExit \/ AtRest

Spec == Init /\ [][Next]_vars

-----------------------------------------------------------------------------
(* Properties.                                                             *)

Payloads(f) == [i \in DOMAIN f |-> f[i].payload]
IsAcked(n) == n \in ToSet(acked)

\* "a power cut immediately after Truncate() cannot resurrect old, already-applied
\* records": none that a successful Truncate removed comes back.
TruncatedStaysGone ==
    \A f \in Survivors : ToSet(Payloads(f)) \cap truncated = {}

\* "if a power cut happens after Append() returns Ok, the record WILL be found intact on
\* next Replay()": as long as no torn or oversized frame is in the file, whatever of it
\* survives a power cut now, Replay hands over every record that was acknowledged and not
\* truncated, none twice and all in the order of the Appends; failed writes, failed flushes
\* and earlier power cuts at any point notwithstanding.  (Nothing cuts a bad frame off, so
\* the records appended behind one are acknowledged and not found.)
Untorn(f) == \A i \in DOMAIN f : f[i].accepted
InOrder(f) == \A i, j \in DOMAIN f : i < j => f[i].payload < f[j].payload
AckedSurvivesUntorn ==
    Untorn(file) =>
        \A f \in Survivors : /\ ToSet(acked) \subseteq ToSet(Payloads(Valid(f)))
                            /\ InOrder(Valid(f))

\* "Replays every valid, fully-committed record in sequence order": while no I/O operation
\* fails, the records Replay hands over carry ascending sequence numbers, also when the
\* journal was written by several sessions with power cuts and exits between them, except
\* where a session was started without a Replay behind records that the Shutdown before it
\* had left in the journal (RecoveryManager.cpp:32): that session counts from 0 again, and
\* the order is kept only within the records since such a start, and within those before.
SequenceOrdered ==
    LET f == Valid(file)
    IN  faults = 0 => \A i, j \in DOMAIN f :
                          i < j /\ f[i].run = f[j].run => f[i].seq < f[j].seq

\* "everything before the tear is valid": whatever fails or is torn later, an
\* acknowledged record that Replay would find now is found after a power cut.
AckedPrefixSurvives ==
    \A f \in Survivors, i \in DOMAIN Valid(file) :
        IsAcked(file[i].payload) => Valid(file)[i] \in ToSet(Valid(f))
=============================================================================
