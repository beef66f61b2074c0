-------------------------- MODULE FileBackingStore --------------------------
(***************************************************************************)
(* The key/value store of src/Storage/src/FileBackingStore.cpp, an         *)
(* append-only log in one file, on Win32File.                              *)
(*                                                                         *)
(* The file is a sequence of cells.  A frame takes one cell for its header *)
(* and Size[v] for its value; a cell names its frame and its place in it,  *)
(* so a frame is intact (magic, lengths and CRC match) exactly if all its  *)
(* cells are in place.  Offsets count cells from 0.                        *)
(*                                                                         *)
(* A definition named Op_Variant is Op with a mistake in it; nothing uses  *)
(* it but the check that the properties notice the mistake.                *)
(***************************************************************************)
EXTENDS Integers, Sequences, FiniteSetsExt

CONSTANTS
    Keys, Values,
    Absent,               \* no value: what Get finds, and what a tombstone holds
    Garbled,              \* a value made of bytes that are not its own
    Size,                 \* how many cells a value takes
    MaxReasonableLength,  \* kMaxReasonableLength, in cells (256 MiB)
    DwordLimit,           \* a write of so many cells does not fit a DWORD (4 GiB)
    MaxCalls,             \* how many calls append a record (bound)
    MaxFaults,            \* how many I/O operations fail (bound)
    MaxRestarts           \* how often the process ends, by itself or with the power (bound)

ASSUME StoreAssumption ==
    /\ Size \in [Values -> Nat] /\ Absent \notin Keys \cup Values /\ Garbled \notin Values \cup {Absent}
    /\ MaxReasonableLength \in Nat /\ DwordLimit \in Nat \ {0}
    /\ MaxCalls \in Nat /\ MaxFaults \in Nat /\ MaxRestarts \in Nat

VARIABLES
    file,          \* the cells of the file, as the running process sees it
    images,        \* what the file was when last flushed, and since
    index, endOffset, nextSequence,
    pc,            \* "closed", "size", "set_length", "open_flush", "idle", "write", "flush"
    call,          \* the key and value of the AppendRecord under way
    damaged,       \* IBackingStore's promise no longer holds
    tailLeft,      \* Initialize did not durably remove what follows the last valid frame
    possible,      \* contents after the last acknowledged call, with and without the later ones
    history,       \* all that has ever been possible
    calls, faults, restarts

fileVars == <<file, images>>
memory == <<index, endOffset, nextSequence>>
ghosts == <<damaged, tailLeft, possible, history>>
vars == <<fileVars, memory, pc, call, ghosts, calls, faults, restarts>>

NoCall == [key |-> Absent, val |-> Absent]
NotIndexed == [offset |-> 0, tombstone |-> TRUE]
EmptyIndex == [k \in Keys |-> NotIndexed]
Nothing == [k \in Keys |-> Absent]

Fault == faults < MaxFaults /\ faults' = faults + 1

-----------------------------------------------------------------------------
(* Frames and cells.                                                       *)

ValueLength(v) == IF v = Absent THEN 0 ELSE Size[v]
FrameLength(frame) == 1 + ValueLength(frame.val)
Cells(frame) == [i \in 1..FrameLength(frame) |-> [frame |-> frame, at |-> i]]

\* A stretch of the file that no write has reached.
Blank == [frame |-> [seq |-> 0, key |-> Absent, val |-> Absent], at |-> 0]

\* The cells at offset o are those of the frame that begins there.
IntactAt(f, o) ==
    LET n == FrameLength(f[o + 1].frame)
    IN  o + n <= Len(f) /\ SubSeq(f, o + 1, o + n) = Cells(f[o + 1].frame)

\* The scan accepts the frame at offset o.
ValidAt(f, o) ==
    /\ o < Len(f)
    /\ ValueLength(f[o + 1].frame.val) <= MaxReasonableLength
    /\ IntactAt(f, o)

\* The frames the scan of Initialize finds, with their offsets.
Scan(f) ==
    LET scan[o \in 0..Len(f)] ==
            IF ValidAt(f, o)
            THEN <<[offset |-> o, frame |-> f[o + 1].frame]>>
                     \o scan[o + FrameLength(f[o + 1].frame)]
            ELSE <<>>
    IN  scan[0]

\* The last frame of key k, if there is one.
Latest(k, found) ==
    LET own == {i \in DOMAIN found : found[i].frame.key = k}
    IN  IF own = {} THEN {} ELSE {found[Max(own)]}

\* index_[key] = IndexEntry{offset, tombstone}, frame after frame.
IndexOf(found) ==
    [k \in Keys |->
        IF Latest(k, found) = {} THEN NotIndexed
        ELSE CHOOSE entry \in {[offset |-> e.offset, tombstone |-> e.frame.val = Absent] :
                                  e \in Latest(k, found)} : TRUE]

EndOf(found) ==
    IF found = <<>> THEN 0
    ELSE found[Len(found)].offset + FrameLength(found[Len(found)].frame)

-----------------------------------------------------------------------------
(* The file.                                                               *)

Init ==
    /\ file = <<>> /\ images = {<<>>}
    /\ index = EmptyIndex /\ endOffset = 0 /\ nextSequence = 0
    /\ pc = "closed" /\ call = NoCall
    /\ damaged = FALSE /\ tailLeft = FALSE /\ possible = {Nothing} /\ history = {Nothing}
    /\ calls = 0 /\ faults = 0 /\ restarts = 0

\* The file becomes f, and nobody knows how much of that is on the disk.
Write(f) == file' = f /\ images' = images \cup {f}

WriteAt(o, cells) ==
    SubSeq(file, 1, o) \o cells \o SubSeq(file, o + Len(cells) + 1, Len(file))

FlushDurable == images' = {file} /\ UNCHANGED file

\* Any of the writes since the last flush may have reached the disk, each cell by itself.
Survivors ==
    LET cell(i) == {f[i] : f \in {g \in images : Len(g) >= i}}
                       \cup IF \E f \in images : Len(f) < i THEN {Blank} ELSE {}
        mixed[n \in Nat] ==
            IF n = 0 THEN {<<>>}
            ELSE {Append(s, c) : s \in mixed[n - 1], c \in cell(n)}
    IN  UNION {mixed[Len(f)] : f \in images}

-----------------------------------------------------------------------------
(* OpenFileBackingStore and Initialize.                                    *)

\* The scan goes on to the first frame that is not valid, or to one that cannot be read.
\* An error of ReadExact and the end of the file are the same to it.
InitializeScan ==
    /\ pc = "closed"
    /\ \E n \in 0..Len(Scan(file)) :
          /\ IF n = Len(Scan(file)) THEN UNCHANGED <<faults, damaged>>
             ELSE Fault /\ damaged' = TRUE
          /\ LET found == SubSeq(Scan(file), 1, n)
             IN  /\ index' = IndexOf(found)
                 /\ endOffset' = EndOf(found)
                 /\ nextSequence' =
                       1 + IF n = 0 THEN 0 ELSE Max({found[i].frame.seq : i \in 1..n})
    /\ pc' = "size"
    /\ UNCHANGED <<fileVars, call, tailLeft, possible, history, calls, restarts>>

\* A Size that fails is taken for one that matches.
InitializeSize ==
    /\ pc = "size"
    /\ \/ pc' = (IF Len(file) = endOffset THEN "idle" ELSE "set_length")
          /\ UNCHANGED <<faults, damaged, tailLeft>>
       \/ pc' = "idle" /\ Fault
          /\ tailLeft' = (tailLeft \/ Len(file) # endOffset)
          /\ damaged' = (damaged \/ Len(file) # endOffset)
    /\ UNCHANGED <<fileVars, memory, call, possible, history, calls, restarts>>

\* The store object is gone.
Forget == index' = EmptyIndex /\ endOffset' = 0 /\ nextSequence' = 0 /\ call' = NoCall

InitializeSetLength_KeepsTail ==
    /\ pc = "set_length" /\ pc' = "open_flush"
    /\ UNCHANGED <<fileVars, memory, call, ghosts, calls, faults, restarts>>
InitializeSetLength ==
    /\ pc = "set_length"
    /\ \/ Write(SubSeq(file, 1, endOffset)) /\ pc' = "open_flush"
          /\ UNCHANGED <<memory, call, faults>>
       \/ Fault /\ pc' = "closed" /\ Forget /\ UNCHANGED fileVars
    /\ UNCHANGED <<ghosts, calls, restarts>>

InitializeFlush ==
    /\ pc = "open_flush"
    /\ \/ FlushDurable /\ pc' = "idle" /\ UNCHANGED <<memory, call, tailLeft, faults>>
       \/ Fault /\ pc' = "closed" /\ Forget /\ tailLeft' = TRUE /\ UNCHANGED fileVars
    /\ UNCHANGED <<damaged, possible, history, calls, restarts>>

-----------------------------------------------------------------------------
(* The calls.  mutex_ admits one at a time.                                *)

Contains(k) == ~index[k].tombstone

\* Get reads the frame at the indexed offset, without looking at its CRC.
Get(k) ==
    IF ~Contains(k) THEN Absent
    ELSE IF IntactAt(file, index[k].offset) THEN file[index[k].offset + 1].frame.val
    ELSE Garbled

Begin(k, v) ==
    /\ calls < MaxCalls /\ calls' = calls + 1
    /\ pc' = "write" /\ call' = [key |-> k, val |-> v]
    /\ UNCHANGED <<fileVars, memory, ghosts, faults, restarts>>

Put(k, v) == pc = "idle" /\ Begin(k, v)

\* A key that is not there needs no tombstone: Remove returns Success and changes nothing.
Remove(k) == pc = "idle" /\ Contains(k) /\ Begin(k, Absent)

\* What a caller sees, and what it will see once the call has succeeded.
Current == [k \in Keys |-> Get(k)]
Applied == [Current EXCEPT ![call.key] = call.val]

CallFrame == [seq |-> nextSequence, key |-> call.key, val |-> call.val]

\* Seek, and as much of the frame as Write gets into the file.
AppendWrite ==
    /\ pc = "write"
    /\ LET n == FrameLength(CallFrame)
       IN  \/ /\ n < DwordLimit
              /\ Write(WriteAt(endOffset, Cells(CallFrame)))
              /\ pc' = "flush" /\ UNCHANGED <<call, faults>>
           \/ \E m \in 0..(n - 1) :
              /\ IF n >= DwordLimit THEN m = n % DwordLimit /\ UNCHANGED faults ELSE Fault
              /\ Write(WriteAt(endOffset, SubSeq(Cells(CallFrame), 1, m)))
              /\ pc' = "idle" /\ call' = NoCall
    /\ possible' = possible \cup {[c EXCEPT ![call.key] = call.val] : c \in possible \cup {Current}}
    /\ history' = history \cup possible'
    /\ UNCHANGED <<memory, damaged, tailLeft, calls, restarts>>

\* FlushDurable, and the index once it has succeeded.
AppendFlush_BeforeFlush ==
    /\ pc = "flush" /\ pc' = "idle" /\ call' = NoCall
    /\ \/ /\ index' = [index EXCEPT ![call.key] = [offset |-> endOffset, tombstone |-> call.val = Absent]]
          /\ endOffset' = endOffset + FrameLength(CallFrame)
          /\ nextSequence' = nextSequence + 1
          /\ possible' = {Applied}
          /\ damaged' = (damaged \/ ValueLength(call.val) > MaxReasonableLength)
          /\ UNCHANGED <<fileVars, faults>>
       \/ Fault /\ UNCHANGED <<fileVars, memory, possible, damaged>>
    /\ UNCHANGED <<tailLeft, history, calls, restarts>>
AppendFlush ==
    /\ pc = "flush" /\ pc' = "idle" /\ call' = NoCall
    /\ \/ /\ FlushDurable
          /\ index' = [index EXCEPT ![call.key] = [offset |-> endOffset, tombstone |-> call.val = Absent]]
          /\ endOffset' = endOffset + FrameLength(CallFrame)
          /\ nextSequence' = nextSequence + 1
          /\ possible' = {Applied}
          /\ damaged' = (damaged \/ ValueLength(call.val) > MaxReasonableLength)
          /\ UNCHANGED faults
       \/ Fault /\ UNCHANGED <<fileVars, memory, possible, damaged>>
    /\ UNCHANGED <<tailLeft, history, calls, restarts>>

-----------------------------------------------------------------------------
(* The end of the process.                                                 *)

End ==
    /\ restarts < MaxRestarts /\ restarts' = restarts + 1
    /\ pc' = "closed" /\ Forget
    /\ UNCHANGED <<damaged, possible, history, calls, faults>>

\* The process alone ends: what it has written is in the file, on the disk or not.
ProcessExit ==
    /\ End /\ UNCHANGED fileVars
    /\ tailLeft' = (tailLeft \/ pc = "open_flush")

PowerCut ==
    /\ End /\ UNCHANGED tailLeft
    /\ \E f \in Survivors : file' = f /\ images' = {f}

\* Nothing is left to do within the bounds: a state the system may rest in.
AtRest == pc = "idle" /\ calls = MaxCalls /\ UNCHANGED vars

Next ==
    \/ InitializeScan \/ InitializeSize \/ InitializeSetLength \/ InitializeFlush
    \/ \E k \in Keys : Remove(k) \/ \E v \in Values : Put(k, v)
    \/ AppendWrite \/ AppendFlush
    \/ ProcessExit \/ PowerCut \/ AtRest

Spec == Init /\ [][Next]_vars

-----------------------------------------------------------------------------
(* Properties.                                                             *)

Initialized == pc \in {"idle", "write", "flush"}

KVS == INSTANCE KeyValueStore
         WITH open <- Initialized,
              store <- IF Initialized THEN Current ELSE Nothing

\* FileBackingStore keeps the promise of IBackingStore: whatever fails, whenever the process
\* ends, and in whatever order the disk takes the writes of a frame, an acknowledged Put or
\* Remove is found again, and one that failed happened entirely or not at all.  Three things
\* end the promise: a read error in the scan of Initialize, a Size that fails on a file with
\* a tail, and an acknowledged value longer than kMaxReasonableLength.
KeepsPromise == KVS!Spec

\* Even then the store loses only its newest records: what an open finds was possible at
\* some earlier moment, and is never a mixture of old records and new ones.  Not so when
\* Initialize could not read the size of a file with a tail, or did not flush its cut,
\* because the flush failed or the process ended before it: the next open finds the right
\* size and does not try again, and the tail may yet come back behind newer records.
DamageForgetsTheNewest ==
    [][~Initialized /\ Initialized' /\ ~tailLeft' => Current' \in history]_vars
=============================================================================
