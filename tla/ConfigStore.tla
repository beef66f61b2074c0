---------------------------- MODULE ConfigStore ----------------------------
(***************************************************************************)
(* The configuration file: JsonConfigStore.cpp, and the Load at the start  *)
(* of the service.  A Save writes a temporary file, flushes it and renames *)
(* it over the target; savers may run at once, I/O may fail at each step,  *)
(* and the process or the power may end between any two.                   *)
(*                                                                         *)
(* A document is the JSON object, a record of the fields it has.  Text is  *)
(* a sequence of code units in AppConfig and of bytes in the document.     *)
(* Byte stands for 256: bytes below Byte \div 2 are ASCII, and one of the  *)
(* others, Lead, must be followed by another, Trail, to be valid UTF-8.    *)
(* The unit PipePrefix stands for the text \\.\pipe\.                      *)
(*                                                                         *)
(* A definition named Op_Variant is Op with a mistake in it; nothing uses  *)
(* it but the check that the properties notice the mistake.                *)
(***************************************************************************)
EXTENDS Integers, Sequences, FiniteSets

CONSTANTS
    Savers,       \* threads that call Save
    Configs,      \* the AppConfigs they save
    Documents,    \* what may be in the file at first
    Default,      \* AppConfig as its member initializers leave it
    Word32, Word64,           \* 2^32 and 2^64
    MaxCapacity, MaxShards,   \* kMaxSaneCapacityBytes and 4096
    MaxSaves,     \* how many Saves get as far as the file (bound)
    MaxFaults,    \* how many file operations fail (bound)
    MaxRestarts   \* how often the process ends, by itself or with the power (bound)

ASSUME ConfigAssumption ==
    /\ Word32 \in Nat /\ Word64 \in Nat /\ MaxShards \in Nat /\ MaxCapacity \in Nat
    /\ 5 < Word32 \div 2 /\ Word32 < Word64 /\ MaxShards < Word32 /\ MaxCapacity < Word64
    /\ MaxSaves \in Nat /\ MaxFaults \in Nat /\ MaxRestarts \in Nat

Byte == 4
Lead == 2
Trail == 3
PipePrefix == 1

Cut == [cut |-> TRUE]   \* a file that does not parse
NoFile == -1
Files == 0..MaxSaves    \* the first one, and one for every Save

VARIABLES
    windows,     \* which build it is
    target,      \* the file at path_
    temp,        \* the files with temporary names: one name for each Save, or 0 for all
    data,        \* the content of every file
    flushed,     \* files whose content is on the disk
    onDisk,      \* files that may be at path_ after a power cut
    pc, arg, number, fd,   \* of every saver: where Save is, its argument, the how manyeth
                           \* it is and the file it has open
    running,     \* the configuration the service runs with
    good,        \* configurations that Load may return
    overlapped,  \* two Saves have used the same temporary name at once
    saves, faults, restarts

files == <<target, temp, data, flushed, onDisk>>
saver == <<pc, arg, number, fd>>
bounds == <<saves, faults, restarts>>
vars == <<windows, files, saver, running, good, overlapped, bounds>>

None == [none |-> TRUE]
Fault == faults < MaxFaults /\ faults' = faults + 1

-----------------------------------------------------------------------------
(* Conversions.                                                            *)

Required == {"schemaVersion", "stateDirectory", "logDirectory", "minimumLogLevel", "ipcPipeName"}
Fields == DOMAIN Default
Texts == {"stateDirectory", "logDirectory", "ipcPipeName", "backingStoreDataFile"}
Words32 == {"schemaVersion", "cacheShardCount", "flushIntervalSeconds"}
Words64 == {"cacheCapacityBytes", "cacheMaxEntryCount"}

\* static_cast<char>(c) keeps the low byte; the way back widens the byte unsigned.
NarrowFromWide(text) == [i \in DOMAIN text |-> text[i] % Byte]
WideFromNarrow(bytes) == [i \in DOMAIN bytes |-> bytes[i]]

\* json::dump throws on text that is not valid UTF-8.
ValidUtf8(bytes) ==
    \A i \in DOMAIN bytes :
        /\ bytes[i] = Lead => i < Len(bytes) /\ bytes[i + 1] = Trail
        /\ bytes[i] = Trail => i > 1 /\ bytes[i - 1] = Lead

ToJson_ForgetsInterval(config) ==
    [f \in Fields \ {"flushIntervalSeconds"} |->
        IF f \in Texts THEN NarrowFromWide(config[f]) ELSE config[f]]
ToJson(config) ==
    [f \in Fields |-> IF f \in Texts THEN NarrowFromWide(config[f]) ELSE config[f]]

Dumps(config) == \A f \in Texts : ValidUtf8(NarrowFromWide(config[f]))

\* j.at(f).get<T>(): a number of another width is converted without a check.
Converted(f, x) ==
    CASE f \in Texts -> WideFromNarrow(x)
      [] f \in Words32 -> x % Word32
      [] f \in Words64 -> x % Word64
      [] f = "minimumLogLevel" -> ((x + Word32 \div 2) % Word32) - Word32 \div 2
      [] OTHER -> x

\* Fields that are not there keep their defaults.
FromJson(doc) ==
    [f \in Fields |-> IF f \in DOMAIN doc THEN Converted(f, doc[f]) ELSE Default[f]]

PowerOfTwo(n) == \E i \in 0..n : n = 2^i

Validate(config) ==
    /\ config.schemaVersion \in 1..2
    /\ config.stateDirectory # <<>> /\ config.logDirectory # <<>>
    /\ config.minimumLogLevel \in 0..5
    /\ config.ipcPipeName # <<>> /\ config.ipcPipeName[1] = PipePrefix
    /\ config.backingStoreDataFile # <<>>
    /\ config.cacheCapacityBytes \in 1..MaxCapacity
    /\ config.cacheMaxEntryCount > 0
    /\ PowerOfTwo(config.cacheShardCount) /\ config.cacheShardCount <= MaxShards
    /\ config.evictionPolicy = "LeastRecentlyUsed"
    /\ config.writePolicy \in {"WriteThrough", "WriteBackDeferred"}
    /\ config.flushPolicy \in {"Manual", "PeriodicBackground"}
    /\ config.flushPolicy = "PeriodicBackground" => config.flushIntervalSeconds # 0

\* Load succeeds on a file with this content.
Loads(doc) == doc # Cut /\ Required \subseteq DOMAIN doc /\ Validate(FromJson(doc))

\* The service falls back to AppConfig's defaults when Load fails.
Loaded(file) == IF file # NoFile /\ Loads(data[file]) THEN FromJson(data[file]) ELSE Default

\* An AppConfig: its members have the types they are declared with.
IsAppConfig(config) ==
    /\ config = [f \in Fields |-> config[f]]
    /\ \A f \in Texts : config[f] \in Seq(Nat)
    /\ \A f \in Words32 : config[f] \in 0..(Word32 - 1)
    /\ \A f \in Words64 : config[f] \in 0..(Word64 - 1)
    /\ config.minimumLogLevel + Word32 \div 2 \in 0..(Word32 - 1)

\* A document that parses and has no value of the wrong kind: its numbers are any, and
\* its text is UTF-8.
IsDocument(doc) ==
    \A f \in DOMAIN doc :
        /\ f \in Texts => doc[f] \in Seq(0..(Byte - 1)) /\ ValidUtf8(doc[f])
        /\ f \in Words32 \cup Words64 \cup {"minimumLogLevel"} => doc[f] \in Int

\* A config that the narrow text of the document can hold.
Representable(config) == \A f \in Texts : NarrowFromWide(config[f]) = config[f]

ASSUME AppConfigAssumption ==
    /\ Required \cup Texts \cup Words32 \cup Words64 \subseteq Fields
    /\ \A config \in Configs \cup {Default} : IsAppConfig(config)
    /\ \A doc \in Documents : IsDocument(doc)
    /\ Validate(Default) /\ Dumps(Default) /\ Representable(Default)

-----------------------------------------------------------------------------
Init ==
    /\ windows \in BOOLEAN
    /\ target \in {NoFile, 0} /\ onDisk = {target}
    /\ data \in {[i \in Files |-> IF i = 0 THEN doc ELSE Cut] : doc \in Documents \cup {Cut}}
    /\ flushed = {0}
    /\ temp = [i \in Files |-> NoFile]
    /\ pc = [s \in Savers |-> "idle"] /\ arg = [s \in Savers |-> None]
    /\ number = [s \in Savers |-> 0] /\ fd = [s \in Savers |-> NoFile]
    /\ running = None /\ good = {Loaded(target)} /\ overlapped = FALSE
    /\ saves = 0 /\ faults = 0 /\ restarts = 0

-----------------------------------------------------------------------------
(* Save and AtomicallyReplaceFileContents.                                 *)

\* The temporary name has a random suffix on Windows only.
TempName(s) == IF windows THEN number[s] ELSE 0

\* A config that is not valid, or that dump throws on, never gets to the file.
Save(s, config) ==
    /\ pc[s] = "idle" /\ Validate(config) /\ Dumps(config)
    /\ saves < MaxSaves /\ saves' = saves + 1
    /\ pc' = [pc EXCEPT ![s] = "open"]
    /\ arg' = [arg EXCEPT ![s] = config]
    /\ number' = [number EXCEPT ![s] = saves']
    /\ overlapped' = (overlapped \/ (~windows /\ \E r \in Savers \ {s} : pc[r] # "idle"))
    /\ UNCHANGED <<windows, files, fd, running, good, faults, restarts>>

Go(s, where) == pc' = [pc EXCEPT ![s] = where]
\* Return from Save.
Return(s) ==
    /\ Go(s, "idle")
    /\ arg' = [arg EXCEPT ![s] = None] /\ number' = [number EXCEPT ![s] = 0]
    /\ fd' = [fd EXCEPT ![s] = NoFile]

Unlink(s) == temp' = [temp EXCEPT ![TempName(s)] = NoFile]

\* CREATE_ALWAYS and O_TRUNC empty a file that is already there.
OpenTemp(s) ==
    /\ pc[s] = "open"
    /\ \/ LET f == IF temp[TempName(s)] = NoFile THEN number[s] ELSE temp[TempName(s)]
          IN  /\ temp' = [temp EXCEPT ![TempName(s)] = f]
              /\ fd' = [fd EXCEPT ![s] = f]
              /\ data' = [data EXCEPT ![f] = Cut]
              /\ flushed' = flushed \ {f}
              /\ Go(s, "write")
              /\ UNCHANGED <<arg, number, faults>>
       \/ Fault /\ Return(s) /\ UNCHANGED <<temp, data, flushed>>
    /\ UNCHANGED <<windows, target, onDisk, running, good, overlapped, saves, restarts>>

WriteTemp(s) ==
    /\ pc[s] = "write"
    /\ \/ /\ data' = [data EXCEPT ![fd[s]] = ToJson(arg[s])]
          /\ Go(s, "flush")
          /\ UNCHANGED <<temp, arg, number, fd, faults>>
       \/ Fault /\ Unlink(s) /\ Return(s) /\ UNCHANGED data
    /\ flushed' = flushed \ {fd[s]}
    /\ UNCHANGED <<windows, target, onDisk, running, good, overlapped, saves, restarts>>

FlushTemp_Skipped(s) ==
    /\ pc[s] = "flush" /\ Go(s, "rename")
    /\ UNCHANGED <<windows, files, arg, number, fd, running, good, overlapped, bounds>>
FlushTemp(s) ==
    /\ pc[s] = "flush"
    /\ \/ /\ flushed' = flushed \cup {fd[s]}
          /\ Go(s, "rename")
          /\ UNCHANGED <<temp, arg, number, fd, faults>>
       \/ Fault /\ Unlink(s) /\ Return(s) /\ UNCHANGED flushed
    /\ UNCHANGED <<windows, target, data, onDisk, running, good, overlapped, saves, restarts>>

\* The name moves, and on Windows (MOVEFILE_WRITE_THROUGH) is on the disk on return.
Renamed(s, written) ==
    /\ temp[TempName(s)] # NoFile
    /\ target' = temp[TempName(s)] /\ Unlink(s)
    /\ onDisk' = {target'} \cup IF written THEN {} ELSE onDisk
    /\ IF windows THEN Return(s) /\ good' = {arg[s]}
       ELSE Go(s, "sync_directory") /\ good' = good \cup {arg[s]} /\ UNCHANGED <<arg, number, fd>>
    /\ UNCHANGED faults

RenameFails(s) ==
    /\ IF temp[TempName(s)] = NoFile THEN UNCHANGED faults ELSE Fault
    /\ Unlink(s) /\ Return(s)
    /\ UNCHANGED <<target, onDisk, good>>

Rename_NotWrittenThrough(s) ==
    /\ pc[s] = "rename"
    /\ Renamed(s, FALSE) \/ RenameFails(s)
    /\ UNCHANGED <<windows, data, flushed, running, overlapped, saves, restarts>>
Rename(s) ==
    /\ pc[s] = "rename"
    /\ Renamed(s, windows) \/ RenameFails(s)
    /\ UNCHANGED <<windows, data, flushed, running, overlapped, saves, restarts>>

\* Best effort: Save succeeds either way.
SyncDirectory(s) ==
    /\ pc[s] = "sync_directory" /\ Return(s)
    /\ \/ onDisk' = {target} /\ good' = {arg[s]} /\ UNCHANGED faults
       \/ Fault /\ UNCHANGED <<onDisk, good>>
    /\ UNCHANGED <<windows, target, temp, data, flushed, running, overlapped, saves, restarts>>

-----------------------------------------------------------------------------
(* The service.                                                            *)

ServiceStart ==
    /\ running = None /\ running' = Loaded(target)
    /\ UNCHANGED <<windows, files, saver, good, overlapped, bounds>>

End ==
    /\ restarts < MaxRestarts /\ restarts' = restarts + 1
    /\ pc' = [s \in Savers |-> "idle"] /\ arg' = [s \in Savers |-> None]
    /\ number' = [s \in Savers |-> 0] /\ fd' = [s \in Savers |-> NoFile]
    /\ running' = None
    /\ UNCHANGED <<windows, good, overlapped, saves, faults>>

\* The temporary files of the Saves under way stay behind.
ProcessExit == End /\ UNCHANGED files

PowerCut ==
    /\ End
    /\ target' \in onDisk /\ onDisk' = {target'}
    /\ data' \in {data, [i \in Files |-> IF i \in flushed THEN data[i] ELSE Cut]}
    /\ flushed' = Files
    /\ temp' \in {temp, [i \in Files |-> NoFile]}

\* Nothing is left to do within the bounds: a state the system may rest in.
AtRest ==
    /\ \A s \in Savers : pc[s] = "idle"
    /\ saves = MaxSaves /\ running # None
    /\ UNCHANGED vars

Next ==
    \/ \E s \in Savers :
          \/ \E config \in Configs : Save(s, config)
          \/ OpenTemp(s) \/ WriteTemp(s) \/ FlushTemp(s) \/ Rename(s) \/ SyncDirectory(s)
    \/ ServiceStart \/ ProcessExit \/ PowerCut \/ AtRest

Spec == Init /\ [][Next]_vars

-----------------------------------------------------------------------------
(* Properties.                                                             *)

\* "If ANY step fails, the original file is left completely untouched": the file at path_,
\* now and after a power cut at this moment, is the one that was there first, or a whole
\* document that is on the disk.  Two Saves at once may break this on POSIX, where they
\* share one temporary name, not on Windows.
TargetWhole ==
    ~overlapped => \A f \in onDisk \cup {target} :
                      f > 0 => f \in flushed /\ data[f] # Cut

\* "the last known-good configuration must be preserved": whichever Saves failed or were
\* interrupted before, the service starts with the last config whose Save succeeded, and
\* with nothing but that unless a rename is not on the disk yet (POSIX).  Text beyond one
\* byte is lost in the conversion.
StartFindsLastGood ==
    [][ServiceStart /\ ~overlapped /\ (\A c \in good : Representable(c)) => running' \in good]_vars

\* "SaveThenLoad_RoundTripsExactly": whatever the service has loaded (numbers that wrapped,
\* fields that were missing, text that is not ASCII), saving it succeeds and loads the same.
RunningRoundTrips ==
    running # None => /\ Validate(running) /\ Dumps(running)
                      /\ Loads(ToJson(running)) /\ FromJson(ToJson(running)) = running
=============================================================================
