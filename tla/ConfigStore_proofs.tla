------------------------- MODULE ConfigStore_proofs -------------------------
(***************************************************************************)
(* Proofs about the configuration file: Saves that share no temporary name *)
(* replace it whole, the service starts with the last good configuration,  *)
(* and what it has loaded can be saved and loaded again.                   *)
(***************************************************************************)
EXTENDS ConfigStore, TLAPS

-----------------------------------------------------------------------------
(* The inductive invariant.                                                *)

\* What Save lets through.
Saved == {config \in Configs : Validate(config) /\ Dumps(config)}

Content == {Cut} \cup Documents \cup {ToJson(config) : config \in Saved}

ConfigTypes ==
    /\ windows \in BOOLEAN /\ overlapped \in BOOLEAN
    /\ target \in Files \cup {NoFile} /\ onDisk \subseteq Files \cup {NoFile}
    /\ temp \in [Files -> (1..MaxSaves) \cup {NoFile}]
    /\ data \in [Files -> Content]
    /\ pc \in [Savers -> {"idle", "open", "write", "flush", "rename", "sync_directory"}]
    /\ arg \in [Savers -> Saved \cup {None}]
    /\ number \in [Savers -> Files] /\ fd \in [Savers -> Files \cup {NoFile}]
    /\ saves \in Files
    /\ \A s \in Savers : pc[s] # "idle" => number[s] \in 1..saves /\ arg[s] \in Saved
    /\ \A s \in Savers : pc[s] \in {"write", "flush"} => fd[s] \in 1..MaxSaves

\* The files that are at path_, now or after a power cut.
Placed == onDisk \cup {target}

\* Saves that run at once use different names.
Apart ==
    \A s, r \in Savers : s # r /\ pc[s] # "idle" /\ pc[r] # "idle"
                           => windows /\ number[s] # number[r]

\* A file with a temporary name is not at path_.
NameHolds(i) ==
    temp[i] # NoFile => /\ temp[i] \in 1..saves /\ temp[i] \notin Placed
                        /\ IF windows THEN temp[i] = i ELSE i = 0

\* A Save that is about to open its file will not find it in use; from then on the file has
\* the temporary name, and what is renamed is written and on the disk.
SaverHolds(s) ==
    /\ pc[s] = "open" => number[s] \notin Placed /\ \A i \in Files : temp[i] # number[s]
    /\ pc[s] \in {"write", "flush", "rename"} => fd[s] # NoFile /\ fd[s] = temp[TempName(s)]
    /\ pc[s] \in {"flush", "rename"} => data[fd[s]] = ToJson(arg[s])
    /\ pc[s] = "rename" => fd[s] \in flushed
    /\ pc[s] = "sync_directory" => ~windows /\ target > 0 /\ data[target] = ToJson(arg[s])

\* A file that is at path_ is on the disk and holds a configuration that Load may return.
PlacedHolds(f) ==
    /\ f <= saves
    /\ f > 0 => f \in flushed /\ \E config \in good \cap Saved : data[f] = ToJson(config)
    /\ f <= 0 => Loaded(f) \in good

Unshared ==
    /\ Apart
    /\ 0 \in flushed
    /\ \A i \in Files : NameHolds(i)
    /\ \A s \in Savers : SaverHolds(s)
    /\ \A f \in Placed : PlacedHolds(f)

StoreInv == ConfigTypes /\ (~overlapped => Unshared)

-----------------------------------------------------------------------------
(* Types.                                                                  *)

\* The name of a Save's temporary file is one of those there are.
LEMMA NameInFiles ==
    ASSUME ConfigTypes, NEW s \in Savers, pc[s] # "idle"
    PROVE  /\ TempName(s) \in Files /\ number[s] \in 1..saves /\ number[s] \in 1..MaxSaves
           /\ saves \in Nat /\ saves <= MaxSaves
<1>1. number[s] \in 1..saves /\ saves \in Files /\ windows \in BOOLEAN
  BY DEF ConfigTypes
<1>2. saves \in Nat /\ saves <= MaxSaves /\ number[s] \in 1..MaxSaves
  BY <1>1, ConfigAssumption DEF Files
<1> QED
  BY <1>1, <1>2, ConfigAssumption DEF TempName, Files

\* Save returns, having done with the name what it has.
LEMMA ReturnKeepsTypes ==
    ASSUME ConfigTypes, NEW s \in Savers, Return(s), overlapped' = overlapped,
           target' \in Files \cup {NoFile}, onDisk' \subseteq Files \cup {NoFile},
           temp' \in [Files -> (1..MaxSaves) \cup {NoFile}], data' \in [Files -> Content],
           UNCHANGED <<windows, saves>>
    PROVE  ConfigTypes'
<1>1. 0 \in Files
  BY ConfigAssumption DEF Files
<1>2. /\ pc'[s] = "idle"
      /\ \A r \in Savers \ {s} : /\ pc'[r] = pc[r] /\ arg'[r] = arg[r]
                                 /\ number'[r] = number[r] /\ fd'[r] = fd[r]
  BY DEF ConfigTypes, Return, Go
<1>3. /\ pc' \in [Savers -> {"idle", "open", "write", "flush", "rename", "sync_directory"}]
      /\ arg' \in [Savers -> Saved \cup {None}]
      /\ number' \in [Savers -> Files] /\ fd' \in [Savers -> Files \cup {NoFile}]
  BY <1>1 DEF ConfigTypes, Return, Go
<1>4. \A r \in Savers : pc'[r] # "idle" => number'[r] \in 1..saves /\ arg'[r] \in Saved
  BY <1>2 DEF ConfigTypes
<1>5. \A r \in Savers : pc'[r] \in {"write", "flush"} => fd'[r] \in 1..MaxSaves
  BY <1>2 DEF ConfigTypes
<1> QED
  BY <1>3, <1>4, <1>5 DEF ConfigTypes

\* Taking a temporary name away.
LEMMA UnlinkTypes ==
    ASSUME ConfigTypes, NEW s \in Savers, Unlink(s)
    PROVE  temp' \in [Files -> (1..MaxSaves) \cup {NoFile}]
BY DEF ConfigTypes, Unlink

\* A Save begins, with a number that no Save had before.
LEMMA SaveKeepsTypes ==
    ASSUME ConfigTypes, NEW s \in Savers, NEW config \in Configs, Save(s, config)
    PROVE  ConfigTypes'
<1>1. /\ saves < MaxSaves /\ saves' = saves + 1 /\ config \in Saved
      /\ pc' = [pc EXCEPT ![s] = "open"] /\ arg' = [arg EXCEPT ![s] = config]
      /\ number' = [number EXCEPT ![s] = saves'] /\ overlapped' \in BOOLEAN
      /\ UNCHANGED <<windows, target, temp, data, onDisk, fd>>
  BY DEF Save, Saved, files
<1>2. saves' \in Files /\ saves \in Nat /\ saves' \in 1..saves'
  BY <1>1, ConfigAssumption DEF ConfigTypes, Files
<1>3. ASSUME NEW r \in Savers, pc'[r] # "idle"
      PROVE  number'[r] \in 1..saves' /\ arg'[r] \in Saved
  <2>1. CASE r = s
    BY <1>1, <1>2, <2>1 DEF ConfigTypes
  <2>2. CASE r # s
    <3>1. number[r] \in 1..saves /\ arg[r] \in Saved
      BY <1>1, <1>3, <2>2 DEF ConfigTypes
    <3> QED BY <1>1, <1>2, <2>2, <3>1 DEF ConfigTypes
  <2> QED BY <2>1, <2>2
<1>4. \A r \in Savers : pc'[r] \in {"write", "flush"} => fd'[r] \in 1..MaxSaves
  BY <1>1 DEF ConfigTypes
<1>5. /\ pc' \in [Savers -> {"idle", "open", "write", "flush", "rename", "sync_directory"}]
      /\ arg' \in [Savers -> Saved \cup {None}] /\ number' \in [Savers -> Files]
  BY <1>1, <1>2 DEF ConfigTypes
<1> QED
  BY <1>1, <1>2, <1>3, <1>4, <1>5 DEF ConfigTypes

\* The file that OpenTemp opens.
Opened(s) == IF temp[TempName(s)] = NoFile THEN number[s] ELSE temp[TempName(s)]

\* A Save opens its temporary file, which is never the first file.
LEMMA OpenTempKeepsTypes ==
    ASSUME ConfigTypes, NEW s \in Savers, OpenTemp(s)
    PROVE  ConfigTypes' /\ Opened(s) \in 1..MaxSaves
<1>0. pc[s] = "open" /\ UNCHANGED <<windows, target, onDisk, overlapped, saves>>
  BY DEF OpenTemp
<1>1. TempName(s) \in Files /\ number[s] \in 1..saves /\ number[s] \in 1..MaxSaves
  BY <1>0, NameInFiles
<1>2. Opened(s) \in 1..MaxSaves /\ Opened(s) \in Files
  <2>1. temp[TempName(s)] \in (1..MaxSaves) \cup {NoFile}
    BY <1>1 DEF ConfigTypes
  <2>2. Opened(s) \in 1..MaxSaves
    BY <1>1, <2>1 DEF Opened
  <2> QED BY <2>2, ConfigAssumption DEF Files
<1>3. CASE /\ temp' = [temp EXCEPT ![TempName(s)] = Opened(s)]
           /\ fd' = [fd EXCEPT ![s] = Opened(s)]
           /\ data' = [data EXCEPT ![Opened(s)] = Cut]
           /\ Go(s, "write") /\ UNCHANGED <<arg, number>>
  <2>1. /\ pc' = [pc EXCEPT ![s] = "write"] /\ Cut \in Content
    BY <1>3 DEF Go, Content
  <2>2. /\ temp' \in [Files -> (1..MaxSaves) \cup {NoFile}] /\ data' \in [Files -> Content]
        /\ fd' \in [Savers -> Files \cup {NoFile}]
        /\ pc' \in [Savers -> {"idle", "open", "write", "flush", "rename", "sync_directory"}]
    BY <1>2, <1>3, <2>1 DEF ConfigTypes
  <2>3. \A r \in Savers : pc'[r] # "idle" => number'[r] \in 1..saves' /\ arg'[r] \in Saved
    BY <1>0, <1>3, <2>1 DEF ConfigTypes
  <2>4. \A r \in Savers : pc'[r] \in {"write", "flush"} => fd'[r] \in 1..MaxSaves
    BY <1>2, <1>3, <2>1 DEF ConfigTypes
  <2> QED BY <1>0, <1>2, <1>3, <2>2, <2>3, <2>4 DEF ConfigTypes
<1>4. CASE Return(s) /\ UNCHANGED <<temp, data>>
  BY <1>0, <1>2, <1>4, ReturnKeepsTypes DEF ConfigTypes
<1> QED
  BY <1>3, <1>4 DEF OpenTemp, Opened

\* Save goes on to its next step.
LEMMA GoKeepsTypes ==
    ASSUME ConfigTypes, NEW s \in Savers, pc[s] # "idle",
           NEW where \in {"flush", "rename", "sync_directory"}, Go(s, where),
           where = "flush" => fd[s] \in 1..MaxSaves,
           target' \in Files \cup {NoFile}, onDisk' \subseteq Files \cup {NoFile},
           temp' \in [Files -> (1..MaxSaves) \cup {NoFile}], data' \in [Files -> Content],
           UNCHANGED <<windows, overlapped, saves, arg, number, fd>>
    PROVE  ConfigTypes'
<1>1. pc' = [pc EXCEPT ![s] = where]
  BY DEF Go
<1>2. pc' \in [Savers -> {"idle", "open", "write", "flush", "rename", "sync_directory"}]
  BY <1>1 DEF ConfigTypes
<1>3. \A r \in Savers : pc'[r] # "idle" => number'[r] \in 1..saves' /\ arg'[r] \in Saved
  BY <1>1 DEF ConfigTypes
<1>4. \A r \in Savers : pc'[r] \in {"write", "flush"} => fd'[r] \in 1..MaxSaves
  BY <1>1 DEF ConfigTypes
<1> QED
  BY <1>2, <1>3, <1>4 DEF ConfigTypes

\* A Save writes or flushes the file it has open.
LEMMA WriteFlushKeepTypes ==
    ASSUME ConfigTypes, NEW s \in Savers, WriteTemp(s) \/ FlushTemp(s)
    PROVE  ConfigTypes'
<1>0. /\ pc[s] \in {"write", "flush"}
      /\ UNCHANGED <<windows, target, onDisk, overlapped, saves>>
  BY DEF WriteTemp, FlushTemp
<1>1. fd[s] \in 1..MaxSaves /\ arg[s] \in Saved /\ fd[s] \in Files
  BY <1>0, ConfigAssumption DEF ConfigTypes, Files
<1>2. CASE Unlink(s) /\ Return(s) /\ UNCHANGED data
  BY <1>0, <1>2, ReturnKeepsTypes, UnlinkTypes DEF ConfigTypes
<1>3. CASE /\ data' = [data EXCEPT ![fd[s]] = ToJson(arg[s])] /\ Go(s, "flush")
           /\ UNCHANGED <<temp, arg, number, fd>>
  <2>1. data' \in [Files -> Content]
    <3>1. ToJson(arg[s]) \in Content
      BY <1>1 DEF Content
    <3> QED BY <1>1, <1>3, <3>1 DEF ConfigTypes
  <2> QED BY <1>0, <1>1, <1>3, <2>1, GoKeepsTypes DEF ConfigTypes
<1>4. CASE Go(s, "rename") /\ UNCHANGED <<temp, data, arg, number, fd>>
  BY <1>0, <1>4, GoKeepsTypes DEF ConfigTypes
<1>5. \/ Unlink(s) /\ Return(s) /\ UNCHANGED data
      \/ /\ data' = [data EXCEPT ![fd[s]] = ToJson(arg[s])] /\ Go(s, "flush")
         /\ UNCHANGED <<temp, arg, number, fd>>
      \/ Go(s, "rename") /\ UNCHANGED <<temp, data, arg, number, fd>>
  BY DEF WriteTemp, FlushTemp
<1> QED
  BY <1>2, <1>3, <1>4, <1>5

\* A Save moves its file to path_, or gives up.
LEMMA RenameKeepsTypes ==
    ASSUME ConfigTypes, NEW s \in Savers, Rename(s)
    PROVE  ConfigTypes'
<1>0. pc[s] = "rename" /\ UNCHANGED <<windows, data, overlapped, saves>>
  BY DEF Rename
<1>1. TempName(s) \in Files
  BY <1>0, NameInFiles
<1>2. CASE Renamed(s, windows)
  <2>1. /\ temp[TempName(s)] # NoFile /\ target' = temp[TempName(s)] /\ Unlink(s)
        /\ onDisk' \subseteq {target'} \cup onDisk
    BY <1>2 DEF Renamed
  <2>2. target' \in Files /\ onDisk' \subseteq Files \cup {NoFile}
    <3>1. temp[TempName(s)] \in 1..MaxSaves
      BY <1>1, <2>1 DEF ConfigTypes
    <3>2. target' \in Files
      BY <2>1, <3>1, ConfigAssumption DEF Files
    <3> QED BY <2>1, <3>2 DEF ConfigTypes
  <2>3. temp' \in [Files -> (1..MaxSaves) \cup {NoFile}]
    BY <2>1, UnlinkTypes
  <2>4. CASE Return(s)
    BY <1>0, <2>2, <2>3, <2>4, ReturnKeepsTypes DEF ConfigTypes
  <2>5. CASE Go(s, "sync_directory") /\ UNCHANGED <<arg, number, fd>>
    BY <1>0, <2>2, <2>3, <2>5, GoKeepsTypes DEF ConfigTypes
  <2> QED BY <1>2, <2>4, <2>5 DEF Renamed
<1>3. CASE RenameFails(s)
  <2>1. Unlink(s) /\ Return(s) /\ UNCHANGED <<target, onDisk>>
    BY <1>3 DEF RenameFails
  <2> QED BY <1>0, <2>1, ReturnKeepsTypes, UnlinkTypes DEF ConfigTypes
<1> QED
  BY <1>2, <1>3 DEF Rename

\* A Save flushes the directory.
LEMMA SyncKeepsTypes ==
    ASSUME ConfigTypes, NEW s \in Savers, SyncDirectory(s)
    PROVE  ConfigTypes'
<1>1. /\ Return(s) /\ onDisk' \in {onDisk, {target}}
      /\ UNCHANGED <<windows, target, temp, data, overlapped, saves>>
  BY DEF SyncDirectory
<1> QED
  BY <1>1, ReturnKeepsTypes DEF ConfigTypes

\* The process ends, with or without the power.
LEMMA EndKeepsTypes ==
    ASSUME ConfigTypes, ProcessExit \/ PowerCut
    PROVE  ConfigTypes'
<1>1. End /\ UNCHANGED <<windows, overlapped, saves>>
  BY DEF ProcessExit, PowerCut, End
<1>2. 0 \in Files
  BY ConfigAssumption DEF Files
<1>3. /\ target' \in Files \cup {NoFile} /\ onDisk' \subseteq Files \cup {NoFile}
      /\ temp' \in [Files -> (1..MaxSaves) \cup {NoFile}] /\ data' \in [Files -> Content]
  <2>1. CASE ProcessExit
    BY <2>1 DEF ProcessExit, ConfigTypes, files
  <2>2. CASE PowerCut
    <3>1. target' \in onDisk /\ onDisk' = {target'}
      BY <2>2 DEF PowerCut
    <3>2. temp' \in [Files -> (1..MaxSaves) \cup {NoFile}]
      BY <2>2 DEF PowerCut, ConfigTypes
    <3>3. data' \in [Files -> Content]
      <4>1. data' \in {data, [i \in Files |-> IF i \in flushed THEN data[i] ELSE Cut]}
        BY <2>2 DEF PowerCut
      <4>2. Cut \in Content
        BY DEF Content
      <4>3. [i \in Files |-> IF i \in flushed THEN data[i] ELSE Cut] \in [Files -> Content]
        BY <4>2 DEF ConfigTypes
      <4> QED BY <4>1, <4>3 DEF ConfigTypes
    <3> QED BY <3>1, <3>2, <3>3 DEF ConfigTypes
  <2> QED BY <2>1, <2>2
<1>4. /\ pc' = [s \in Savers |-> "idle"] /\ arg' = [s \in Savers |-> None]
      /\ number' = [s \in Savers |-> 0] /\ fd' = [s \in Savers |-> NoFile]
  BY <1>1 DEF End
<1>5. /\ \A s \in Savers : pc'[s] = "idle"
      /\ pc' \in [Savers -> {"idle", "open", "write", "flush", "rename", "sync_directory"}]
      /\ arg' \in [Savers -> Saved \cup {None}]
      /\ number' \in [Savers -> Files] /\ fd' \in [Savers -> Files \cup {NoFile}]
  BY <1>2, <1>4
<1> QED
  BY <1>1, <1>3, <1>5 DEF ConfigTypes

-----------------------------------------------------------------------------
(* Saves that share no name.                                               *)

\* The file of a Save: the one it will open, or has open.
Own(s) == IF pc[s] = "open" THEN Opened(s) ELSE fd[s]

Busy == {"open", "write", "flush", "rename"}

\* It is not at path_, and is no other Save's.
LEMMA OwnFacts ==
    ASSUME ConfigTypes, Unshared, NEW s \in Savers, pc[s] \in Busy
    PROVE  /\ Own(s) \in 1..saves /\ Own(s) \notin Placed
           /\ windows => Own(s) = number[s]
           /\ temp[TempName(s)] \in {NoFile, Own(s)}
           /\ \A r \in Savers \ {s} :
                 /\ pc[r] # "idle" => TempName(r) # TempName(s)
                 /\ pc[r] \in {"write", "flush", "rename"} => fd[r] # Own(s)
                 /\ pc[r] = "open" => number[r] # Own(s)
<1>0. pc[s] # "idle"
  BY DEF Busy
<1>1. TempName(s) \in Files /\ number[s] \in 1..saves
  BY <1>0, NameInFiles
<1>2. NameHolds(TempName(s)) /\ SaverHolds(s)
  BY <1>1 DEF Unshared
<1>3. /\ Own(s) \in 1..saves /\ Own(s) \notin Placed
      /\ windows => Own(s) = number[s]
      /\ temp[TempName(s)] \in {NoFile, Own(s)}
  <2>1. CASE pc[s] = "open"
    <3>1. /\ number[s] \notin Placed /\ temp[TempName(s)] # number[s]
      BY <1>1, <1>2, <2>1 DEF SaverHolds
    <3>2. CASE temp[TempName(s)] = NoFile
      BY <1>1, <2>1, <3>1, <3>2 DEF Own, Opened
    <3>3. CASE temp[TempName(s)] # NoFile
      BY <1>2, <2>1, <3>1, <3>3 DEF Own, Opened, NameHolds, TempName
    <3> QED BY <3>2, <3>3
  <2>2. CASE pc[s] # "open"
    <3>1. fd[s] # NoFile /\ fd[s] = temp[TempName(s)] /\ Own(s) = fd[s]
      BY <1>2, <2>2 DEF SaverHolds, Own, Busy
    <3> QED BY <1>2, <3>1 DEF NameHolds, TempName
  <2> QED BY <2>1, <2>2
<1>4. ASSUME NEW r \in Savers \ {s}, pc[r] # "idle"
      PROVE  /\ windows /\ number[r] # number[s] /\ TempName(r) = number[r]
             /\ TempName(s) = number[s] /\ number[r] \in Files
  <2>1. windows /\ number[r] # number[s]
    BY <1>0, <1>4 DEF Unshared, Apart
  <2> QED BY <2>1 DEF TempName, ConfigTypes
<1>5. ASSUME NEW r \in Savers \ {s}, pc[r] \in {"write", "flush", "rename"}
      PROVE  fd[r] # Own(s)
  <2>1. fd[r] # NoFile /\ fd[r] = temp[TempName(r)]
    BY <1>5 DEF Unshared, SaverHolds
  <2>2. windows /\ number[r] # number[s] /\ TempName(r) = number[r] /\ number[r] \in Files
    BY <1>4, <1>5
  <2>3. fd[r] = number[r]
    BY <2>1, <2>2 DEF Unshared, NameHolds
  <2> QED BY <1>3, <2>2, <2>3
<1>6. ASSUME NEW r \in Savers \ {s}, pc[r] = "open" PROVE number[r] # Own(s)
  BY <1>3, <1>4, <1>6
<1> QED
  BY <1>3, <1>4, <1>5, <1>6

\* A step of s that concerns its own file and its own name only: others are not disturbed.
LEMMA SaverStepKeeps ==
    ASSUME ConfigTypes, Unshared, NEW s \in Savers, pc[s] \in Busy, NEW f, f = Own(s),
           UNCHANGED <<windows, saves>>,
           \A r \in Savers \ {s} : /\ pc'[r] = pc[r] /\ arg'[r] = arg[r]
                                   /\ number'[r] = number[r] /\ fd'[r] = fd[r],
           number'[s] = number[s] \/ pc'[s] = "idle",
           \A i \in Files \ {TempName(s)} : temp'[i] = temp[i],
           temp'[TempName(s)] = NoFile \/ (temp'[TempName(s)] = f /\ f \notin Placed'),
           \A g \in Files \ {f} : data'[g] = data[g] /\ (g \in flushed => g \in flushed'),
           Placed' \subseteq Placed \cup {f},
           SaverHolds(s)', \A g \in Placed' : PlacedHolds(g)'
    PROVE  Unshared'
<1>0. pc[s] # "idle"
  BY DEF Busy
<1>1. TempName(s) \in Files /\ saves \in Nat
  BY <1>0, NameInFiles
<1>2. /\ f \in 1..saves /\ f \notin Placed /\ (windows => f = number[s])
      /\ \A r \in Savers \ {s} :
            /\ pc[r] # "idle" => TempName(r) # TempName(s)
            /\ pc[r] \in {"write", "flush", "rename"} => fd[r] # f
            /\ pc[r] = "open" => number[r] # f
  BY OwnFacts
<1>3. Apart'
  BY <1>0 DEF Unshared, Apart
<1>4. 0 \in flushed'
  <2>1. 0 \in Files \ {f}
    BY <1>2, ConfigAssumption DEF Files
  <2> QED BY <2>1 DEF Unshared
<1>5. ASSUME NEW i \in Files PROVE NameHolds(i)'
  <2>1. CASE i = TempName(s)
    <3>1. IF windows THEN f = i ELSE i = 0
      BY <1>2, <2>1 DEF TempName
    <3> QED BY <1>2, <2>1, <3>1 DEF NameHolds
  <2>2. CASE i # TempName(s)
    <3>1. temp'[i] = temp[i] /\ NameHolds(i)
      BY <2>2 DEF Unshared
    <3>2. temp[i] # NoFile => temp[i] # f
      BY <1>2, <2>2, <3>1 DEF NameHolds, TempName
    <3> QED BY <3>1, <3>2 DEF NameHolds
  <2> QED BY <2>1, <2>2
<1>6. ASSUME NEW r \in Savers \ {s} PROVE SaverHolds(r)'
  <2>0. SaverHolds(r) /\ TempName(r)' = TempName(r)
    BY DEF Unshared, TempName
  <2>1. CASE pc[r] = "idle"
    BY <2>1 DEF SaverHolds
  <2>2. CASE pc[r] = "open"
    <3>1. number[r] \notin Placed'
      BY <1>2, <2>0, <2>2 DEF SaverHolds
    <3>2. \A i \in Files : temp'[i] # number[r]
      <4>1. number[r] # NoFile
        <5>1. number[r] \in 1..saves
          BY <2>2, NameInFiles
        <5> QED BY <1>1, <5>1 DEF NoFile
      <4> QED BY <1>2, <2>0, <2>2, <4>1 DEF SaverHolds
    <3> QED BY <2>2, <3>1, <3>2 DEF SaverHolds
  <2>3. CASE pc[r] \in {"write", "flush", "rename"}
    <3>1. TempName(r) \in Files /\ TempName(r) # TempName(s) /\ fd[r] # f
      BY <1>2, <2>3, NameInFiles
    <3>2. fd[r] \in Files
      BY <2>0, <2>3 DEF SaverHolds, ConfigTypes
    <3> QED BY <2>0, <2>3, <3>1, <3>2 DEF SaverHolds
  <2>4. CASE pc[r] = "sync_directory"
    BY <1>0, <2>0, <2>4 DEF SaverHolds, Unshared, Apart
  <2> QED BY <2>1, <2>2, <2>3, <2>4 DEF ConfigTypes
<1> QED
  BY <1>3, <1>4, <1>5, <1>6 DEF Unshared

\* What is at path_ stays as it is while a file that is not there changes.
LEMMA PlacedStays ==
    ASSUME ConfigTypes, Unshared, NEW f, f \notin Placed, f # 0,
           UNCHANGED saves, good \subseteq good',
           \A g \in Files \ {f} : data'[g] = data[g] /\ (g \in flushed => g \in flushed')
    PROVE  \A g \in Placed : PlacedHolds(g)'
<1> SUFFICES ASSUME NEW g \in Placed PROVE PlacedHolds(g)'
  OBVIOUS
<1>1. PlacedHolds(g) /\ g \in Files \cup {NoFile}
  BY DEF Unshared, Placed, ConfigTypes
<1>2. g \in Files => data'[g] = data[g] /\ (g \in flushed => g \in flushed')
  OBVIOUS
<1>3. g > 0 => g \in Files
  BY <1>1 DEF NoFile
<1>4. Loaded(g)' = Loaded(g)
  <2>1. CASE g = NoFile
    BY <2>1 DEF Loaded
  <2>2. CASE g \in Files
    BY <1>2, <2>2 DEF Loaded
  <2> QED BY <1>1, <2>1, <2>2
<1> QED
  BY <1>1, <1>2, <1>3, <1>4 DEF PlacedHolds

\* A Save begins, and the file it will make is not there yet.
LEMMA SaveKeepsUnshared ==
    ASSUME ConfigTypes, ~overlapped => Unshared, NEW s \in Savers, NEW config \in Configs,
           Save(s, config), ~overlapped'
    PROVE  Unshared'
<1>1. /\ pc[s] = "idle" /\ saves' = saves + 1 /\ saves < MaxSaves
      /\ pc' = [pc EXCEPT ![s] = "open"] /\ arg' = [arg EXCEPT ![s] = config]
      /\ number' = [number EXCEPT ![s] = saves']
      /\ UNCHANGED <<windows, target, temp, data, flushed, onDisk, fd, good>>
      /\ ~overlapped /\ (~windows => \A r \in Savers \ {s} : pc[r] = "idle")
  BY DEF Save, files
<1>2. Unshared
  BY <1>1
<1>3. /\ pc'[s] = "open" /\ number'[s] = saves + 1
      /\ \A r \in Savers \ {s} : /\ pc'[r] = pc[r] /\ arg'[r] = arg[r]
                                 /\ number'[r] = number[r] /\ fd'[r] = fd[r]
  BY <1>1 DEF ConfigTypes
<1>4. saves \in Nat /\ Placed' = Placed /\ 0 \in flushed'
  BY <1>1, <1>2, ConfigAssumption DEF ConfigTypes, Files, Placed, Unshared
<1>5. Apart'
  <2>1. \A r \in Savers \ {s} : pc[r] # "idle" => windows /\ number[r] # saves + 1
    <3> SUFFICES ASSUME NEW r \in Savers \ {s}, pc[r] # "idle"
                 PROVE  windows /\ number[r] # saves + 1
      OBVIOUS
    <3>1. number[r] \in 1..saves
      BY NameInFiles
    <3> QED BY <1>1, <1>4, <3>1
  <2> QED BY <1>1, <1>2, <1>3, <2>1 DEF Unshared, Apart
<1>6. ASSUME NEW i \in Files PROVE NameHolds(i)' /\ temp[i] # saves + 1
  <2>1. NameHolds(i)
    BY <1>2 DEF Unshared
  <2>2. temp[i] # NoFile => temp[i] \in 1..saves' /\ temp[i] # saves + 1
    BY <1>1, <1>4, <2>1 DEF NameHolds
  <2>3. NoFile # saves + 1
    BY <1>4 DEF NoFile
  <2> QED BY <1>1, <1>4, <2>1, <2>2, <2>3 DEF NameHolds
<1>7. ASSUME NEW g \in Placed PROVE PlacedHolds(g)' /\ g # saves + 1
  <2>1. PlacedHolds(g) /\ g \in Files \cup {NoFile}
    BY <1>2 DEF Unshared, Placed, ConfigTypes
  <2>2. g \in Int
    BY <2>1, ConfigAssumption DEF Files, NoFile
  <2>3. g <= saves /\ g <= saves' /\ g # saves + 1
    BY <1>1, <1>4, <2>1, <2>2 DEF PlacedHolds
  <2>4. Loaded(g)' = Loaded(g)
    BY <1>1 DEF Loaded
  <2> QED BY <1>1, <2>1, <2>3, <2>4 DEF PlacedHolds
<1>8. ASSUME NEW r \in Savers PROVE SaverHolds(r)'
  <2>1. CASE r = s
    BY <1>1, <1>3, <1>4, <1>6, <1>7, <2>1 DEF SaverHolds
  <2>2. CASE r # s
    <3>1. SaverHolds(r) /\ TempName(r)' = TempName(r)
      BY <1>1, <1>2, <1>3, <2>2 DEF Unshared, TempName
    <3> QED BY <1>1, <1>3, <1>4, <2>2, <3>1 DEF SaverHolds
  <2> QED BY <2>1, <2>2
<1> QED
  BY <1>4, <1>5, <1>6, <1>7, <1>8 DEF Unshared

\* What Go and Return leave of the others.
LEMMA OtherSavers ==
    ASSUME ConfigTypes, NEW s \in Savers,
           \/ Return(s)
           \/ \E where : Go(s, where) /\ UNCHANGED <<arg, number, fd>>
           \/ Go(s, "write") /\ UNCHANGED <<arg, number>>
              /\ \E f : fd' = [fd EXCEPT ![s] = f]
    PROVE  /\ \A r \in Savers \ {s} : /\ pc'[r] = pc[r] /\ arg'[r] = arg[r]
                                      /\ number'[r] = number[r] /\ fd'[r] = fd[r]
           /\ number'[s] = number[s] \/ pc'[s] = "idle"
BY DEF ConfigTypes, Return, Go

\* The Save fails at s's step: it returns, and its name is taken away if it had one.
LEMMA FailingKeepsUnshared ==
    ASSUME ConfigTypes, Unshared, NEW s \in Savers, pc[s] \in Busy, Return(s),
           UNCHANGED <<windows, saves, target, onDisk, data, good>>,
           Unlink(s) \/ UNCHANGED temp,
           \A g \in flushed : g = Own(s) \/ g \in flushed'
    PROVE  Unshared'
<1>0. pc[s] # "idle"
  BY DEF Busy
<1>1. TempName(s) \in Files /\ saves \in Nat
  BY <1>0, NameInFiles
<1>2. /\ Own(s) \in 1..saves /\ Own(s) \notin Placed
      /\ temp[TempName(s)] \in {NoFile, Own(s)}
  BY OwnFacts
<1>3. Placed' = Placed /\ Own(s) # 0
  BY <1>1, <1>2 DEF Placed
<1>4. /\ \A i \in Files \ {TempName(s)} : temp'[i] = temp[i]
      /\ temp'[TempName(s)] \in {NoFile, Own(s)}
  BY <1>1, <1>2 DEF Unlink, ConfigTypes
<1>5. SaverHolds(s)'
  BY DEF SaverHolds, Return, Go, ConfigTypes
<1>6. \A g \in Placed' : PlacedHolds(g)'
  BY <1>2, <1>3, PlacedStays
<1>7. /\ \A r \in Savers \ {s} : /\ pc'[r] = pc[r] /\ arg'[r] = arg[r]
                                 /\ number'[r] = number[r] /\ fd'[r] = fd[r]
      /\ number'[s] = number[s] \/ pc'[s] = "idle"
  BY OtherSavers
<1> DEFINE f == Own(s)
<1>8. /\ temp'[TempName(s)] = NoFile \/ (temp'[TempName(s)] = f /\ f \notin Placed')
      /\ \A g \in Files \ {f} : data'[g] = data[g] /\ (g \in flushed => g \in flushed')
      /\ Placed' \subseteq Placed \cup {f} /\ f = Own(s)
  BY <1>2, <1>3, <1>4
<1> HIDE DEF f
<1> QED
  BY <1>4, <1>5, <1>6, <1>7, <1>8, SaverStepKeeps

\* What a Save empties on opening is not at path_ and is nobody else's.
LEMMA OpenTempKeepsUnshared ==
    ASSUME ConfigTypes, Unshared, NEW s \in Savers, OpenTemp(s)
    PROVE  Unshared'
<1>0. /\ pc[s] = "open" /\ pc[s] \in Busy /\ pc[s] # "idle"
      /\ UNCHANGED <<windows, target, onDisk, good, saves>>
  BY DEF OpenTemp, Busy
<1> DEFINE f == Own(s)
<1>1. f = Opened(s)
  BY <1>0 DEF Own
<1>2. /\ f \in 1..saves /\ f \notin Placed
      /\ TempName(s) \in Files /\ saves \in Nat /\ f \in Files
  <2>1. f \in 1..saves /\ f \notin Placed
    BY <1>0, OwnFacts
  <2>2. TempName(s) \in Files /\ saves \in Nat /\ saves <= MaxSaves
    BY <1>0, NameInFiles
  <2> QED BY <2>1, <2>2, ConfigAssumption DEF Files
<1>3. CASE /\ temp' = [temp EXCEPT ![TempName(s)] = f]
           /\ fd' = [fd EXCEPT ![s] = f] /\ data' = [data EXCEPT ![f] = Cut]
           /\ flushed' = flushed \ {f} /\ Go(s, "write") /\ UNCHANGED <<arg, number>>
  <2> HIDE DEF f
  <2>1. /\ \A r \in Savers \ {s} : /\ pc'[r] = pc[r] /\ arg'[r] = arg[r]
                                   /\ number'[r] = number[r] /\ fd'[r] = fd[r]
        /\ number'[s] = number[s] \/ pc'[s] = "idle"
    BY <1>3, OtherSavers
  <2>2. /\ \A i \in Files \ {TempName(s)} : temp'[i] = temp[i]
        /\ temp'[TempName(s)] = f
        /\ \A g \in Files \ {f} : data'[g] = data[g] /\ (g \in flushed => g \in flushed')
    BY <1>2, <1>3 DEF ConfigTypes
  <2>3. Placed' = Placed /\ f # 0 /\ f # NoFile
    BY <1>0, <1>2 DEF Placed, NoFile
  <2>4. SaverHolds(s)'
    <3>1. pc'[s] = "write" /\ fd'[s] = f /\ TempName(s)' = TempName(s)
      BY <1>0, <1>3 DEF ConfigTypes, Go, TempName
    <3> QED BY <2>2, <2>3, <3>1 DEF SaverHolds
  <2>5. \A g \in Placed' : PlacedHolds(g)'
    BY <1>0, <1>2, <2>2, <2>3, PlacedStays
  <2>6. f = Own(s) /\ Placed' \subseteq Placed \cup {f} /\ f \notin Placed'
    BY <1>2, <2>3 DEF f
  <2> QED BY <1>0, <2>1, <2>2, <2>4, <2>5, <2>6, SaverStepKeeps
<1>4. CASE Return(s) /\ UNCHANGED <<temp, data, flushed>>
  BY <1>0, <1>4, FailingKeepsUnshared
<1> QED
  BY <1>1, <1>3, <1>4 DEF OpenTemp, Opened

\* What a Save overwrites is not at path_ and is nobody else's.
LEMMA WriteTempKeepsUnshared ==
    ASSUME ConfigTypes, Unshared, NEW s \in Savers, WriteTemp(s)
    PROVE  Unshared'
<1>0. /\ pc[s] = "write" /\ pc[s] \in Busy /\ pc[s] # "idle" /\ Own(s) = fd[s]
      /\ flushed' = flushed \ {fd[s]}
      /\ UNCHANGED <<windows, target, onDisk, good, saves>>
  BY DEF WriteTemp, Busy, Own
<1> DEFINE f == fd[s]
<1>1. /\ f \in 1..saves /\ f \notin Placed /\ temp[TempName(s)] = f
      /\ TempName(s) \in Files /\ saves \in Nat /\ f \in Files /\ f # NoFile
  <2>1. f \in 1..saves /\ f \notin Placed
    BY <1>0, OwnFacts
  <2>2. TempName(s) \in Files /\ saves \in Nat /\ saves <= MaxSaves
    BY <1>0, NameInFiles
  <2>3. temp[TempName(s)] = f /\ f # NoFile
    BY <1>0 DEF Unshared, SaverHolds
  <2> QED BY <2>1, <2>2, <2>3, ConfigAssumption DEF Files
<1>2. CASE /\ data' = [data EXCEPT ![f] = ToJson(arg[s])] /\ Go(s, "flush")
           /\ UNCHANGED <<temp, arg, number, fd>>
  <2>1. /\ \A r \in Savers \ {s} : /\ pc'[r] = pc[r] /\ arg'[r] = arg[r]
                                   /\ number'[r] = number[r] /\ fd'[r] = fd[r]
        /\ number'[s] = number[s] \/ pc'[s] = "idle"
    BY <1>2, OtherSavers
  <2>2. /\ data'[f] = ToJson(arg[s]) /\ f = Own(s)
        /\ \A g \in Files \ {f} : data'[g] = data[g] /\ (g \in flushed => g \in flushed')
    BY <1>0, <1>1, <1>2 DEF ConfigTypes
  <2>3. Placed' = Placed /\ f # 0
    BY <1>0, <1>1 DEF Placed
  <2>4. SaverHolds(s)'
    <3>1. pc'[s] = "flush" /\ fd'[s] = f /\ TempName(s)' = TempName(s)
      BY <1>0, <1>2 DEF ConfigTypes, Go, TempName
    <3> QED BY <1>1, <1>2, <2>2, <3>1 DEF SaverHolds
  <2> HIDE DEF f
  <2>5. \A g \in Placed' : PlacedHolds(g)'
    BY <1>0, <1>1, <2>2, <2>3, PlacedStays
  <2>6. /\ Placed' \subseteq Placed \cup {f} /\ f \notin Placed'
        /\ temp'[TempName(s)] = f /\ \A i \in Files \ {TempName(s)} : temp'[i] = temp[i]
    BY <1>1, <1>2, <2>3
  <2> QED BY <1>0, <2>1, <2>2, <2>4, <2>5, <2>6, SaverStepKeeps
<1>3. CASE Unlink(s) /\ Return(s) /\ UNCHANGED data
  BY <1>0, <1>3, FailingKeepsUnshared
<1> QED
  BY <1>2, <1>3 DEF WriteTemp

\* What a Save flushes is what it has written.
LEMMA FlushTempKeepsUnshared ==
    ASSUME ConfigTypes, Unshared, NEW s \in Savers, FlushTemp(s)
    PROVE  Unshared'
<1>0. /\ pc[s] = "flush" /\ pc[s] \in Busy /\ pc[s] # "idle" /\ Own(s) = fd[s]
      /\ UNCHANGED <<windows, target, onDisk, data, good, saves>>
  BY DEF FlushTemp, Busy, Own
<1> DEFINE f == fd[s]
<1>1. /\ f \in 1..saves /\ f \notin Placed /\ temp[TempName(s)] = f /\ saves \in Nat
      /\ f # NoFile /\ data[f] = ToJson(arg[s])
  <2>1. f \in 1..saves /\ f \notin Placed
    BY <1>0, OwnFacts
  <2>2. saves \in Nat
    BY <1>0, NameInFiles
  <2>3. temp[TempName(s)] = f /\ f # NoFile /\ data[f] = ToJson(arg[s])
    BY <1>0 DEF Unshared, SaverHolds
  <2> QED BY <2>1, <2>2, <2>3
<1>2. CASE /\ flushed' = flushed \cup {f} /\ Go(s, "rename")
           /\ UNCHANGED <<temp, arg, number, fd>>
  <2>1. /\ \A r \in Savers \ {s} : /\ pc'[r] = pc[r] /\ arg'[r] = arg[r]
                                   /\ number'[r] = number[r] /\ fd'[r] = fd[r]
        /\ number'[s] = number[s] \/ pc'[s] = "idle"
    BY <1>2, OtherSavers
  <2>3. Placed' = Placed /\ f # 0
    BY <1>0, <1>1 DEF Placed
  <2>4. SaverHolds(s)'
    <3>1. pc'[s] = "rename" /\ fd'[s] = f /\ TempName(s)' = TempName(s)
      BY <1>0, <1>2 DEF ConfigTypes, Go, TempName
    <3> QED BY <1>0, <1>1, <1>2, <3>1 DEF SaverHolds
  <2> HIDE DEF f
  <2>5. \A g \in Placed' : PlacedHolds(g)'
    BY <1>0, <1>1, <1>2, <2>3, PlacedStays
  <2>6. /\ Placed' \subseteq Placed \cup {f} /\ f \notin Placed' /\ f = Own(s)
        /\ temp'[TempName(s)] = f /\ \A i \in Files \ {TempName(s)} : temp'[i] = temp[i]
    BY <1>0, <1>1, <1>2, <2>3 DEF f
  <2>7. \A g \in Files \ {f} : data'[g] = data[g] /\ (g \in flushed => g \in flushed')
    BY <1>0, <1>2
  <2> QED BY <1>0, <2>1, <2>4, <2>5, <2>6, <2>7, SaverStepKeeps
<1>3. CASE Unlink(s) /\ Return(s) /\ UNCHANGED flushed
  BY <1>0, <1>3, FailingKeepsUnshared
<1> QED
  BY <1>2, <1>3 DEF FlushTemp

\* What a Save moves to path_ is its own document, on the disk.
LEMMA RenameKeepsUnshared ==
    ASSUME ConfigTypes, Unshared, NEW s \in Savers, Rename(s)
    PROVE  Unshared'
<1>0. /\ pc[s] = "rename" /\ pc[s] \in Busy /\ pc[s] # "idle" /\ Own(s) = fd[s]
      /\ UNCHANGED <<windows, data, flushed, saves>>
  BY DEF Rename, Busy, Own
<1>f. PICK f : f = fd[s]
  OBVIOUS
<1>1. /\ f \in 1..saves /\ f \notin Placed /\ temp[TempName(s)] = f /\ saves \in Nat
      /\ f # NoFile /\ data[f] = ToJson(arg[s]) /\ f \in flushed
      /\ TempName(s) \in Files /\ arg[s] \in Saved
  <2>1. f \in 1..saves /\ f \notin Placed
    BY <1>0, <1>f, OwnFacts
  <2>2. saves \in Nat /\ TempName(s) \in Files /\ arg[s] \in Saved
    BY <1>0, NameInFiles DEF ConfigTypes
  <2>3. /\ temp[TempName(s)] = f /\ f # NoFile /\ data[f] = ToJson(arg[s])
        /\ f \in flushed
    BY <1>0, <1>f DEF Unshared, SaverHolds
  <2> QED BY <2>1, <2>2, <2>3
<1>2. CASE Renamed(s, windows)
  <2>1. /\ target' = f /\ Unlink(s)
        /\ onDisk' = {target'} \cup IF windows THEN {} ELSE onDisk
        /\ IF windows THEN Return(s) /\ good' = {arg[s]}
           ELSE /\ Go(s, "sync_directory") /\ good' = good \cup {arg[s]}
                /\ UNCHANGED <<arg, number, fd>>
    BY <1>1, <1>2 DEF Renamed
  <2>2. /\ \A r \in Savers \ {s} : /\ pc'[r] = pc[r] /\ arg'[r] = arg[r]
                                   /\ number'[r] = number[r] /\ fd'[r] = fd[r]
        /\ number'[s] = number[s] \/ pc'[s] = "idle"
    BY <2>1, OtherSavers
  <2>3. temp'[TempName(s)] = NoFile /\ \A i \in Files \ {TempName(s)} : temp'[i] = temp[i]
    BY <1>1, <2>1 DEF Unlink, ConfigTypes
  <2>4. Placed' \subseteq Placed \cup {f} /\ (windows => Placed' = {f}) /\ f > 0
    BY <1>1, <2>1 DEF Placed
  <2>5. SaverHolds(s)'
    <3>1. CASE windows
      <4>1. pc'[s] = "idle"
        BY <2>1, <3>1 DEF Return, Go, ConfigTypes
      <4> QED BY <4>1 DEF SaverHolds
    <3>2. CASE ~windows
      <4>1. pc'[s] = "sync_directory" /\ arg'[s] = arg[s]
        BY <2>1, <3>2 DEF Go, ConfigTypes
      <4> QED BY <1>0, <1>1, <2>1, <2>4, <3>2, <4>1 DEF SaverHolds
    <3> QED BY <3>1, <3>2
  <2>6. PlacedHolds(f)'
    <3>1. arg[s] \in good' \cap Saved
      BY <1>1, <2>1
    <3>2. f <= saves' /\ ~(f <= 0)
      BY <1>0, <1>1
    <3> QED BY <1>0, <1>1, <3>1, <3>2 DEF PlacedHolds
  <2>7. \A g \in Placed' : PlacedHolds(g)'
    <3>1. CASE windows
      BY <2>4, <2>6, <3>1
    <3>2. CASE ~windows
      <4>1. \A g \in Placed : PlacedHolds(g)'
        <5>1. good \subseteq good' /\ f # 0
          BY <1>1, <2>1, <3>2
        <5> QED BY <1>0, <1>1, <5>1, PlacedStays
      <4> QED BY <2>4, <2>6, <4>1
    <3> QED BY <3>1, <3>2
  <2>8. /\ f = Own(s)
        /\ \A g \in Files \ {f} : data'[g] = data[g] /\ (g \in flushed => g \in flushed')
    BY <1>0, <1>f
  <2> QED BY <1>0, <2>2, <2>3, <2>4, <2>5, <2>7, <2>8, SaverStepKeeps
<1>3. CASE RenameFails(s)
  <2>1. Unlink(s) /\ Return(s) /\ UNCHANGED <<target, onDisk, good>>
    BY <1>3 DEF RenameFails
  <2> QED BY <1>0, <2>1, FailingKeepsUnshared
<1> QED
  BY <1>2, <1>3 DEF Rename

\* Once the directory is flushed, only the file at path_ can come back.
LEMMA SyncKeepsUnshared ==
    ASSUME ConfigTypes, Unshared, NEW s \in Savers, SyncDirectory(s)
    PROVE  Unshared'
<1>0. /\ pc[s] = "sync_directory" /\ Return(s)
      /\ \/ onDisk' = {target} /\ good' = {arg[s]}
         \/ UNCHANGED <<onDisk, good>>
      /\ UNCHANGED <<windows, target, temp, data, flushed, saves>>
  BY DEF SyncDirectory
<1>1. /\ ~windows /\ target > 0 /\ data[target] = ToJson(arg[s]) /\ arg[s] \in Saved
  BY <1>0 DEF Unshared, SaverHolds, ConfigTypes
<1>2. \A r \in Savers : pc'[r] = "idle"
  BY <1>0, <1>1 DEF Unshared, Apart, Return, Go, ConfigTypes
<1>3. Apart' /\ (\A r \in Savers : SaverHolds(r)') /\ 0 \in flushed'
  BY <1>0, <1>2 DEF Apart, SaverHolds, Unshared
<1>4. Placed' \subseteq Placed
  BY <1>0 DEF Placed
<1>5. \A i \in Files : NameHolds(i)'
  BY <1>0, <1>4 DEF Unshared, NameHolds
<1>6. ASSUME NEW g \in Placed' PROVE PlacedHolds(g)'
  <2>1. PlacedHolds(g) /\ Loaded(g)' = Loaded(g)
    BY <1>0, <1>4 DEF Unshared, Loaded
  <2>2. CASE onDisk' = {target} /\ good' = {arg[s]}
    <3>1. g = target /\ arg[s] \in good' \cap Saved
      BY <1>0, <1>1, <2>2 DEF Placed
    <3>2. target \in Int
      BY ConfigAssumption DEF ConfigTypes, Files, NoFile
    <3>3. ~(g <= 0) /\ g > 0
      BY <1>1, <3>1, <3>2
    <3> QED BY <1>0, <1>1, <2>1, <3>1, <3>3 DEF PlacedHolds
  <2>3. CASE UNCHANGED <<onDisk, good>>
    BY <1>0, <2>1, <2>3 DEF PlacedHolds
  <2> QED BY <1>0, <2>2, <2>3
<1> QED
  BY <1>3, <1>5, <1>6 DEF Unshared

\* The process ends, with or without the power: the Saves under way are gone, and what was
\* on the disk is as it was.
LEMMA EndKeepsUnshared ==
    ASSUME ConfigTypes, Unshared, ProcessExit \/ PowerCut
    PROVE  Unshared'
<1>1. \A s \in Savers : pc'[s] = "idle"
  BY DEF ProcessExit, PowerCut, End
<1>2. UNCHANGED <<windows, good, saves>>
  BY DEF ProcessExit, PowerCut, End
<1>3. Placed' \subseteq Placed
  BY DEF ProcessExit, PowerCut, Placed, files
<1>4. /\ \A g \in Files : g \in flushed => g \in flushed' /\ data'[g] = data[g]
      /\ \A i \in Files : temp'[i] \in {temp[i], NoFile}
  BY DEF ProcessExit, PowerCut, files
<1>5. 0 \in flushed' /\ 0 \in flushed /\ 0 \in Files
  BY <1>4, ConfigAssumption DEF Unshared, Files
<1>6. Apart' /\ \A s \in Savers : SaverHolds(s)'
  BY <1>1 DEF Apart, SaverHolds
<1>7. \A i \in Files : NameHolds(i)'
  BY <1>2, <1>3, <1>4 DEF Unshared, NameHolds
<1>8. ASSUME NEW g \in Placed' PROVE PlacedHolds(g)'
  <2>1. PlacedHolds(g) /\ g \in Files \cup {NoFile}
    BY <1>3 DEF Unshared, Placed, ConfigTypes
  <2>2. CASE g \in Files /\ g > 0
    <3>1. ~(g <= 0)
      BY <2>2, ConfigAssumption DEF Files
    <3> QED BY <1>2, <1>4, <2>1, <2>2, <3>1 DEF PlacedHolds
  <2>3. CASE g = 0 \/ g = NoFile
    <3>1. Loaded(g)' = Loaded(g)
      BY <1>4, <1>5, <2>3 DEF Loaded
    <3>2. ~(g > 0)
      BY <2>3 DEF NoFile
    <3> QED BY <1>2, <2>1, <3>1, <3>2 DEF PlacedHolds
  <2>4. g \in Files => g = 0 \/ g > 0
    BY ConfigAssumption DEF Files
  <2> QED BY <2>1, <2>2, <2>3, <2>4
<1> QED
  BY <1>5, <1>6, <1>7, <1>8 DEF Unshared

\* The store keeps StoreInv: as long as no two Saves have shared a temporary name, the file
\* a Save works on is its own and not at path_, and what is at path_ is on the disk and
\* holds a configuration that Load may return.
THEOREM StoreInvHolds == Spec => []StoreInv
<1>1. Init => StoreInv
  <2> SUFFICES ASSUME Init PROVE StoreInv
    OBVIOUS
  <2>0. 0 \in Files
    BY ConfigAssumption DEF Files
  <2>1. data \in [Files -> Content]
    <3>1. PICK doc \in Documents \cup {Cut} : data = [i \in Files |-> IF i = 0 THEN doc ELSE Cut]
      BY DEF Init
    <3> QED BY <3>1 DEF Content
  <2>2. ConfigTypes
    BY <2>0, <2>1 DEF Init, ConfigTypes
  <2>3. Apart /\ 0 \in flushed /\ \A s \in Savers : SaverHolds(s)
    BY DEF Init, Apart, SaverHolds
  <2>4. \A i \in Files : NameHolds(i)
    BY DEF Init, NameHolds
  <2>5. \A g \in Placed : PlacedHolds(g)
    <3>1. Placed = {target} /\ target \in {-1, 0} /\ good = {Loaded(target)} /\ saves = 0
      BY DEF Init, Placed, NoFile
    <3>2. target <= saves /\ ~(target > 0)
      BY <3>1
    <3> QED BY <3>1, <3>2 DEF PlacedHolds
  <2> QED BY <2>2, <2>3, <2>4, <2>5 DEF StoreInv, Unshared
<1>2. StoreInv /\ [Next]_vars => StoreInv'
  <2> SUFFICES ASSUME StoreInv, [Next]_vars PROVE StoreInv'
    OBVIOUS
  <2>t. ConfigTypes /\ (~overlapped => Unshared)
    BY DEF StoreInv
  <2>1. ASSUME NEW s \in Savers, NEW config \in Configs, Save(s, config) PROVE StoreInv'
    BY <2>1, <2>t, SaveKeepsTypes, SaveKeepsUnshared DEF StoreInv
  <2>2. ASSUME NEW s \in Savers, OpenTemp(s) PROVE StoreInv'
    <3>1. UNCHANGED overlapped
      BY <2>2 DEF OpenTemp
    <3> QED BY <2>2, <2>t, <3>1, OpenTempKeepsTypes, OpenTempKeepsUnshared DEF StoreInv
  <2>3. ASSUME NEW s \in Savers, WriteTemp(s) \/ FlushTemp(s) PROVE StoreInv'
    <3>1. UNCHANGED overlapped
      BY <2>3 DEF WriteTemp, FlushTemp
    <3> QED BY <2>3, <2>t, <3>1, WriteFlushKeepTypes, WriteTempKeepsUnshared,
               FlushTempKeepsUnshared DEF StoreInv
  <2>4. ASSUME NEW s \in Savers, Rename(s) PROVE StoreInv'
    <3>1. UNCHANGED overlapped
      BY <2>4 DEF Rename
    <3> QED BY <2>4, <2>t, <3>1, RenameKeepsTypes, RenameKeepsUnshared DEF StoreInv
  <2>5. ASSUME NEW s \in Savers, SyncDirectory(s) PROVE StoreInv'
    <3>1. UNCHANGED overlapped
      BY <2>5 DEF SyncDirectory
    <3> QED BY <2>5, <2>t, <3>1, SyncKeepsTypes, SyncKeepsUnshared DEF StoreInv
  <2>6. CASE ProcessExit \/ PowerCut
    <3>1. UNCHANGED overlapped
      BY <2>6 DEF ProcessExit, PowerCut, End
    <3> QED BY <2>6, <2>t, <3>1, EndKeepsTypes, EndKeepsUnshared DEF StoreInv
  <2>7. CASE ServiceStart \/ UNCHANGED vars
    <3>1. UNCHANGED <<windows, files, saver, good, overlapped, saves>>
      BY <2>7 DEF ServiceStart, vars, bounds
    <3>2. ConfigTypes'
      BY <2>t, <3>1 DEF ConfigTypes, files, saver
    <3>3. Unshared => Unshared'
      BY <3>1 DEF Unshared, Apart, NameHolds, SaverHolds, PlacedHolds, Placed, Loaded,
         TempName, files, saver
    <3> QED BY <2>t, <3>1, <3>2, <3>3 DEF StoreInv
  <2> QED BY <2>1, <2>2, <2>3, <2>4, <2>5, <2>6, <2>7 DEF Next, AtRest
<1> QED
  BY <1>1, <1>2, PTL DEF Spec

\* A document that ToJson makes is none that does not parse, and has all that is required.
LEMMA ToJsonFacts ==
    ASSUME NEW config
    PROVE  /\ ToJson(config) # Cut /\ DOMAIN ToJson(config) = Fields
           /\ Required \subseteq DOMAIN ToJson(config)
<1>1. DOMAIN ToJson(config) = Fields /\ Required \subseteq Fields
  BY AppConfigAssumption DEF ToJson
<1>2. "schemaVersion" \in Fields /\ DOMAIN Cut = {"cut"}
  BY <1>1 DEF Required, Cut
<1> QED
  BY <1>1, <1>2

\* The file at path_, and any that a power cut may bring back, is the one that was there
\* first or a whole document that is on the disk; unless two Saves used one temporary name.
THEOREM TargetStaysWhole == Spec => []TargetWhole
<1>1. StoreInv => TargetWhole
  <2> SUFFICES ASSUME StoreInv, ~overlapped, NEW f \in onDisk \cup {target}, f > 0
               PROVE  f \in flushed /\ data[f] # Cut
    BY DEF TargetWhole
  <2>1. PlacedHolds(f)
    BY DEF StoreInv, Unshared, Placed
  <2> QED BY <2>1, ToJsonFacts DEF PlacedHolds
<1> QED
  BY <1>1, StoreInvHolds, PTL

-----------------------------------------------------------------------------
(* Conversions.                                                            *)

\* A number that fits is not changed by the conversion.
LEMMA ModSmall ==
    ASSUME NEW w \in Nat, NEW x \in 0..(w - 1)
    PROVE  x % w = x
OBVIOUS

\* What a conversion gives fits the width it converts to.
LEMMA ModRange ==
    ASSUME NEW w \in Nat, w > 0, NEW x \in Int
    PROVE  x % w \in 0..(w - 1)
OBVIOUS

\* Widening and narrowing keep bytes as they are.
LEMMA BytesKeep ==
    ASSUME NEW bytes \in Seq(0..(Byte - 1))
    PROVE  WideFromNarrow(bytes) = bytes /\ NarrowFromWide(bytes) = bytes
<1>1. \A i \in DOMAIN bytes : bytes[i] \in 0..3
  BY DEF Byte
<1>2. \A i \in DOMAIN bytes : bytes[i] % Byte = bytes[i]
  BY <1>1 DEF Byte
<1>3. bytes = [i \in DOMAIN bytes |-> bytes[i]]
  OBVIOUS
<1> QED
  BY <1>2, <1>3 DEF WideFromNarrow, NarrowFromWide

\* Narrowed text is bytes.
LEMMA NarrowIsBytes ==
    ASSUME NEW text \in Seq(Nat)
    PROVE  NarrowFromWide(text) \in Seq(0..(Byte - 1))
<1>1. \A i \in DOMAIN text : text[i] % Byte \in 0..(Byte - 1)
  BY DEF Byte
<1>2. DOMAIN text = 1..Len(text) /\ Len(text) \in Nat
  OBVIOUS
<1> QED
  BY <1>1, <1>2 DEF NarrowFromWide

\* Which kind of field it is: the kinds do not overlap.
LEMMA KindsApart ==
    /\ Texts \cap Words32 = {} /\ Texts \cap Words64 = {} /\ Words32 \cap Words64 = {}
    /\ "minimumLogLevel" \notin Texts \cup Words32 \cup Words64
BY DEF Texts, Words32, Words64

\* The half of 2^32 that minimumLogLevel is shifted by.
LEMMA HalfWord == Word32 \div 2 \in Nat /\ Word32 > 0 /\ Word64 > 0
BY ConfigAssumption

\* Load converts a member of an AppConfig back to what it was, if text is not cut.
LEMMA ConvertedKeeps ==
    ASSUME NEW config, IsAppConfig(config), Representable(config), Validate(config),
           NEW f \in Fields
    PROVE  Converted(f, config[f]) = config[f]
<1>1. CASE f \in Texts
  <2>1. config[f] \in Seq(0..(Byte - 1))
    BY <1>1, NarrowIsBytes DEF IsAppConfig, Representable
  <2>2. WideFromNarrow(config[f]) = config[f]
    BY <2>1, BytesKeep
  <2> QED BY <1>1, <2>2, KindsApart DEF Converted
<1>2. CASE f \in Words32
  <2>1. config[f] % Word32 = config[f]
    BY <1>2, ModSmall, ConfigAssumption DEF IsAppConfig
  <2> QED BY <1>2, <2>1, KindsApart DEF Converted
<1>3. CASE f \in Words64
  <2>1. config[f] % Word64 = config[f]
    BY <1>3, ModSmall, ConfigAssumption DEF IsAppConfig
  <2> QED BY <1>3, <2>1, KindsApart DEF Converted
<1>4. CASE f = "minimumLogLevel"
  <2>1. config[f] \in 0..5 /\ config[f] + Word32 \div 2 \in 0..(Word32 - 1)
    BY <1>4 DEF IsAppConfig, Validate
  <2>2. (config[f] + Word32 \div 2) % Word32 = config[f] + Word32 \div 2
    BY <2>1, ModSmall, ConfigAssumption
  <2>3. ((config[f] + Word32 \div 2) % Word32) - Word32 \div 2 = config[f]
    BY <2>1, <2>2, HalfWord
  <2> QED BY <1>4, <2>3, KindsApart DEF Converted
<1>5. CASE f \notin Texts \cup Words32 \cup Words64 \cup {"minimumLogLevel"}
  BY <1>5 DEF Converted
<1> QED
  BY <1>1, <1>2, <1>3, <1>4, <1>5

\* "SaveThenLoad_RoundTripsExactly", for every AppConfig that the document can hold.
LEMMA RoundTrip ==
    ASSUME NEW config, IsAppConfig(config), Representable(config), Validate(config)
    PROVE  FromJson(ToJson(config)) = config /\ Loads(ToJson(config))
<1>1. config = [f \in Fields |-> config[f]]
  BY DEF IsAppConfig
<1>2. \A f \in Fields : ToJson(config)[f] = config[f]
  BY DEF ToJson, Representable
<1>3. DOMAIN ToJson(config) = Fields
  BY ToJsonFacts
<1>4. FromJson(ToJson(config)) = [f \in Fields |-> config[f]]
  BY <1>2, <1>3, ConvertedKeeps DEF FromJson
<1> QED
  BY <1>1, <1>4, ToJsonFacts DEF Loads

\* What Load makes of a value that a document has for a field, and that a saved config is
\* such a document.
LEMMA ConvertedFits ==
    ASSUME NEW doc, IsDocument(doc), NEW f \in DOMAIN doc
    PROVE  /\ f \in Texts => /\ Converted(f, doc[f]) \in Seq(Nat)
                             /\ ValidUtf8(NarrowFromWide(Converted(f, doc[f])))
                             /\ NarrowFromWide(Converted(f, doc[f])) = Converted(f, doc[f])
           /\ f \in Words32 => Converted(f, doc[f]) \in 0..(Word32 - 1)
           /\ f \in Words64 => Converted(f, doc[f]) \in 0..(Word64 - 1)
           /\ f = "minimumLogLevel" =>
                 Converted(f, doc[f]) + Word32 \div 2 \in 0..(Word32 - 1)
<1>1. ASSUME f \in Texts
      PROVE  /\ Converted(f, doc[f]) \in Seq(Nat)
             /\ ValidUtf8(NarrowFromWide(Converted(f, doc[f])))
             /\ NarrowFromWide(Converted(f, doc[f])) = Converted(f, doc[f])
  <2>1. doc[f] \in Seq(0..(Byte - 1)) /\ ValidUtf8(doc[f])
    BY <1>1 DEF IsDocument
  <2>2. WideFromNarrow(doc[f]) = doc[f] /\ NarrowFromWide(doc[f]) = doc[f]
    BY <2>1, BytesKeep
  <2>3. Converted(f, doc[f]) = doc[f]
    BY <1>1, <2>2, KindsApart DEF Converted
  <2>4. doc[f] \in Seq(Nat)
    BY <2>1 DEF Byte
  <2> QED BY <2>1, <2>2, <2>3, <2>4
<1>2. ASSUME f \in Words32 PROVE Converted(f, doc[f]) \in 0..(Word32 - 1)
  <2>1. doc[f] % Word32 \in 0..(Word32 - 1)
    BY <1>2, ModRange, HalfWord, ConfigAssumption DEF IsDocument
  <2> QED BY <1>2, <2>1, KindsApart DEF Converted
<1>3. ASSUME f \in Words64 PROVE Converted(f, doc[f]) \in 0..(Word64 - 1)
  <2>1. doc[f] % Word64 \in 0..(Word64 - 1)
    BY <1>3, ModRange, HalfWord, ConfigAssumption DEF IsDocument
  <2> QED BY <1>3, <2>1, KindsApart DEF Converted
<1>4. ASSUME f = "minimumLogLevel"
      PROVE  Converted(f, doc[f]) + Word32 \div 2 \in 0..(Word32 - 1)
  <2>1. doc[f] \in Int
    BY <1>4 DEF IsDocument
  <2>2. PICK h \in Nat : h = Word32 \div 2
    BY HalfWord
  <2>3. PICK y \in 0..(Word32 - 1) : y = (doc[f] + h) % Word32
    BY <2>1, ModRange, HalfWord, ConfigAssumption
  <2>4. Converted(f, doc[f]) = y - h
    BY <1>4, <2>2, <2>3, KindsApart DEF Converted
  <2> QED BY <2>2, <2>3, <2>4, ConfigAssumption
<1> QED
  BY <1>1, <1>2, <1>3, <1>4

\* What Load returns has members of their types, and text that can be written again.
LEMMA LoadFits ==
    ASSUME NEW doc, IsDocument(doc)
    PROVE  /\ IsAppConfig(FromJson(doc)) /\ Dumps(FromJson(doc))
           /\ Representable(FromJson(doc))
<1> DEFINE c == FromJson(doc)
<1>1. c = [f \in Fields |-> c[f]] /\ Texts \cup Words32 \cup Words64 \subseteq Fields
      /\ "minimumLogLevel" \in Fields
  BY AppConfigAssumption DEF FromJson, Required
<1>2. IsAppConfig(Default) /\ Dumps(Default) /\ Representable(Default)
  BY AppConfigAssumption
<1>3. \A f \in Fields : c[f] = IF f \in DOMAIN doc THEN Converted(f, doc[f]) ELSE Default[f]
  BY DEF FromJson
<1> HIDE DEF c
<1>4. ASSUME NEW f \in Texts
      PROVE  c[f] \in Seq(Nat) /\ ValidUtf8(NarrowFromWide(c[f])) /\ NarrowFromWide(c[f]) = c[f]
  BY <1>1, <1>2, <1>3, ConvertedFits DEF IsAppConfig, Dumps, Representable
<1>5. ASSUME NEW f \in Words32 PROVE c[f] \in 0..(Word32 - 1)
  BY <1>1, <1>2, <1>3, ConvertedFits DEF IsAppConfig
<1>6. ASSUME NEW f \in Words64 PROVE c[f] \in 0..(Word64 - 1)
  BY <1>1, <1>2, <1>3, ConvertedFits DEF IsAppConfig
<1>7. c.minimumLogLevel + Word32 \div 2 \in 0..(Word32 - 1)
  BY <1>1, <1>2, <1>3, ConvertedFits DEF IsAppConfig
<1>8. IsAppConfig(c) /\ Dumps(c) /\ Representable(c)
  BY <1>1, <1>4, <1>5, <1>6, <1>7 DEF IsAppConfig, Dumps, Representable
<1> QED
  BY <1>8 DEF c

\* What Save writes is a document.
LEMMA SavedIsDocument ==
    ASSUME NEW config \in Saved
    PROVE  IsDocument(ToJson(config))
<1>1. IsAppConfig(config) /\ Validate(config) /\ Dumps(config)
  BY AppConfigAssumption DEF Saved
<1>2. \A f \in Fields : ToJson(config)[f] = IF f \in Texts THEN NarrowFromWide(config[f])
                                                          ELSE config[f]
  BY DEF ToJson
<1> SUFFICES ASSUME NEW f \in Fields
             PROVE  /\ f \in Texts => /\ ToJson(config)[f] \in Seq(0..(Byte - 1))
                                      /\ ValidUtf8(ToJson(config)[f])
                    /\ f \in Words32 \cup Words64 \cup {"minimumLogLevel"} =>
                          ToJson(config)[f] \in Int
  BY ToJsonFacts DEF IsDocument
<1>3. ASSUME f \in Texts
      PROVE  ToJson(config)[f] \in Seq(0..(Byte - 1)) /\ ValidUtf8(ToJson(config)[f])
  BY <1>1, <1>2, <1>3, NarrowIsBytes DEF IsAppConfig, Dumps
<1>4. ASSUME f \in Words32 \cup Words64 \cup {"minimumLogLevel"}
      PROVE  ToJson(config)[f] \in Int
  <2>1. ASSUME f \in Words32 \cup Words64 PROVE config[f] \in Int
    <3>1. config[f] \in 0..(Word32 - 1) \/ config[f] \in 0..(Word64 - 1)
      BY <1>1, <2>1 DEF IsAppConfig
    <3> QED BY <3>1, ConfigAssumption
  <2>2. ASSUME f = "minimumLogLevel" PROVE config[f] \in Int
    BY <1>1, <2>2 DEF Validate
  <2>3. config[f] \in Int
    BY <1>4, <2>1, <2>2
  <2> QED BY <1>2, <1>4, <2>3, KindsApart
<1> QED
  BY <1>3, <1>4

-----------------------------------------------------------------------------
(* What the service runs with.                                             *)

\* What the service has loaded is a valid config whose text the document can hold.
Runnable(config) ==
    IsAppConfig(config) /\ Validate(config) /\ Dumps(config) /\ Representable(config)

RunningInv == running # None => Runnable(running)

\* Load, or the defaults it falls back to, gives such a config whatever the file holds.
LEMMA LoadedIsRunnable ==
    ASSUME ConfigTypes
    PROVE  Runnable(Loaded(target))
<1>1. CASE target # NoFile /\ Loads(data[target])
  <2>1. data[target] \in Content \ {Cut}
    BY <1>1 DEF ConfigTypes, Loads
  <2>2. IsDocument(data[target])
    BY <2>1, SavedIsDocument, AppConfigAssumption DEF Content
  <2>3. Loaded(target) = FromJson(data[target]) /\ Validate(FromJson(data[target]))
    BY <1>1 DEF Loaded, Loads
  <2> QED BY <2>2, <2>3, LoadFits DEF Runnable
<1>2. CASE ~(target # NoFile /\ Loads(data[target]))
  <2>1. Loaded(target) = Default
    BY <1>2 DEF Loaded
  <2> QED BY <2>1, AppConfigAssumption DEF Runnable
<1> QED
  BY <1>1, <1>2

\* "SaveThenLoad_RoundTripsExactly": whatever the file held when the service started, what
\* it runs with passes Save's checks, and saving and loading it gives the same.
THEOREM LoadedRoundTrips == Spec => []RunningRoundTrips
<1>1. Init => RunningInv
  BY DEF Init, RunningInv
<1>2. StoreInv /\ RunningInv /\ [Next]_vars => RunningInv'
  <2> SUFFICES ASSUME StoreInv, RunningInv, [Next]_vars PROVE RunningInv'
    OBVIOUS
  <2>1. CASE ServiceStart
    <3>1. running' = Loaded(target) /\ ConfigTypes
      BY <2>1 DEF ServiceStart, StoreInv
    <3>2. Runnable(running')
      BY <3>1, LoadedIsRunnable
    <3> QED BY <3>2 DEF RunningInv, Runnable, IsAppConfig, Validate, Dumps, Representable
  <2>2. CASE ProcessExit \/ PowerCut
    <3>1. running' = None
      BY <2>2 DEF ProcessExit, PowerCut, End
    <3> QED BY <3>1 DEF RunningInv
  <2>3. ASSUME NEW s \in Savers,
               \/ \E config \in Configs : Save(s, config)
               \/ OpenTemp(s) \/ WriteTemp(s) \/ FlushTemp(s) \/ Rename(s) \/ SyncDirectory(s)
        PROVE  RunningInv'
    <3>1. running' = running
      BY <2>3 DEF Save, OpenTemp, WriteTemp, FlushTemp, Rename, SyncDirectory
    <3> QED BY <3>1 DEF RunningInv, Runnable, IsAppConfig, Validate, Dumps, Representable
  <2>4. CASE UNCHANGED vars
    <3>1. running' = running
      BY <2>4 DEF vars
    <3> QED BY <3>1 DEF RunningInv, Runnable, IsAppConfig, Validate, Dumps, Representable
  <2> QED BY <2>1, <2>2, <2>3, <2>4 DEF Next, AtRest
<1>3. RunningInv => RunningRoundTrips
  BY RoundTrip DEF RunningInv, RunningRoundTrips, Runnable
<1> QED
  BY <1>1, <1>2, <1>3, StoreInvHolds, PTL DEF Spec

\* "the last known-good configuration must be preserved": the service starts with a config
\* whose Save succeeded last, or with what was there first, as long as no two Saves used
\* one temporary name and the text of the configs is not cut in the conversion.
THEOREM StartsWithLastGood == Spec => StartFindsLastGood
<1>1. ASSUME StoreInv, ServiceStart, ~overlapped, \A c \in good : Representable(c)
      PROVE  running' \in good
  <2>1. running' = Loaded(target) /\ PlacedHolds(target) /\ target \in Files \cup {NoFile}
    BY <1>1 DEF ServiceStart, StoreInv, Unshared, Placed, ConfigTypes
  <2>2. CASE target > 0
    <3>1. PICK config \in good \cap Saved : data[target] = ToJson(config)
      BY <2>1, <2>2 DEF PlacedHolds
    <3>2. IsAppConfig(config) /\ Validate(config) /\ Representable(config)
      BY <1>1, AppConfigAssumption DEF Saved
    <3>3. target # NoFile
      BY <2>2 DEF NoFile
    <3> QED BY <2>1, <3>1, <3>2, <3>3, RoundTrip DEF Loaded
  <2>3. CASE target <= 0
    BY <2>1, <2>3 DEF PlacedHolds
  <2>4. target > 0 \/ target <= 0
    BY <2>1, ConfigAssumption DEF Files, NoFile
  <2> QED BY <2>2, <2>3, <2>4
<1>2. StoreInv => [ServiceStart /\ ~overlapped /\ (\A c \in good : Representable(c))
                     => running' \in good]_vars
  BY <1>1
<1> QED
  BY <1>2, StoreInvHolds, PTL DEF StartFindsLastGood
=============================================================================
