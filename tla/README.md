# QuantumCache: a TLA+ model

QuantumCache is a write-back key/value cache that promises to survive power cuts.
A write is journaled and flushed to disk before it is acknowledged, sits in a
sharded LRU cache as *Dirty*, and reaches the backing store by a later flush; after
an unclean stop the journal is replayed. This directory models the parts that carry
that promise, model-checks them with TLC, and proves their safety properties with
TLAPS, some of them under conditions that the code does not ensure and the theorems name.

Paths below are relative to the repository root.

## Inventory

| Component | State | Operations | Hard parts |
|---|---|---|---|
| `CacheEngine` (`src/CoreEngine/src/CacheEngine.cpp`) | lifecycle, version counter; per shard: index, LRU list, `dirtyCount`, `mutationFence`; `inFlightWriteCount_`, `compactionPaused_`; background thread | `ReplayFromJournal`, `MarkRecoveryComplete`, `Get`, `Put`, `Invalidate`, `ForceInvalidate`, `Flush`, `FlushAll`, `Shutdown`, periodic flush | no lock is held across I/O, so every call is three or more separate critical sections; commits, flushes, evictions and compactions of different threads interleave; every I/O can fail; the process can die anywhere |
| `WriteAheadJournal` (`src/PowerResilience/src/WriteAheadJournal.cpp`) | the file, next sequence number, record count | `Append`, `Replay`, `Truncate` | write and flush are two steps, either can fail; torn frames; several sessions in one file |
| `SessionMarker`, `RecoveryManager` (`src/PowerResilience/src`) | the marker file, last known generation, recovery state | `ReadLastState`, `OnSessionStart`, `OnCleanShutdown`, `InitializeAndRecover`, `MarkCleanShutdown` | whether the journal is replayed at all hangs on one 29-byte record that may be torn or stale |
| Service (`src/Service/src/main_service.cpp`, `Win32ServiceHost.cpp`) | globals: engine, recovery manager, IPC server and thread, stop flag | start, pre-shutdown, stop, IPC loop | order of recovery, marker and readiness; joining a thread that may be blocked |
| Named-pipe transport (`src/Ipc/src/Win32NamedPipeTransport.cpp`) | one pipe instance, stop event | `AcceptOnce`, `ReceiveFrame`, `SendFrame`, `Close`, `RequestShutdown` | the stop event interrupts only the accept; frames arrive in pieces; the client may leave anywhere; closing discards what was not read |
| IPC codec and protocol (`src/Ipc/src/MessageCodec.cpp`, `Protocol.h`), request handler (`main_service.cpp`), GUI client (`gui/QuantumCacheGui/RecoveryStatusClient.cpp`) | none | encode, decode, `HandleOneIpcRequest`, `FetchStatus` | clients of another version; keys and frames beyond the limits |
| `FileBackingStore` (`src/Storage/src`) on `Win32File` | append-only file, index, end offset | `Initialize`, `Put`, `Remove`, `Get`, `Contains` | torn tail, failed appends that later ones overwrite, read errors in the scan, values beyond the limits |
| Configuration (`src/Configuration/src/JsonConfigStore.cpp`) | the configuration file, its temporary files | `Load`, `Save`, `Validate` | replacing a file safely; concurrent savers; conversions that lose something |
| Journal record codec, logging, CRC, installer, volumes, benchmarks | none or local | encode/decode, output | none that involve the cache's state |

How they interact: the service opens marker, journal and backing store; the recovery
manager reads the marker and, unless it says *closed cleanly*, has the engine replay
the journal; then the marker is rewritten as *open*, the engine becomes ready, and the
IPC thread starts. Callers in the process, the IPC thread, the control handler and the
engine's background thread all call the engine concurrently. On a stop the IPC thread
is joined, the engine flushes and truncates the journal, and the marker is closed.

What makes each part correct:

* engine: a reader gets the newest write; Clean means equal to the store; unflushed data
  is never dropped and is always in the journal; the bookkeeping that truncation relies on
  (`dirtyCount`, `inFlightWriteCount_`) is exact; every call returns;
* journal: an acknowledged record is replayed, in order; a truncated one is not;
* marker and service: a power cut while serving is always noticed; what only the journal
  holds is forgotten for known reasons only; a stop ends, and nothing runs after it;
* backing store: what it has acknowledged is there after any restart, and what it has not
  is there entirely or not at all;
* configuration: the file is at any moment a whole document, the last one saved;
* IPC: a request is run as it was sent or not at all, its reply reaches its client, and the
  only pipe instance comes free again once its client has sent and read, or left.

## Modules

| Module | Models |
|---|---|
| `CacheEngine` | the engine, with the journal and the backing store as it sees them |
| `MCCacheEngine` | instances for TLC |
| `CacheEngine_proofs` | theorems about `CacheEngine`: types, `dirtyCount` |
| `CacheEngineOrder_proofs` | theorems about what threads hold across their locks: admission, fences, versions, flushes |
| `CacheEngineJournal_proofs` | theorems about when cache, journal and store agree: the write-ahead rule, Clean entries, recovery |
| `WriteAheadJournal` | the journal on a file that may lose or tear what is not synced |
| `ServiceSession` | marker, recovery manager, service start/stop, IPC thread |
| `KeyValueStore` | abstract: what `IBackingStore` promises its users |
| `FileBackingStore` | the append-only file, its index and its startup scan; implements `KeyValueStore` |
| `ConfigStore` | the configuration file: conversions, validation, and `Save` step by step |
| `IpcExchange` | one request and its reply over the pipe: framing, codec, handler, clients |
| `MCFileBackingStore`, `MCConfigStore`, `MCIpcExchange` | instances for TLC |
| `WriteAheadJournal_proofs`, `ServiceSession_proofs`, `FileBackingStore_proofs`, `ConfigStore_proofs`, `IpcExchange_proofs` | the theorems about these modules |

The modules meet where one component uses another. `CacheEngine` takes the journal as a
sequence of frames and the store as a map: what that takes for granted is what
`WriteAheadJournal` and `FileBackingStore` establish, and what they do not
(a record behind a bad frame, a failed `Put` that turns up later) is what `Residue` and
the properties' conditions are about. `ServiceSession` has the stop racing the IPC thread,
`IpcExchange` what goes on in one connection.

Definitions named `Op_Variant` are `Op` with a deliberate mistake. Nothing in the
specifications uses them; each is put in place of `Op` to confirm that some property
notices. `PROJECT.json` pairs every property with such a variant, and maps every
definition to the source lines it stands for.

### CacheEngine

A thread runs one call at a time; `pc[t]` is the point it has reached, `loc[t]` the
locals of the call. One action is the code between two points where a lock is taken or
dropped or I/O is done. For example `Put` is `PutBegin` (readiness check), `PutAdmit`
(`TryAdmitWrite`), `PutAppend` (version and Upsert under `journalMutex_`), `PutCommit`
(`InsertOrUpdateLocked` and eviction under the shard lock), `RelievePeek` /
`RelieveAfter` around `FlushKey` for capacity, `FlushKey` again for WriteThrough, and
`ReleaseWriteAdmission`. `FlushKey` is `FlushPeek`, `FlushIntent`, `FlushPut`,
`FlushComplete`, `FlushCommit` or `RevertFlushInProgressLocked`; it returns to the label
in `loc[t].fret`, so that the one model of it serves `Flush`, `FlushAll`, capacity relief
and WriteThrough. `FlushAll` goes on into `TryCompactJournalIfFullyClean`, and is also
what `Shutdown` and the background thread run.

Data is abstracted as follows.

* A value is a model value; its size is `SizeOf`. The values of `Oversized` are longer than
  64 MiB: `Put` takes them, `Get` refuses to return or cache what it then reads from the store
  (`CacheEngine.cpp:486`), and `JournalRecordCodec::Decode` refuses their Upsert, so that the
  replay fails and the engine stays unusable. (Frames beyond 256 MiB, which the journal itself
  does not accept, are in `WriteAheadJournal`.) `currentBytes` and `dirtyBytes` are not
  variables: the former is the sum over the index wherever the code reads it, the latter
  is only reported.
* The LRU list of a shard is the function `lru` giving each key its position.
* The order in which `FlushAll` takes the dirty keys of a shard is left open, and so is the
  order in which replay re-inserts (the code iterates an `unordered_map`). Keys are not
  the empty string, which `RelieveCapacityPressureIfNeeded` could not tell from "none".
* A call that is rejected at once (not ready, stopping) changes nothing and is not a step.
  `enabled` is true. `Contains`, `GetEntryInfo`, `GetStatistics` only read.
* A backing-store call that fails changes nothing. (`FileBackingStore` shows that its frame
  may still be adopted at the next open, unless a later call has overwritten it. For a flush
  that makes no difference, as the value is still in the journal; for an Invalidate it is
  one more way in which a failed call may yet take effect, see `CacheEngine.cpp:1312`
  among the hazards.) A failed `Append` leaves nothing, half a
  frame (`"Torn"`) or a whole one: constant `Residue`. An `Append` cut off by the death of
  the process leaves what `CrashResidue` allows. The history variable `inDoubt` has the keys
  whose last Upsert in the journal is of a Put that reported failure. Replay stops at the first torn frame; its
  read errors are the business of `WriteAheadJournal`.
* `Crash` clears everything but journal and backing store and starts the next session.
  Every session of this module replays. In the code a session after a clean close does not;
  what that means for the journal is in `WriteAheadJournal`, and for the keys in
  `ServiceSession`.

### WriteAheadJournal

`file` is what the process sees, `synced` what the last successful `FlushDurable`
confirmed. `Append` and `Truncate` are two actions each, split at the flush, and each I/O
call can fail. A power cut leaves a member of `Survivors`: at least the synced frames, a
prefix of what was written after them, and the last of those possibly torn. A truncation that was not synced survives as the old or the new content. The
ghosts `acked` and `truncated` record what the caller was told. Magic, length and
CRC checks are abstracted to `accepted`: a torn frame never passes them, and neither does a
complete one whose payload is longer than `kMaxReasonablePayloadLength`, which `Append`
nevertheless acknowledges.

A session ends by a power cut or by the end of the process, and the next begins
(`NextSession`). It replays before anything else, unless the marker says that the session
before was closed cleanly (`RecoveryManager.cpp:32`). The model allows that after any session that was open
and had no call under way, whether it had truncated the journal or not: `Shutdown` truncates only when
everything is flushed, and the marker is closed in any case. Such a session appends with
sequence numbers from 0 behind what is in the file. `run` counts these starts, and a frame
carries the `run` it was written in, as history.

### ServiceSession

`main` walks through `OnServiceStart` and `OnServiceStop`; `marker` and `diskMarker` are
the marker file before and after its flush; the IPC thread is `ipc`. The engine and its
journal are reduced to sets of keys: `owed` (the newest acknowledged value is not in the
store), `unflushed` (the engine holds the key as Dirty), `readable` (a Replay would hand its
record over), and `torn` (there is a frame in the journal that Replay does not accept, so
that a record appended now is not found). A power cut during an Append, a failed Append and an
oversized payload make the journal `torn`; a successful `FlushAll` truncates it. Three
history variables say why an owed key may be unknown: `hidden` (its record is behind such a
frame), `leftBehind` (a `Shutdown` could not flush it) and `unread` (a Replay met a read error
before it). No code of the service itself calls `Put`; the action stands for
users of `ICacheEngine` in the process. Old and new marker records agree in magic and
version, so a torn one is short or has a bad checksum, never a bad magic. After a reply the
IPC thread waits in `Close` (`FlushFileBuffers`) for the client: `ClientReads`.

### KeyValueStore and FileBackingStore

`KeyValueStore` has the contents (`store`), the operation under way, and `possible`, the
contents an open may find: after an acknowledged operation exactly one; an operation that
has begun adds the outcomes in which it happened. An operation that failed may therefore
still turn up, which is what a log does: the frame of a failed flush is adopted by the next
open. `damaged` ends the promise.

`FileBackingStore` is the file as a sequence of cells, one for the header of a frame and
`Size[v]` for its value. A write of a frame over an older, longer one leaves the rest of
the older one behind it, as in the file. `images` are the contents of the file since
the last flush; after a power cut every cell comes from any of them (`Survivors`), so frames
are torn at the front, in the middle or at the end, and mixtures of two failed appends occur.
`Initialize` is four actions (scan, size, cut, flush of the cut), an append two.
The refinement (`KVS`) maps `store` to what `Get` tells for every key, by way of the index
and the file, not to a history variable; `possible` and `damaged` are shared.
Three things set `damaged`, and the run and the proof show that nothing else has to:

* a read error in the scan: it looks like the end of the log, and the rest is cut off;
* a `Size` that fails while there is a tail: the tail is left there (line 140);
* an acknowledged value longer than `kMaxReasonableLength`: the next open cuts there.

`DamageForgetsTheNewest` says what is left even then, unless `tailLeft`: a `Size` failed while
there was a tail, the flush after the cut failed, or the process ended between the cut and
that flush. In the last two cases the next open finds the right size and flushes nothing, and
a power cut may bring the tail back behind newer records. (That the end of the process
belongs here came to light when the property was proved.)

### ConfigStore

A document is a record of fields; text is a sequence of units, narrowed to bytes and widened
again as the code does; numbers wrap at `Word32` and `Word64` as `get<T>` does. `Save` is
`OpenTemp`, `WriteTemp`, `FlushTemp`, `Rename` and, on POSIX, `SyncDirectory`, each of which
can fail; both builds are initial states (`windows`). Files have an identity apart from their
names, so a saver may go on writing to a file that another has renamed. The service loads the
file or falls back to the defaults. No code of the service calls `Save`; it is part of
the library, and the savers stand for its users. A JSON value of the wrong kind is treated
like a file that does not parse. Two overlapping Saves on POSIX share the name `.tmp` and can
leave a broken file; the properties hold wherever that has not happened (`overlapped`).

### IpcExchange

The pipe is two bounded buffers of words. `SendFrame` returns when the buffer has taken the
whole frame, `ReceiveFrame` reads the length and then loops, `Close` waits until the client
has read everything and then drops the rest. `Handle` is `HandleOneIpcRequest` with
`PeekMessageType`, which looks at the type alone, and `DecodeInvalidateKeyRequest`, which
checks everything. A status or statistics payload is one word that differs from client to
client, so that a mixed-up reply would show. The clients use `ConnectNamedPipeClient` or are
the GUI's `FetchStatus`; the latter's own bound of 4096 bytes is beyond any status reply.
The pipe is opened for overlapped I/O and then read without an `OVERLAPPED`
structure; the model takes these calls to be synchronous, as the code does.

## Runs

Runs expected to pass:

| Run | Instance | Shows |
|---|---|---|
| `engine_interleavings` | 2 keys, one shard with room for one entry; a writer, a reader, a remover, a flusher and a `FlushAll` | `FillFindsKeyAbsent`, `DirtyDataKept` |
| `engine_shutdown` | WriteThrough, a shard without room for any entry; a writer, a remover, the background thread, a `Shutdown`; one failure; fairness | `TypeOK`, `InFlightExact`, `FlushOwned`, `UnflushedIsJournaled`, `CallsReturn`, `ShutdownCompletes` |
| `engine_recovery` | two writers of one key, an oversized value among theirs, a reader, a `FlushAll`, a second, empty shard; one failure, one crash, every residue | `CleanIsStored`, `PutsRecoverable`, `NewestWriteWins`, `VersionsUnique`, `DirtyCountExact`, `UnflushedIsJournaled` |
| `journal` | 4 appends of any length, 2 failures, 2 power cuts, 1 end of the process, torn frames, read errors, starts with and without a Replay | `AckedSurvivesUntorn`, `AckedPrefixSurvives`, `SequenceOrdered`, `TruncatedStaysGone` |
| `session` | 2 keys, 4 starts, 2 failures, 2 power cuts | `ForgottenIsExplained`, `PowerCutIsSeen`, `ClosedIsFinal`, `GenerationGrows`, `StopCompletes` |
| `store` | 2 keys, 3 appends, values below and beyond both limits, 1 failure, 3 restarts or power cuts | `KeepsPromise` (the refinement), `DamageForgetsTheNewest` |
| `config` | both builds, 2 savers, 2 Saves of 7 configurations, 9 initial files, 1 failure, 1 restart or power cut | `TargetWhole`, `RunningRoundTrips`, `StartFindsLastGood` |
| `ipc` | 2 clients, 11 requests, a pipe smaller than any reply | `RunIsAnswered`, `InvalidatedWereAsked`, `PipeComesFree` |

Runs that exhibit a disagreement between the code and what the repository says of it. Each
checks one property that a comment or a message states, and TLC finds a behaviour of the
code that violates it:

| Run | Property | What happens |
|---|---|---|
| `late_flush` | `CleanIsStored` | the store write of an older flush lands after that of a newer one |
| `two_compactors` | `UnflushedIsJournaled` | one compaction ends the pause of another, which then truncates a fresh record |
| `replayed_invalidate` | `Recoverable` | a replayed Invalidate removes the value that was put and flushed after it |
| `left_at_shutdown` | `LeftIsReplayed` | `Shutdown` cannot flush a key, the marker is closed, and the next start does not replay what the journal still has |

The passing instances of the same properties leave out exactly the ingredient that breaks
them. `engine_recovery` has a single flusher, no Invalidate and room for every entry (an
Invalidate whose removal comes after the flush of a newer Put also breaks `CleanIsStored`).
`engine_shutdown` has a single caller of `FlushAll` besides `Shutdown`. They show that nothing
else breaks the property within the bounds. `PutsRecoverable` is `Recoverable` for the keys of
which the journal can keep the promise (`Promised`): no Invalidate of the key is in it, no record
of the key lies behind a torn frame, and its last Upsert is not that of a failed Put; and
for a journal that replay gets through, that is without a record that `Decode` refuses.

Other places where the code does less than a comment says are conditions of the properties,
and the models contain the behaviour:

* `NewestWriteWins` fails once a newer entry can be flushed and evicted before an older Put
  commits: the version check of `InsertOrUpdateLocked` has nothing to compare with.
  (`engine_recovery` has room for every entry.)
* The frame of a Put that failed may be whole: the caller was told of a failure, and a replay
  applies it: `inDoubt` in `Promised`.
* A Put of more than 64 MiB is acknowledged, and a replay that meets its record fails, so that
  the engine does not start as long as the record is in the journal: the condition of `PutsRecoverable`.
* An Invalidate peeks at a Clean entry; the entry is evicted, and a Get that has read the store
  before the removal refills it, as version 0. The commit finds another version than it peeked
  at and leaves it ("leaving the newer state alone is the correct outcome",
  `CacheEngine.cpp:1349`), so the cache goes on serving the removed value as Clean: the third
  conjunct of `StoreUsesApart`. (`engine_recovery` has no Invalidate.)
* Nothing cuts a torn or oversized frame off the journal, so records appended behind it are
  acknowledged and never replayed: the condition `Untorn` of `AckedSurvivesUntorn`, and
  `hidden` in `ForgottenIsExplained`.
* `Replay` takes a read error for the end of the journal and succeeds, and the session goes on
  without the rest: `unread` in `ForgottenIsExplained`.
* A session that starts without a Replay behind records that a `Shutdown` has left numbers its
  frames from 0 again. `Replay` is documented to go "in sequence order"; `SequenceOrdered`
  holds of the frames that no such start separates. (The engine does not look at the numbers.)
* A WriteThrough `Put` that finds another thread's flush of its key under way returns Success
  before the store has the value, and that flush may yet fail (`ICacheEngine.h:103`). No
  property is about the moment of the return.
* `damaged` and `tailLeft` of `FileBackingStore`, `overlapped` of `ConfigStore`, see above.
* `docs/STAGE2_ARCHITECTURE.md` has version mismatches rejected; status, statistics and
  FlushAll requests of another version are run, and only their reply is rejected, by the
  client. A request of an unknown type is dropped without the `ProtocolError` of `Protocol.h`.

### Bounds

Every behaviour in the list of hazards needs at most two threads in the same call, two
versions of a key, two keys in a shard and one failure or crash; the instances have these
and one more of something. TLC scans more than one shard only in `engine_recovery`, where the second is empty; the
theorems are about any number of them. `MaxFlushAttempts` is 2 instead of 64: one round that goes on
and one that exhausts the limit. `MaxEntries = 1` with two keys makes every Put evict.
`CapacityBytes = 0` (a capacity smaller than the number of shards) makes every entry too
large, so that every WriteThrough Put goes through the loop of capacity relief, also in the run with
liveness. `Budget` bounds the calls per thread, `MaxFaults`, `MaxCrashes`, `MaxStarts`, `MaxExits` and
`MaxAppends`, `MaxCalls`, `MaxSaves` and `MaxRestarts` the rest.
In `store`, three appends allow an acknowledged record, a failed one over it and a third over
that; a value takes one cell, `MaxReasonableLength` is 1 and a DWORD ends at 4 cells, so that
one value is stored and then refused and another wraps. In `config`, `Byte` is 4, `Word32` 16
and `Word64` 32: the least numbers with room for ASCII, a two-byte UTF-8 sequence and values on both
sides of every limit. In `ipc` the buffers hold 3 words and the shortest reply has 4, so no
reply is ever sent in one go. Symmetry is used for the keys and the two small values of `store` and the savers of
`config`, which the specifications do not tell apart; not elsewhere, as the thread names of
the engine carry their roles and liveness is checked in `ipc`.
Deadlock is checked everywhere; `AtRest` is the only state without a further step that the
system may be in.

### Fairness

`FairSpec` of `CacheEngine` has weak fairness of recovery and of each thread's next step in
a call: the operating system runs every runnable thread, every I/O call returns, and a
condition variable wakes its waiter once the predicate holds (each change of it is followed
by `notify_all` or leaves it false). Starting a call is not fair. `FairSpec` of
`ServiceSession` is the same for the service's main and IPC threads, and it assumes that a
connected client sends its request and reads the reply, or goes away. Nothing in the code
enforces the latter: `RequestShutdown` interrupts `AcceptOnce` but neither `ReceiveFrame` nor
the `FlushFileBuffers` in `Close`, so a client that connects and stays silent holds up the
stop. `StopCompletes` therefore says exactly how far the promise in `OnServiceStop` reaches.
`FairSpec` of `IpcExchange` has the service's thread and the calls of a connected client;
leaving is not fair, so `PipeComesFree` covers clients that stay as well as those that go, but
not one that connects and then neither sends nor leaves: it keeps the pipe for itself.

## Proofs

A theorem holds for every value of the constants that satisfies the assumptions of its
module, which TLC evaluates in the runs. They are few: finitely many keys and threads,
`ShardOf` total, room for one entry, budgets that are natural numbers (`CacheEngine`); a frame limit of at least
a header and one word, finitely many clients, requests made of words, and a `NoClient` that
is no client (`IpcAssumption`, `ClientAssumption`); word widths in their order, members of an
`AppConfig` of the types they are declared with, documents whose text is UTF-8, and defaults
that pass `Validate` and `dump` (`ConfigAssumption`, `AppConfigAssumption`); sizes and limits
that are natural numbers, a DWORD of at least one value, and markers for "no value" and "not a
frame" that are no values (`StoreAssumption`). The bounds on
calls, failures and restarts are arbitrary, so the theorems speak of every finite behaviour.

In each module the property is not inductive by itself; the invariant that carries it is
named, and TLC has checked it on the instances of the runs before it was proved.

### The engine

* `TypeCorrect` (`TypeOK`): inductive as it stands. One lemma per call, one step per action.
* `DirtyCountIsExact` (`DirtyCountExact`): each action moves at most one entry between Clean
  and not Clean and changes `dirtyCount` of its shard by the same amount (`UncleanUpdate`);
  eviction takes Clean entries only, so it changes neither side. `StillMine` is what keeps a
  late flush from decrementing for an entry it does not own.
* `InFlightIsExact` (`InFlightExact`): the counter is the cardinality of the set of threads
  between admission and release; each step adds or removes one thread, or none.
* `FillNeverReplaces`, `VersionsAreUnique`, `FlushIsOwned` (`FillFindsKeyAbsent`,
  `VersionsUnique`, `FlushOwned`) all rest on `OrderInv`, which relates what every thread took
  from under a lock to what the cache holds now. A fence snapshot is not ahead of its fence,
  and one that is equal means that the key is still absent (`FillSnapshots`); versions under
  way were issued and are apart (`VersionsIssued`, `VersionsApart`); a flush past its claim
  still owns its entry, or a newer version has replaced it (`FlushClaims`); what a soft
  Invalidate has peeked at is Clean unless it has been replaced (`SoftPeeks`). `StartUp`
  (no call before the engine is ready, an empty cache before replay has ended) is proved first.
* `UnflushedIsKept` (`DirtyDataKept`), an action property, from `OrderInv` and `StartUp`.
* `UnflushedStaysJournaled`: `Spec /\ []OneCompactor => []UnflushedIsJournaled`. The
  hypothesis is that no two callers of `FlushAll` compact at the same time, and it is a real
  condition. The code does not ensure it: the service's IPC handler, its pre-shutdown handler and the
  engine's periodic thread all call `FlushAll`, and the run `two_compactors` has the rule broken
  when two of them meet. The theorem says that nothing else breaks it: not `Shutdown` (which may
  overlap with a compaction), failing appends, crashes or replay. The invariant is
  `LoopInv`: from its pause on a compactor keeps admission closed, its scan has behind it
  only shards that are clean, and before the truncation every entry is; and
  `PendingJournaled`: what replay still holds is in the journal. `DirtyCountIsExact` and
  `InFlightIsExact` are what make the scan and the drain mean that.
* `CleanStaysStored`: `Spec /\ []StoreUsesApart => []CleanIsStored`. The engine calls the store
  with no lock held; the hypothesis is that for one key no two flushes overlap, no flush
  overlaps an Invalidate past its peek, and no such Invalidate of an entry with a version meets a fill
  of the key. Each conjunct is needed: the first is `late_flush`, the others are the two ways in
  which an Invalidate breaks it (above). The invariant is `CleanInv`: a Clean entry is stored, or an
  Invalidate is about to erase that very version; what is being flushed stays in the cache, and
  what has been written stays in the store until the flush commits; what an Invalidate has
  peeked at, and what a Get is about to fill in, is still current.
* `NewestPutWins` and `NothingIsLost`:
  `Spec /\ []WritesApart => []NewestWriteWins` and `Spec /\ []WritesApart => []PutsRecoverable`.
  They assume nothing of the constants: any number of threads put, get, invalidate, flush and shut
  down, any I/O may fail, a failed or interrupted Append may leave nothing, half a frame or a
  whole one, values may be oversized, and the process may die anywhere. What they assume of the
  interleaving is what the code does not ensure and without which they fail: `OneCompactor` is
  the run `two_compactors`, `StoreUsesApart` is `late_flush` and the two Invalidate cases above,
  and without `PutsApart` (one Put of a key at a time between its Append and its commit) an
  older Put may commit after a newer one was flushed and evicted. What they say of a key they say
  while it is `Promised` (above): the run `replayed_invalidate` shows that an Invalidate in the journal
  takes the promise away, the journal's own model that a torn frame does.
  The invariant is `RecordInv`, with `CleanInv`. It is stated key by key, so that what spoils one key
  does not touch the others (`KeyInv`). Of a key that is not spoiled it speaks of the newest Upsert in the
  journal and of whether a FlushComplete of it follows (`KeyHeld`): a Put on its way to the cache
  is the newest and not flushed; an unflushed entry is the newest or such a Put is on its way; a
  newest that is not flushed is on its way or in the cache; one that is flushed is in the
  store; and a flush of a flushed key is a flush of that newest one. If the newest Upsert is of a failed
  Put, its version is in nobody's hands (`DoubtIsUnheld`), which is what makes the next
  successful Put restore `KeyHeld`. `RemovalsRecorded` says that an Invalidate which is about to change
  store or cache is in the journal, so its key is spoiled by then. `ReplayPends` says the same of
  replay's intermediate state. `ReplayedPends` then shows that `ReplayedUpTo`, the recursive
  reference replay that the property is defined with, is what `Pends` describes: if some prefix of the
  journal were replayed otherwise there would be a least one, and the record before it
  contradicts that. (The library's induction theorems cannot be used; the
  well-foundedness of the natural numbers can.) TLC checked `CleanInv` and `RecordInv`
  under their hypotheses on instances of the size of `engine_recovery`, with every residue, first.

### The session

`PowerCutsAreSeen`, `ClosedSessionsAreFinal`, `NothingElseIsForgotten` and the action
property `GenerationsGrow` (`PowerCutIsSeen`, `ClosedIsFinal`, `ForgottenIsExplained`,
`GenerationGrows`) follow from `SessionInv`: at each point of `main`, what the marker and its
disk copy are, what generation has been read, who uses the engine; that a Replay would hand
over all that is owed and not explained by one of the three causes (`JournalHasOwed`), that a marker which may be
found to read as closed covers nothing else (`ClosedOverExplained`), and that a session past its replay
knows the rest (`NothingForgotten`).

### The exchange

`OnlyAskedIsInvalidated` and `RunsAreAnswered` (`InvalidatedWereAsked`, `RunIsAnswered`) are
about framing. `RequestInv` says that what the service has read, what is in the buffer and
what is yet to be sent make up the encoded request, in this order, whatever the sizes; only a
complete frame reaches the decoder, and decoding is the inverse of encoding on it. `ReplyInv`
says the same of the reply, and that a client which has no reply yet has not finished.

### The journal

`TruncatedNeverReturns`, `ReplayIsInOrder`, `AckedPrefixIsSafe` and `AckedIsReplayed`
(`TruncatedStaysGone`, `SequenceOrdered`, `AckedPrefixSurvives`, `AckedSurvivesUntorn`) follow from `JournalInv`: what is in the file and
what is synced was appended since the last truncation that returned Ok, what was
acknowledged is synced, and, while nothing has failed, sequence numbers ascend below
the next one among the frames of one `run`, and the runs follow one another in the file. `Replay`'s stop at the first bad frame is characterised by "every frame up to
here is accepted", and the place of the stop is the least number of a set that is not empty,
which takes the place of an induction over the file. `AckedIsReplayed` needs in addition that
the payloads in the file and in every survivor are in the order of the Appends, so that
what Replay hands over is in that order and no record comes twice.

### The backing store

`StoreKeepsPromise` is the refinement, `Spec => KeepsPromise`: `FileBackingStore` implements
`KeyValueStore`. `StoreForgetsTheNewest` is the action property `DamageForgetsTheNewest`. Both
are about what a scan of an arbitrary mixture of file contents finds, so the first half of
`FileBackingStore_proofs` describes the scan: a *chain* is a sequence of frames, each
beginning where the one before ends, and the scan of a file returns the longest chain that is in
place in it, up to the first frame too long to be read. Chains in one file agree as far as both go. Where
this would be an induction over the file, a least counterexample is taken.

`StoreInv` says that index and end offset are those of a chain in the file (`Opened`) and,
until `damaged`, `Promise`: the acknowledged frames are a chain in every image since the last
flush, every frame that begins behind them in any image carries a value that is possible for
its key, what is possible for one key is independent of the others (`Free`), and behind the end
of the log of an open store no frame begins. The last is what the cut in `Initialize` is for, and why a tail that is
left ends the promise. From this every `Survivors` file scans to something possible.
Each step of the file is a step of `KeyValueStore` or leaves its variables alone: the step of
`Initialize` that reaches `idle` is `Open`; starting an append is `Begin`, its write is
`Attempt`, its flush `Succeed` or `Fail`; the end of the process is `Close`; the other steps of
`Initialize` are stutters, or a `Close` of a closed store that sets `damaged`.

For `DamageForgetsTheNewest`, `HistoryInv` says of every chain that may be on the disk, and not
only of those up to the first unreadable frame, that its contents were possible at some time
(`Remembered`). It is kept by an append because behind the chain that was there at the last
flush (`EraOf`) only appends of this era can continue it.

### The configuration

`TargetStaysWhole` (`TargetWhole`) and the action property `StartsWithLastGood`
(`StartFindsLastGood`) follow from `StoreInv`. As long as no two Saves have shared a temporary
name, the file a Save has open is the one with its temporary name, nobody else's, and not at
`path_`; what it renames is its own document, flushed; and each file that a power cut may
bring back holds a configuration that `Load` may return. Types hold even when names
were shared, which is what `LoadedRoundTrips` (`RunningRoundTrips`) needs: it holds without
that condition. Its core is the lemma `RoundTrip`, that `FromJson(ToJson(c)) = c` for every
`AppConfig` whose text fits in bytes, and `LoadFits`, that whatever wrapped in `get<T>`, what
`Load` returns fits its members and can be written again.

### Only model-checked

* Liveness: `CallsReturn`, `ShutdownCompletes`, `StopCompletes`, `PipeComesFree`. Fairness and
  ENABLED are out of the prover's reach.
* `CleanIsStored`, `UnflushedIsJournaled`, `NewestWriteWins` and `PutsRecoverable` without the
  hypotheses of their theorems. Of all behaviours they are false, as the violated runs show;
  `engine_recovery` checks them for two writers of the same key with room for every entry,
  a case that `PutsApart` excludes and in which nothing goes wrong.

## Plan

Done: the engine, the journal, the session, the backing store with its abstract
specification, the configuration, the IPC exchange; the runs and the theorems above. Every
safety property that a passing run checks is the subject of a theorem.

Worth adding: an abstract specification of the whole cache (one value per key, a write takes
effect at its commit) that `CacheEngine` implements for one writer per key, for which `RecordInv`
is the start; and a composition of session and journal.

## Not modelled

The bytes of a journal record (`JournalRecordCodec`: a stateless round trip, apart from its
refusal of values beyond 64 MiB), logging, the CRC, volume queries,
the installer, the GUI apart from its status client, and the benchmarks: they hold no state
that the promises above depend on, or only wrap the operating system. The statistics counters
are output. Pipe security descriptors are left to Windows. Timeouts do not appear in the
modelled code except the interval of the background flush, which may elapse at any time.
