# Verification of the SDN iOS SDK

This directory holds TLA+ models of the parts of the SDK whose correctness
depends on the order of things: what a crash interrupts, which thread runs
first, which response arrives late. Every definition is a translation of the
source under `src/`; `PROJECT.json` maps each one to the lines it stands for.

## Inventory

The SDK is the client side of a node: it keeps a long-polling sync loop, stores
what the node sends, encrypts and decrypts room events, and offers rooms,
calls, spaces, polls and media to an application. Almost all of it runs on the
main thread and is interleaved by callbacks; a few components own a serial
queue or an actor.

| Component | State | Operations | Interacts with | What is hard |
|---|---|---|---|---|
| MXFileStore | in-memory room stores, lists of what a commit must save, the queue of blocks, the backup token, the files | open and repair, apply a sync response, commit, close | MXSession calls it; its queue writes files; the next process repairs them | crashes between two file operations, blocks that read live memory, ignored commits |
| MXSession | state, current sync request, pause and resume counters, event stream token | start, pause, resume, background sync, serverSync, error handling | REST client, store, crypto, background sync cache | late responses after a pause, retry timers, pauses asked for while a response is handled |
| Background sync service and cache | metadata and response files shared by two processes | cache a response, mark outdated, read, merge, delete | the notification extension writes, the app reads and deletes | two processes with no lock, read-modify-write of the metadata |
| Access tokens | credentials in memory and on disk, the refresh group and queue | ask for a token, refresh, persist, log out | HTTP client, node, application, other processes | two processes, one refresh token, kills between answer and saving |
| Keys query scheduler | users awaiting a query, current and next task | query, failure, next query | callers await the task; crypto machine | actor re-entrancy at each await |
| Device list and operations pool | tracking status per user, pools of waiting operations | download, invalidate, cancel, success, failure | REST client, crypto store | results for operations that were cancelled or superseded |
| HTTP client | attempts, retry timer, reachability observers | try, retry, cancel, wake the next | REST client, reachability | completion exactly once among three sources of retries; a chain of wake-ups |
| Room send queue | ordered list of operations | send, cancel, complete | MXRoom, encryption, REST client | an operation that is cancelled while it runs |
| Room event timeline | timeline state, pagination token | sync sections, paginate, reset | store, session | live events that arrive during pagination |
| Room key requests | a request state per body | send, cancel, resend, timer | crypto store, to-device messages | cancellation while a send is in flight |
| Key verification | transactions and their states, a time-out | SAS messages | to-device and room messages | messages out of order, time-outs |
| Key backup | backup state, pending uploads | check, enable, upload, disable | REST client, crypto store | a backup that is disabled while it uploads |
| Calls | call state, timers | invite, answer, hang up, select | room events, call stack | glare, answers on other devices, time-outs |
| Megolm, Olm, crypto machine | sessions in a native library | encrypt, decrypt, share | device list, stores | the native code is not in the repository |
| Crypto stores, media, identity, notifications, content scanner, spaces, polls, room summaries, JSON models | derived data, caches and records | reads and writes | the components above | mostly pure functions or I/O |

What makes each correct, for the components in the plan:

- **MXFileStore**: whatever is interrupted, an opened store has every event
  behind its event stream token; erased rooms do not return; the repair can
  tell which token to go back to; settled files equal the memory.
- **MXSession**: at most one sync loop; a response is applied to the token that
  asked for it; no sync while paused; a paused session can be resumed.
- **Background cache**: the session never gets ahead of what it has applied; the
  cached responses continue each other; no message to the device is lost; a
  merged response has the effect of those it was made of.
- **Keys query scheduler**: one query at a time; every caller gets the answer of
  a query for all its users; no caller waits for ever.
- **Device list**: a list that counts as up to date is; a late answer never hides
  a change; every download is reported to.
- **HTTP client**: a request completes exactly once, and never waits for a
  network that is there.
- **Access tokens**: what is used is on disk before; one refresh for all the
  requests that were refused; every request ends.

## Modules

| Module | Models | Extends or instantiates | Proofs |
|---|---|---|---|
| `FileStore` (`MCFileStore` gives it streams) | the crash-recoverable store | | `FileStoreProofs` |
| `SessionSync` | the sync loop of MXSession | | `SessionSyncProofs` |
| `SyncCache` (`MCSyncCache` says how far a behaviour is followed) | the response cache, session and extension composed | | `SyncCacheProofs` |
| `SyncMerge` | the merging of cached responses, session included | | `SyncMergeProofs` |
| `KeysQueryScheduler` | the keys query scheduler | implements `KeysQuery`, the abstract promise | `KeysQueryProofs` |
| `DeviceList` (`MCDeviceList` gives it a symmetry) | device tracking and its two pools | | `DeviceListProofs` |
| `HTTPClient` | tries, waits and cancellation of requests | | `HTTPClientProofs` |
| `TokenRefresh` (`MCTokenRefresh` says which process makes which request) | access tokens in several processes | | `TokenRefreshProofs` |

Definitions next to a comment "Mutant of" are the ways in which the code could
be wrong that the properties are known to notice; `PROJECT.json` says which
property notices which.

What is left: the room send queue, outgoing key requests, SAS verification, key
backup and calls, each a state machine with timers; and the composition of
`SyncCache` with `FileStore` (`SyncCache` takes a commit of the store as one
step).

In all runs that turn deadlock checking off the system may really stop: an
application need not call, and the bounds stop the node.

## FileStore

`FileStore.tla` models `MXFileStore.m`, with the calls that MXSession and
MXRoomEventTimeline make into it. Its actors are

- the main thread (`BeginSync`, `StoreEvents`, `JoinInvitedRoom`, `DeleteRoom`,
  `FinishSync`, `AppCommit`, `StoreNodeMetadata`, `CommitDone`, `Close`): a sync
  response is applied room by room, and the dispatch group's notify block then
  sets the token and commits in one turn of the run loop;
- the serial `dispatchQueue` (`SaveDeletion` ... `CommitEnd`): the blocks of a
  commit in the order of `saveDataToFiles`, each replacing a file in steps (move
  to the backup folder, write). The message file is renamed into place by its
  archiver, the state and the metadata are written in place;
- the removal of the backup folder (`RemoveBackup` ... `RemoveBackupFolder`);
- the opening (`OpenClean` ... `NewStore`): `checkStorageValidity` and the reset;
- the environment: `Crash` at any point, and `Closed` when the store is released.

Data are abstracted to what the properties tell apart. The node's stream is the
constant `ServerLog`, whose entries are events, joins after an invitation and
leaves of rooms; a token is the set of log positions sent before it, and a room
file is the set of log positions it holds. The two files of a room stand for
those of all room kinds of data.

Three constants say what is assumed. `Overlap` allows a response to be handled
while a commit is pending; nothing in the code prevents it, but a commit is
usually over long before the next response. `AtomicRemoval` makes
`removeItemAtPath:` of the backup folder one step, `AtomicReset` that of the
store when it is reset. `MaxCrashes` bounds the crashes and
`ServerLog` the stream; pending commits are bounded by the code itself (two)
and the queue with them.

### Properties

| Property | Meaning |
|---|---|
| `TypeOK` | types; the count of pending commits never wraps |
| `NothingMissed` | an open store holds every event up to its token, in messages and state |
| `NoGhost` | no message from before a handled leave or first join is in a room store |
| `OneBackup` | the backup folder never holds two token folders |
| `DurableAtRest` | settled files say what the memory says |
| `Erased` | settled files hold nothing from before a handled leave |
| `Drains` | an open store leaves the state in which it ignores commits |

### Runs

`MCFileStore.tla` gives the streams. Two rooms are enough because blocks treat
rooms independently but a commit does not; one leave and one join are enough
because a room's history before its last leave is what must not return; two
crashes let a repair itself be interrupted.

| Run | Result |
|---|---|
| `FileStore_quiet` | two rooms, an accepted invitation, a leave and a rejoin, the room saved twice since, two crashes, folders removed at once, one response at a time: `TypeOK`, `NothingMissed`, `NoGhost`, `Erased` |
| `FileStore_busy` | one room left after one event, responses while commits are pending, up to ignored commits, folders removed file by file, one crash: `OneBackup`, `DurableAtRest`; and `Drains`, under weak fairness of the queue and of the blocks posted to the main run loop |
| `FileStore_overlap` | violation of `NothingMissed`: the metadata block saves the live token, ahead of what its commit saved |

The properties that hold do so within the assumptions of their runs, and some of
these are narrower than one would like. With other values of the constants TLC
finds

- `NothingMissed` violated with `AtomicRemoval` `FALSE` and two crashes. The first
  interrupts the removal of the backup of a commit that is over, when the saved
  metadata is gone but files of rooms remain; the next opening moves these over
  the newer ones, fails the check of the token (`MXFileStore.m:1357`), and removes
  the backup (`:1360`) before the store (`:1373`). A second crash between the two
  leaves a mixed store that passes for the result of a clean commit;
- `NothingMissed` violated with `AtomicReset` `FALSE` and two crashes: the second
  one interrupts a reset, which removes the store in place, and leaves a metadata
  file whose token is ahead of the room files (`:1369`);
- `NoGhost` violated with `Overlap`: a room that is joined again reads the file
  that a queued block is about to delete (`:884`);
- `Erased` violated with `Overlap` in a new store: `saveRoomsDeletion` does
  nothing without a backup token (`:1618`).

An ignored commit (`:762-764`, "we are sure that it will be done on the second
pass") is made up for by the next commit: both passes may already have taken
their list of what to save.

Fairness: GCD runs the blocks of a serial queue, and the main run loop those
posted to it; neither is assumed of sync responses, commits or closing.

### Proofs

`FileStoreProofs.tla` proves, for every set of rooms, every stream and any number
of crashes,

- `TypeCorrect == Spec => []TypeOK`. `CommitDone` subtracts one from
  `pendingCommits`, so `Counted` relates it to the commits still queued
  (`Cleanups`, a cardinality over the queue) and to those posted to the main
  thread; `InFile` says whose file is being replaced; `MetaToken` that the
  metadata holds a token. Together they are `TypeInv`;
- `OneTokenFolder == Spec => []OneBackup`. The backup token changes only in the
  metadata block, and `QueueInv` says that the next block is then the end of the
  commit, which removes the backup; the one exception is the metadata of a new
  store, which finds no file to move. `DirsInv` is the inductive form: the token
  folder is the one of the backup token except between those two blocks;
- `SettledIsSaved == Spec => []DurableAtRest`. `DurableInv` follows each room's
  messages and state through the queue: what the memory has is on disk, or is in
  the lists of the next commit, or in a queued block whose list and snapshot will
  write it (`SavedOnce`), and the same for the metadata (`MetaSaved`); `Replaces`
  is the file that is being replaced meanwhile, `NotLoaded` what is true before
  the store is open;
- `NeverMisses`, `NoGhostReturns` and `ErasedForGood`, the other three invariants
  under `Careful == ~Overlap /\ AtomicRemoval /\ AtomicReset`, each part of which
  excludes a counterexample listed above. All three follow from `RepairInv`:
  `Disk` says of every state of the files, in the middle of a block or of a repair
  too, which token a repair would go back to (`Target`) and that every room file,
  or else its copy in the backup, is right for that token; `Opened` what the
  opening has found so far; `UpInv` how the memory, the queue and the files of an
  open store fit together (the order of the blocks of a commit, what they have
  still to do for each room, that a file is moved to the backup once). That a crash
  keeps the invariant is then immediate, because `Disk` is what a crash leaves.

The first three need no hypothesis. `Drains` stays with TLC: liveness is out of
the prover's reach.

## SessionSync

`SessionSync.tla` models the sync loop of `MXSession.m`. Everything it decides
runs on the main thread, so a turn of the main thread is one action, with two
exceptions: a turn that calls a block of the application (`turn` says which, and
the application may call the session from there), and a response, which waits
in the run loop between its receipt, its notify block, the last of its rooms and
its end. Its actors are

- the application: `Start`, `Pause`, `Resume`, `BackgroundSync`, `Reconnect`,
  `Close`, `RetainPreventPause`, `ReleasePreventPause`, `ChangeActive`;
- the main thread: `ReceiveAnswer`, `Notify`, `Apply`, `LastMessagesFixed` and
  `EndSync` take a response to its end, `BackgroundSyncDone`, `ResumeDone`, `Run`
  and `Pursue` are the rest of that turn around the blocks it calls,
  `ReceiveFailure` to `RetryWhenReachable` are `handleServerSyncError`, `Retry`
  and `RetryReachable` its timers and its reachability observers, `GotProfile`,
  `StartedCrypto` and `StartFails` the initial start, `ApplyCache` and `CacheDone`
  the processing of the background cache;
- the environment: the node and the network (`Answer`, `RequestFails`,
  `RequestCancelled`, `NetworkLost`, `NetworkBack`, `NodeEvent`), the
  notification extension (`ExtensionSync`) and iOS (`ExpireBackgroundTask`).

`req` holds every request and response under way and `eventStreamRequest` the
last one made: the code knows only the latter, and most of what can go wrong
comes from the difference. `main` is the queue of what was posted to the main
thread. A token is a position in the node's event stream. A cancelled request
still ends with a failure; one whose answer is already on its way does not.

`Careful` says what four of the safety properties, and the two liveness
properties, need of the application. The SDK does not ask for it, nor does it let
an application see all of it; each part excludes something that the model, like
the code, does without it:

- it resumes, and starts a background sync, only once all that an earlier
  request left behind is over (`NothingLeft`; the cancellation of a request may
  still be to come when it resumes), unless the session has a request.
  Otherwise an answer that is on its way when the session is paused passes for
  that of the request made on resume (`MXSession.m:1510-1511` compares with no
  request in particular), and two loops go on; a retry that is armed does the same
  (`:1790`); and the cache of the extension is applied while a response is still
  being handled (`:2113`). TLC finds `OneLoop` and `InOrder` violated;
- it does not pause during an initial start. Otherwise the initial sync stops in
  the paused state with its request kept (`:1669`), and no resume works: with
  `Careful` `FALSE` TLC finds `PausedIdle` and `ResumeAnswered` violated;
- it does not pause in the failure block of a background sync: the error handling
  goes on, says NodeNotReachable or SyncError and arms a retry that finds no
  request (`Driven`). Nor does it prevent a pause that long;
- it reconnects only a request that is sent and is neither initial nor
  background: the cancellation would count as the failure of the initial sync;
- it does not start again a session that has a token and a request: after a
  failed catch-up of an initial sync that start waits for ever.

What holds of any application is stated without it: how loops can multiply and
end (`OneForOne`), what a paused or closed session does by itself (`StaysQuiet`),
and `PauseHonoured`. A session may be closed at any time, also while a response is
handled, whose end then sets Running in the closed session (`:1662`).

A resume of a session whose initial sync failed leaves `InitialSyncFailed`, which
by its documentation only a start does; nothing above depends on it, and it is
allowed. One thing goes wrong for a careful application too: the failure block
of a background sync is kept when the background sync is done, and the next
failure calls it (`:1619`).

`Calls` names the calls the application makes; `MaxStream`, `MaxCalls` and
`MaxErrors` bound the node's stream, the calls, and the failures other than
cancellations. Three requests suffice for a loop, the one that replaces it and
one that was given up; an action that would need a fourth is not enabled.

### Properties

| Property | Meaning |
|---|---|
| `TypeOK` | types; the count of what prevents a pause never wraps |
| `OneLoop` | never two syncs, nor a sync and a retry, under way |
| `InOrder` | a response, or the cache, is applied to the token it continues |
| `PausedIdle` | a paused session has no request, so that it can be resumed |
| `Driven` | a session that syncs, runs or will retry has something that takes it on |
| `PauseHonoured` | a delayed pause lasts no longer than what prevents it |
| `OneForOne` | of any application: what is under way is followed by one thing at most, so that only a call can double the loop, and the last one ends in a session that is paused, closed, could not start, or has no request |
| `StaysQuiet` | of any application: a session paused or closed with nothing in hand stays so until the next call |
| `ResumeAnswered` | the block of resume is called, or the session is paused, closed or fails |
| `Recovers` | a session that lost the node runs again, or is paused or closed |

### Runs

| Run | Result |
|---|---|
| `SessionSync_careful` | all calls, errors and the extension, also while its cache is processed, careful: `OneLoop`, `InOrder`, `PausedIdle`, `Driven`; and, under the fairness below, `ResumeAnswered` and `Recovers` |
| `SessionSync_any` | the same of any application: `TypeOK`, `PauseHonoured`, `OneForOne`, `StaysQuiet` |

Three calls are enough for a pause and a resume after something else;
two events of the node for a response that is late and one that is not; two
errors for a retry that fails again. `SessionSync_any` has one event and one error:
late answers and a second loop need the calls, and the properties, which are
proved too, say nothing of the token.

Fairness: the main run loop runs what is posted to it and timers fire, a request
ends because it has a client timeout, rooms finish their part of a response,
the profile and crypto requests of a start end, and the network comes back once
it was lost. Nothing is assumed of the application, the node's events, the
extension, or failures.

### Proofs

`SessionSyncProofs.tla` proves, for every value of the constants and of any
application,

- `TypesKept == Spec => []TypeOK`. `TypeOK` is inductive; its proof follows the
  operators the actions share (`ServerSync`, `PauseNow`, `DoResume`, `LetPause`,
  `PauseAgain`), each with a lemma;
- `PauseIsHonoured == Spec => []PauseHonoured`, inductive together with `TypeOK`,
  which says that the state restored after the background cache is never a
  requested pause;
- `OnlyCallsFork == Spec => OneForOne`. That nothing forks by itself needs `Blocks`:
  a request has one block at most, posted or running, and is at the stage that
  block expects. Otherwise one request could be answered twice, and each answer
  would make the next request. The proof counts the live requests of each step;
- `QuietStays == Spec => StaysQuiet`, from the same invariant: the blocks that are
  posted belong to requests that are not being handled, and each of them, like
  the timers and observers, looks for a request and finds none.

`OneLoop`, `PausedIdle`, `Driven` and `InOrder` are model-checked only, for careful
applications: a theorem about them would say no more than `Careful` lets it.
`ResumeAnswered` and `Recovers` are liveness and stay with TLC.

### Not modelled in SessionSync

- Retries inside the HTTP client, which `HTTPClient` has, and access tokens: a
  request is sent, answered, failed or cancelled, once.
- The notifications of state changes other than the one before a loop goes on:
  their listeners could call the session too. Nor the blocks that a call runs
  at once because it can do nothing.
- Which block of resume is owed: the model knows that one is.
- Opening the store, changing the filter, logging out, and a crash of the
  process, which FileStore models from the side of the store.
- The extension is taken to read the token the session has in memory; the token
  on disk and the response files belong to `SyncCache`.

## SyncCache

The notification extension syncs on its own and leaves the responses in files
that the session takes when it resumes. `SyncCache.tla` composes both sides:

- the session: `Look` to `DeleteData` are `handleBackgroundSyncCacheIfRequired`,
  `outdatedSyncResponseIds`, the merge and the deletion of what was read, each
  access to a file a step of its own; `Sync`, `Synced`, `Commit` and
  `PauseAndResume` are the loop, its store and its life cycle as far as the cache
  is concerned;
- the extension: `Event` and `Mark` (the responses that do not continue the
  session's token become outdated), `Launch`, `Store`, `WriteFile`,
  `ReadMeta`, `TruncateMeta`, `WriteMeta` and `Crypto`;
- the node (external), which deletes messages to the device once it is asked to
  sync from a later token; and kills of either process.

The two processes share no lock, and either changes the metadata by reading it and
writing it later, with anything of the other process in between. Ids are numbered
as they are made, so that the lists of ids are sets. A metadata file that is being
written can be read as empty. The session writes from a queue of its instance of the
store: `ReadDropped`, `Truncate` and `Forget` run while it looks, with another
instance, for what came meanwhile (`Again`); `ReadData` to `DeleteData` remove the
rest id by id, and the last of these writes and the removal of the metadata file
(`RemoveMeta`) are pending while the session goes on.

Two variables of the specification are history, which no step depends on:

- `lost`: an update of the metadata has been lost. One of the processes replaced
  metadata that is not what it had read, or the session looked at the cache again
  while its own write was still to come;
- `torn`: metadata has been read while it was being written, or a process was
  killed in the middle of that (`data.write(to:)`,
  `MXSyncResponseFileStore.swift:165`, does not ask for an atomic write).

| Property | Meaning |
|---|---|
| `NoGap` | until an update is lost: the session, in memory and on disk, never has a token beyond an event it has not applied |
| `Chained` | until an update is lost or metadata is torn: live responses continue each other, or the first is gone and all will be dropped |
| `KeysKept` | a message to the device that the node has deleted was given to a crypto module |
| `Served` | the session gets through the cache and back to its loop |

`SyncCache_shared` checks all four with two positions of the stream, two files, two
syncs of the extension and one kill: two files for a chain, and for a response
that is made when another is outdated; two syncs for an id added to a list that
is not empty. `MCSyncCache` follows a behaviour up to its first lost update
(`Followed`): what is claimed of later states, `KeysKept`, is proved for them.
`Served` assumes that the queues of the session run (`CacheStep`) and nothing of the
extension.

That `lost` is needed, TLC shows when `NoGap` and `Chained` are stated without it; the
code does not keep them:

- Z and A are live, the session has handled Z and reads the metadata to delete its
  id; the extension adds L and syncs on from its end; the session writes back A
  alone. The extension then merges its next response, which starts at the end of
  L, into A, and the hole is in a file that the session applies. The metadata's own
  documentation says that the ids are all the valid responses, "chronologically
  ordered" (`MXSyncResponseStoreMetaDataModel.swift:29`);
- the session deletes a file in `deleteData` that the extension is just rewriting,
  and goes on with the write of its id pending. A pause and a resume find the
  rewritten file first in the list, with the right token; then the id is taken
  out, and the session applies what follows it (three files and four syncs).

`torn` does no harm to `NoGap`. `Chained` needs it: a file read as empty makes the
extension start a new chain at the session's token.

One assumption is a constant: `Careful` says that the extension is not killed
between caching a response (`MXBackgroundSyncService.swift:434`) and giving it to
its crypto module (`:436`). Otherwise, if the response becomes outdated, its messages to the
device are lost (`KeysKept`), although `MXSession.m:2116` says that outdated
responses need no handling any more.

Abstractions: an answer is computed when the request is made; all files are read
in one step when they are merged; `hasAny` and the token of the first response
are read together, by the extension too (`Event`, where the code reads the ids, the
metadata and the file one after another, `MXSyncResponseStoreManager.swift:74-82`),
an id with its file, and the two lists of ids that `deleteData`
starts from; whether a response is too large to be merged is a free choice. A
second instance of the store deletes files only once the write of the first one
is done (`~Rewrites` in `Delete`, `ReadDropped` and `ReadData`), which restrains only
what comes after a lost update. The crypto store is shared by both processes
(`MXBackgroundCryptoV2`).
Files whose id was lost stay on disk and are not looked for.

`SyncCacheProofs.tla` proves, for every stream, number of files, syncs and kills,

- `MessagesKept == Careful /\ Spec => []KeysKept`, with updates lost and files half
  written. `KeysInv` says that every message up to the end of a response is handled
  or still in it (`Held`), that for the files whose ids anyone has read, all but
  the one in the extension's hands, it is handled (`Done`), and that such an id is
  of a file that was made before (`Numbered`);
- `NeverSkips == Spec => []NoGap` and `ChainKept == Spec => []Chained`, without a
  hypothesis: what is kept until an update is lost is part of the properties. The
  invariant, `GapInv`, is stated of `View`, the metadata as
  if nobody were writing it, which is what whoever writes it has read. A response
  has all events between its tokens but for those behind the saved token of the
  session (`Files`), and so have the live files together, of which only the first
  may be gone (`Chain`); what the extension adds goes on from the last of them
  (`Caching`); and each stage of the session has ids (`Reading`, `Dropping`) or a
  response (`Applying`) for which that is still true when it is used.

## SyncMerge

`SyncMerge.tla` is what the cache does with two responses that tell of one room
(`merged(_:onto:)` in `MXSyncResponseStoreManager.swift`), together with what the
session does with the result, for every log of a room of at most `MaxLog` events.
`reference` is the room had the session handled each response itself. An event is
a position in the log; a state is the last state event and the last membership of
the user, and a section of a response has a state, a timeline and whether it is
limited. The node (external) sends what a section's timeline does not have of the
state since the last response; a user who is back in a room gets its whole state,
with a limited timeline; an invitation has the state with the user's invitation.

`lazyLoading` is `syncWithLazyLoadOfRoomMembers`, which a session has or not from
its start (a session started without a filter has not, `MXSession.m:865`). With it
the section a room is in tells the user's membership (`Entered`,
`MXRoomEventTimeline.m:444`, `:559`); without it only the user's own member event
does, in a state or in a timeline (`Stated`).

| Property | Meaning |
|---|---|
| `SameRoom` | as long as no merge lost what it merged: the merged response leaves the user's membership and the room state of the single ones |
| `NoHole` | as long as no merge lost what it merged: a joined room has every event down to where pagination goes on, and the same ones |

`SyncMerge_cached` checks both for logs of six events, which hold two leaves and
what comes between and after them, with timelines of at most one or three events,
lazily loaded and not. `fits` is history, which no step depends on: whether every
merge so far could hold what it merged (`Fits`). Nothing in the code sees to
that, and without it TLC finds both properties violated:

- a room that was left and joined again within one cache, or is left and the user
  invited, is in two sections of the merged response, and the session, which
  handles left rooms last, removes a room the user is in;
- a state event in a timeline that a later, limited one empties (`:264`-`:266`)
  is lost, because the later response starts its state after it;
- so is the user's own join in such a timeline: without lazy loading the room
  stays unknown, or an invitation, in the session that takes the merge, although
  the user has joined it.

`SyncMergeProofs.tla` proves `RoomIsSame == Spec => []SameRoom` and
`NoHoleLeft == Spec => []NoHole` for every log of the room, every
division into chunks and every length of timelines. The invariant speaks of the
room that the session would have if it took the cache now (`Taken`): while `fits`,
it is where the reference is and has every event from where pagination goes on
(`Following`), and what is cached tells of the log up to `token` only (`Merging`). A
step of the extension then needs two facts:

- merging a response into the last chunk has the effect of merging it onto all of
  them (`MergeAssociates`, `CacheGrows`). That is not so of what is left of the
  timeline of a room the user left, which the session does not look at, so that
  the lemma is stated up to `SameEffect`;
- handling a merge of two responses is handling one after the other
  (`ResponseMerged`), given what the node puts in a section (`SectionIs`,
  `ResponseIs`) and that the two fit (`Fits`).

`MergedAll` is a recursive function over the chunks, and the provers have no
induction with a property as its parameter. What is needed of it, that there is
one such function and what it gives for one more chunk, is proved through the
least position at which it would fail (`LeastOf`, from the well-foundedness of
the subsets of a finite set).

## KeysQuery

`KeysQueryScheduler.tla` is the actor of `MXKeysQueryScheduler.swift`. A task is
named after the call that made it. Every step from one await to the next is an
action: `StartQuery`, `ShareCurrent` and `AwaitNext` are a call, `RunFirst` and
`RunNext` a task that starts, `Answer` the node's answer or failure with the
deferred block that promotes the next task, `Return` the call that goes on.

`KeysQuery.tla` is what it promises, without tasks: one request at a time, for
exactly the users of its calls; a call waits for the request under way and at
most one more. `Promised` is that specification under the mapping at the end of
the scheduler, liveness included.

| Property | Meaning |
|---|---|
| `OneInFlight` | one request at a time |
| `Covered` | the request whose answer a call gets asked for all its users |
| `Promised` | the scheduler implements `KeysQuery` |
| `Returned` | every call returns, after failures too |

`KeysQuery_shared` has three calls and two users: one call is under way, one
makes the next task, the third joins either, or comes when the second has become
current. Fairness: Swift runs tasks that are ready, and the HTTP client ends
every request.

A call that shares the running request gets an answer that the node may have
computed before the call was made; for a caller that has just been told of a
change that answer may be too old. The promise is stated as the code keeps it.

`KeysQueryProofs.tla` proves `SchedulerTyped`, `OneRequest`, `AnswersCover` and
`Implements` for every set of calls and users. The invariant names the live tasks
(`Tasks`), says that tasks are their own calls' (`Joins`), that the users kept for
a task are those of the calls that await it (`Users`), which is why a next task
may look them up late, and what requests that ended asked for (`Past`).
`Implements` maps each step to a step of `KeysQuery` or to none; its fairness is
only model-checked.

## DeviceList

`DeviceList.tla` is `MXDeviceList` with its pools. A download is an operation; the
current pool has a request for its users under way, the next pool collects the
others. `Download` is `downloadKeys`, `SyncChanges`, `StartTracking`,
`StopTracking` and `SyncCompleted` are what a sync does to the list,
`QuerySucceeds` and `QueryHasFailed` the end of a query with the start of the
next pool, `ReportSuccess` and `ReportFailure` the blocks by which operations
hear of it later, `Restart` a killed application that reads the stored status.
Devices are a version number that the node counts up. A query that was cancelled
may still be sent and succeed: a client that waits for its token does not look
(`MXHTTPOperation.m:61`).

| Property | Meaning |
|---|---|
| `UpToDateIsFresh` | a list that counts as up to date has what the last sync told of |
| `Reported` | a download is in one pool or one posted block, and the pools are served |
| `QueryHasUsers` | the assertion of `addOperation` (proved, not in a run) |

| Run | Result |
|---|---|
| `DeviceList_careful` | three downloads, two users of whom one's devices change, one restart: `TypeOK`, `UpToDateIsFresh`, `Reported` |
| `DeviceList_stale` | violation of `UpToDateIsFresh` without `Careful` |

Three downloads are one for each pool and one that asks again. The violation: a
user changes while a query is under way and is queued for the next one; a third
download that finds all its users in the current pool joins it, takes over their
registration (`MXDeviceList.m:199`), and the old answer then marks them as up to
date, against the comment at `:166`. `Careful` says that nobody asks again for
such users.

`DeviceListProofs.tla` proves `ListTyped`, `AssertionHolds`, `ReportedOnce == Spec =>
[]Reported`, and `UpToDate == Careful /\ Spec => []UpToDateIsFresh`. `TInv` adds to the types that what is in a
pool was made and asked for; `Fresh` says that versions only grow
(`Versioned`), that what the registered operation of a user will store is as new
as the last sync (`Registered`), and what a restart goes back to (`Saved`).

Left out: the chunks of a query for more than 250 users
(`MXRestClient+Extensions.swift:75`), whose cancellation calls neither block; what
the crypto store keeps of devices besides their version. `handleDeviceListsChanges`
and `onSyncCompleted` have no caller in this repository any more; they are
modelled as they are written, around a sync.

## HTTPClient

`HTTPClient.tla` is the way of a request through `MXHTTPClient.m`: `Make`,
`TokenGiven` and `TokenRefused` before the first try, `Ends`, `TokenUnknown`,
`Limited` and `NoResponse` after one, `Retry`, `GiveUp` and `WakeNext` for the
waits, `Cancel` at any time. Requests that wait for the network are a queue;
`WakeNext` sends the first, and the completion of that one wakes the next
(`wrapped`, `owed`).

| Property | Meaning |
|---|---|
| `Once` | a request completes once, and waits in one place at most |
| `NoneStranded` | requests wait for a network that is there only behind one that was woken and is out |
| `Ended` | every request comes to an end |
| `CanceledNotWoken` | a request canceled while it waits for the network is not sent (proved, not in a run) |

`HTTPClient_network` has three requests, because a chain of wake-ups needs one
that was woken, one canceled behind it and one more. `MaxTries` and `MaxSends`
are two: the node's rate limit has no other bound than time. Fairness: a try is
answered or times out, the token provider answers, timers fire, blocks run. That
the network comes back is not assumed: `GiveUp` is a timer.

`HTTPClientProofs.tla` proves `ClientTyped`, `CompletesOnce`, `ChainUnbroken` and
`NotWoken` from one invariant, in which `Tries` bounds the tries by what a request
waits for. `Ended` stays with TLC.

What the model shows of the code besides:

- requests do not always leave one by one: a second change of the network wakes
  the next before the first is through (`:782-784`), and a woken request that
  fails again queues at the end (`:806`);
- a rate-limited request, one that waits for a timed retry or for a token is sent
  although it was canceled (`:426`; `MXHTTPOperation.m:61`);
- a request canceled while it waits for the network, with the network back before
  the timer, gets neither of its blocks (`:571`).

Left out: the trust of certificates, background tasks, uploads, and the
invalidated session.

## TokenRefresh

`TokenRefresh.tla` is the token provider of `MXRestClient.m` in several processes
that share an account. In a process, requests ask one after another on
`refreshQueue` and wait while `refreshDispatchGroup` is entered (`Provide`);
between processes the persisted credentials are handed to one refresh at a time
(`Persisted`; external: `persistTokenDataHandler` of the application). `Granted`,
`Denied`, `Lost` and `Unauthenticated` are how a refresh ends, `Answered` how a
request does, which asks again once if its token is refused. `Close` releases a
client, `Crash` kills a process. Pairs of tokens are numbered; the node gives a
new pair for one as long as it has not seen a later one (external).

| Property | Meaning |
|---|---|
| `SavedBeforeUsed` | the node never sees a token that is not on disk |
| `GroupMatched` | the refresh group is entered only while a refresh will leave it |
| `OneRefresh` | the requests refused together, in two processes too, make one refresh |
| `RetriedWithNew` | a refused request is not sent again with the token it was refused with (proved, not in a run) |
| `AllEnd` | every request comes to an end |

`TokenRefresh_shared` has two requests of the application and one of its
extension, two pairs that come near their expiry, and one fault: two requests of
a process for the group, one in the other for the persisted credentials. Fairness:
the queues run, every request is answered or times out, and the application calls
the completion of `unauthenticatedHandler`.

`Careful` says that no client is closed while its refresh is out. Otherwise its
blocks are never called (`MXHTTPClient.m:365`), the group of the process stays
entered, against the comment at `MXRestClient.m:268`, and all later requests wait:
TLC finds `GroupMatched` violated.

`TokenRefreshProofs.tla` proves the first four, `GroupMatched` under `Careful` and
`RetriedWithNew` as `AnotherToken`, and the types. The invariant says that the group counts one request (`Grouped`),
that a refresh under way has the lock and why (`Locked`), how the pairs in memory,
on disk and at the node are ordered (`Ordered`), and that the token of a refused
request is of no more use (`Replaced`). `AllEnd` stays with TLC.

Left out: accounts without refresh tokens, and tokens the node revokes before they
expire, for which the persisted token would be taken again. Of the former the
code shows that a refused request gets neither block when there is no
`unauthenticatedHandler` (`MXRestClient.m:288`). The model has, and no property
forbids, that a refresh uses the refresh token in memory (`:388`) although the
persisted one it has just read may be newer: the node then denies it, and the
application is told that it is logged out.

## What is only model-checked, and what is not modelled

Every safety property that a passing run checks is proved for all values of the
constants, but for the four of `SessionSync_careful`; `PROJECT.json` lists the
theorems. What stays with TLC besides is liveness, which is out of the prover's
reach: `Drains`, `ResumeAnswered`, `Recovers`, `Served`, `Returned`, `Ended`,
`AllEnd`, and the fairness in `Promised` (`Implements` proves its steps).

Some theorems have a hypothesis: `Careful` for `NeverMisses`, `NoGhostReturns` and
`ErasedForGood` (FileStore), `MessagesKept` (SyncCache), `UpToDate` (DeviceList) and
`GroupIsLeft` (TokenRefresh). They say nothing of a caller, a kill or a removal
that is not as it says: the sections above say what TLC finds then, and the two
runs that expect a violation keep the plainest of these at hand. `NoGap` and
`Chained` (SyncCache), `SameRoom` and `NoHole` (SyncMerge) have the condition in
themselves, as history of what has happened, and are proved of every behaviour.
A hazard in `PROJECT.json` that a run's assumptions exclude says so in its note.

Native cryptography (Megolm, Olm, the crypto machine) is not in the repository.
Media, JSON models, request building and the derived data of rooms have no order
of events to model. The components with state machines that are left are listed
under "Modules"; `PROJECT.json` has a line on each component.
