------------------------------ MODULE FileStore ------------------------------
(***************************************************************************)
(* The crash-recoverable commit of MXFileStore: the main thread that       *)
(* applies sync responses to the in-memory store and calls commit, the     *)
(* serial dispatchQueue that writes the files, the backup folder named     *)
(* after the event stream token, and the repair made when the store opens. *)
(*                                                                         *)
(* The node's event stream is the constant ServerLog.  A token is the set  *)
(* of the log positions that its holder has been sent, 1..k, so that {} is *)
(* the missing (nil) token and a later token is a superset of an earlier   *)
(* one.  The content of a room file is the set of log positions it holds.  *)
(***************************************************************************)
EXTENDS Integers, Sequences, FiniteSets

CONSTANTS
    Room,           \* room identifiers
    NoRoom,         \* "no room", also the room of the metadata file
    ServerLog,      \* the node's event stream, a sequence of log entries
    Overlap,        \* may a response be handled while a commit is pending?
    AtomicRemoval,  \* is the backup folder removed at once?
    AtomicReset,    \* is the store removed at once by a reset?
    MaxCrashes      \* bound on the number of crashes

\* "join" is the first join section of a room the user was invited to: the
\* timeline erases the room before it stores the events.
Entry == [room : Room, kind : {"event", "join", "leave"}]

ASSUME RoomAssumption == NoRoom \notin Room
ASSUME LogAssumption == ServerLog \in Seq(Entry)
ASSUME ModeAssumption == {Overlap, AtomicRemoval, AtomicReset} \subseteq BOOLEAN
ASSUME CrashAssumption == MaxCrashes \in Nat

Position == 1..Len(ServerLog)
Upto(k) == 1..k
Token == {Upto(k) : k \in 0..Len(ServerLog)}

RoomFile == Room \X {"messages", "state"}
MetaFile == <<NoRoom, "meta">>
File == RoomFile \cup {MetaFile}

\* A "torn" file was being written, in place, when the process stopped.
Content == [st : {"absent", "torn", "whole"}, data : SUBSET Position]
Absent == [st |-> "absent", data |-> {}]
Whole(d) == [st |-> "whole", data |-> d]
Torn(d) == [st |-> "torn", data |-> d]

\* A block queued on dispatchQueue; snap is the state snapshot it captured.
Op == {"deletion", "messages", "state", "meta", "cleanup"}
Block == [op : Op, rooms : SUBSET Room, snap : [Room -> SUBSET Position]]

VARIABLES
    \* the main thread and the in-memory store
    phase,              \* what the store is doing
    token,              \* metaData.eventStreamToken
    roomStores,         \* rooms with an in-memory message store
    events,             \* the messages of each in-memory message store
    roomState,          \* the state events of each room, in memory
    syncTo,             \* token of the response being handled, {} if none
    syncRooms,          \* rooms of that response still to handle
    \* what the next commit has to save
    toDeletion,         \* roomsToCommitForDeletion
    toMessages,         \* roomsToCommitForMessages
    toState,            \* the keys of roomsToCommitForState
    metaDataHasChanged,
    \* commits and dispatchQueue
    queue,              \* the blocks of dispatchQueue, in FIFO order
    cur,                \* the room whose file the first block is replacing
    step,               \* how far the first block is with that file
    pendingCommits,
    callbacks,          \* ends of commits posted to the main thread
    backupEventStreamToken,
    \* the disk
    file,               \* the files under storePath
    folder,             \* rooms that have a folder under storeRoomsPath
    backupRoot,         \* does storeBackupPath exist?
    backupDirs,         \* the token folders in it
    saved,              \* the files moved into them
    toRestore,          \* files the repair has still to copy back
    \* bookkeeping of the model
    crashes

mainVars == <<phase, token, roomStores, events, roomState, syncTo, syncRooms>>
dirtyVars == <<toDeletion, toMessages, toState, metaDataHasChanged>>
queueVars == <<queue, cur, step, pendingCommits, callbacks, backupEventStreamToken>>
diskVars == <<file, folder>>
backupVars == <<backupRoot, backupDirs, saved>>
bookVars == <<crashes>>
vars == <<mainVars, dirtyVars, queueVars, diskVars, backupVars, toRestore, bookVars>>

Phase == {"closed", "restoring", "releasing", "discarding", "resetting",
          "open", "closing"}

TypeOK ==
    /\ phase \in Phase
    /\ token \in Token
    /\ roomStores \subseteq Room
    /\ events \in [Room -> SUBSET Position]
    /\ roomState \in [Room -> SUBSET Position]
    /\ syncTo \in Token
    /\ syncRooms \subseteq Room
    /\ toDeletion \subseteq Room
    /\ toMessages \subseteq Room
    /\ toState \subseteq Room
    /\ metaDataHasChanged \in BOOLEAN
    /\ queue \in Seq(Block)
    /\ cur \in Room \cup {NoRoom}
    /\ step \in {"start", "moved", "torn"}
    /\ pendingCommits \in Nat
    /\ callbacks \in Nat
    /\ backupEventStreamToken \in Token
    /\ file \in [File -> Content]
    /\ folder \subseteq Room
    /\ backupRoot \in BOOLEAN
    /\ backupDirs \subseteq Token
    /\ saved \in [File -> Content]
    /\ toRestore \subseteq File
    /\ crashes \in Nat

Init ==
    /\ phase = "closed"
    /\ token = {} /\ roomStores = {}
    /\ events = [r \in Room |-> {}] /\ roomState = [r \in Room |-> {}]
    /\ syncTo = {} /\ syncRooms = {}
    /\ toDeletion = {} /\ toMessages = {} /\ toState = {}
    /\ metaDataHasChanged = FALSE
    /\ queue = <<>> /\ cur = NoRoom /\ step = "start"
    /\ pendingCommits = 0 /\ callbacks = 0 /\ backupEventStreamToken = {}
    /\ file = [f \in File |-> Absent] /\ folder = {}
    /\ backupRoot = FALSE /\ backupDirs = {} /\ saved = [f \in File |-> Absent]
    /\ toRestore = {}
    /\ crashes = 0
-----------------------------------------------------------------------------
(***************************************************************************)
(* The main thread: MXSession applies a sync response room by room, then   *)
(* sets the event stream token and commits in one turn of the main thread. *)
(***************************************************************************)
MayHandle == Overlap \/ (pendingCommits = 0 /\ queue = <<>>)

\* The part of the log that the response to a sync from token t adds for r.
Delta(r, t) == {p \in syncTo \ t : ServerLog[p].room = r}

\* In one response a room is in one section: it is left, or it is joined and
\* nothing of it follows a leave.
OneSection(new) ==
    \A p, q \in new : /\ ServerLog[p].room = ServerLog[q].room
                      /\ ServerLog[p].kind = "leave"
                      => q <= p

\* The first response of a new store comes a network round trip after the store
\* opened: its metadata file, queued while it opened, is written by then.
BeginSync(k) ==
    /\ phase = "open" /\ syncTo = {} /\ MayHandle
    /\ token = {} => queue = <<>>
    /\ Upto(k) # token /\ token \subseteq Upto(k) /\ OneSection(Upto(k) \ token)
    /\ syncTo' = Upto(k)
    /\ syncRooms' = {ServerLog[p].room : p \in Upto(k) \ token}
    /\ UNCHANGED <<phase, token, roomStores, events, roomState, dirtyVars,
                   queueVars, diskVars, backupVars, toRestore, bookVars>>

\* What getOrCreateRoomStore: finds for a room: its memory store, or the file
\* unless the room is marked for deletion, or nothing.
MessagesOf(r) ==
    IF r \in roomStores THEN events[r]
    ELSE IF r \notin toDeletion /\ file[<<r, "messages">>].st = "whole"
    THEN file[<<r, "messages">>].data
    ELSE {}

\* A joined section: the events go to the message store, and the whole state
\* of the room is handed over for the next commit.
StoreEvents(r) ==
    /\ phase = "open" /\ r \in syncRooms /\ MayHandle
    /\ \A p \in Delta(r, token) : ServerLog[p].kind = "event"
    /\ events' = [events EXCEPT ![r] = MessagesOf(r) \cup Delta(r, token)]
    /\ roomStores' = roomStores \cup {r}
    /\ roomState' = [roomState EXCEPT ![r] = @ \cup Delta(r, token)]
    /\ toMessages' = toMessages \cup {r}
    /\ toState' = toState \cup {r}
    /\ syncRooms' = syncRooms \ {r}
    /\ UNCHANGED <<phase, token, syncTo, toDeletion, metaDataHasChanged,
                   queueVars, diskVars, backupVars, toRestore, bookVars>>

\* The first joined section after an invitation erases the room, then stores.
JoinInvitedRoom(r) ==
    /\ phase = "open" /\ r \in syncRooms /\ MayHandle
    /\ \A p \in Delta(r, token) : ServerLog[p].kind # "leave"
    /\ \E j \in Delta(r, token) :
         /\ ServerLog[j].kind = "join"
         /\ \A p \in Delta(r, token) : ServerLog[p].kind = "join" => p <= j
         /\ LET new == {p \in Delta(r, token) : p >= j} IN
              /\ events' = [events EXCEPT ![r] = new]
              /\ roomState' = [roomState EXCEPT ![r] = @ \cup new]
    /\ roomStores' = roomStores \cup {r}
    /\ toDeletion' = toDeletion \cup {r}
    /\ toMessages' = toMessages \cup {r}
    /\ toState' = toState \cup {r}
    /\ syncRooms' = syncRooms \ {r}
    /\ UNCHANGED <<phase, token, syncTo, metaDataHasChanged, queueVars,
                   diskVars, backupVars, toRestore, bookVars>>

\* Mutant of DeleteRoom: the deletion is not handed over for the next commit.
DeleteRoomInMemory(r) ==
    /\ phase = "open" /\ r \in syncRooms /\ MayHandle
    /\ \E p \in Delta(r, token) : ServerLog[p].kind = "leave"
    /\ roomStores' = roomStores \ {r}
    /\ roomState' = [roomState EXCEPT ![r] = {}]
    /\ toMessages' = toMessages \ {r}
    /\ toState' = toState \ {r}
    /\ syncRooms' = syncRooms \ {r}
    /\ UNCHANGED <<phase, token, events, syncTo, toDeletion, metaDataHasChanged,
                   queueVars, diskVars, backupVars, toRestore, bookVars>>

\* A left section: removeRoom: deletes the room from the store.  The dropped
\* message store keeps its events while a block still holds it.
DeleteRoom(r) ==
    /\ phase = "open" /\ r \in syncRooms /\ MayHandle
    /\ \E p \in Delta(r, token) : ServerLog[p].kind = "leave"
    /\ roomStores' = roomStores \ {r}
    /\ roomState' = [roomState EXCEPT ![r] = {}]
    /\ toDeletion' = toDeletion \cup {r}
    /\ toMessages' = toMessages \ {r}
    /\ toState' = toState \ {r}
    /\ syncRooms' = syncRooms \ {r}
    /\ UNCHANGED <<phase, token, events, syncTo, metaDataHasChanged, queueVars,
                   diskVars, backupVars, toRestore, bookVars>>
-----------------------------------------------------------------------------
(***************************************************************************)
(* commit, close and the end of a commit, on the main thread.              *)
(***************************************************************************)
NoSnap == [r \in Room |-> {}]
RoomsBlock(op, rooms, snap) ==
    IF rooms = {} THEN <<>> ELSE <<[op |-> op, rooms |-> rooms, snap |-> snap]>>
MetaBlock == [op |-> "meta", rooms |-> {}, snap |-> NoSnap]
CleanupBlock == [op |-> "cleanup", rooms |-> {}, snap |-> NoSnap]

\* Mutant of SaveDataToFiles: the metadata first.
MetaFirst(metaChanged) ==
    (IF metaChanged THEN <<MetaBlock>> ELSE <<>>)
    \o RoomsBlock("deletion", toDeletion, NoSnap)
    \o RoomsBlock("messages", toMessages, NoSnap)
    \o RoomsBlock("state", toState, roomState)

\* saveDataToFiles: only the kinds of data that changed queue a block.  The
\* room messages and the metadata are read when the block runs; the state is
\* the one handed to the store before the commit.
SaveDataToFiles(metaChanged) ==
    RoomsBlock("deletion", toDeletion, NoSnap)
    \o RoomsBlock("messages", toMessages, NoSnap)
    \o RoomsBlock("state", toState, roomState)
    \o (IF metaChanged THEN <<MetaBlock>> ELSE <<>>)

\* Mutant of Commit: the lists are taken before the commit is ignored.
CommitTakesFirst(metaChanged) ==
    /\ toDeletion' = {} /\ toMessages' = {} /\ toState' = {}
    /\ metaDataHasChanged' = FALSE
    /\ IF pendingCommits >= 2
       THEN UNCHANGED <<queue, pendingCommits>>
       ELSE /\ pendingCommits' = pendingCommits + 1
            /\ queue' = queue \o SaveDataToFiles(metaChanged) \o <<CleanupBlock>>

\* commitWithCompletion: a third commit is ignored while two are pending.
Commit(metaChanged) ==
    IF pendingCommits >= 2
    THEN /\ metaDataHasChanged' = metaChanged
         /\ UNCHANGED <<toDeletion, toMessages, toState, queue, pendingCommits>>
    ELSE /\ pendingCommits' = pendingCommits + 1
         /\ queue' = queue \o SaveDataToFiles(metaChanged) \o <<CleanupBlock>>
         /\ toDeletion' = {} /\ toMessages' = {} /\ toState' = {}
         /\ metaDataHasChanged' = FALSE

\* The dispatch_group_notify block of handleSyncResponse.
FinishSync ==
    /\ phase = "open" /\ syncTo # {} /\ syncRooms = {} /\ MayHandle
    /\ token' = syncTo
    /\ syncTo' = {}
    /\ Commit(TRUE)
    /\ UNCHANGED <<phase, roomStores, events, roomState, syncRooms, cur, step,
                   callbacks, backupEventStreamToken, diskVars, backupVars,
                   toRestore, crashes>>

\* [store commit] from MXRoom, MXMyUser, MXRoomSummary...
AppCommit ==
    /\ phase = "open"
    /\ Commit(metaDataHasChanged)
    /\ UNCHANGED <<mainVars, cur, step, callbacks, backupEventStreamToken,
                   diskVars, backupVars, toRestore, crashes>>

\* storeMaxUploadSize: and the other setters of the metadata.
StoreNodeMetadata ==
    /\ phase = "open" /\ ~metaDataHasChanged
    /\ metaDataHasChanged' = TRUE
    /\ UNCHANGED <<mainVars, toDeletion, toMessages, toState, queueVars,
                   diskVars, backupVars, toRestore, bookVars>>

\* Mutant of CommitDone: decrements more often than commits end.
CommitDoneTwice ==
    /\ phase = "open" /\ callbacks > 0
    /\ callbacks' = callbacks - 1
    /\ pendingCommits' = pendingCommits - 2
    /\ UNCHANGED <<mainVars, dirtyVars, queue, cur, step, backupEventStreamToken,
                   diskVars, backupVars, toRestore, bookVars>>

\* The end of a commit, posted to the main thread by its last block.
CommitDone ==
    /\ phase = "open" /\ callbacks > 0
    /\ callbacks' = callbacks - 1
    /\ pendingCommits' = pendingCommits - 1
    /\ UNCHANGED <<mainVars, dirtyVars, queue, cur, step, backupEventStreamToken,
                   diskVars, backupVars, toRestore, bookVars>>

\* close: flushes if a commit is pending; the main thread then waits for the
\* queue (phase "closing").
Close ==
    /\ phase = "open"
    /\ phase' = "closing"
    /\ IF pendingCommits > 0
       THEN /\ queue' = queue \o SaveDataToFiles(metaDataHasChanged) \o <<CleanupBlock>>
            /\ toDeletion' = {} /\ toMessages' = {} /\ toState' = {}
            /\ metaDataHasChanged' = FALSE
       ELSE UNCHANGED <<queue, dirtyVars>>
    /\ UNCHANGED <<token, roomStores, events, roomState, syncTo, syncRooms, cur,
                   step, pendingCommits, callbacks, backupEventStreamToken,
                   diskVars, backupVars, toRestore, bookVars>>

\* The process ends, or the store object is released: memory is gone.
LoseMemory ==
    /\ phase' = "closed"
    /\ token' = {} /\ roomStores' = {}
    /\ events' = [r \in Room |-> {}] /\ roomState' = [r \in Room |-> {}]
    /\ syncTo' = {} /\ syncRooms' = {}
    /\ toDeletion' = {} /\ toMessages' = {} /\ toState' = {}
    /\ metaDataHasChanged' = FALSE
    /\ queue' = <<>> /\ cur' = NoRoom /\ step' = "start"
    /\ pendingCommits' = 0 /\ callbacks' = 0 /\ backupEventStreamToken' = {}
    /\ toRestore' = {}

Closed ==
    /\ phase = "closing" /\ queue = <<>>
    /\ LoseMemory
    /\ UNCHANGED <<diskVars, backupVars, crashes>>

Crash ==
    /\ phase # "closed" /\ crashes < MaxCrashes
    /\ crashes' = crashes + 1
    /\ LoseMemory
    /\ UNCHANGED <<diskVars, backupVars>>
-----------------------------------------------------------------------------
(***************************************************************************)
(* The blocks of dispatchQueue.  A file is replaced in steps: it is moved  *)
(* to the backup folder, then written.  The message file is archived to a  *)
(* temporary file and renamed; the state file and the metadata are written *)
(* in place (saveObject:toFile:), so a crash can leave them torn.          *)
(***************************************************************************)
Running(op) == phase \in {"open", "closing"} /\ queue # <<>> /\ Head(queue).op = op

\* The block is over for room r; the last room ends the block.
RoomDone(r) ==
    queue' = IF Head(queue).rooms = {r} THEN Tail(queue)
             ELSE <<[Head(queue) EXCEPT !.rooms = @ \ {r}]>> \o Tail(queue)

\* moveItemAtPath: into the folder of the backup token, if there is a token.
MoveToBackup(files) ==
    IF backupEventStreamToken = {} \/ \A f \in files : file[f] = Absent
    THEN UNCHANGED <<file, backupVars>>
    ELSE /\ backupRoot' = TRUE
         /\ backupDirs' = backupDirs \cup {backupEventStreamToken}
         /\ saved' = [f \in File |-> IF f \in files THEN file[f] ELSE saved[f]]
         /\ file' = [f \in File |-> IF f \in files THEN Absent ELSE file[f]]

\* Mutant of SaveDeletion: the state file of the room is left behind.
DeleteMessagesOnly(r) ==
    /\ Running("deletion") /\ r \in Head(queue).rooms
    /\ MoveToBackup({<<r, "messages">>})
    /\ RoomDone(r)
    /\ UNCHANGED <<mainVars, dirtyVars, cur, step, pendingCommits, callbacks,
                   backupEventStreamToken, folder, toRestore, bookVars>>

\* saveRoomsDeletion: the folder of the room is moved, not copied.
SaveDeletion(r) ==
    /\ Running("deletion") /\ r \in Head(queue).rooms
    /\ MoveToBackup({<<r, "messages">>, <<r, "state">>})
    /\ folder' = IF backupEventStreamToken = {} THEN folder ELSE folder \ {r}
    /\ RoomDone(r)
    /\ UNCHANGED <<mainVars, dirtyVars, cur, step, pendingCommits, callbacks,
                   backupEventStreamToken, toRestore, bookVars>>

\* The room was deleted from memory since the commit: nothing to save.
SkipMessages(r) ==
    /\ Running("messages") /\ step = "start"
    /\ r \in Head(queue).rooms \ roomStores
    /\ RoomDone(r)
    /\ UNCHANGED <<mainVars, dirtyVars, cur, step, pendingCommits, callbacks,
                   backupEventStreamToken, diskVars, backupVars, toRestore, bookVars>>

BackupMessages(r) ==
    /\ Running("messages") /\ step = "start"
    /\ r \in Head(queue).rooms \cap roomStores
    /\ MoveToBackup({<<r, "messages">>})
    /\ cur' = r /\ step' = "moved"
    /\ UNCHANGED <<mainVars, dirtyVars, queue, pendingCommits, callbacks,
                   backupEventStreamToken, folder, toRestore, bookVars>>

WriteMessages ==
    /\ Running("messages") /\ step = "moved"
    /\ file' = [file EXCEPT ![<<cur, "messages">>] = Whole(events[cur])]
    /\ folder' = folder \cup {cur}
    /\ RoomDone(cur)
    /\ cur' = NoRoom /\ step' = "start"
    /\ UNCHANGED <<mainVars, dirtyVars, pendingCommits, callbacks,
                   backupEventStreamToken, backupVars, toRestore, bookVars>>

BackupState(r) ==
    /\ Running("state") /\ step = "start" /\ r \in Head(queue).rooms
    /\ MoveToBackup({<<r, "state">>})
    /\ cur' = r /\ step' = "moved"
    /\ UNCHANGED <<mainVars, dirtyVars, queue, pendingCommits, callbacks,
                   backupEventStreamToken, folder, toRestore, bookVars>>

BeginState ==
    /\ Running("state") /\ step = "moved"
    /\ file' = [file EXCEPT ![<<cur, "state">>] = Torn(Head(queue).snap[cur])]
    /\ folder' = folder \cup {cur}
    /\ step' = "torn"
    /\ UNCHANGED <<mainVars, dirtyVars, queue, cur, pendingCommits, callbacks,
                   backupEventStreamToken, backupVars, toRestore, bookVars>>

EndState ==
    /\ Running("state") /\ step = "torn"
    /\ file' = [file EXCEPT ![<<cur, "state">>] = Whole(@.data)]
    /\ RoomDone(cur)
    /\ cur' = NoRoom /\ step' = "start"
    /\ UNCHANGED <<mainVars, dirtyVars, pendingCommits, callbacks,
                   backupEventStreamToken, folder, backupVars, toRestore, bookVars>>

\* Mutant of BackupMeta: the backup token changes before the move.
TokenBeforeMove ==
    /\ Running("meta") /\ step = "start"
    /\ backupEventStreamToken' = token
    /\ IF token = {} \/ file[MetaFile] = Absent
       THEN UNCHANGED <<file, backupVars>>
       ELSE /\ backupRoot' = TRUE
            /\ backupDirs' = backupDirs \cup {token}
            /\ saved' = [saved EXCEPT ![MetaFile] = file[MetaFile]]
            /\ file' = [file EXCEPT ![MetaFile] = Absent]
    /\ step' = "moved"
    /\ UNCHANGED <<mainVars, dirtyVars, queue, cur, pendingCommits, callbacks,
                   folder, toRestore, bookVars>>

\* saveMetaData: the backup token becomes the live token between the move of
\* the old metadata and the write of the new one.
BackupMeta ==
    /\ Running("meta") /\ step = "start"
    /\ MoveToBackup({MetaFile})
    /\ backupEventStreamToken' = token
    /\ step' = "moved"
    /\ UNCHANGED <<mainVars, dirtyVars, queue, cur, pendingCommits, callbacks,
                   folder, toRestore, bookVars>>

BeginMeta ==
    /\ Running("meta") /\ step = "moved"
    /\ file' = [file EXCEPT ![MetaFile] = Torn(token)]
    /\ step' = "torn"
    /\ UNCHANGED <<mainVars, dirtyVars, queue, cur, pendingCommits, callbacks,
                   backupEventStreamToken, folder, backupVars, toRestore, bookVars>>

EndMeta ==
    /\ Running("meta") /\ step = "torn"
    /\ file' = [file EXCEPT ![MetaFile] = Whole(@.data)]
    /\ queue' = Tail(queue)
    /\ step' = "start"
    /\ UNCHANGED <<mainVars, dirtyVars, cur, pendingCommits, callbacks,
                   backupEventStreamToken, folder, backupVars, toRestore, bookVars>>

\* Mutant of CommitEnd: the end is reported only if no other commit is pending.
LoneCommitEnd ==
    /\ Running("cleanup") /\ ~backupRoot
    /\ queue' = Tail(queue)
    /\ callbacks' = IF phase = "open" /\ pendingCommits = 1 THEN callbacks + 1 ELSE callbacks
    /\ UNCHANGED <<mainVars, dirtyVars, cur, step, pendingCommits,
                   backupEventStreamToken, diskVars, backupVars, toRestore, bookVars>>

\* The last block of a commit removes the backup (below), and posts the end of
\* the commit to the main thread.
CommitEnd ==
    /\ Running("cleanup") /\ ~backupRoot
    /\ queue' = Tail(queue)
    /\ callbacks' = IF phase = "open" THEN callbacks + 1 ELSE callbacks
    /\ UNCHANGED <<mainVars, dirtyVars, cur, step, pendingCommits,
                   backupEventStreamToken, diskVars, backupVars, toRestore, bookVars>>
-----------------------------------------------------------------------------
(***************************************************************************)
(* removeItemAtPath:storeBackupPath, at the end of a commit, at the end of *)
(* a repair and in a reset: the files in any order, then the token folder, *)
(* then the backup folder, or all of them at once.                         *)
(***************************************************************************)
RemovingBackup ==
    \/ Running("cleanup")
    \/ phase \in {"releasing", "discarding"}
    \/ phase = "resetting" /\ ~AtomicReset

RemoveBackup ==
    /\ RemovingBackup /\ backupRoot /\ AtomicRemoval
    /\ backupRoot' = FALSE /\ backupDirs' = {}
    /\ saved' = [f \in File |-> Absent]
    /\ UNCHANGED <<mainVars, dirtyVars, queueVars, diskVars, toRestore, bookVars>>

RemoveSavedFile(f) ==
    /\ RemovingBackup /\ ~AtomicRemoval
    /\ saved[f] # Absent
    /\ saved' = [saved EXCEPT ![f] = Absent]
    /\ UNCHANGED <<mainVars, dirtyVars, queueVars, diskVars, backupRoot,
                   backupDirs, toRestore, bookVars>>

RemoveTokenFolder ==
    /\ RemovingBackup /\ ~AtomicRemoval
    /\ backupDirs # {} /\ \A f \in File : saved[f] = Absent
    /\ backupDirs' = {}
    /\ UNCHANGED <<mainVars, dirtyVars, queueVars, diskVars, backupRoot, saved,
                   toRestore, bookVars>>

RemoveBackupFolder ==
    /\ RemovingBackup /\ ~AtomicRemoval
    /\ backupRoot /\ backupDirs = {}
    /\ backupRoot' = FALSE
    /\ UNCHANGED <<mainVars, dirtyVars, queueVars, diskVars, backupDirs, saved,
                   toRestore, bookVars>>
-----------------------------------------------------------------------------
(***************************************************************************)
(* Opening the store: checkStorageValidity, the repair of an interrupted   *)
(* commit, the reset, and the loading of what is kept.                     *)
(***************************************************************************)
HasToken(c) == c.st = "whole" /\ c.data # {}

\* No backup folder: the last commit was complete.
OpenClean ==
    /\ phase = "closed" /\ ~backupRoot
    /\ IF HasToken(file[MetaFile])
       THEN /\ token' = file[MetaFile].data
            /\ backupEventStreamToken' = file[MetaFile].data
            /\ phase' = "releasing"
       ELSE /\ phase' = "resetting"
            /\ UNCHANGED <<token, backupEventStreamToken>>
    /\ UNCHANGED <<roomStores, events, roomState, syncTo, syncRooms, dirtyVars,
                   queue, cur, step, pendingCommits, callbacks, diskVars,
                   backupVars, toRestore, bookVars>>

\* The name of the only folder in the backup is the token to go back to.
OpenInterrupted ==
    /\ phase = "closed" /\ backupRoot
    /\ IF Cardinality(backupDirs) = 1
       THEN /\ phase' = "restoring"
            /\ toRestore' = {f \in File : saved[f] # Absent}
       ELSE phase' = "resetting" /\ UNCHANGED toRestore
    /\ UNCHANGED <<token, roomStores, events, roomState, syncTo, syncRooms,
                   dirtyVars, queueVars, diskVars, backupVars, bookVars>>

\* A file is copied back; the copy fails if the folder of its room is gone.
RestoreFile(f) ==
    /\ phase = "restoring" /\ f \in toRestore
    /\ IF f = MetaFile \/ f[1] \in folder
       THEN /\ file' = [file EXCEPT ![f] = saved[f]]
            /\ toRestore' = toRestore \ {f}
            /\ UNCHANGED phase
       ELSE phase' = "resetting" /\ toRestore' = {} /\ UNCHANGED file
    /\ UNCHANGED <<token, roomStores, events, roomState, syncTo, syncRooms,
                   dirtyVars, queueVars, folder, backupVars, bookVars>>

\* The restored metadata must hold the token the backup folder is named after.
CheckRestored ==
    /\ phase = "restoring" /\ toRestore = {}
    /\ IF HasToken(file[MetaFile])
       THEN /\ token' = file[MetaFile].data
            /\ backupEventStreamToken' = file[MetaFile].data
            /\ phase' = IF backupDirs = {file[MetaFile].data}
                        THEN "releasing" ELSE "discarding"
       ELSE /\ phase' = "resetting"
            /\ UNCHANGED <<token, backupEventStreamToken>>
    /\ UNCHANGED <<roomStores, events, roomState, syncTo, syncRooms, dirtyVars,
                   queue, cur, step, pendingCommits, callbacks, diskVars,
                   backupVars, toRestore, bookVars>>

\* A restored store whose token is wrong is reset, after the backup is gone.
Discard ==
    /\ phase = "discarding" /\ ~backupRoot
    /\ phase' = "resetting"
    /\ UNCHANGED <<token, roomStores, events, roomState, syncTo, syncRooms,
                   dirtyVars, queueVars, diskVars, backupVars, toRestore, bookVars>>

\* stateOfRoom: an unreadable file is an empty state.
StateOf(r) == IF file[<<r, "state">>].st = "whole" THEN file[<<r, "state">>].data ELSE {}

\* The store is kept.  Messages are read when a room needs them, the state
\* when the room is mounted.
Loaded ==
    /\ phase = "releasing" /\ ~backupRoot
    /\ phase' = "open"
    /\ roomState' = [r \in Room |-> StateOf(r)]
    /\ UNCHANGED <<token, roomStores, events, syncTo, syncRooms, dirtyVars,
                   queueVars, diskVars, backupVars, toRestore, bookVars>>

\* deleteAllData: removes storePath, all at once or file by file.
EraseStore ==
    /\ phase = "resetting" /\ AtomicReset
    /\ file # [f \in File |-> Absent] \/ folder # {} \/ backupRoot
    /\ file' = [f \in File |-> Absent] /\ folder' = {}
    /\ backupRoot' = FALSE /\ backupDirs' = {} /\ saved' = [f \in File |-> Absent]
    /\ UNCHANGED <<mainVars, dirtyVars, queueVars, toRestore, bookVars>>

EraseFile(f) ==
    /\ phase = "resetting" /\ ~AtomicReset
    /\ file[f] # Absent
    /\ file' = [file EXCEPT ![f] = Absent]
    /\ UNCHANGED <<mainVars, dirtyVars, queueVars, folder, backupVars, toRestore,
                   bookVars>>

EraseFolder(r) ==
    /\ phase = "resetting" /\ ~AtomicReset
    /\ r \in folder
    /\ file[<<r, "messages">>] = Absent /\ file[<<r, "state">>] = Absent
    /\ folder' = folder \ {r}
    /\ UNCHANGED <<mainVars, dirtyVars, queueVars, file, backupVars, toRestore,
                   bookVars>>

\* New metadata, without a token, is queued to be written; deleteAllData left
\* the backup token as it was.
NewStore ==
    /\ phase = "resetting"
    /\ \A f \in File : file[f] = Absent
    /\ folder = {} /\ ~backupRoot
    /\ phase' = "open"
    /\ token' = {}
    /\ queue' = <<MetaBlock>>
    /\ UNCHANGED <<roomStores, events, roomState, syncTo, syncRooms, dirtyVars,
                   cur, step, pendingCommits, callbacks, backupEventStreamToken,
                   diskVars, backupVars, toRestore, bookVars>>
-----------------------------------------------------------------------------
MainThread ==
    \/ \E k \in 0..Len(ServerLog) : BeginSync(k)
    \/ \E r \in Room : StoreEvents(r) \/ JoinInvitedRoom(r) \/ DeleteRoom(r)
    \/ FinishSync
    \/ AppCommit
    \/ StoreNodeMetadata
    \/ CommitDone
    \/ Close

DispatchQueue ==
    \/ \E r \in Room : \/ SaveDeletion(r)
                       \/ SkipMessages(r)
                       \/ BackupMessages(r)
                       \/ BackupState(r)
    \/ WriteMessages
    \/ BeginState
    \/ EndState
    \/ BackupMeta
    \/ BeginMeta
    \/ EndMeta
    \/ CommitEnd

Removal ==
    \/ RemoveBackup
    \/ \E f \in File : RemoveSavedFile(f)
    \/ RemoveTokenFolder
    \/ RemoveBackupFolder

Opening ==
    \/ OpenClean
    \/ OpenInterrupted
    \/ \E f \in File : RestoreFile(f)
    \/ CheckRestored
    \/ Discard
    \/ Loaded
    \/ EraseStore
    \/ \E f \in File : EraseFile(f)
    \/ \E r \in Room : EraseFolder(r)
    \/ NewStore

Next == MainThread \/ DispatchQueue \/ Removal \/ Opening \/ Closed \/ Crash

Spec == Init /\ [][Next]_vars

\* GCD runs what is queued, and the main run loop runs what is posted to it.
Fairness == WF_vars(DispatchQueue \/ Removal) /\ WF_vars(CommitDone)

FairSpec == Spec /\ Fairness
-----------------------------------------------------------------------------
(***************************************************************************)
(* Properties.                                                             *)
(***************************************************************************)
\* The events a client holding token t must have: those up to t of rooms the
\* user has neither left nor newly joined since.
Wanted(t) ==
    {p \in t : /\ ServerLog[p].kind # "leave"
               /\ \A q \in Position :
                    q > p /\ ServerLog[q].room = ServerLog[p].room
                    => ServerLog[q].kind = "event"}

\* The store that is open holds every event of the stream up to its event
\* stream token, in the messages and in the state of the room: a crash and the
\* repair may lose the token's progress, never data behind the token.
NothingMissed ==
    phase = "open" =>
        \A p \in Wanted(token) : /\ p \in MessagesOf(ServerLog[p].room)
                                 /\ p \in roomState[ServerLog[p].room]

\* What deleteRoom erased never comes back: no room store in memory holds
\* messages from before a leave (or a first join) that the client has handled.
NoGhost ==
    phase = "open" =>
        \A q \in token : ServerLog[q].kind # "event" /\ ServerLog[q].room \in roomStores
                         => \A p \in events[ServerLog[q].room] : p >= q

\* The repair can tell which token to go back to: the backup folder never holds
\* two token folders.
OneBackup == Cardinality(backupDirs) <= 1

\* Whatever order blocks and responses ran in, once the queue is empty and no
\* change is waiting for a commit, the files say what the memory says.
Settled ==
    /\ phase = "open" /\ queue = <<>> /\ ~metaDataHasChanged
    /\ toDeletion = {} /\ toMessages = {} /\ toState = {}
DurableAtRest ==
    Settled =>
        /\ file[MetaFile] = Whole(token)
        /\ \A r \in roomStores : file[<<r, "messages">>] = Whole(events[r])
        /\ \A r \in Room : roomState[r] # {} => StateOf(r) = roomState[r]

\* "Erase a room and all related data": when the files are settled, none of them
\* holds an event from before a leave of its room that the client has handled.
Erased ==
    Settled =>
        \A q \in token : ServerLog[q].kind = "leave" =>
            \A f \in RoomFile : f[1] = ServerLog[q].room => \A p \in file[f].data : p > q

\* An open store cannot stay in the state where it ignores commits.
Saturated == phase = "open" /\ pendingCommits >= 2
Drains == Saturated ~> ~Saturated
=============================================================================
