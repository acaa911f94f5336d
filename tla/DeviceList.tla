------------------------------ MODULE DeviceList ------------------------------
(***************************************************************************)
(* MXDeviceList and MXDeviceListOperationsPool: which users' devices are   *)
(* up to date, and the queries that bring them up to date.                 *)
(*                                                                         *)
(* A download is an operation, put in a pool.  The current pool has one    *)
(* /keys/query under way for the users its operations had when it left;    *)
(* the next pool collects the rest.  Everything but the node runs in       *)
(* blocks of one serial queue.  Devices are abstracted to their version,   *)
(* which the node increments when the user logs a device in or out.        *)
(***************************************************************************)
EXTENDS Naturals, FiniteSets, Sequences

CONSTANTS
    User,
    Operation,          \* the calls of downloadKeys that may be made
    None,               \* no operation
    NoPool,             \* no pool
    RoomUser,           \* those who may share an encrypted room
    MaxVersion,         \* bound: changes of a user's devices
    MaxRestarts,        \* bound: restarts of the application
    Careful             \* no caller asks again for users whose last download is
                        \* not in the current pool while an older one is

ASSUME Constants == /\ None \notin Operation
                    /\ \A pool \in SUBSET Operation : NoPool # pool
                    /\ RoomUser \subseteq User
                    /\ MaxVersion \in Nat \ {0}
                    /\ MaxRestarts \in Nat
                    /\ Careful \in BOOLEAN

VARIABLES
    version,            \* the node's version of each user's devices
    announced,          \* the version that the last sync told of
    syncing,            \* device list changes handled, sync not completed
    status,             \* deviceTrackingStatus
    savedStatus,        \* the tracking status in the crypto store
    devices,            \* the version of the devices in the crypto store
    inProgressBy,       \* keyDownloadsInProgressByUser
    opUsers,            \* the users of each operation
    outcome,            \* is each operation made, and reported to?
    currentQueryPool,   \* its operations, or NoPool
    nextQueryPool,
    query,              \* the /keys/query of the current pool
    posted,             \* blocks that report a query to its operations
    restarts

node == <<version, announced, syncing>>
list == <<status, savedStatus, inProgressBy, opUsers, outcome>>
pools == <<currentQueryPool, nextQueryPool, query, posted>>
vars == <<node, list, pools, devices, restarts>>

Status == {"NotTracked", "Pending", "InProgress", "Unreachable", "UpToDate"}
Outcome == {"unused", "waiting", "over"}
Pool == (SUBSET Operation) \cup {NoPool}

\* 0 stands for devices that are not there, or not in an answer.
Versions == [User -> 0..MaxVersion]
Nothing == [u \in User |-> 0]
NoQuery == [stage |-> "none", users |-> {}, got |-> Nothing]

Init == /\ version = [u \in User |-> 1]
        /\ announced = Nothing
        /\ syncing = FALSE
        /\ status = [u \in User |-> "NotTracked"]
        /\ savedStatus = status
        /\ devices = Nothing
        /\ inProgressBy = [u \in User |-> None]
        /\ opUsers = [op \in Operation |-> {}]
        /\ outcome = [op \in Operation |-> "unused"]
        /\ currentQueryPool = NoPool
        /\ nextQueryPool = NoPool
        /\ query = NoQuery
        /\ posted = <<>>
        /\ restarts = 0

-----------------------------------------------------------------------------
(* Downloads.                                                              *)

UsersOf(pool) == UNION {opUsers[op] : op \in pool}

Sent(users) == [stage |-> "sent", users |-> users, got |-> Nothing]

\* The users a download is about: those already being downloaded, and those
\* that are outdated, or all others if it is forced.
InProgress(users) == {u \in users : status[u] = "InProgress"}
Outdated(users, force) ==
    {u \in users : /\ status[u] # "InProgress"
                   /\ force \/ status[u] \notin {"UpToDate", "Unreachable"}}

\* A query that is under way will do if all the users are in its pool.
WillDo(asked, force) == /\ Outdated(asked, force) = {}
                        /\ currentQueryPool # NoPool
                        /\ InProgress(asked) \subseteq UsersOf(currentQueryPool)

\* A cancelled operation leaves its pool at once; the last one to leave the
\* current pool cancels its query.  That fails, unless it still waits for its
\* access token: a cancellation only keeps it from being tried again.
With(pool, op, cancelled) == IF cancelled THEN pool \ {op} ELSE pool \cup {op}

JoinCurrent(op, cancelled) ==
    /\ currentQueryPool' = With(currentQueryPool, op, cancelled)
    /\ UNCHANGED <<nextQueryPool, query>>

StartQuery(op, users, cancelled) ==
    /\ currentQueryPool' = With({}, op, cancelled)
    /\ \/ query' = Sent(users)
       \/ cancelled /\ query' = [Sent(users) EXCEPT !.stage = "failed"]
    /\ UNCHANGED nextQueryPool

QueueInNext(op, cancelled) ==
    /\ nextQueryPool' =
           With(IF nextQueryPool = NoPool THEN {} ELSE nextQueryPool, op, cancelled)
    /\ UNCHANGED <<currentQueryPool, query>>

\* downloadKeys:forceDownload: about at least one user.  `cancelled` is a
\* caller that has cancelled before the queue came to its download.
DownloadKeys(op, asked, force, cancelled) ==
    LET users == InProgress(asked) \cup Outdated(asked, force)
    IN  /\ outcome[op] = "unused"
        /\ users # {}
        /\ status' = [u \in User |-> IF u \in users THEN "InProgress" ELSE status[u]]
        /\ savedStatus' = status'
        /\ inProgressBy' = [u \in User |-> IF u \in users THEN op ELSE inProgressBy[u]]
        /\ opUsers' = [opUsers EXCEPT ![op] = users]
        /\ outcome' = [outcome EXCEPT ![op] = IF cancelled THEN "over" ELSE "waiting"]
        /\ \/ /\ WillDo(asked, force)
              /\ JoinCurrent(op, cancelled)
           \/ /\ ~WillDo(asked, force)
              /\ currentQueryPool = NoPool
              /\ StartQuery(op, users, cancelled)
           \/ /\ ~WillDo(asked, force)
              /\ currentQueryPool # NoPool
              /\ QueueInNext(op, cancelled)
        /\ UNCHANGED posted

\* The older query is about all the users, and is not the last asked for one.
AsksAgain(asked) == /\ currentQueryPool # NoPool
                    /\ InProgress(asked) \subseteq UsersOf(currentQueryPool)
                    /\ \E u \in InProgress(asked) : inProgressBy[u] \notin currentQueryPool

\* A caller asks for users: a download, or their devices at once.
Download(op, asked, force, cancelled) ==
    /\ Careful => ~(Outdated(asked, force) = {} /\ AsksAgain(asked))
    /\ DownloadKeys(op, asked, force, cancelled)
    /\ UNCHANGED <<node, devices, restarts>>

-----------------------------------------------------------------------------
(* Syncs, in two blocks of the queue: handleDeviceListsChanges, and        *)
(* onSyncCompleted once the rest of the response is handled.  The session  *)
(* calls handleSyncResponse, which this crypto leaves empty; the two       *)
(* handlers are modelled as they are written, called around a sync.        *)

DevicesChange(u) == /\ version[u] < MaxVersion
                    /\ version' = [version EXCEPT ![u] = @ + 1]
                    /\ UNCHANGED <<announced, syncing, list, pools, devices, restarts>>

\* invalidateUserDeviceList: the users the node says have changed.
Invalidate(users) ==
    status' = [u \in User |-> IF u \in users /\ status[u] # "NotTracked"
                               THEN "Pending" ELSE status[u]]

SyncChanges ==
    LET changed == {u \in User : announced[u] # 0 /\ announced[u] < version[u]}
    IN  /\ ~syncing
        /\ changed # {}
        /\ syncing' = TRUE
        /\ announced' = [u \in User |-> IF u \in changed THEN version[u] ELSE announced[u]]
        /\ Invalidate(changed)
        /\ UNCHANGED <<version, savedStatus, inProgressBy, opUsers, outcome,
                       pools, devices, restarts>>

\* A user comes into an encrypted room: startTrackingDeviceList if they were
\* not tracked, and the node says that they have changed if they were.
StartTracking(u) ==
    /\ ~syncing
    /\ announced[u] = 0
    /\ syncing' = TRUE
    /\ announced' = [announced EXCEPT ![u] = version[u]]
    /\ status' = [status EXCEPT ![u] = "Pending"]
    /\ UNCHANGED <<version, savedStatus, inProgressBy, opUsers, outcome,
                   pools, devices, restarts>>

\* stopTrackingDeviceList: no room is shared any more, the node says no more.
StopTracking(u) ==
    /\ ~syncing
    /\ announced[u] # 0
    /\ syncing' = TRUE
    /\ announced' = [announced EXCEPT ![u] = 0]
    /\ status' = [status EXCEPT ![u] = "NotTracked"]
    /\ UNCHANGED <<version, savedStatus, inProgressBy, opUsers, outcome,
                   pools, devices, restarts>>

\* refreshOutdatedDeviceLists
Pending == {u \in User : status[u] = "Pending"}

SyncCompleted ==
    /\ syncing
    /\ syncing' = FALSE
    /\ \/ /\ Pending # {}
          /\ \E op \in Operation : DownloadKeys(op, Pending, FALSE, FALSE)
       \/ /\ Pending = {}
          /\ UNCHANGED <<list, pools>>
    /\ UNCHANGED <<version, announced, devices, restarts>>

-----------------------------------------------------------------------------
(* Queries.                                                                *)

\* The node answers for the users it reaches, with their devices by now.
NodeAnswers(reached) ==
    /\ query.stage = "sent"
    /\ reached \subseteq query.users
    /\ query' = [query EXCEPT !.stage = "answered",
                     !.got = [u \in User |-> IF u \in reached THEN version[u] ELSE 0]]
    /\ UNCHANGED <<node, list, devices, currentQueryPool, nextQueryPool, posted, restarts>>

QueryFails == /\ query.stage = "sent"
              /\ query' = [query EXCEPT !.stage = "failed"]
              /\ UNCHANGED <<node, list, devices, currentQueryPool, nextQueryPool,
                             posted, restarts>>

\* Mutants of PoolDone: the query is made for operations; the next pool stays.
PoolDoneOfOperations ==
    /\ currentQueryPool' = nextQueryPool
    /\ nextQueryPool' = NoPool
    /\ query' = IF nextQueryPool = NoPool THEN NoQuery ELSE Sent(nextQueryPool)
PoolDoneKeepsNext ==
    /\ currentQueryPool' = nextQueryPool
    /\ UNCHANGED nextQueryPool
    /\ query' = IF nextQueryPool = NoPool THEN NoQuery ELSE Sent(UsersOf(nextQueryPool))

\* complete of startCurrentPoolQuery: the next pool becomes the current one.
PoolDone == /\ currentQueryPool' = nextQueryPool
            /\ nextQueryPool' = NoPool
            /\ query' = IF nextQueryPool = NoPool THEN NoQuery
                        ELSE Sent(UsersOf(nextQueryPool))

\* The devices of an answer are stored, its operations hear of it later.
QuerySucceeds ==
    /\ query.stage = "answered"
    /\ devices' = [u \in User |-> IF query.got[u] # 0 THEN query.got[u] ELSE devices[u]]
    /\ posted' = Append(posted, [ops |-> currentQueryPool, ok |-> TRUE, got |-> query.got])
    /\ PoolDone
    /\ UNCHANGED <<node, list, restarts>>

QueryHasFailed ==
    /\ query.stage = "failed"
    /\ posted' = Append(posted, [ops |-> currentQueryPool, ok |-> FALSE, got |-> Nothing])
    /\ PoolDone
    /\ UNCHANGED <<node, list, devices, restarts>>

\* Mutant of Marked: whatever was registered since.
MarkedByAny(op, got) == {u \in opUsers[op] : got[u] # 0}

\* The users of an operation that its success marks: it must still be the one
\* registered for them.
Marked(op, got) == {u \in opUsers[op] : got[u] # 0 /\ inProgressBy[u] = op}
Unreached(op, got) == {u \in opUsers[op] : got[u] = 0}

\* The success blocks of a pool's operations, or their failure blocks.
ReportSuccess ==
    /\ posted # <<>>
    /\ Head(posted).ok
    /\ LET block == Head(posted)
           marked == UNION {Marked(op, block.got) : op \in block.ops}
           unreached == UNION {Unreached(op, block.got) : op \in block.ops}
       IN  /\ inProgressBy' = [u \in User |-> IF u \in marked THEN None ELSE inProgressBy[u]]
           /\ status' = [u \in User |->
                  CASE status[u] = "InProgress" /\ u \in marked -> "UpToDate"
                    [] status[u] = "InProgress" /\ u \in unreached -> "Unreachable"
                    [] OTHER -> status[u]]
           /\ savedStatus' = IF block.ops = {} THEN savedStatus ELSE status'
           /\ outcome' = [op \in Operation |->
                              IF op \in block.ops THEN "over" ELSE outcome[op]]
    /\ posted' = Tail(posted)
    /\ UNCHANGED <<node, devices, opUsers, currentQueryPool, nextQueryPool, query, restarts>>

ReportFailure ==
    /\ posted # <<>>
    /\ ~Head(posted).ok
    /\ outcome' = [op \in Operation |->
                      IF op \in Head(posted).ops THEN "over" ELSE outcome[op]]
    /\ posted' = Tail(posted)
    /\ UNCHANGED <<node, devices, status, savedStatus, inProgressBy, opUsers,
                   currentQueryPool, nextQueryPool, query, restarts>>

-----------------------------------------------------------------------------
\* The application is killed and started again, between two syncs.
Restart ==
    /\ restarts < MaxRestarts
    /\ ~syncing
    /\ restarts' = restarts + 1
    /\ status' = [u \in User |-> IF savedStatus[u] \in {"InProgress", "Unreachable"}
                                  THEN "Pending" ELSE savedStatus[u]]
    /\ inProgressBy' = [u \in User |-> None]
    /\ outcome' = [op \in Operation |->
                      IF outcome[op] = "waiting" THEN "over" ELSE outcome[op]]
    /\ currentQueryPool' = NoPool
    /\ nextQueryPool' = NoPool
    /\ query' = NoQuery
    /\ posted' = <<>>
    /\ UNCHANGED <<node, savedStatus, opUsers, devices>>

Next == \/ \E op \in Operation, asked \in SUBSET User, force, cancelled \in BOOLEAN :
              Download(op, asked, force, cancelled)
        \/ \E u \in RoomUser : DevicesChange(u) \/ StartTracking(u) \/ StopTracking(u)
        \/ SyncChanges
        \/ SyncCompleted
        \/ \E reached \in SUBSET User : NodeAnswers(reached)
        \/ QueryFails
        \/ QuerySucceeds
        \/ QueryHasFailed
        \/ ReportSuccess
        \/ ReportFailure
        \/ Restart

Spec == Init /\ [][Next]_vars

-----------------------------------------------------------------------------
TypeOK == /\ version \in Versions /\ announced \in Versions /\ devices \in Versions
          /\ syncing \in BOOLEAN
          /\ status \in [User -> Status] /\ savedStatus \in [User -> Status]
          /\ inProgressBy \in [User -> Operation \cup {None}]
          /\ opUsers \in [Operation -> SUBSET User]
          /\ outcome \in [Operation -> Outcome]
          /\ currentQueryPool \in Pool /\ nextQueryPool \in Pool
          /\ query \in [stage : {"none", "sent", "answered", "failed"},
                        users : SUBSET User, got : Versions]
          /\ posted \in Seq([ops : SUBSET Operation, ok : BOOLEAN, got : Versions])
          /\ restarts \in 0..MaxRestarts

\* A user whose list counts as up to date has the devices that the last sync
\* told of, whatever queries overlapped that sync.
UpToDateIsFresh == \A u \in User : status[u] = "UpToDate" => devices[u] >= announced[u]

\* The assertion of addOperation: the request of the current pool, already
\* made, is for all the users of its operations.
QueryHasUsers == currentQueryPool # NoPool =>
                     UsersOf(currentQueryPool) \subseteq query.users

\* Every download that nobody cancelled is in one place that will report to it:
\* a block that is posted, the current pool, which has a request under way, or
\* the next pool, which has a current one before it.  They report in that order,
\* by which they are numbered.
Places(op) == {i \in DOMAIN posted : op \in posted[i].ops}
              \cup {i \in {Len(posted) + 1} : currentQueryPool # NoPool /\ op \in currentQueryPool}
              \cup {i \in {Len(posted) + 2} : nextQueryPool # NoPool /\ op \in nextQueryPool}

Reported == /\ \A op \in Operation :
                  Cardinality(Places(op)) = IF outcome[op] = "waiting" THEN 1 ELSE 0
            /\ currentQueryPool # NoPool <=> query.stage # "none"
            /\ nextQueryPool # NoPool => currentQueryPool # NoPool
=============================================================================
