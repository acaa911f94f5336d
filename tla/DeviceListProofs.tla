---------------------------- MODULE DeviceListProofs ----------------------------
(***************************************************************************)
(* What holds of MXDeviceList for every set of users and operations and    *)
(* every bound: its types, the assertion of addOperation, that every       *)
(* download is reported to, and, for callers that are Careful, that a list *)
(* that counts as up to date is.                                           *)
(***************************************************************************)
EXTENDS DeviceList, SequenceTheorems, FiniteSetTheorems, TLAPS

(***************************************************************************)
(* The parts of the inductive invariant.                                   *)
(***************************************************************************)
InPool(op, pool) == pool # NoPool /\ op \in pool

\* Operations in pools and in posted blocks have been made; the query of the
\* current pool is for all their users.
Pools == /\ \A op \in Operation :
                \/ InPool(op, currentQueryPool)
                \/ InPool(op, nextQueryPool)
                \/ \E i \in 1..Len(posted) : op \in posted[i].ops
                \/ \E u \in User : inProgressBy[u] = op
                => outcome[op] # "unused"
         /\ query.stage # "none" => currentQueryPool # NoPool
         /\ QueryHasUsers

\* Time goes forward: nobody has devices the node did not have.
Versioned == \A u \in User :
                /\ announced[u] <= version[u]
                /\ devices[u] <= version[u]
                /\ query.got[u] <= version[u]
                /\ query.stage = "answered" /\ query.got[u] # 0 => devices[u] <= query.got[u]

\* What a download in progress will store is as new as the last sync told: the
\* operation registered for a user was made after it, or with its pool.
Registered == \A u \in User :
    status[u] = "InProgress" /\ inProgressBy[u] # None =>
        /\ u \in opUsers[inProgressBy[u]]
        /\ InPool(inProgressBy[u], currentQueryPool)
              /\ query.stage = "answered" /\ query.got[u] # 0
              => query.got[u] >= announced[u]
        /\ \A i \in 1..Len(posted) :
              inProgressBy[u] \in posted[i].ops /\ posted[i].got[u] # 0
              => devices[u] >= announced[u]

\* What a restart goes back to is as new, or a sync that tells of more is not
\* complete and will save it.
Saved == \A u \in User : savedStatus[u] = "UpToDate" =>
             /\ devices[u] >= announced[u] \/ (syncing /\ status[u] = "Pending")
             /\ announced[u] # 0 => status[u] # "NotTracked"

TInv == TypeOK /\ Pools
Fresh == Versioned /\ Registered /\ Saved /\ UpToDateIsFresh

-----------------------------------------------------------------------------
Block == [ops : SUBSET Operation, ok : BOOLEAN, got : Versions]

LEMMA Posting ==
    ASSUME TypeOK, NEW b \in Block
    PROVE  LET after == Append(posted, b)
           IN  /\ after \in Seq(Block)
               /\ Len(after) = Len(posted) + 1
               /\ \A i \in 1..Len(after) :
                     after[i] = IF i <= Len(posted) THEN posted[i] ELSE b
BY AppendProperties DEF TypeOK, Block

LEMMA Taking ==
    ASSUME TypeOK, posted # <<>>
    PROVE  /\ Tail(posted) \in Seq(Block)
           /\ Len(posted) \in Nat \ {0}
           /\ Head(posted) = posted[1] /\ Head(posted) \in Block
           /\ Len(Tail(posted)) = Len(posted) - 1
           /\ \A i \in 1..Len(Tail(posted)) :
                 i + 1 \in 1..Len(posted) /\ Tail(posted)[i] = posted[i + 1]
<1>1. posted \in Seq(Block)
  BY DEF TypeOK, Block
<1>2. Len(posted) \in Nat \ {0} /\ Head(posted) = posted[1]
  BY <1>1
<1>3. /\ Tail(posted) \in Seq(Block) /\ Head(posted) \in Block
      /\ Len(Tail(posted)) = Len(posted) - 1
      /\ \A i \in 1..Len(Tail(posted)) : Tail(posted)[i] = posted[i + 1]
  BY <1>1, HeadTailProperties
<1> QED
  BY <1>2, <1>3

LEMMA PoolTyped ==
    ASSUME NEW pool \in Pool, pool # NoPool PROVE pool \in SUBSET Operation
BY DEF Pool

LEMMA UsersOfTyped ==
    ASSUME TypeOK, NEW pool \in SUBSET Operation
    PROVE  UsersOf(pool) \in SUBSET User
BY DEF TypeOK, UsersOf

LEMMA InitTInv == Init => TInv
<1> SUFFICES ASSUME Init PROVE TInv
  OBVIOUS
<1> USE Constants DEF Init
<1>1. TypeOK
  <2>1. Nothing \in Versions /\ [u \in User |-> 1] \in Versions
    BY DEF Nothing, Versions
  <2>2. NoQuery \in [stage : {"none", "sent", "answered", "failed"},
                    users : SUBSET User, got : Versions]
    BY <2>1 DEF NoQuery
  <2>3. posted \in Seq([ops : SUBSET Operation, ok : BOOLEAN, got : Versions])
    OBVIOUS
  <2>4. /\ outcome \in [Operation -> Outcome] /\ opUsers \in [Operation -> SUBSET User]
        /\ currentQueryPool \in Pool /\ nextQueryPool \in Pool
    BY DEF Outcome, Pool
  <2>5. /\ status \in [User -> Status] /\ savedStatus \in [User -> Status]
        /\ inProgressBy \in [User -> Operation \cup {None}]
        /\ syncing \in BOOLEAN
    BY DEF Status
  <2>6. restarts \in 0..MaxRestarts
    OBVIOUS
  <2> QED
    BY <2>1, <2>2, <2>3, <2>4, <2>5, <2>6 DEF TypeOK
<1>2. Pools
  BY DEF Pools, QueryHasUsers, NoQuery, InPool
<1> QED
  BY <1>1, <1>2 DEF TInv

\* A download leaves the types and the pools right: it joins the current query
\* only with users that the query is for.
LEMMA DownloadTInv ==
    ASSUME TInv, NEW op \in Operation, NEW asked \in SUBSET User,
           NEW force \in BOOLEAN, NEW cancelled \in BOOLEAN,
           DownloadKeys(op, asked, force, cancelled),
           UNCHANGED <<version, announced, devices, restarts>>, syncing' \in BOOLEAN
    PROVE  TInv'
<1> DEFINE users == InProgress(asked) \cup Outdated(asked, force)
<1> USE Constants DEF TInv
<1>1. users \in SUBSET User
  BY DEF InProgress, Outdated
<1>2. /\ outcome[op] = "unused"
      /\ status' = [u \in User |-> IF u \in users THEN "InProgress" ELSE status[u]]
      /\ savedStatus' = status'
      /\ inProgressBy' = [u \in User |-> IF u \in users THEN op ELSE inProgressBy[u]]
      /\ opUsers' = [opUsers EXCEPT ![op] = users]
      /\ outcome' = [outcome EXCEPT ![op] = IF cancelled THEN "over" ELSE "waiting"]
      /\ posted' = posted
  BY DEF DownloadKeys
<1>3. /\ currentQueryPool' \in Pool /\ nextQueryPool' \in Pool
      /\ query' \in [stage : {"none", "sent", "answered", "failed"},
                     users : SUBSET User, got : Versions]
  <2>1. CASE WillDo(asked, force) /\ JoinCurrent(op, cancelled)
    <3>1. currentQueryPool \in SUBSET Operation
      BY <2>1, PoolTyped DEF WillDo, TypeOK
    <3>2. currentQueryPool' \in SUBSET Operation
      BY <2>1, <3>1 DEF JoinCurrent, With
    <3> QED
      BY <2>1, <3>2 DEF JoinCurrent, TypeOK, Pool
  <2>2. CASE StartQuery(op, users, cancelled)
    <3>1. currentQueryPool' \in SUBSET Operation
      BY <2>2 DEF StartQuery, With
    <3>2. Nothing \in Versions
      BY DEF Nothing, Versions
    <3> QED
      BY <1>1, <2>2, <3>1, <3>2 DEF StartQuery, Sent, TypeOK, Pool
  <2>3. CASE QueueInNext(op, cancelled)
    <3>1. (IF nextQueryPool = NoPool THEN {} ELSE nextQueryPool) \in SUBSET Operation
      BY PoolTyped DEF TypeOK
    <3>2. nextQueryPool' \in SUBSET Operation
      BY <2>3, <3>1 DEF QueueInNext, With
    <3> QED
      BY <2>3, <3>2 DEF QueueInNext, TypeOK, Pool
  <2> QED
    BY <2>1, <2>2, <2>3 DEF DownloadKeys
<1>4. TypeOK'
  BY <1>1, <1>2, <1>3 DEF TypeOK, Status, Outcome
<1>5. ~InPool(op, currentQueryPool) /\ ~InPool(op, nextQueryPool)
  BY <1>2 DEF Pools
<1>6. \A o \in Operation : InPool(o, currentQueryPool') =>
          InPool(o, currentQueryPool) \/ o = op
  BY DEF DownloadKeys, JoinCurrent, StartQuery, QueueInNext, With, WillDo, InPool
<1>7. \A o \in Operation : InPool(o, nextQueryPool') =>
          InPool(o, nextQueryPool) \/ o = op
  BY DEF DownloadKeys, JoinCurrent, StartQuery, QueueInNext, With, InPool
<1>8. \A o \in Operation : outcome[o] # "unused" \/ o = op => outcome'[o] # "unused"
  BY <1>2 DEF TypeOK
<1>9. query'.stage # "none" => currentQueryPool' # NoPool
  <2>1. CASE WillDo(asked, force) /\ JoinCurrent(op, cancelled)
    <3>1. currentQueryPool \in SUBSET Operation
      BY <2>1, PoolTyped DEF WillDo, TypeOK
    <3>2. currentQueryPool' \in SUBSET Operation
      BY <2>1, <3>1 DEF JoinCurrent, With
    <3> QED
      BY <3>2
  <2>2. CASE StartQuery(op, users, cancelled)
    <3>1. currentQueryPool' \in SUBSET Operation
      BY <2>2 DEF StartQuery, With
    <3> QED
      BY <3>1
  <2>3. CASE QueueInNext(op, cancelled)
    BY <2>3 DEF QueueInNext, Pools
  <2> QED
    BY <2>1, <2>2, <2>3 DEF DownloadKeys
<1>10. QueryHasUsers'
  <2>1. \A o \in Operation : InPool(o, currentQueryPool) => opUsers'[o] = opUsers[o]
    BY <1>2, <1>5 DEF TypeOK
  <2>2. opUsers'[op] = users
    BY <1>2 DEF TypeOK
  <2>3. CASE WillDo(asked, force) /\ JoinCurrent(op, cancelled)
    <3>1. currentQueryPool \in SUBSET Operation /\ UsersOf(currentQueryPool) \subseteq query.users
      BY <2>3, PoolTyped DEF WillDo, TypeOK, Pools, QueryHasUsers
    <3>2. users \subseteq query.users
      BY <2>3, <3>1 DEF WillDo
    <3>3. query' = query /\ currentQueryPool' \subseteq currentQueryPool \cup {op}
      BY <2>3 DEF JoinCurrent, With
    <3>4. ASSUME NEW o \in currentQueryPool' PROVE opUsers'[o] \subseteq query'.users
      <4>1. CASE o = op
        BY <4>1, <2>2, <3>2, <3>3
      <4>2. CASE o # op
        <5>1. o \in currentQueryPool /\ o \in Operation
          BY <4>2, <3>1, <3>3
        <5>2. opUsers'[o] = opUsers[o] /\ opUsers[o] \subseteq UsersOf(currentQueryPool)
          BY <5>1, <2>1, <2>3 DEF InPool, WillDo, UsersOf
        <5> QED
          BY <5>2, <3>1, <3>3
      <4> QED
        BY <4>1, <4>2
    <3> QED
      BY <3>4 DEF QueryHasUsers, UsersOf
  <2>4. CASE StartQuery(op, users, cancelled)
    <3>1. currentQueryPool' \subseteq {op} /\ query'.users = users
      BY <2>4 DEF StartQuery, With, Sent
    <3> QED
      BY <3>1, <2>2 DEF QueryHasUsers, UsersOf
  <2>5. CASE QueueInNext(op, cancelled)
    <3>1. UNCHANGED <<currentQueryPool, query>>
      BY <2>5 DEF QueueInNext
    <3>2. currentQueryPool # NoPool => UsersOf(currentQueryPool)' = UsersOf(currentQueryPool)
      <4> SUFFICES ASSUME currentQueryPool # NoPool
                   PROVE  UsersOf(currentQueryPool)' = UsersOf(currentQueryPool)
        OBVIOUS
      <4>1. currentQueryPool \in SUBSET Operation
        BY PoolTyped DEF TypeOK
      <4>2. \A o \in currentQueryPool : opUsers'[o] = opUsers[o]
        BY <4>1, <2>1 DEF InPool
      <4> QED
        BY <3>1, <4>2 DEF UsersOf
    <3> QED
      BY <3>1, <3>2 DEF QueryHasUsers, Pools
  <2> QED
    BY <2>3, <2>4, <2>5 DEF DownloadKeys
<1>11. Pools'
  <2>1. ASSUME NEW o \in Operation,
               \/ InPool(o, currentQueryPool')
               \/ InPool(o, nextQueryPool')
               \/ \E i \in 1..Len(posted) : o \in posted[i].ops
               \/ \E u \in User : inProgressBy'[u] = o
        PROVE  outcome'[o] # "unused"
    <3>1. (\E u \in User : inProgressBy'[u] = o) => o = op \/ \E u \in User : inProgressBy[u] = o
      BY <1>2 DEF TypeOK
    <3> QED
      BY <2>1, <3>1, <1>6, <1>7, <1>8 DEF Pools
  <2> QED
    BY <2>1, <1>2, <1>9, <1>10 DEF Pools, InPool
<1> QED
  BY <1>4, <1>11

\* A query that ends: its pool's operations move to a posted block, and the
\* next pool's query is for all their users.
LEMMA PoolDoneTInv ==
    ASSUME TInv, query.stage \in {"answered", "failed"}, PoolDone, devices' \in Versions,
           NEW b \in Block, b.ops = currentQueryPool, posted' = Append(posted, b),
           UNCHANGED <<node, list, restarts>>
    PROVE  TInv'
<1> USE Constants DEF TInv, PoolDone, node, list
<1>1. /\ posted' \in Seq(Block) /\ Len(posted') = Len(posted) + 1
      /\ \A i \in 1..Len(posted') : posted'[i] = IF i <= Len(posted) THEN posted[i] ELSE b
  BY Posting
<1>2. query' \in [stage : {"none", "sent", "answered", "failed"},
                 users : SUBSET User, got : Versions]
  <2>1. Nothing \in Versions
    BY DEF Nothing, Versions
  <2>2. nextQueryPool # NoPool => UsersOf(nextQueryPool) \in SUBSET User
    BY PoolTyped, UsersOfTyped DEF TypeOK
  <2> QED
    BY <2>1, <2>2 DEF Sent, NoQuery
<1>3. TypeOK'
  BY <1>1, <1>2 DEF TypeOK, Block, Pool
<1>4. ASSUME NEW op \in Operation,
             \/ InPool(op, currentQueryPool')
             \/ InPool(op, nextQueryPool')
             \/ \E i \in 1..Len(posted') : op \in posted'[i].ops
             \/ \E u \in User : inProgressBy'[u] = op
      PROVE  outcome'[op] # "unused"
  <2>1. CASE \E i \in 1..Len(posted') : op \in posted'[i].ops
    <3>1. PICK i \in 1..Len(posted') : op \in posted'[i].ops
      BY <2>1
    <3>2. CASE i <= Len(posted)
      <4>1. i \in 1..Len(posted) /\ posted'[i] = posted[i]
        BY <1>1, <3>2 DEF TypeOK
      <4> QED
        BY <3>1, <4>1 DEF Pools
    <3>3. CASE ~(i <= Len(posted))
      <4>1. op \in currentQueryPool
        BY <1>1, <3>1, <3>3
      <4>2. currentQueryPool # NoPool
        BY DEF Pools
      <4> QED
        BY <4>1, <4>2 DEF Pools, InPool
    <3> QED
      BY <3>2, <3>3
  <2>2. CASE InPool(op, currentQueryPool')
    BY <2>2 DEF Pools, InPool
  <2>3. ~InPool(op, nextQueryPool')
    BY DEF InPool
  <2>4. CASE \E u \in User : inProgressBy'[u] = op
    BY <2>4 DEF Pools
  <2> QED
    BY <1>4, <2>1, <2>2, <2>3, <2>4
<1>5. QueryHasUsers' /\ (query'.stage # "none" => currentQueryPool' # NoPool)
  <2>1. CASE nextQueryPool = NoPool
    BY <2>1 DEF QueryHasUsers, NoQuery
  <2>2. CASE nextQueryPool # NoPool
    <3>1. UsersOf(currentQueryPool)' = UsersOf(nextQueryPool)
      BY DEF UsersOf
    <3> QED
      BY <2>2, <3>1 DEF QueryHasUsers, Sent
  <2> QED
    BY <2>1, <2>2
<1>6. Pools'
  BY <1>4, <1>5 DEF Pools, InPool
<1> QED
  BY <1>3, <1>6

\* A block that reports: one block less, and operations only end.
LEMMA ReportTInv ==
    ASSUME TInv, posted # <<>>, posted' = Tail(posted),
           status' \in [User -> Status], savedStatus' \in [User -> Status],
           NEW marked, inProgressBy' = [u \in User |-> IF u \in marked THEN None ELSE inProgressBy[u]],
           NEW ops,
           outcome' = [op \in Operation |-> IF op \in ops THEN "over" ELSE outcome[op]],
           UNCHANGED <<node, devices, opUsers, currentQueryPool, nextQueryPool, query, restarts>>
    PROVE  TInv'
<1> USE Constants DEF TInv, node
<1>1. /\ posted' \in Seq(Block)
      /\ \A i \in 1..Len(posted') :
            i + 1 \in 1..Len(posted) /\ posted'[i] = posted[i + 1]
  BY Taking
<1>2. TypeOK'
  BY <1>1 DEF TypeOK, Block, Outcome
<1>3. \A op \in Operation : outcome[op] # "unused" => outcome'[op] # "unused"
  OBVIOUS
<1>4. QueryHasUsers'
  BY DEF Pools, QueryHasUsers, UsersOf
<1>5. Pools'
  <2>1. ASSUME NEW op \in Operation,
               \/ InPool(op, currentQueryPool')
               \/ InPool(op, nextQueryPool')
               \/ \E i \in 1..Len(posted') : op \in posted'[i].ops
               \/ \E u \in User : inProgressBy'[u] = op
        PROVE  outcome[op] # "unused"
    <3>1. (\E i \in 1..Len(posted') : op \in posted'[i].ops) =>
              \E i \in 1..Len(posted) : op \in posted[i].ops
      BY <1>1
    <3>2. (\E u \in User : inProgressBy'[u] = op) => \E u \in User : inProgressBy[u] = op
      OBVIOUS
    <3> QED
      BY <2>1, <3>1, <3>2 DEF Pools
  <2> QED
    BY <2>1, <1>3, <1>4 DEF Pools, InPool
<1> QED
  BY <1>2, <1>5

LEMMA ReportSuccessTInv == TInv /\ ReportSuccess => TInv'
<1> SUFFICES ASSUME TInv, ReportSuccess PROVE TInv'
  OBVIOUS
<1> DEFINE marked == UNION {Marked(op, Head(posted).got) : op \in Head(posted).ops}
<1>1. status' \in [User -> Status] /\ savedStatus' \in [User -> Status]
  BY DEF ReportSuccess, TInv, TypeOK, Status
<1>2. /\ posted # <<>> /\ posted' = Tail(posted)
      /\ inProgressBy' = [u \in User |-> IF u \in marked THEN None ELSE inProgressBy[u]]
      /\ outcome' = [op \in Operation |->
                        IF op \in Head(posted).ops THEN "over" ELSE outcome[op]]
      /\ UNCHANGED <<node, devices, opUsers, currentQueryPool, nextQueryPool, query, restarts>>
  BY DEF ReportSuccess
<1> QED
  BY <1>1, <1>2, ReportTInv

LEMMA ReportFailureTInv == TInv /\ ReportFailure => TInv'
<1> SUFFICES ASSUME TInv, ReportFailure PROVE TInv'
  OBVIOUS
<1> DEFINE marked == {}
<1>1. inProgressBy' = [u \in User |-> IF u \in marked THEN None ELSE inProgressBy[u]]
  BY DEF ReportFailure, TInv, TypeOK
<1>2. /\ posted # <<>> /\ posted' = Tail(posted)
      /\ status' = status /\ savedStatus' = savedStatus
      /\ outcome' = [op \in Operation |->
                        IF op \in Head(posted).ops THEN "over" ELSE outcome[op]]
      /\ UNCHANGED <<node, devices, opUsers, currentQueryPool, nextQueryPool, query, restarts>>
  BY DEF ReportFailure
<1>3. status' \in [User -> Status] /\ savedStatus' \in [User -> Status]
  BY <1>2 DEF TInv, TypeOK
<1> HIDE DEF marked
<1> QED
  BY <1>1, <1>2, <1>3, ReportTInv

\* What the node and a sync do leaves the operations and their pools alone.
LEMMA ElsewhereTInv ==
    ASSUME TInv, version' \in Versions, announced' \in Versions, syncing' \in BOOLEAN,
           status' \in [User -> Status], query' = query,
           UNCHANGED <<savedStatus, inProgressBy, opUsers, outcome, currentQueryPool,
                       nextQueryPool, posted, devices, restarts>>
    PROVE  TInv'
BY DEF TInv, TypeOK, Pools, InPool, QueryHasUsers, UsersOf

LEMMA QueryTInv ==
    ASSUME TInv, QueryFails \/ \E reached \in SUBSET User : NodeAnswers(reached)
    PROVE  TInv'
<1> USE DEF TInv, node, list
<1>1. /\ query.stage = "sent" /\ query'.users = query.users
      /\ query' \in [stage : {"none", "sent", "answered", "failed"},
                     users : SUBSET User, got : Versions]
  <2>1. CASE QueryFails
    BY <2>1 DEF QueryFails, TypeOK
  <2>2. ASSUME NEW reached \in SUBSET User, NodeAnswers(reached)
        PROVE  /\ query.stage = "sent" /\ query'.users = query.users
               /\ query' \in [stage : {"none", "sent", "answered", "failed"},
                              users : SUBSET User, got : Versions]
    <3>1. [u \in User |-> IF u \in reached THEN version[u] ELSE 0] \in Versions
      BY Constants DEF TypeOK, Versions
    <3> QED
      BY <2>2, <3>1 DEF NodeAnswers, TypeOK
  <2> QED
    BY <2>1, <2>2
<1>2. UNCHANGED <<node, list, devices, currentQueryPool, nextQueryPool, posted, restarts>>
  BY DEF QueryFails, NodeAnswers
<1>3. TypeOK'
  BY <1>1, <1>2 DEF TypeOK
<1>4. QueryHasUsers'
  BY <1>1, <1>2 DEF Pools, QueryHasUsers, UsersOf
<1>5. Pools'
  BY <1>1, <1>2, <1>4 DEF Pools, InPool
<1> QED
  BY <1>3, <1>5

LEMMA RestartTInv == TInv /\ Restart => TInv'
<1> SUFFICES ASSUME TInv, Restart PROVE TInv'
  OBVIOUS
<1> USE Constants DEF TInv, Restart, node
<1>1. NoQuery \in [stage : {"none", "sent", "answered", "failed"},
                  users : SUBSET User, got : Versions]
  BY DEF NoQuery, Nothing, Versions
<1>2. restarts' \in 0..MaxRestarts
  BY DEF TypeOK
<1>3. TypeOK'
  BY <1>1, <1>2 DEF TypeOK, Pool, Status, Outcome
<1>4. Pools'
  BY DEF Pools, QueryHasUsers, NoQuery, InPool, TypeOK
<1> QED
  BY <1>3, <1>4

LEMMA SyncTyped ==
    ASSUME TypeOK, SyncChanges \/ \E u \in User : DevicesChange(u) \/ StartTracking(u) \/ StopTracking(u)
    PROVE  /\ version' \in Versions /\ announced' \in Versions
           /\ syncing' \in BOOLEAN /\ status' \in [User -> Status]
<1> USE Constants DEF TypeOK, Versions, Status
<1>1. CASE SyncChanges
  BY <1>1 DEF SyncChanges, Invalidate
<1>2. ASSUME NEW u \in User, DevicesChange(u)
      PROVE  version' \in Versions
  BY <1>2 DEF DevicesChange
<1>3. ASSUME NEW u \in User, StartTracking(u) \/ StopTracking(u)
      PROVE  announced' \in Versions /\ status' \in [User -> Status]
  <2>1. version[u] \in 0..MaxVersion /\ 0 \in 0..MaxVersion
    OBVIOUS
  <2>2. \E a \in 0..MaxVersion : announced' = [announced EXCEPT ![u] = a]
    BY <1>3, <2>1 DEF StartTracking, StopTracking
  <2>3. announced' \in Versions
    BY <2>2
  <2>4. status' \in [User -> Status]
    BY <1>3 DEF StartTracking, StopTracking
  <2> QED
    BY <2>3, <2>4
<1> QED
  BY <1>1, <1>2, <1>3 DEF DevicesChange, StartTracking, StopTracking, list

LEMMA NextTInv == TInv /\ [Next]_vars => TInv'
<1> SUFFICES ASSUME TInv, [Next]_vars PROVE TInv'
  OBVIOUS
<1>1. ASSUME NEW op \in Operation, NEW asked \in SUBSET User,
             NEW force \in BOOLEAN, NEW cancelled \in BOOLEAN,
             Download(op, asked, force, cancelled)
      PROVE  TInv'
  <2>1. /\ DownloadKeys(op, asked, force, cancelled)
        /\ UNCHANGED <<version, announced, syncing, devices, restarts>>
    BY <1>1 DEF Download, node
  <2>2. syncing' \in BOOLEAN
    BY <2>1 DEF TInv, TypeOK
  <2> QED
    BY <2>1, <2>2, DownloadTInv
<1>2. CASE SyncChanges \/ \E u \in User : DevicesChange(u) \/ StartTracking(u) \/ StopTracking(u)
  <2>1. UNCHANGED <<savedStatus, inProgressBy, opUsers, outcome, currentQueryPool,
                    nextQueryPool, query, posted, devices, restarts>>
    BY <1>2 DEF SyncChanges, DevicesChange, StartTracking, StopTracking, list, pools
  <2> QED
    BY <1>2, <2>1, SyncTyped, ElsewhereTInv DEF TInv
<1>3. CASE SyncCompleted
  <2>1. CASE Pending = {}
    <3>1. /\ UNCHANGED <<version, announced, savedStatus, inProgressBy, opUsers, outcome, status,
                         currentQueryPool, nextQueryPool, query, posted, devices, restarts>>
          /\ syncing' = FALSE
      BY <1>3, <2>1 DEF SyncCompleted, list, pools
    <3>2. version' \in Versions /\ announced' \in Versions /\ status' \in [User -> Status]
      BY <3>1 DEF TInv, TypeOK
    <3> QED
      BY <3>1, <3>2, ElsewhereTInv
  <2>2. CASE Pending # {}
    <3>1. /\ Pending \in SUBSET User
          /\ syncing' = FALSE
          /\ UNCHANGED <<version, announced, devices, restarts>>
      BY <1>3 DEF SyncCompleted, Pending
    <3>2. PICK op \in Operation : DownloadKeys(op, Pending, FALSE, FALSE)
      BY <1>3, <2>2 DEF SyncCompleted
    <3> QED
      BY <3>1, <3>2, DownloadTInv
  <2> QED
    BY <2>1, <2>2
<1>4. CASE QueryFails \/ \E reached \in SUBSET User : NodeAnswers(reached)
  BY <1>4, QueryTInv
<1>5. CASE QuerySucceeds
  <2> DEFINE b == [ops |-> currentQueryPool, ok |-> TRUE, got |-> query.got]
  <2>1. b \in Block /\ devices' \in Versions
    <3>1. currentQueryPool \in SUBSET Operation
      BY <1>5, PoolTyped DEF QuerySucceeds, TInv, TypeOK, Pools
    <3>2. query.got \in Versions /\ devices \in Versions
      BY DEF TInv, TypeOK
    <3>3. devices' \in Versions
      BY <1>5, <3>2 DEF QuerySucceeds, Versions
    <3> QED
      BY <3>1, <3>2, <3>3 DEF Block
  <2>2. /\ query.stage = "answered" /\ PoolDone /\ posted' = Append(posted, b)
        /\ UNCHANGED <<node, list, restarts>>
    BY <1>5 DEF QuerySucceeds
  <2>3. b.ops = currentQueryPool
    OBVIOUS
  <2> HIDE DEF b
  <2> QED
    BY <2>1, <2>2, <2>3, PoolDoneTInv
<1>6. CASE QueryHasFailed
  <2> DEFINE b == [ops |-> currentQueryPool, ok |-> FALSE, got |-> Nothing]
  <2>1. b \in Block /\ devices' \in Versions
    <3>1. currentQueryPool \in SUBSET Operation
      BY <1>6, PoolTyped DEF QueryHasFailed, TInv, TypeOK, Pools
    <3>2. Nothing \in Versions /\ devices' \in Versions
      BY <1>6, Constants DEF QueryHasFailed, Nothing, Versions, TInv, TypeOK
    <3> QED
      BY <3>1, <3>2 DEF Block
  <2>2. /\ query.stage = "failed" /\ PoolDone /\ posted' = Append(posted, b)
        /\ UNCHANGED <<node, list, restarts>>
    BY <1>6 DEF QueryHasFailed
  <2>3. b.ops = currentQueryPool
    OBVIOUS
  <2> HIDE DEF b
  <2> QED
    BY <2>1, <2>2, <2>3, PoolDoneTInv
<1>7. CASE UNCHANGED vars
  <2>1. UNCHANGED <<version, announced, syncing, savedStatus, inProgressBy, opUsers, outcome, status,
                    currentQueryPool, nextQueryPool, query, posted, devices, restarts>>
    BY <1>7 DEF vars, node, list, pools
  <2>2. /\ version' \in Versions /\ announced' \in Versions /\ status' \in [User -> Status]
        /\ syncing' \in BOOLEAN
    BY <2>1 DEF TInv, TypeOK
  <2> QED
    BY <2>1, <2>2, ElsewhereTInv
<1>8. RoomUser \subseteq User
  BY Constants
<1> QED
  BY <1>1, <1>2, <1>3, <1>4, <1>5, <1>6, <1>7, <1>8, ReportSuccessTInv, ReportFailureTInv,
     RestartTInv DEF Next

\* The types of the device list's state, for all users, operations and bounds.
THEOREM ListTyped == Spec => []TypeOK
BY InitTInv, NextTInv, PTL DEF Spec, TInv

\* The assertion of addOperation never fails: the query under way is for all the
\* users of the operations that share it, whoever cancels, fails or restarts.
THEOREM AssertionHolds == Spec => []QueryHasUsers
BY InitTInv, NextTInv, PTL DEF Spec, TInv, Pools

-----------------------------------------------------------------------------
(* Freshness.                                                              *)

LEMMA InitFresh == Init => Fresh
BY Constants DEF Init, Fresh, Versioned, Registered, Saved, UpToDateIsFresh, Nothing, NoQuery

LEMMA DownloadFresh ==
    ASSUME TInv, Fresh, NEW op \in Operation, NEW asked \in SUBSET User,
           NEW force \in BOOLEAN, NEW cancelled \in BOOLEAN,
           DownloadKeys(op, asked, force, cancelled),
           WillDo(asked, force) => \A u \in InProgress(asked) : inProgressBy[u] \in currentQueryPool,
           UNCHANGED <<version, announced, devices, restarts>>
    PROVE  Fresh'
<1> DEFINE users == InProgress(asked) \cup Outdated(asked, force)
<1> USE Constants DEF TInv, Fresh
<1>1. /\ outcome[op] = "unused" /\ users \in SUBSET User
      /\ status' = [u \in User |-> IF u \in users THEN "InProgress" ELSE status[u]]
      /\ savedStatus' = status'
      /\ inProgressBy' = [u \in User |-> IF u \in users THEN op ELSE inProgressBy[u]]
      /\ opUsers' = [opUsers EXCEPT ![op] = users]
      /\ posted' = posted
  BY DEF DownloadKeys, InProgress, Outdated
<1>2. /\ ~InPool(op, currentQueryPool) /\ op # None
      /\ \A i \in 1..Len(posted) : op \notin posted[i].ops
      /\ \A u \in User : inProgressBy[u] # op
  BY <1>1 DEF Pools
<1>3. \/ /\ WillDo(asked, force)
         /\ query' = query
         /\ currentQueryPool' \subseteq currentQueryPool \cup {op}
      \/ query'.stage # "answered" /\ query'.got = Nothing
      \/ UNCHANGED <<currentQueryPool, query>>
  BY DEF DownloadKeys, JoinCurrent, StartQuery, QueueInNext, With, Sent, TypeOK
<1>4. UpToDateIsFresh' /\ Saved'
  BY <1>1 DEF UpToDateIsFresh, Saved
<1>5. Versioned'
  <2>1. (query'.stage # "answered" /\ query'.got = Nothing) \/ query' = query
    BY <1>3
  <2> QED
    BY <2>1 DEF Versioned, Nothing, TypeOK, Versions
<1>6. ASSUME NEW u \in User, status'[u] = "InProgress", inProgressBy'[u] # None
      PROVE  /\ u \in opUsers'[inProgressBy'[u]]
             /\ InPool(inProgressBy'[u], currentQueryPool')
                   /\ query'.stage = "answered" /\ query'.got[u] # 0
                   => query'.got[u] >= announced'[u]
             /\ \A i \in 1..Len(posted') :
                   inProgressBy'[u] \in posted'[i].ops /\ posted'[i].got[u] # 0
                   => devices'[u] >= announced'[u]
  <2>1. CASE u \in users
    <3>1. inProgressBy'[u] = op /\ opUsers'[op] = users
      BY <1>1, <2>1 DEF TypeOK
    <3>2. \A i \in 1..Len(posted') : inProgressBy'[u] \notin posted'[i].ops
      BY <1>1, <1>2, <3>1
    <3>3. ASSUME InPool(op, currentQueryPool'), query'.stage = "answered", query'.got[u] # 0
          PROVE  query'.got[u] >= announced'[u]
      <4>1. WillDo(asked, force) /\ query' = query
        BY <1>2, <1>3, <3>3 DEF InPool
      <4>2. /\ u \in InProgress(asked) /\ status[u] = "InProgress"
            /\ inProgressBy[u] \in currentQueryPool
        BY <2>1, <4>1 DEF WillDo, InProgress
      <4>3. currentQueryPool \in SUBSET Operation /\ currentQueryPool # NoPool
        BY <4>1, PoolTyped DEF WillDo, TypeOK
      <4>4. inProgressBy[u] # None /\ InPool(inProgressBy[u], currentQueryPool)
        BY <4>2, <4>3 DEF InPool
      <4> QED
        BY <3>3, <4>1, <4>2, <4>4 DEF Registered
    <3> QED
      BY <2>1, <3>1, <3>2, <3>3
  <2>2. CASE u \notin users
    <3>1. /\ inProgressBy'[u] = inProgressBy[u] /\ status[u] = "InProgress"
          /\ inProgressBy[u] # op /\ inProgressBy[u] \in Operation
          /\ opUsers'[inProgressBy[u]] = opUsers[inProgressBy[u]]
      BY <1>1, <1>2, <1>6, <2>2 DEF TypeOK
    <3>2. InPool(inProgressBy[u], currentQueryPool') /\ query'.stage = "answered"
             => query' = query /\ InPool(inProgressBy[u], currentQueryPool)
      BY <1>3, <3>1 DEF InPool, WillDo
    <3> QED
      BY <1>1, <1>6, <3>1, <3>2 DEF Registered
  <2> QED
    BY <2>1, <2>2
<1>7. Registered'
  BY <1>6 DEF Registered, InPool
<1> QED
  BY <1>4, <1>5, <1>7

LEMMA SyncFresh ==
    ASSUME TInv, Fresh,
           SyncChanges \/ \E u \in User : DevicesChange(u) \/ StartTracking(u) \/ StopTracking(u)
    PROVE  Fresh'
<1> USE Constants DEF TInv, Fresh
<1>0. /\ UNCHANGED <<savedStatus, inProgressBy, opUsers, outcome, currentQueryPool,
                     nextQueryPool, query, posted, devices, restarts>>
      /\ \A u \in User : /\ announced[u] \in Nat /\ version[u] \in Nat /\ devices[u] \in Nat
                         /\ query.got[u] \in Nat
  BY DEF SyncChanges, DevicesChange, StartTracking, StopTracking, list, pools, TypeOK, Versions
<1>1. \A u \in User : /\ announced'[u] <= version'[u] /\ version'[u] >= version[u]
                      /\ version'[u] \in Nat /\ announced'[u] \in Nat
  <2>1. CASE SyncChanges
    BY <1>0, <2>1 DEF SyncChanges, TypeOK, Versions, Versioned
  <2>2. ASSUME NEW u \in User, DevicesChange(u) PROVE <1>1
    BY <1>0, <2>2 DEF DevicesChange, TypeOK, Versions, Versioned
  <2>3. ASSUME NEW u \in User, StartTracking(u) PROVE <1>1
    BY <1>0, <2>3 DEF StartTracking, TypeOK, Versions, Versioned
  <2>4. ASSUME NEW u \in User, StopTracking(u) PROVE <1>1
    BY <1>0, <2>4 DEF StopTracking, TypeOK, Versions, Versioned
  <2> QED
    BY <2>1, <2>2, <2>3, <2>4
<1>2. \A u \in User : \/ status'[u] = status[u] /\ announced'[u] = announced[u]
                      \/ status'[u] = "Pending" /\ syncing'
                      \/ announced'[u] = 0 /\ status'[u] = "NotTracked"
                      \/ status[u] = "NotTracked" /\ status'[u] = "NotTracked" /\ announced[u] # 0
  <2>1. CASE SyncChanges
    <3>1. ASSUME NEW u \in User, announced'[u] # announced[u] PROVE announced[u] # 0
      BY <2>1, <3>1 DEF SyncChanges, TypeOK, Versions
    <3>2. \A u \in User : \/ status'[u] = status[u] /\ announced'[u] = announced[u]
                          \/ status'[u] = "Pending"
                          \/ status[u] = "NotTracked" /\ status'[u] = "NotTracked" /\ announced[u] # 0
      BY <2>1, <3>1 DEF SyncChanges, Invalidate, TypeOK, Versions
    <3> QED
      BY <2>1, <3>2 DEF SyncChanges
  <2>2. ASSUME NEW u \in User, DevicesChange(u) PROVE <1>2
    BY <2>2 DEF DevicesChange, list
  <2>3. ASSUME NEW u \in User, StartTracking(u) PROVE <1>2
    BY <2>3 DEF StartTracking, TypeOK, Versions
  <2>4. ASSUME NEW u \in User, StopTracking(u) PROVE <1>2
    BY <2>4 DEF StopTracking, TypeOK, Versions
  <2> QED
    BY <2>1, <2>2, <2>3, <2>4
<1>3. syncing => syncing'
  BY DEF SyncChanges, DevicesChange, StartTracking, StopTracking, TypeOK
<1>4. Versioned'
  <2>1. \A u \in User : devices[u] <= version'[u] /\ query.got[u] <= version'[u]
    BY <1>0, <1>1 DEF Versioned
  <2> QED
    BY <1>0, <1>1, <2>1 DEF Versioned
<1>5. UpToDateIsFresh'
  BY <1>0, <1>2 DEF UpToDateIsFresh
<1>6. Registered'
  BY <1>0, <1>2 DEF Registered, InPool
<1>7. Saved'
  BY <1>0, <1>2, <1>3 DEF Saved
<1> QED
  BY <1>4, <1>5, <1>6, <1>7

LEMMA CompletedFresh == TInv /\ Fresh /\ Careful /\ SyncCompleted => Fresh'
<1> SUFFICES ASSUME TInv, Fresh, SyncCompleted PROVE Fresh'
  OBVIOUS
<1> USE DEF TInv
<1>1. UNCHANGED <<version, announced, devices, restarts>>
  BY DEF SyncCompleted
<1>2. CASE Pending = {}
  <2>1. UNCHANGED <<list, pools>>
    BY <1>2 DEF SyncCompleted
  <2>2. \A u \in User : status[u] # "Pending"
    BY <1>2 DEF Pending
  <2>3. Versioned' /\ UpToDateIsFresh'
    BY <1>1, <2>1 DEF Fresh, Versioned, UpToDateIsFresh, list, pools
  <2>4. Registered'
    BY <1>1, <2>1 DEF Fresh, Registered, InPool, list, pools
  <2>5. Saved'
    BY <1>1, <2>1, <2>2 DEF Fresh, Saved, list
  <2> QED
    BY <2>3, <2>4, <2>5 DEF Fresh
<1>3. CASE Pending # {}
  <2>1. PICK op \in Operation : DownloadKeys(op, Pending, FALSE, FALSE)
    BY <1>3 DEF SyncCompleted
  <2>2. Outdated(Pending, FALSE) = Pending /\ Pending \in SUBSET User
    BY DEF Outdated, Pending
  <2>3. ~WillDo(Pending, FALSE)
    BY <1>3, <2>2 DEF WillDo
  <2> QED
    BY <1>1, <2>1, <2>2, <2>3, DownloadFresh
<1> QED
  BY <1>2, <1>3

\* An answer has the node's devices by now, at least those of the last sync.
LEMMA QueryFresh ==
    ASSUME TInv, Fresh, QueryFails \/ \E reached \in SUBSET User : NodeAnswers(reached)
    PROVE  Fresh'
<1> USE Constants DEF TInv, Fresh, node, list
<1>1. UNCHANGED <<version, announced, syncing, status, savedStatus, inProgressBy, opUsers,
                  devices, currentQueryPool, posted>>
  BY DEF QueryFails, NodeAnswers
<1>2. \A u \in User : /\ version[u] \in Nat /\ announced[u] <= version[u]
                      /\ devices[u] <= version[u]
                      /\ query.got[u] <= version[u]
  BY DEF TypeOK, Versions, Versioned
<1>3. \A u \in User : \/ query'.got[u] = version[u] \/ query'.got[u] = 0
                      \/ query'.stage = "failed" /\ query'.got[u] = query.got[u]
  <2>1. CASE QueryFails
    BY <2>1 DEF QueryFails, TypeOK
  <2>2. ASSUME NEW reached \in SUBSET User, NodeAnswers(reached)
        PROVE  \A u \in User : query'.got[u] = version[u] \/ query'.got[u] = 0
    BY <2>2 DEF NodeAnswers, TypeOK
  <2> QED
    BY <2>1, <2>2
<1>4. Versioned'
  BY <1>1, <1>2, <1>3 DEF Versioned
<1>5. UpToDateIsFresh' /\ Saved'
  BY <1>1 DEF UpToDateIsFresh, Saved
<1>6. Registered'
  BY <1>1, <1>2, <1>3 DEF Registered, InPool
<1> QED
  BY <1>4, <1>5, <1>6

\* A query that is done leaves its pool to one that has no answer yet.
LEMMA NextPoolFresh ==
    ASSUME TInv, Fresh, query.stage \in {"answered", "failed"}, PoolDone,
           NEW b \in Block, b.ops = currentQueryPool, posted' = Append(posted, b),
           \A u \in User : b.got[u] = 0 \/ (query.stage = "answered" /\ b.got[u] = query.got[u]),
           devices' = [u \in User |-> IF b.got[u] # 0 THEN b.got[u] ELSE devices[u]],
           UNCHANGED <<node, list, restarts>>
    PROVE  Fresh'
<1> USE Constants DEF TInv, Fresh, node, list
<1>1. query'.stage # "answered" /\ \A u \in User : query'.got[u] = 0
  BY DEF PoolDone, NoQuery, Sent, Nothing
<1>2. ASSUME NEW u \in User
      PROVE  /\ devices'[u] >= devices[u] /\ devices'[u] <= version[u]
             /\ devices'[u] \in Nat /\ devices[u] \in Nat /\ announced[u] \in Nat
             /\ version[u] \in Nat
  BY DEF TypeOK, Versions, Versioned
<1>3. Versioned'
  BY <1>1, <1>2 DEF Versioned
<1>4. UpToDateIsFresh' /\ Saved'
  BY <1>2 DEF UpToDateIsFresh, Saved
<1>5. ASSUME NEW u \in User, status[u] = "InProgress", inProgressBy[u] # None,
             NEW i \in 1..Len(posted'),
             inProgressBy[u] \in posted'[i].ops, posted'[i].got[u] # 0
      PROVE  devices'[u] >= announced[u]
  <2>1. Len(posted) \in Nat /\ Len(posted') = Len(posted) + 1
        /\ posted'[i] = IF i <= Len(posted) THEN posted[i] ELSE b
    BY Posting DEF TypeOK
  <2>2. CASE i <= Len(posted)
    <3>1. i \in 1..Len(posted)
      BY <2>1, <2>2
    <3>2. devices[u] >= announced[u]
      BY <1>5, <2>1, <2>2, <3>1 DEF Registered
    <3> QED
      BY <1>2, <3>2
  <2>3. CASE ~(i <= Len(posted))
    <3>1. /\ inProgressBy[u] \in currentQueryPool
          /\ query.stage = "answered" /\ query.got[u] # 0
          /\ devices'[u] = query.got[u]
      BY <1>5, <2>1, <2>3
    <3>2. InPool(inProgressBy[u], currentQueryPool)
      BY <3>1 DEF Pools, InPool
    <3> QED
      BY <1>5, <3>1, <3>2 DEF Registered
  <2> QED
    BY <2>2, <2>3
<1>6. Registered'
  BY <1>1, <1>5 DEF Registered
<1> QED
  BY <1>3, <1>4, <1>6

LEMMA QueryDoneFresh == TInv /\ Fresh /\ (QuerySucceeds \/ QueryHasFailed) => Fresh'
<1> SUFFICES ASSUME TInv, Fresh, QuerySucceeds \/ QueryHasFailed PROVE Fresh'
  OBVIOUS
<1>0. /\ currentQueryPool \in SUBSET Operation
      /\ query.got \in Versions /\ Nothing \in Versions /\ devices \in Versions
  BY PoolTyped, Constants
  DEF QuerySucceeds, QueryHasFailed, TInv, TypeOK, Pools, Nothing, Versions
<1>1. CASE QuerySucceeds
  <2> DEFINE b == [ops |-> currentQueryPool, ok |-> TRUE, got |-> query.got]
  <2>1. b \in Block /\ b.ops = currentQueryPool /\ b.got = query.got
    BY <1>0 DEF Block
  <2>2. /\ query.stage = "answered" /\ PoolDone /\ posted' = Append(posted, b)
        /\ UNCHANGED <<node, list, restarts>>
    BY <1>1 DEF QuerySucceeds
  <2>3. devices' = [u \in User |-> IF b.got[u] # 0 THEN b.got[u] ELSE devices[u]]
    BY <1>1 DEF QuerySucceeds
  <2> HIDE DEF b
  <2> QED
    BY <2>1, <2>2, <2>3, NextPoolFresh
<1>2. CASE QueryHasFailed
  <2> DEFINE b == [ops |-> currentQueryPool, ok |-> FALSE, got |-> Nothing]
  <2>1. b \in Block /\ b.ops = currentQueryPool /\ \A u \in User : b.got[u] = 0
    BY <1>0 DEF Block, Nothing
  <2>2. /\ query.stage = "failed" /\ PoolDone /\ posted' = Append(posted, b)
        /\ devices' = devices /\ UNCHANGED <<node, list, restarts>>
    BY <1>2 DEF QueryHasFailed
  <2> HIDE DEF b
  <2>3. devices' = [u \in User |-> IF b.got[u] # 0 THEN b.got[u] ELSE devices[u]]
    <3>1. devices = [u \in User |-> devices[u]]
      BY <1>0 DEF Versions
    <3>2. \A u \in User : (IF b.got[u] # 0 THEN b.got[u] ELSE devices[u]) = devices[u]
      BY <2>1
    <3>3. [u \in User |-> IF b.got[u] # 0 THEN b.got[u] ELSE devices[u]]
              = [u \in User |-> devices[u]]
      BY <3>2, Zenon
    <3> QED
      BY <2>2, <3>1, <3>3
  <2>4. /\ query.stage \in {"answered", "failed"} /\ PoolDone
        /\ posted' = Append(posted, b)
        /\ UNCHANGED <<node, list, restarts>>
    BY <2>2
  <2>5. \A u \in User : b.got[u] = 0 \/ (query.stage = "answered" /\ b.got[u] = query.got[u])
    BY <2>1
  <2>6. b \in Block /\ b.ops = currentQueryPool
    BY <2>1
  <2> QED
    BY <2>3, <2>4, <2>5, <2>6, NextPoolFresh
<1> QED
  BY <1>1, <1>2

\* Only the operation that is registered for a user marks them.
LEMMA ReportSuccessFresh == TInv /\ Fresh /\ ReportSuccess => Fresh'
<1> SUFFICES ASSUME TInv, Fresh, ReportSuccess PROVE Fresh'
  OBVIOUS
<1> DEFINE block == Head(posted)
           marked == UNION {Marked(op, block.got) : op \in block.ops}
           unreached == UNION {Unreached(op, block.got) : op \in block.ops}
<1> USE Constants DEF TInv, Fresh, node
<1>1. /\ posted # <<>> /\ posted' = Tail(posted)
      /\ UNCHANGED <<version, announced, syncing, devices, opUsers, currentQueryPool, query>>
      /\ inProgressBy' = [u \in User |-> IF u \in marked THEN None ELSE inProgressBy[u]]
      /\ savedStatus' = IF block.ops = {} THEN savedStatus ELSE status'
  BY DEF ReportSuccess
<1>2. status' = [u \in User |->
          CASE status[u] = "InProgress" /\ u \in marked -> "UpToDate"
            [] status[u] = "InProgress" /\ u \in unreached -> "Unreachable"
            [] OTHER -> status[u]]
  BY DEF ReportSuccess
<1>3. ASSUME NEW u \in User, status[u] = "InProgress", u \in marked
      PROVE  devices[u] >= announced[u]
  <2>1. PICK op \in block.ops : u \in Marked(op, block.got)
    BY <1>3
  <2>2. /\ block = posted[1] /\ block.ops \in SUBSET Operation /\ 1 \in 1..Len(posted)
    BY <1>1, Taking DEF Block
  <2>3. op # None /\ inProgressBy[u] = op /\ block.got[u] # 0
    BY <2>1, <2>2 DEF Marked
  <2> QED
    BY <1>3, <2>1, <2>2, <2>3 DEF Registered
<1>4. \A u \in User : \/ status'[u] = "UpToDate" /\ status[u] = "InProgress" /\ u \in marked
                      \/ status'[u] = "Unreachable" /\ status[u] = "InProgress"
                      \/ status'[u] = status[u] /\ ~(status[u] = "InProgress" /\ u \in marked)
  BY <1>2
<1> HIDE DEF marked, unreached
<1>5. UpToDateIsFresh'
  BY <1>1, <1>3, <1>4 DEF UpToDateIsFresh
<1>6. Saved'
  <2>1. CASE block.ops = {}
    <3>1. marked = {}
      BY <2>1 DEF marked
    <3> QED
      BY <1>1, <1>4, <2>1, <3>1 DEF Saved
  <2>2. CASE block.ops # {}
    BY <1>1, <1>5, <2>2 DEF Saved, UpToDateIsFresh
  <2> QED
    BY <2>1, <2>2
<1>7. ASSUME NEW u \in User, status'[u] = "InProgress", inProgressBy'[u] # None
      PROVE  /\ status[u] = "InProgress" /\ inProgressBy[u] # None
             /\ inProgressBy'[u] = inProgressBy[u]
  BY <1>1, <1>4, <1>7
<1>8. ASSUME NEW u \in User, status'[u] = "InProgress", inProgressBy'[u] # None,
             NEW i \in 1..Len(posted'),
             inProgressBy'[u] \in posted'[i].ops, posted'[i].got[u] # 0
      PROVE  devices'[u] >= announced'[u]
  <2>1. i + 1 \in 1..Len(posted) /\ posted'[i] = posted[i + 1]
    BY <1>1, Taking
  <2> QED
    BY <1>1, <1>7, <1>8, <2>1 DEF Registered
<1>9. Registered'
  BY <1>1, <1>7, <1>8 DEF Registered, InPool
<1>10. Versioned'
  BY <1>1 DEF Versioned
<1> QED
  BY <1>5, <1>6, <1>9, <1>10

LEMMA ReportFailureFresh == TInv /\ Fresh /\ ReportFailure => Fresh'
<1> SUFFICES ASSUME TInv, Fresh, ReportFailure PROVE Fresh'
  OBVIOUS
<1> USE DEF TInv, Fresh, node
<1>1. /\ posted # <<>> /\ posted' = Tail(posted)
      /\ UNCHANGED <<version, announced, syncing, devices, status, savedStatus, inProgressBy,
                     opUsers, currentQueryPool, query>>
  BY DEF ReportFailure
<1>2. \A i \in 1..Len(posted') : i + 1 \in 1..Len(posted) /\ posted'[i] = posted[i + 1]
  BY <1>1, Taking
<1>3. Registered'
  BY <1>1, <1>2 DEF Registered, InPool
<1> QED
  BY <1>1, <1>3 DEF Versioned, Saved, UpToDateIsFresh

\* A restart forgets the operations and goes back to the status that was saved.
LEMMA RestartFresh == TInv /\ Fresh /\ Restart => Fresh'
<1> SUFFICES ASSUME TInv, Fresh, Restart PROVE Fresh'
  OBVIOUS
<1> USE DEF TInv, Fresh, node
<1>1. /\ ~syncing /\ UNCHANGED <<version, announced, syncing, savedStatus, devices>>
      /\ \A u \in User : inProgressBy'[u] = None
      /\ \A u \in User : /\ status'[u] = "UpToDate" <=> savedStatus[u] = "UpToDate"
  BY DEF Restart
<1>2. query'.stage # "answered" /\ \A u \in User : query'.got[u] = 0
  BY DEF Restart, NoQuery, Nothing
<1>3. Versioned'
  BY <1>1, <1>2, Constants DEF Versioned, TypeOK, Versions
<1>4. UpToDateIsFresh' /\ Saved'
  BY <1>1 DEF UpToDateIsFresh, Saved
<1>5. Registered'
  BY <1>1 DEF Registered
<1> QED
  BY <1>3, <1>4, <1>5

LEMMA NextFresh == Careful /\ TInv /\ Fresh /\ [Next]_vars => Fresh'
<1> SUFFICES ASSUME Careful, TInv, Fresh, [Next]_vars PROVE Fresh'
  OBVIOUS
<1>1. ASSUME NEW op \in Operation, NEW asked \in SUBSET User,
             NEW force \in BOOLEAN, NEW cancelled \in BOOLEAN,
             Download(op, asked, force, cancelled)
      PROVE  Fresh'
  <2>1. WillDo(asked, force) => \A u \in InProgress(asked) : inProgressBy[u] \in currentQueryPool
    BY <1>1 DEF Download, WillDo, AsksAgain
  <2>2. /\ DownloadKeys(op, asked, force, cancelled)
        /\ UNCHANGED <<version, announced, devices, restarts>>
    BY <1>1 DEF Download, node
  <2> QED
    BY <2>1, <2>2, DownloadFresh
<1>2. CASE UNCHANGED vars
  <2>1. UNCHANGED <<version, announced, syncing, status, savedStatus, inProgressBy, opUsers,
                    devices, currentQueryPool, query, posted>>
    BY <1>2 DEF vars, node, list, pools
  <2> QED
    BY <2>1 DEF Fresh, Versioned, Registered, Saved, UpToDateIsFresh, InPool
<1>3. RoomUser \subseteq User
  BY Constants
<1> QED
  BY <1>1, <1>2, <1>3, SyncFresh, CompletedFresh, QueryFresh, QueryDoneFresh,
     ReportSuccessFresh, ReportFailureFresh, RestartFresh DEF Next

\* A list that counts as up to date has the devices that the last sync told of, as
\* long as no caller asks again for users whose last download is not in the current
\* pool: through overlapping queries, failures, cancellations and restarts.
THEOREM UpToDate == Careful /\ Spec => []UpToDateIsFresh
<1> DEFINE IInv == Careful /\ TInv /\ Fresh
<1>1. Careful /\ Init => IInv
  BY InitTInv, InitFresh
<1>2. IInv /\ [Next]_vars => IInv'
  BY NextTInv, NextFresh
<1>3. IInv => UpToDateIsFresh
  BY DEF Fresh
<1> HIDE DEF IInv
<1> QED
  BY <1>1, <1>2, <1>3, PTL DEF Spec

-----------------------------------------------------------------------------
(***************************************************************************)
(* Where a download waits to be reported to.                               *)
(***************************************************************************)
OnePlace == \A op \in Operation :
                IF outcome[op] = "waiting" THEN \E i \in Nat : Places(op) = {i}
                                           ELSE Places(op) = {}
InTurn == /\ currentQueryPool # NoPool <=> query.stage # "none"
          /\ nextQueryPool # NoPool => currentQueryPool # NoPool
Waits == OnePlace /\ InTurn

\* What a place is, and that a place is a number.
LEMMA PlaceIs ==
    ASSUME TypeOK, NEW op \in Operation
    PROVE  /\ Len(posted) \in Nat
           /\ \A i \in Places(op) : i \in Nat
           /\ \A i \in Nat : i \in Places(op) <=>
                  \/ i \in 1..Len(posted) /\ op \in posted[i].ops
                  \/ i = Len(posted) + 1 /\ InPool(op, currentQueryPool)
                  \/ i = Len(posted) + 2 /\ InPool(op, nextQueryPool)
<1>1. Len(posted) \in Nat /\ DOMAIN posted = 1..Len(posted)
  BY DEF TypeOK
<1> QED
  BY <1>1 DEF Places, InPool

LEMMA InitWaits == Init => Waits
<1> SUFFICES ASSUME Init PROVE Waits
  OBVIOUS
<1>1. InTurn
  BY DEF Init, InTurn, NoQuery
<1>2. ASSUME NEW op \in Operation PROVE outcome[op] = "unused" /\ Places(op) = {}
  BY DEF Init, Places
<1> QED
  BY <1>1, <1>2 DEF Waits, OnePlace

\* A download takes a place, unless it is cancelled; the others keep theirs.
LEMMA DownloadWaits ==
    ASSUME TInv, Waits, NEW op \in Operation, NEW asked \in SUBSET User,
           NEW force \in BOOLEAN, NEW cancelled \in BOOLEAN,
           DownloadKeys(op, asked, force, cancelled), TypeOK'
    PROVE  Waits'
<1> DEFINE users == InProgress(asked) \cup Outdated(asked, force)
<1> USE Constants DEF TInv
<1>1. /\ outcome[op] = "unused" /\ posted' = posted
      /\ outcome' = [outcome EXCEPT ![op] = IF cancelled THEN "over" ELSE "waiting"]
  BY DEF DownloadKeys
<1>2. Places(op) = {} /\ Len(posted) \in Nat
  BY <1>1, PlaceIs DEF Waits, OnePlace
<1>3. ~InPool(op, currentQueryPool) /\ ~InPool(op, nextQueryPool)
      /\ \A i \in 1..Len(posted) : op \notin posted[i].ops
  <2>1. Len(posted) + 1 \in Nat /\ Len(posted) + 2 \in Nat /\ 1..Len(posted) \subseteq Nat
    BY <1>2
  <2> QED
    BY <1>2, <2>1, PlaceIs
<1>4. /\ InTurn'
      /\ \A o \in Operation : o # op =>
            /\ InPool(o, currentQueryPool') <=> InPool(o, currentQueryPool)
            /\ InPool(o, nextQueryPool') <=> InPool(o, nextQueryPool)
      /\ IF cancelled
         THEN ~InPool(op, currentQueryPool') /\ ~InPool(op, nextQueryPool')
         ELSE InPool(op, currentQueryPool') <=> ~InPool(op, nextQueryPool')
  <2>1. CASE WillDo(asked, force) /\ JoinCurrent(op, cancelled)
    <3>1. currentQueryPool \in SUBSET Operation
      BY <2>1, PoolTyped DEF WillDo, TypeOK
    <3>2. currentQueryPool' \in SUBSET Operation /\ currentQueryPool' = With(currentQueryPool, op, cancelled)
          /\ UNCHANGED <<nextQueryPool, query>>
      BY <2>1, <3>1 DEF JoinCurrent, With
    <3>3. currentQueryPool # NoPool /\ currentQueryPool' # NoPool
      BY <3>1, <3>2
    <3> QED
      BY <1>3, <3>2, <3>3 DEF InPool, With, Waits, InTurn
  <2>2. CASE currentQueryPool = NoPool /\ StartQuery(op, users, cancelled)
    <3>1. currentQueryPool' = With({}, op, cancelled) /\ currentQueryPool' \in SUBSET Operation
          /\ query'.stage # "none" /\ nextQueryPool = NoPool /\ nextQueryPool' = NoPool
      BY <2>2 DEF StartQuery, With, Waits, InTurn, Sent
    <3>2. currentQueryPool' # NoPool
      BY <3>1
    <3> QED
      BY <2>2, <3>1, <3>2 DEF InPool, With, InTurn
  <2>3. CASE currentQueryPool # NoPool /\ QueueInNext(op, cancelled)
    <3> DEFINE next == IF nextQueryPool = NoPool THEN {} ELSE nextQueryPool
    <3>1. next \in SUBSET Operation
      BY PoolTyped DEF TypeOK
    <3>2. nextQueryPool' = With(next, op, cancelled) /\ nextQueryPool' \in SUBSET Operation
          /\ UNCHANGED <<currentQueryPool, query>>
      BY <2>3, <3>1 DEF QueueInNext, With
    <3>3. nextQueryPool' # NoPool
      BY <3>2
    <3>4. \A o : o \in next <=> InPool(o, nextQueryPool)
      BY DEF InPool
    <3>5. InTurn'
      BY <2>3, <3>2 DEF Waits, InTurn
    <3>6. \A o \in Operation : InPool(o, currentQueryPool') <=> InPool(o, currentQueryPool)
      BY <3>2
    <3>7. \A o \in Operation : InPool(o, nextQueryPool') <=> o \in With(next, op, cancelled)
      BY <3>2, <3>3 DEF InPool
    <3> QED
      BY <1>3, <3>4, <3>5, <3>6, <3>7 DEF With
  <2> QED
    BY <2>1, <2>2, <2>3 DEF DownloadKeys
<1>5. ASSUME NEW o \in Operation, o # op PROVE Places(o)' = Places(o) /\ outcome'[o] = outcome[o]
  BY <1>1, <1>4, <1>5 DEF Places, InPool, TypeOK
<1>6. CASE cancelled
  <2>1. Places(op)' = {} /\ outcome'[op] # "waiting"
    BY <1>1, <1>3, <1>4, <1>6 DEF Places, InPool, TypeOK
  <2> QED
    BY <1>4, <1>5, <2>1 DEF Waits, OnePlace
<1>7. CASE ~cancelled
  <2>1. outcome'[op] = "waiting"
    BY <1>1, <1>7 DEF TypeOK
  <2>2. CASE InPool(op, currentQueryPool')
    <3>1. Places(op)' = {Len(posted) + 1}
      BY <1>1, <1>3, <1>4, <1>7, <2>2 DEF Places, InPool, TypeOK
    <3>2. \E i \in Nat : Places(op)' = {i}
      <4>1. Len(posted) + 1 \in Nat
        BY <1>2
      <4> QED
        BY <3>1, <4>1
    <3> QED
      BY <1>4, <1>5, <2>1, <3>2 DEF Waits, OnePlace
  <2>3. CASE InPool(op, nextQueryPool')
    <3>1. Places(op)' = {Len(posted) + 2}
      BY <1>1, <1>3, <1>4, <1>7, <2>3 DEF Places, InPool, TypeOK
    <3>2. \E i \in Nat : Places(op)' = {i}
      <4>1. Len(posted) + 2 \in Nat
        BY <1>2
      <4> QED
        BY <3>1, <4>1
    <3> QED
      BY <1>4, <1>5, <2>1, <3>2 DEF Waits, OnePlace
  <2> QED
    BY <1>4, <1>7, <2>2, <2>3
<1> QED
  BY <1>6, <1>7

\* A query that ends posts its pool's block, and the next pool moves up: every
\* download keeps its place.
LEMMA PoolDoneWaits ==
    ASSUME TInv, Waits, query.stage \in {"answered", "failed"}, PoolDone, TypeOK',
           NEW b \in Block, b.ops = currentQueryPool, posted' = Append(posted, b),
           UNCHANGED outcome
    PROVE  Waits'
<1> USE Constants DEF TInv, PoolDone
<1>1. /\ Len(posted) \in Nat /\ Len(posted') = Len(posted) + 1
      /\ \A i \in 1..Len(posted') : posted'[i] = IF i <= Len(posted) THEN posted[i] ELSE b
  BY Posting DEF TypeOK
<1>2. currentQueryPool # NoPool
  BY DEF Waits, InTurn
<1>3. ASSUME NEW op \in Operation PROVE Places(op)' = Places(op)
  <2>1. ASSUME NEW i \in Nat PROVE i \in Places(op)' <=> i \in Places(op)
    <3>1. i \in Places(op)' <=>
              \/ i \in 1..Len(posted') /\ op \in posted'[i].ops
              \/ i = Len(posted') + 1 /\ InPool(op, currentQueryPool')
              \/ i = Len(posted') + 2 /\ InPool(op, nextQueryPool')
      <4>1. Len(posted') \in Nat /\ DOMAIN posted' = 1..Len(posted')
        BY DEF TypeOK
      <4> QED
        BY <4>1 DEF Places, InPool
    <3>2. i \in 1..Len(posted') /\ op \in posted'[i].ops <=>
              \/ i \in 1..Len(posted) /\ op \in posted[i].ops
              \/ i = Len(posted) + 1 /\ op \in currentQueryPool
      BY <1>1
    <3>3. ~InPool(op, nextQueryPool')
      BY DEF InPool
    <3>4. InPool(op, currentQueryPool') <=> InPool(op, nextQueryPool)
      BY DEF InPool
    <3> QED
      BY <1>1, <1>2, <3>1, <3>2, <3>3, <3>4, PlaceIs DEF InPool
  <2>2. \A i \in Places(op)' : i \in Nat
    <3>1. Len(posted') \in Nat /\ DOMAIN posted' = 1..Len(posted')
      BY DEF TypeOK
    <3> QED
      BY <3>1 DEF Places
  <2> QED
    BY <2>1, <2>2, PlaceIs
<1>4. InTurn'
  <2>1. CASE nextQueryPool = NoPool
    BY <2>1 DEF InTurn, NoQuery
  <2>2. CASE nextQueryPool # NoPool
    BY <2>2 DEF InTurn, Sent
  <2> QED
    BY <2>1, <2>2
<1> QED
  BY <1>3, <1>4 DEF Waits, OnePlace

\* A block reports to all its operations, which leaves them no place; those of
\* the others come one nearer.
LEMMA ReportWaits ==
    ASSUME TInv, Waits, posted # <<>>, posted' = Tail(posted), TypeOK',
           NEW o \in Outcome \ {"waiting"},
           outcome' = [op \in Operation |-> IF op \in Head(posted).ops THEN o ELSE outcome[op]],
           UNCHANGED <<currentQueryPool, nextQueryPool, query>>
    PROVE  Waits'
<1> USE DEF TInv
<1>1. /\ Len(posted) \in Nat \ {0} /\ Head(posted) = posted[1]
      /\ Len(posted') = Len(posted) - 1
      /\ \A i \in 1..Len(posted') : i + 1 \in 1..Len(posted) /\ posted'[i] = posted[i + 1]
  BY Taking
<1>2. ASSUME NEW op \in Operation, NEW i \in Nat
      PROVE  i \in Places(op)' <=> i # 0 /\ i + 1 \in Places(op)
  <2>1. i \in Places(op)' <=>
            \/ i \in 1..Len(posted') /\ op \in posted'[i].ops
            \/ i = Len(posted') + 1 /\ InPool(op, currentQueryPool)
            \/ i = Len(posted') + 2 /\ InPool(op, nextQueryPool)
    <3>1. Len(posted') \in Nat /\ DOMAIN posted' = 1..Len(posted')
      BY DEF TypeOK
    <3> QED
      BY <3>1 DEF Places, InPool
  <2>2. i + 1 \in Places(op) <=>
            \/ i + 1 \in 1..Len(posted) /\ op \in posted[i + 1].ops
            \/ i + 1 = Len(posted) + 1 /\ InPool(op, currentQueryPool)
            \/ i + 1 = Len(posted) + 2 /\ InPool(op, nextQueryPool)
    BY PlaceIs
  <2>3. i \in 1..Len(posted') /\ op \in posted'[i].ops
        <=> i # 0 /\ i + 1 \in 1..Len(posted) /\ op \in posted[i + 1].ops
    BY <1>1
  <2>4. /\ i = Len(posted') + 1 <=> i # 0 /\ i + 1 = Len(posted) + 1
        /\ i = Len(posted') + 2 <=> i # 0 /\ i + 1 = Len(posted) + 2
    <3>1. Len(posted) \in Nat /\ Len(posted) # 0
      BY <1>1
    <3>2. Len(posted') = Len(posted) - 1
      BY <1>1
    <3>3. ASSUME NEW n \in Nat, n # 0
          PROVE  /\ i = (n - 1) + 1 <=> i # 0 /\ i + 1 = n + 1
                 /\ i = (n - 1) + 2 <=> i # 0 /\ i + 1 = n + 2
      BY <3>3
    <3> QED
      BY <3>1, <3>2, <3>3
  <2> QED
    BY <2>1, <2>2, <2>3, <2>4
<1>3. ASSUME NEW op \in Operation
      PROVE  /\ \A i \in Places(op)' : i \in Nat
             /\ \A i \in Places(op) : i \in Nat \ {0}
             /\ op \in Head(posted).ops <=> 1 \in Places(op)
  <2>1. Len(posted') \in Nat /\ DOMAIN posted' = 1..Len(posted')
    BY DEF TypeOK
  <2>2. \A i \in Places(op)' : i \in Nat
    BY <2>1 DEF Places
  <2> QED
    BY <1>1, <2>2, PlaceIs
<1>4. ASSUME NEW op \in Operation
      PROVE  IF outcome'[op] = "waiting" THEN \E i \in Nat : Places(op)' = {i}
                                         ELSE Places(op)' = {}
  <2>1. CASE op \in Head(posted).ops
    <3>1. Places(op) = {1} /\ outcome'[op] # "waiting"
      BY <1>3, <2>1 DEF Waits, OnePlace
    <3>2. Places(op)' = {}
      BY <1>2, <1>3, <3>1
    <3> QED
      BY <3>1, <3>2
  <2>2. CASE op \notin Head(posted).ops /\ outcome[op] = "waiting"
    <3>1. PICK i \in Nat : Places(op) = {i}
      BY <2>2 DEF Waits, OnePlace
    <3>2. i - 1 \in Nat /\ i - 1 # 0
      BY <1>3, <2>2, <3>1
    <3>3. Places(op)' = {i - 1}
      BY <1>2, <1>3, <3>1, <3>2
    <3> QED
      BY <2>2, <3>2, <3>3
  <2>3. CASE op \notin Head(posted).ops /\ outcome[op] # "waiting"
    <3>1. Places(op) = {}
      BY <2>3 DEF Waits, OnePlace
    <3>2. Places(op)' = {}
      BY <1>2, <1>3, <3>1
    <3> QED
      BY <2>3, <3>2
  <2> QED
    BY <2>1, <2>2, <2>3
<1> QED
  BY <1>4 DEF Waits, OnePlace, InTurn

LEMMA NextWaits == TInv /\ Waits /\ [Next]_vars => Waits'
<1> SUFFICES ASSUME TInv, Waits, [Next]_vars PROVE Waits'
  OBVIOUS
<1>0. TypeOK'
  BY NextTInv DEF TInv
<1>1. ASSUME NEW op \in Operation, NEW asked \in SUBSET User,
             NEW force \in BOOLEAN, NEW cancelled \in BOOLEAN,
             Download(op, asked, force, cancelled)
      PROVE  Waits'
  BY <1>0, <1>1, DownloadWaits DEF Download
<1>2. CASE UNCHANGED <<outcome, pools>>
  BY <1>2 DEF Waits, OnePlace, InTurn, Places, pools
<1>3. CASE SyncCompleted
  <2>1. CASE \E op \in Operation : DownloadKeys(op, Pending, FALSE, FALSE)
    <3>1. Pending \in SUBSET User
      BY DEF Pending
    <3> QED
      BY <1>0, <2>1, <3>1, DownloadWaits
  <2>2. CASE UNCHANGED <<list, pools>>
    BY <1>2, <2>2 DEF list
  <2> QED
    BY <1>3, <2>1, <2>2 DEF SyncCompleted
<1>4. CASE (\E reached \in SUBSET User : NodeAnswers(reached)) \/ QueryFails
  <2>1. UNCHANGED <<outcome, currentQueryPool, nextQueryPool, posted>>
    BY <1>4 DEF NodeAnswers, QueryFails, list
  <2>2. query.stage # "none" /\ query'.stage # "none"
    BY <1>4 DEF NodeAnswers, QueryFails, TInv, TypeOK
  <2> QED
    BY <2>1, <2>2 DEF Waits, OnePlace, InTurn, Places
<1>5. CASE QuerySucceeds \/ QueryHasFailed
  <2>1. /\ query.stage \in {"answered", "failed"} /\ PoolDone /\ UNCHANGED outcome
        /\ currentQueryPool \in SUBSET Operation
    <3>1. query.stage \in {"answered", "failed"} /\ PoolDone /\ UNCHANGED outcome
      BY <1>5 DEF QuerySucceeds, QueryHasFailed, list
    <3> QED
      BY <3>1, PoolTyped DEF Waits, InTurn, TInv, TypeOK
  <2>2. Nothing \in Versions
    BY Constants DEF Nothing, Versions
  <2>3. query.got \in Versions
    BY DEF TInv, TypeOK
  <2>4. \E b \in Block : b.ops = currentQueryPool /\ posted' = Append(posted, b)
    <3>1. CASE QuerySucceeds
      <4> DEFINE b == [ops |-> currentQueryPool, ok |-> TRUE, got |-> query.got]
      <4>1. b \in Block /\ b.ops = currentQueryPool /\ posted' = Append(posted, b)
        BY <2>1, <2>3, <3>1 DEF QuerySucceeds, Block
      <4> QED
        BY <4>1
    <3>2. CASE QueryHasFailed
      <4> DEFINE b == [ops |-> currentQueryPool, ok |-> FALSE, got |-> Nothing]
      <4>1. b \in Block /\ b.ops = currentQueryPool /\ posted' = Append(posted, b)
        BY <2>1, <2>2, <3>2 DEF QueryHasFailed, Block
      <4> QED
        BY <4>1
    <3> QED
      BY <1>5, <3>1, <3>2
  <2> QED
    BY <1>0, <2>1, <2>4, PoolDoneWaits
<1>6. CASE ReportSuccess
  <2>1. "over" \in Outcome \ {"waiting"}
    BY DEF Outcome
  <2> QED
    BY <1>0, <1>6, <2>1, ReportWaits DEF ReportSuccess
<1>7. CASE ReportFailure
  <2>1. "over" \in Outcome \ {"waiting"}
    BY DEF Outcome
  <2> QED
    BY <1>0, <1>7, <2>1, ReportWaits DEF ReportFailure
<1>8. CASE Restart
  <2>1. InTurn'
    BY <1>8 DEF Restart, InTurn, NoQuery
  <2>2. ASSUME NEW op \in Operation PROVE outcome'[op] # "waiting" /\ Places(op)' = {}
    BY <1>8 DEF Restart, Places
  <2> QED
    BY <2>1, <2>2 DEF Waits, OnePlace
<1>9. CASE SyncChanges \/ \E u \in RoomUser : DevicesChange(u) \/ StartTracking(u) \/ StopTracking(u)
  <2>1. UNCHANGED <<outcome, pools>>
    BY <1>9 DEF SyncChanges, DevicesChange, StartTracking, StopTracking, list
  <2> QED
    BY <1>2, <2>1
<1>10. CASE UNCHANGED vars
  BY <1>2, <1>10 DEF vars, list
<1> QED
  BY <1>1, <1>3, <1>4, <1>5, <1>6, <1>7, <1>8, <1>9, <1>10 DEF Next

\* Every download that nobody cancelled will be reported to once, by the block,
\* the query or the pool that has it, whatever other downloads, syncs and
\* restarts come between; no other operation is in any of them.
THEOREM ReportedOnce == Spec => []Reported
<1>1. TypeOK /\ Waits => Reported
  <2> SUFFICES ASSUME TypeOK, Waits PROVE Reported
    OBVIOUS
  <2>1. ASSUME NEW op \in Operation
        PROVE  Cardinality(Places(op)) = IF outcome[op] = "waiting" THEN 1 ELSE 0
    <3>1. CASE outcome[op] = "waiting"
      <4>1. PICK i \in Nat : Places(op) = {i}
        BY <3>1 DEF Waits, OnePlace
      <4> QED
        BY <3>1, <4>1, FS_Singleton
    <3>2. CASE outcome[op] # "waiting"
      <4>1. Places(op) = {}
        BY <3>2 DEF Waits, OnePlace
      <4> QED
        BY <3>2, <4>1, FS_EmptySet
    <3> QED
      BY <3>1, <3>2
  <2> QED
    BY <2>1 DEF Reported, Waits, InTurn
<1>2. TInv /\ Waits => Reported
  BY <1>1 DEF TInv
<1> QED
  BY <1>2, InitTInv, NextTInv, InitWaits, NextWaits, PTL DEF Spec
=============================================================================
