---------------------------- MODULE FileStoreProofs ----------------------------
(***************************************************************************)
(* Theorems about FileStore, for every set of rooms, event stream, mode    *)
(* and number of crashes: types, the token folders of the backup, what     *)
(* settled files hold, and last what a repaired store holds.               *)
(***************************************************************************)
EXTENDS FileStore, FiniteSetTheorems, TLAPS

\* Where the commits that are still queued end.
CleanupAt(q) == {i \in DOMAIN q : q[i].op = "cleanup"}
Cleanups(q) == Cardinality(CleanupAt(q))

\* A commit is counted from the moment it is queued until its end has run on
\* the main thread.  TypeOK needs it: CommitDone subtracts one.
Counted ==
    /\ phase = "open" => pendingCommits = callbacks + Cleanups(queue)
    /\ phase \notin {"open", "closing"} =>
         queue = <<>> /\ step = "start" /\ pendingCommits = 0 /\ callbacks = 0

\* A file is being replaced only by a block that runs, for a room if the block
\* saves rooms.
InFile ==
    step # "start" =>
        /\ phase \in {"open", "closing"} /\ queue # <<>>
        /\ Head(queue).op \in {"messages", "state", "meta"}
        /\ Head(queue).op # "meta" => cur \in Room

\* The metadata file, and its backup, hold a token.
MetaToken == file[MetaFile].data \in Token /\ saved[MetaFile].data \in Token

TypeInv == TypeOK /\ Counted /\ InFile /\ MetaToken
-----------------------------------------------------------------------------
(***************************************************************************)
(* The queue of blocks.                                                    *)
(***************************************************************************)
\* The positions of the ends of commits are a finite set, so they are counted
\* by a natural number.
LEMMA CleanupsType ==
    ASSUME NEW q \in Seq(Block)
    PROVE  IsFiniteSet(CleanupAt(q)) /\ Cleanups(q) \in Nat
<1>1. IsFiniteSet(1..Len(q))
  BY FS_Interval
<1>2. CleanupAt(q) \in SUBSET (1..Len(q))
  BY DEF CleanupAt
<1> QED
  BY <1>1, <1>2, FS_Subset, FS_CardinalityType DEF Cleanups

\* No commit ends in an empty queue.
LEMMA CleanupsEmpty == Cleanups(<<>>) = 0
<1>1. CleanupAt(<<>>) = {}
  BY DEF CleanupAt
<1> QED
  BY <1>1, FS_EmptySet DEF Cleanups

\* Queueing blocks that end no commit and then the end of one adds one.
LEMMA CleanupsCommit ==
    ASSUME NEW q \in Seq(Block), NEW s \in Seq(Block), CleanupAt(s) = {}
    PROVE  Cleanups(q \o s \o <<CleanupBlock>>) = Cleanups(q) + 1
<1> DEFINE n == Len(q) + Len(s) + 1
           z == q \o s \o <<CleanupBlock>>
<1>1. /\ DOMAIN z = 1..n
      /\ \A i \in DOMAIN q : z[i] = q[i]
      /\ \A i \in DOMAIN s : z[Len(q) + i] = s[i]
      /\ z[n] = CleanupBlock
  OBVIOUS
<1>2. CleanupAt(z) = CleanupAt(q) \cup {n}
  <2>1. ASSUME NEW i \in CleanupAt(z) PROVE i \in CleanupAt(q) \cup {n}
    <3>1. CASE i \in 1..Len(q)
      BY <2>1, <1>1, <3>1 DEF CleanupAt
    <3>2. CASE i \in (Len(q) + 1)..(Len(q) + Len(s))
      <4>1. i - Len(q) \in DOMAIN s /\ z[i] = s[i - Len(q)]
        BY <3>2, <1>1
      <4> QED
        BY <2>1, <4>1 DEF CleanupAt
    <3>3. i \in 1..n
      BY <2>1, <1>1 DEF CleanupAt
    <3> QED
      BY <3>1, <3>2, <3>3
  <2>2. ASSUME NEW i \in CleanupAt(q) PROVE i \in CleanupAt(z)
    BY <2>2, <1>1 DEF CleanupAt
  <2>3. n \in CleanupAt(z)
    BY <1>1 DEF CleanupAt, CleanupBlock
  <2> QED
    BY <2>1, <2>2, <2>3
<1>3. n \notin CleanupAt(q)
  BY DEF CleanupAt
<1> QED
  BY <1>2, <1>3, CleanupsType, FS_AddElement DEF Cleanups

\* Removing the first block subtracts one exactly if it ends a commit.
LEMMA CleanupsTail ==
    ASSUME NEW q \in Seq(Block), q # <<>>
    PROVE  /\ Head(q).op = "cleanup" => Cleanups(Tail(q)) = Cleanups(q) - 1
           /\ Head(q).op # "cleanup" => Cleanups(Tail(q)) = Cleanups(q)
<1> DEFINE A == CleanupAt(Tail(q))
           B == CleanupAt(q) \ {1}
           f == [i \in A |-> i + 1]
<1>1. /\ Tail(q) \in Seq(Block) /\ DOMAIN Tail(q) = 1..(Len(q) - 1)
      /\ \A i \in 1..(Len(q) - 1) : Tail(q)[i] = q[i + 1]
      /\ Head(q) = q[1] /\ 1 \in DOMAIN q
  OBVIOUS
<1>2. f \in Bijection(A, B)
  <2>1. \A i \in A : i \in Nat /\ i + 1 \in B
    BY <1>1 DEF CleanupAt
  <2>2. \A j \in B : j - 1 \in A /\ f[j - 1] = j
    BY <1>1 DEF CleanupAt
  <2>3. f \in [A -> B]
    BY <2>1
  <2>4. \A i, j \in A : f[i] = f[j] => i = j
    BY <2>1
  <2> QED
    BY <2>2, <2>3, <2>4 DEF Bijection, Injection, IsInjective, Surjection
<1>3. IsFiniteSet(A) /\ Cardinality(B) = Cardinality(A)
  BY <1>1, <1>2, CleanupsType, FS_Bijection DEF ExistsBijection
<1>4. IsFiniteSet(CleanupAt(q)) /\ Cardinality(CleanupAt(q)) \in Nat
  BY CleanupsType DEF Cleanups
<1>5. Cardinality(B) = IF 1 \in CleanupAt(q) THEN Cardinality(CleanupAt(q)) - 1
                       ELSE Cardinality(CleanupAt(q))
  BY <1>4, FS_RemoveElement
<1>6. 1 \in CleanupAt(q) <=> Head(q).op = "cleanup"
  BY <1>1 DEF CleanupAt
<1> QED
  BY <1>3, <1>5, <1>6 DEF Cleanups

\* Replacing the first block by one of the same operation changes no count.
LEMMA CleanupsHead ==
    ASSUME NEW q \in Seq(Block), q # <<>>, NEW b \in Block, b.op = Head(q).op
    PROVE  Cleanups(<<b>> \o Tail(q)) = Cleanups(q)
<1> DEFINE z == <<b>> \o Tail(q)
<1>1. DOMAIN z = DOMAIN q /\ z[1] = b /\ \A i \in DOMAIN q : i # 1 => z[i] = q[i]
  OBVIOUS
<1>2. CleanupAt(z) = CleanupAt(q)
  BY <1>1 DEF CleanupAt
<1> QED
  BY <1>2 DEF Cleanups

\* Blocks that save rooms: neither the metadata nor the end of a commit.
Plain(s) == \A i \in DOMAIN s : s[i].op \notin {"meta", "cleanup"}

LEMMA PlainConcat ==
    ASSUME NEW s \in Seq(Block), NEW t \in Seq(Block), Plain(s), Plain(t)
    PROVE  s \o t \in Seq(Block) /\ Plain(s \o t)
<1>1. s \o t \in Seq(Block)
  OBVIOUS
<1>2. ASSUME NEW i \in DOMAIN (s \o t) PROVE (s \o t)[i].op \notin {"meta", "cleanup"}
  <2>1. CASE i \in 1..Len(s)
    BY <2>1 DEF Plain
  <2>2. CASE i \in (Len(s) + 1)..(Len(s) + Len(t))
    <3>1. i - Len(s) \in DOMAIN t /\ (s \o t)[i] = t[i - Len(s)]
      BY <2>2
    <3> QED
      BY <3>1 DEF Plain
  <2> QED
    BY <1>2, <2>1, <2>2
<1> QED
  BY <1>1, <1>2 DEF Plain

LEMMA RoomsBlockPlain ==
    ASSUME NEW op \in Op \ {"meta", "cleanup"}, NEW rooms \in SUBSET Room,
           NEW snap \in [Room -> SUBSET Position]
    PROVE  RoomsBlock(op, rooms, snap) \in Seq(Block) /\ Plain(RoomsBlock(op, rooms, snap))
<1> DEFINE b == [op |-> op, rooms |-> rooms, snap |-> snap]
<1>1. b \in Block
  BY DEF Block, Op
<1>2. CASE rooms = {}
  BY <1>2 DEF RoomsBlock, Plain
<1>3. CASE rooms # {}
  <2>1. RoomsBlock(op, rooms, snap) = <<b>>
    BY <1>3 DEF RoomsBlock
  <2>2. <<b>> \in Seq(Block) /\ DOMAIN <<b>> = {1} /\ <<b>>[1].op = op
    BY <1>1
  <2> QED
    BY <2>1, <2>2 DEF Plain
<1> QED
  BY <1>2, <1>3

LEMMA EndBlocks == MetaBlock \in Block /\ CleanupBlock \in Block
BY DEF MetaBlock, CleanupBlock, Block, Op, NoSnap

\* What a commit queues before its end: blocks that save rooms, and the
\* metadata only as the last of them.
LEMMA SaveDataShape ==
    ASSUME TypeOK, NEW m \in BOOLEAN
    PROVE  \E p \in Seq(Block) :
             /\ Plain(p)
             /\ SaveDataToFiles(m) = p \/ SaveDataToFiles(m) = p \o <<MetaBlock>>
<1> DEFINE d == RoomsBlock("deletion", toDeletion, NoSnap)
           g == RoomsBlock("messages", toMessages, NoSnap)
           t == RoomsBlock("state", toState, roomState)
<1>1. NoSnap \in [Room -> SUBSET Position]
  BY DEF NoSnap
<1>2. d \in Seq(Block) /\ Plain(d)
  BY <1>1, RoomsBlockPlain DEF TypeOK, Op
<1>3. g \in Seq(Block) /\ Plain(g)
  BY <1>1, RoomsBlockPlain DEF TypeOK, Op
<1>4. t \in Seq(Block) /\ Plain(t)
  BY RoomsBlockPlain DEF TypeOK, Op
<1>5. d \o g \in Seq(Block) /\ Plain(d \o g)
  BY <1>2, <1>3, PlainConcat
<1>6. d \o g \o t \in Seq(Block) /\ Plain(d \o g \o t)
  BY <1>4, <1>5, PlainConcat
<1>7. SaveDataToFiles(m) = (d \o g \o t) \o (IF m THEN <<MetaBlock>> ELSE <<>>)
  BY DEF SaveDataToFiles
<1>8. CASE m
  BY <1>6, <1>7, <1>8
<1>9. CASE ~m
  <2>1. (d \o g \o t) \o <<>> = d \o g \o t
    BY <1>6
  <2> QED
    BY <1>6, <1>7, <1>9, <2>1
<1> QED
  BY <1>8, <1>9

\* So a commit queues well-formed blocks, and ends once.
LEMMA SaveDataCount ==
    ASSUME TypeOK, NEW m \in BOOLEAN
    PROVE  /\ queue \o SaveDataToFiles(m) \o <<CleanupBlock>> \in Seq(Block)
           /\ Cleanups(queue \o SaveDataToFiles(m) \o <<CleanupBlock>>)
                = Cleanups(queue) + 1
           /\ queue # <<>> =>
                /\ queue \o SaveDataToFiles(m) \o <<CleanupBlock>> # <<>>
                /\ Head(queue \o SaveDataToFiles(m) \o <<CleanupBlock>>) = Head(queue)
<1> DEFINE s == SaveDataToFiles(m)
<1>1. PICK p \in Seq(Block) : Plain(p) /\ (s = p \/ s = p \o <<MetaBlock>>)
  BY SaveDataShape
<1>2. s \in Seq(Block)
  BY <1>1, EndBlocks
<1>3. CleanupAt(s) = {}
  <2>1. CASE s = p
    BY <1>1, <2>1 DEF CleanupAt, Plain
  <2>2. CASE s = p \o <<MetaBlock>>
    <3>1. /\ DOMAIN s = 1..(Len(p) + 1)
          /\ \A i \in DOMAIN p : s[i] = p[i]
          /\ s[Len(p) + 1] = MetaBlock
      BY <2>2
    <3>2. MetaBlock.op # "cleanup"
      BY DEF MetaBlock
    <3>3. \A i \in DOMAIN s : i \in DOMAIN p \/ i = Len(p) + 1
      BY <3>1
    <3> QED
      BY <1>1, <3>1, <3>2, <3>3 DEF CleanupAt, Plain
  <2> QED
    BY <1>1, <2>1, <2>2
<1>4. queue \in Seq(Block)
  BY DEF TypeOK
<1>5. /\ queue \o s \o <<CleanupBlock>> \in Seq(Block)
      /\ Cleanups(queue \o s \o <<CleanupBlock>>) = Cleanups(queue) + 1
  BY <1>2, <1>3, <1>4, CleanupsCommit, EndBlocks
<1>6. \A q, t \in Seq(Block) : q # <<>> => q \o t # <<>> /\ Head(q \o t) = Head(q)
  OBVIOUS
<1>7. <<CleanupBlock>> \in Seq(Block) /\ queue \o s \in Seq(Block)
  BY <1>2, <1>4, EndBlocks
<1> HIDE DEF s
<1>8. queue # <<>> => /\ queue \o s \o <<CleanupBlock>> # <<>>
                      /\ Head(queue \o s \o <<CleanupBlock>>) = Head(queue)
  BY <1>2, <1>4, <1>6, <1>7
<1> QED
  BY <1>5, <1>8 DEF s
-----------------------------------------------------------------------------
(***************************************************************************)
(* Type correctness.                                                       *)
(***************************************************************************)
LEMMA ContentType ==
    /\ Absent \in Content
    /\ \A d \in SUBSET Position : Whole(d) \in Content /\ Torn(d) \in Content
BY DEF Absent, Whole, Torn, Content

LEMMA TokenType == {} \in Token /\ Token \subseteq SUBSET Position
<1>1. Upto(0) = {}
  BY DEF Upto
<1>2. Len(ServerLog) \in Nat
  BY LogAssumption
<1>3. \A k \in 0..Len(ServerLog) : Upto(k) \subseteq Position
  BY <1>2 DEF Upto, Position
<1> QED
  BY <1>1, <1>2, <1>3 DEF Token

LEMMA FileType ==
    /\ MetaFile \in File
    /\ \A r \in Room : <<r, "messages">> \in File /\ <<r, "state">> \in File
BY DEF File, RoomFile

LEMMA RoomFileNotMeta ==
    \A r \in Room : <<r, "messages">> # MetaFile /\ <<r, "state">> # MetaFile
BY RoomAssumption DEF MetaFile

\* A block that saves rooms stays a block when a room of it is done.
LEMMA RoomDoneType ==
    ASSUME TypeOK, queue # <<>>, Head(queue).op # "cleanup", NEW r, RoomDone(r)
    PROVE  /\ queue' \in Seq(Block)
           /\ Cleanups(queue') = Cleanups(queue)
<1> DEFINE b == [Head(queue) EXCEPT !.rooms = @ \ {r}]
<1>1. queue \in Seq(Block) /\ Head(queue) \in Block /\ Tail(queue) \in Seq(Block)
  BY DEF TypeOK
<1>2. b \in Block /\ b.op = Head(queue).op
  BY <1>1 DEF Block
<1> HIDE DEF b
<1>3. CASE queue' = Tail(queue)
  BY <1>1, <1>3, CleanupsTail
<1>4. CASE queue' = <<b>> \o Tail(queue)
  BY <1>1, <1>2, <1>4, CleanupsHead
<1> QED
  BY <1>3, <1>4 DEF RoomDone, b

LEMMA MoveToBackupType ==
    ASSUME TypeOK, MetaToken, NEW files, MoveToBackup(files)
    PROVE  /\ file' \in [File -> Content] /\ saved' \in [File -> Content]
           /\ backupRoot' \in BOOLEAN /\ backupDirs' \subseteq Token
           /\ MetaToken'
<1>1. Absent.data \in Token
  BY TokenType DEF Absent
<1> QED
  BY <1>1, ContentType, FileType DEF TypeOK, MetaToken, MoveToBackup, backupVars

\* Every way to commit keeps the lists and the queue well typed.
LEMMA CommitType ==
    ASSUME TypeInv, phase = "open", NEW m \in BOOLEAN, Commit(m),
           UNCHANGED <<phase, cur, step, callbacks>>
    PROVE  /\ toDeletion' \subseteq Room /\ toMessages' \subseteq Room
           /\ toState' \subseteq Room /\ metaDataHasChanged' \in BOOLEAN
           /\ queue' \in Seq(Block) /\ pendingCommits' \in Nat
           /\ pendingCommits' = callbacks' + Cleanups(queue')
           /\ InFile'
<1>1. CASE pendingCommits >= 2
  <2>1. queue' = queue /\ pendingCommits' = pendingCommits
    BY <1>1 DEF Commit
  <2> QED
    BY <1>1, <2>1 DEF Commit, TypeInv, TypeOK, Counted, InFile
<1>2. CASE ~(pendingCommits >= 2)
  <2>1. /\ queue' = queue \o SaveDataToFiles(m) \o <<CleanupBlock>>
        /\ toDeletion' = {} /\ toMessages' = {} /\ toState' = {}
        /\ metaDataHasChanged' \in BOOLEAN
    BY <1>2 DEF Commit
  <2>2. queue \in Seq(Block) /\ pendingCommits \in Nat /\ callbacks \in Nat
    BY DEF TypeInv, TypeOK
  <2>3. queue' \in Seq(Block) /\ Cleanups(queue') = Cleanups(queue) + 1
    BY <2>1, SaveDataCount DEF TypeInv
  <2>4. Cleanups(queue) \in Nat
    BY <2>2, CleanupsType
  <2>5. pendingCommits' = pendingCommits + 1
    BY <1>2 DEF Commit
  <2>6. pendingCommits = callbacks + Cleanups(queue)
    BY DEF TypeInv, Counted
  <2>7. pendingCommits' = callbacks' + Cleanups(queue')
    BY <2>2, <2>3, <2>4, <2>5, <2>6
  <2>8. pendingCommits' \in Nat
    BY <2>2, <2>5
  <2>9. InFile'
    BY <2>1, SaveDataCount DEF TypeInv, InFile
  <2> QED
    BY <2>1, <2>3, <2>7, <2>8, <2>9
<1> QED
  BY <1>1, <1>2

LEMMA MainThreadType == ASSUME TypeInv, MainThread PROVE TypeInv'
<1> USE DEF TypeInv
<1>1. ASSUME NEW k \in 0..Len(ServerLog), BeginSync(k) PROVE TypeInv'
  <2>1. syncTo' \in Token /\ Upto(k) \subseteq Position
    BY <1>1, TokenType DEF BeginSync, Token
  <2>2. syncRooms' \subseteq Room
    <3>1. \A p \in Position : ServerLog[p] \in Entry
      BY LogAssumption DEF Position
    <3> QED
      BY <1>1, <2>1, <3>1 DEF BeginSync, Entry
  <2> QED
    BY <1>1, <2>1, <2>2
    DEF BeginSync, TypeOK, Counted, InFile, MetaToken, dirtyVars, queueVars, diskVars, backupVars, bookVars
<1>2. ASSUME NEW r \in Room PROVE Delta(r, token) \subseteq Position
                                  /\ MessagesOf(r) \subseteq Position
  <2>1. Delta(r, token) \subseteq Position
    BY TokenType DEF Delta, TypeOK
  <2>2. MessagesOf(r) \subseteq Position
    BY FileType DEF MessagesOf, TypeOK, Content
  <2> QED
    BY <2>1, <2>2
<1>3. ASSUME NEW r \in Room, StoreEvents(r) PROVE TypeInv'
  BY <1>2, <1>3
  DEF StoreEvents, TypeOK, Counted, InFile, MetaToken, queueVars, diskVars, backupVars, bookVars
<1>4. ASSUME NEW r \in Room, JoinInvitedRoom(r) PROVE TypeInv'
  BY <1>2, <1>4
  DEF JoinInvitedRoom, TypeOK, Counted, InFile, MetaToken, queueVars, diskVars, backupVars, bookVars
<1>5. ASSUME NEW r \in Room, DeleteRoom(r) PROVE TypeInv'
  BY <1>5
  DEF DeleteRoom, TypeOK, Counted, InFile, MetaToken, queueVars, diskVars, backupVars, bookVars
<1>6. ASSUME FinishSync PROVE TypeInv'
  <2>1. phase = "open" /\ Commit(TRUE) /\ UNCHANGED <<phase, cur, step, callbacks>>
    BY <1>6 DEF FinishSync
  <2> HIDE DEF TypeInv
  <2>2. /\ toDeletion' \subseteq Room /\ toMessages' \subseteq Room
        /\ toState' \subseteq Room /\ metaDataHasChanged' \in BOOLEAN
        /\ queue' \in Seq(Block) /\ pendingCommits' \in Nat
        /\ pendingCommits' = callbacks' + Cleanups(queue')
        /\ InFile'
    BY <2>1, CommitType
  <2> QED
    BY <1>6, <2>1, <2>2, TokenType
    DEF FinishSync, TypeInv, TypeOK, Counted, MetaToken, diskVars, backupVars
<1>7. ASSUME AppCommit PROVE TypeInv'
  <2>1. /\ phase = "open" /\ Commit(metaDataHasChanged)
        /\ UNCHANGED <<phase, cur, step, callbacks>> /\ metaDataHasChanged \in BOOLEAN
    BY <1>7 DEF AppCommit, mainVars, TypeOK
  <2> HIDE DEF TypeInv
  <2>2. /\ toDeletion' \subseteq Room /\ toMessages' \subseteq Room
        /\ toState' \subseteq Room /\ metaDataHasChanged' \in BOOLEAN
        /\ queue' \in Seq(Block) /\ pendingCommits' \in Nat
        /\ pendingCommits' = callbacks' + Cleanups(queue')
        /\ InFile'
    BY <2>1, CommitType
  <2> QED
    BY <1>7, <2>1, <2>2
    DEF AppCommit, TypeInv, TypeOK, Counted, MetaToken, mainVars, diskVars, backupVars
<1>8. ASSUME StoreNodeMetadata PROVE TypeInv'
  BY <1>8
  DEF StoreNodeMetadata, TypeOK, Counted, InFile, MetaToken, mainVars, queueVars, diskVars, backupVars, bookVars
<1>9. ASSUME CommitDone PROVE TypeInv'
  <2>1. Cleanups(queue) \in Nat
    BY CleanupsType DEF TypeOK
  <2>2. /\ callbacks' = callbacks - 1 /\ pendingCommits' = pendingCommits - 1
        /\ queue' = queue /\ phase' = phase /\ phase = "open" /\ callbacks > 0
    BY <1>9 DEF CommitDone, mainVars
  <2>3. callbacks' \in Nat /\ pendingCommits' \in Nat /\ Counted'
    BY <2>1, <2>2 DEF TypeOK, Counted
  <2> QED
    BY <1>9, <2>2, <2>3
    DEF CommitDone, TypeOK, InFile, MetaToken, mainVars, dirtyVars, diskVars, backupVars, bookVars
<1>10. ASSUME Close PROVE TypeInv'
  <2>1. metaDataHasChanged \in BOOLEAN
    BY DEF TypeOK
  <2>2. queue' \in Seq(Block)
    BY <1>10, <2>1, SaveDataCount DEF Close, TypeOK
  <2>3. InFile'
    BY <1>10, <2>1, SaveDataCount DEF Close, InFile
  <2> QED
    BY <1>10, <2>2, <2>3
    DEF Close, TypeOK, Counted, MetaToken, Phase, dirtyVars, diskVars, backupVars, bookVars
<1> QED
  BY <1>1, <1>3, <1>4, <1>5, <1>6, <1>7, <1>8, <1>9, <1>10 DEF MainThread

\* A block that saves rooms or the metadata changes no count.
BlockTypes ==
    /\ UNCHANGED <<mainVars, dirtyVars, pendingCommits, callbacks, toRestore, bookVars>>
    /\ queue' \in Seq(Block) /\ Cleanups(queue') = Cleanups(queue)
    /\ cur' \in Room \cup {NoRoom} /\ step' \in {"start", "moved", "torn"}
    /\ backupEventStreamToken' \in Token
    /\ file' \in [File -> Content] /\ folder' \subseteq Room
    /\ saved' \in [File -> Content]
    /\ backupRoot' \in BOOLEAN /\ backupDirs' \subseteq Token
    /\ InFile' /\ MetaToken'

LEMMA BlockType ==
    ASSUME TypeInv, phase \in {"open", "closing"}, BlockTypes
    PROVE  TypeInv'
BY DEF BlockTypes, TypeInv, TypeOK, Counted, mainVars, dirtyVars, bookVars

LEMMA RunningType ==
    ASSUME TypeInv, NEW op \in Op, Running(op)
    PROVE  /\ phase \in {"open", "closing"} /\ queue # <<>> /\ Head(queue).op = op
           /\ queue \in Seq(Block) /\ Head(queue) \in Block /\ Tail(queue) \in Seq(Block)
           /\ op \in {"deletion", "cleanup"} => step = "start"
           /\ step # "start" /\ op # "meta" => cur \in Room
BY DEF Running, TypeInv, TypeOK, InFile

LEMMA DispatchQueueType == ASSUME TypeInv, DispatchQueue PROVE TypeInv'
<1>1. TypeOK /\ MetaToken
  BY DEF TypeInv
<1>2. {"deletion", "messages", "state", "meta", "cleanup"} = Op
  BY DEF Op
<1>3. ASSUME NEW r \in Room, SaveDeletion(r) PROVE TypeInv'
  <2>1. Running("deletion") /\ RoomDone(r)
        /\ MoveToBackup({<<r, "messages">>, <<r, "state">>})
    BY <1>3 DEF SaveDeletion
  <2>2. /\ phase \in {"open", "closing"} /\ queue # <<>> /\ step = "start"
        /\ Head(queue).op # "cleanup"
    BY <1>2, <2>1, RunningType
  <2>3. queue' \in Seq(Block) /\ Cleanups(queue') = Cleanups(queue)
    BY <1>1, <2>1, <2>2, RoomDoneType
  <2>4. /\ file' \in [File -> Content] /\ saved' \in [File -> Content]
        /\ backupRoot' \in BOOLEAN /\ backupDirs' \subseteq Token
        /\ MetaToken'
    BY <1>1, <2>1, MoveToBackupType
  <2>5. BlockTypes
    BY <1>1, <1>3, <2>2, <2>3, <2>4 DEF SaveDeletion, TypeOK, BlockTypes, InFile
  <2> QED
    BY <2>2, <2>5, BlockType
<1>4. ASSUME NEW r \in Room, SkipMessages(r) PROVE TypeInv'
  <2>1. Running("messages") /\ RoomDone(r)
    BY <1>4 DEF SkipMessages
  <2>2. /\ phase \in {"open", "closing"} /\ queue # <<>> /\ Head(queue).op # "cleanup"
    BY <1>2, <2>1, RunningType
  <2>3. queue' \in Seq(Block) /\ Cleanups(queue') = Cleanups(queue)
    BY <1>1, <2>1, <2>2, RoomDoneType
  <2>5. BlockTypes
    BY <1>1, <1>4, <2>3
    DEF SkipMessages, TypeOK, BlockTypes, InFile, MetaToken, diskVars, backupVars
  <2> QED
    BY <2>2, <2>5, BlockType
<1>5. ASSUME NEW r \in Room, BackupMessages(r) PROVE TypeInv'
  <2>1. Running("messages") /\ MoveToBackup({<<r, "messages">>})
    BY <1>5 DEF BackupMessages
  <2>2. /\ phase \in {"open", "closing"} /\ queue # <<>> /\ Head(queue).op = "messages"
    BY <1>2, <2>1, RunningType
  <2>3. phase' = phase
    BY <1>5 DEF BackupMessages, mainVars
  <2>4. /\ file' \in [File -> Content] /\ saved' \in [File -> Content]
        /\ backupRoot' \in BOOLEAN /\ backupDirs' \subseteq Token
        /\ MetaToken'
    BY <1>1, <2>1, MoveToBackupType
  <2>5. BlockTypes
    BY <1>1, <1>5, <2>2, <2>3, <2>4 DEF BackupMessages, TypeOK, BlockTypes, InFile
  <2> QED
    BY <2>2, <2>5, BlockType
<1>6. ASSUME NEW r \in Room, BackupState(r) PROVE TypeInv'
  <2>1. Running("state") /\ MoveToBackup({<<r, "state">>})
    BY <1>6 DEF BackupState
  <2>2. /\ phase \in {"open", "closing"} /\ queue # <<>> /\ Head(queue).op = "state"
    BY <1>2, <2>1, RunningType
  <2>3. phase' = phase
    BY <1>6 DEF BackupState, mainVars
  <2>4. /\ file' \in [File -> Content] /\ saved' \in [File -> Content]
        /\ backupRoot' \in BOOLEAN /\ backupDirs' \subseteq Token
        /\ MetaToken'
    BY <1>1, <2>1, MoveToBackupType
  <2>5. BlockTypes
    BY <1>1, <1>6, <2>2, <2>3, <2>4 DEF BackupState, TypeOK, BlockTypes, InFile
  <2> QED
    BY <2>2, <2>5, BlockType
<1>7. ASSUME WriteMessages PROVE TypeInv'
  <2>1. Running("messages") /\ RoomDone(cur) /\ step # "start"
    BY <1>7 DEF WriteMessages
  <2>2. /\ phase \in {"open", "closing"} /\ queue # <<>> /\ cur \in Room
        /\ Head(queue).op # "cleanup"
    BY <1>2, <2>1, RunningType
  <2>3. queue' \in Seq(Block) /\ Cleanups(queue') = Cleanups(queue)
    BY <1>1, <2>1, <2>2, RoomDoneType
  <2>4. file' \in [File -> Content] /\ MetaToken'
    <3>1. Whole(events[cur]) \in Content
      BY <1>1, <2>2, ContentType DEF TypeOK
    <3> QED
      BY <1>1, <1>7, <2>2, <3>1, FileType, RoomFileNotMeta
      DEF WriteMessages, TypeOK, MetaToken, backupVars
  <2>5. BlockTypes
    BY <1>1, <1>7, <2>2, <2>3, <2>4
    DEF WriteMessages, TypeOK, BlockTypes, InFile, backupVars
  <2> QED
    BY <2>2, <2>5, BlockType
<1>8. ASSUME BeginState PROVE TypeInv'
  <2>1. Running("state") /\ step # "start"
    BY <1>8 DEF BeginState
  <2>2. /\ phase \in {"open", "closing"} /\ queue # <<>> /\ cur \in Room
        /\ Head(queue) \in Block /\ Head(queue).op = "state"
    BY <1>2, <2>1, RunningType
  <2>3. phase' = phase
    BY <1>8 DEF BeginState, mainVars
  <2>4. file' \in [File -> Content] /\ MetaToken'
    <3>1. Head(queue).snap[cur] \in SUBSET Position
      BY <2>2 DEF Block
    <3>2. Torn(Head(queue).snap[cur]) \in Content
      BY <3>1, ContentType
    <3> QED
      BY <1>1, <1>8, <2>2, <3>2, FileType, RoomFileNotMeta
      DEF BeginState, TypeOK, MetaToken, backupVars
  <2>5. BlockTypes
    BY <1>1, <1>8, <2>2, <2>3, <2>4
    DEF BeginState, TypeOK, BlockTypes, InFile, backupVars
  <2> QED
    BY <2>2, <2>5, BlockType
<1>9. ASSUME EndState PROVE TypeInv'
  <2>1. Running("state") /\ RoomDone(cur) /\ step # "start"
    BY <1>9 DEF EndState
  <2>2. /\ phase \in {"open", "closing"} /\ queue # <<>> /\ cur \in Room
        /\ Head(queue).op # "cleanup"
    BY <1>2, <2>1, RunningType
  <2>3. queue' \in Seq(Block) /\ Cleanups(queue') = Cleanups(queue)
    BY <1>1, <2>1, <2>2, RoomDoneType
  <2>4. file' \in [File -> Content] /\ MetaToken'
    <3>1. file[<<cur, "state">>].data \in SUBSET Position
      BY <1>1, <2>2, FileType DEF TypeOK, Content
    <3>2. Whole(file[<<cur, "state">>].data) \in Content
      BY <3>1, ContentType
    <3> QED
      BY <1>1, <1>9, <2>2, <3>2, FileType, RoomFileNotMeta
      DEF EndState, TypeOK, MetaToken, backupVars
  <2>5. BlockTypes
    BY <1>1, <1>9, <2>2, <2>3, <2>4
    DEF EndState, TypeOK, BlockTypes, InFile, backupVars
  <2> QED
    BY <2>2, <2>5, BlockType
<1>10. ASSUME BackupMeta PROVE TypeInv'
  <2>1. Running("meta") /\ MoveToBackup({MetaFile})
    BY <1>10 DEF BackupMeta
  <2>2. /\ phase \in {"open", "closing"} /\ queue # <<>> /\ Head(queue).op = "meta"
    BY <1>2, <2>1, RunningType
  <2>3. phase' = phase
    BY <1>10 DEF BackupMeta, mainVars
  <2>4. /\ file' \in [File -> Content] /\ saved' \in [File -> Content]
        /\ backupRoot' \in BOOLEAN /\ backupDirs' \subseteq Token
        /\ MetaToken'
    BY <1>1, <2>1, MoveToBackupType
  <2>5. BlockTypes
    BY <1>1, <1>10, <2>2, <2>3, <2>4 DEF BackupMeta, TypeOK, BlockTypes, InFile
  <2> QED
    BY <2>2, <2>5, BlockType
<1>11. ASSUME BeginMeta PROVE TypeInv'
  <2>1. Running("meta")
    BY <1>11 DEF BeginMeta
  <2>2. /\ phase \in {"open", "closing"} /\ queue # <<>> /\ Head(queue).op = "meta"
    BY <1>2, <2>1, RunningType
  <2>3. phase' = phase
    BY <1>11 DEF BeginMeta, mainVars
  <2>4. file' \in [File -> Content] /\ MetaToken'
    <3>1. Torn(token) \in Content /\ Torn(token).data \in Token
      BY <1>1, TokenType, ContentType DEF TypeOK, Torn
    <3> QED
      BY <1>1, <1>11, <3>1, FileType DEF BeginMeta, TypeOK, MetaToken, backupVars
  <2>5. BlockTypes
    BY <1>1, <1>11, <2>2, <2>3, <2>4
    DEF BeginMeta, TypeOK, BlockTypes, InFile, backupVars
  <2> QED
    BY <2>2, <2>5, BlockType
<1>12. ASSUME EndMeta PROVE TypeInv'
  <2>1. Running("meta")
    BY <1>12 DEF EndMeta
  <2>2. /\ phase \in {"open", "closing"} /\ queue # <<>> /\ Head(queue).op # "cleanup"
        /\ queue \in Seq(Block) /\ Tail(queue) \in Seq(Block)
    BY <1>2, <2>1, RunningType
  <2>3. queue' \in Seq(Block) /\ Cleanups(queue') = Cleanups(queue)
    BY <1>12, <2>2, CleanupsTail DEF EndMeta
  <2>4. file' \in [File -> Content] /\ MetaToken'
    <3>1. file[MetaFile].data \in SUBSET Position
      BY <1>1, FileType DEF TypeOK, Content
    <3>2. /\ Whole(file[MetaFile].data) \in Content
          /\ Whole(file[MetaFile].data).data \in Token
      BY <1>1, <3>1, ContentType DEF Whole, MetaToken
    <3> QED
      BY <1>1, <1>12, <3>2, FileType DEF EndMeta, TypeOK, MetaToken, backupVars
  <2>5. BlockTypes
    BY <1>1, <1>12, <2>2, <2>3, <2>4
    DEF EndMeta, TypeOK, BlockTypes, InFile, backupVars
  <2> QED
    BY <2>2, <2>5, BlockType
<1>13. ASSUME CommitEnd PROVE TypeInv'
  <2>1. Running("cleanup")
    BY <1>13 DEF CommitEnd
  <2>2. /\ phase \in {"open", "closing"} /\ queue # <<>> /\ Head(queue).op = "cleanup"
        /\ queue \in Seq(Block) /\ Tail(queue) \in Seq(Block) /\ step = "start"
    BY <1>2, <2>1, RunningType
  <2>3. queue' \in Seq(Block) /\ Cleanups(queue') = Cleanups(queue) - 1
        /\ Cleanups(queue) \in Nat
    BY <1>13, <2>2, CleanupsTail, CleanupsType DEF CommitEnd
  <2>4. phase' = phase /\ step' = step /\ pendingCommits' = pendingCommits
        /\ callbacks' = IF phase = "open" THEN callbacks + 1 ELSE callbacks
    BY <1>13 DEF CommitEnd, mainVars
  <2>5. Counted' /\ InFile' /\ callbacks' \in Nat
    BY <1>1, <2>2, <2>3, <2>4 DEF TypeInv, TypeOK, Counted, InFile
  <2> QED
    BY <1>1, <1>13, <2>3, <2>5
    DEF CommitEnd, TypeInv, TypeOK, MetaToken, mainVars, dirtyVars, diskVars, backupVars, bookVars
<1> QED
  BY <1>3, <1>4, <1>5, <1>6, <1>7, <1>8, <1>9, <1>10, <1>11, <1>12, <1>13
  DEF DispatchQueue

LEMMA RemovalType == ASSUME TypeInv, Removal PROVE TypeInv'
<1>1. Absent.data \in Token
  BY TokenType DEF Absent
<1> USE DEF TypeInv, TypeOK, Counted, InFile, MetaToken, mainVars, dirtyVars,
            queueVars, diskVars, bookVars
<1>2. ASSUME RemoveBackup PROVE TypeInv'
  BY <1>1, <1>2, ContentType, FileType DEF RemoveBackup
<1>3. ASSUME NEW f \in File, RemoveSavedFile(f) PROVE TypeInv'
  BY <1>1, <1>3, ContentType, FileType DEF RemoveSavedFile
<1>4. ASSUME RemoveTokenFolder PROVE TypeInv'
  BY <1>4 DEF RemoveTokenFolder
<1>5. ASSUME RemoveBackupFolder PROVE TypeInv'
  BY <1>5 DEF RemoveBackupFolder
<1> QED
  BY <1>2, <1>3, <1>4, <1>5 DEF Removal

LEMMA OpeningType == ASSUME TypeInv, Opening PROVE TypeInv'
<1>1. Absent.data \in Token
  BY TokenType DEF Absent
<1>2. phase \notin {"open", "closing"} =>
        queue = <<>> /\ step = "start" /\ pendingCommits = 0 /\ callbacks = 0
  BY DEF TypeInv, Counted
<1> USE DEF TypeInv, TypeOK, Counted, InFile, MetaToken, Phase, mainVars, dirtyVars,
            queueVars, diskVars, backupVars, bookVars
<1>3. ASSUME OpenClean PROVE TypeInv'
  BY <1>3 DEF OpenClean
<1>4. ASSUME OpenInterrupted PROVE TypeInv'
  BY <1>4 DEF OpenInterrupted
<1>5. ASSUME NEW f \in File, RestoreFile(f) PROVE TypeInv'
  BY <1>5, FileType DEF RestoreFile
<1>6. ASSUME CheckRestored PROVE TypeInv'
  BY <1>6 DEF CheckRestored
<1>7. ASSUME Discard PROVE TypeInv'
  BY <1>7 DEF Discard
<1>8. ASSUME Loaded PROVE TypeInv'
  <2>1. \A r \in Room : StateOf(r) \subseteq Position
    BY FileType DEF StateOf, Content
  <2>2. Cleanups(queue) = 0 /\ queue = <<>> /\ pendingCommits = 0 /\ callbacks = 0
    BY <1>2, <1>8, CleanupsEmpty DEF Loaded
  <2> QED
    BY <1>8, <2>1, <2>2 DEF Loaded
<1>9. ASSUME EraseStore PROVE TypeInv'
  BY <1>1, <1>9, ContentType, FileType DEF EraseStore
<1>10. ASSUME NEW f \in File, EraseFile(f) PROVE TypeInv'
  BY <1>1, <1>10, ContentType, FileType DEF EraseFile
<1>11. ASSUME NEW r \in Room, EraseFolder(r) PROVE TypeInv'
  BY <1>11 DEF EraseFolder
<1>12. ASSUME NewStore PROVE TypeInv'
  <2>1. <<MetaBlock>> \in Seq(Block)
    BY EndBlocks
  <2>2. Cleanups(<<MetaBlock>>) = 0
    <3>1. CleanupAt(<<MetaBlock>>) = {}
      BY DEF CleanupAt, MetaBlock
    <3> QED
      BY <3>1, FS_EmptySet DEF Cleanups
  <2>3. pendingCommits = 0 /\ callbacks = 0 /\ step = "start"
    BY <1>2, <1>12 DEF NewStore
  <2>4. queue' = <<MetaBlock>> /\ pendingCommits' = 0 /\ callbacks' = 0 /\ step' = "start"
        /\ phase' = "open"
    BY <1>12, <2>3 DEF NewStore
  <2>5. Counted' /\ InFile'
    BY <2>2, <2>4
  <2> QED
    BY <1>12, <2>1, <2>4, <2>5, TokenType DEF NewStore
<1> QED
  BY <1>3, <1>4, <1>5, <1>6, <1>7, <1>8, <1>9, <1>10, <1>11, <1>12 DEF Opening

LEMMA LoseMemoryType ==
    ASSUME TypeInv, LoseMemory, UNCHANGED <<diskVars, backupVars>>, crashes' \in Nat
    PROVE  TypeInv'
<1>1. Counted' /\ InFile'
  BY DEF LoseMemory, Counted, InFile
<1>2. MetaToken'
  BY DEF TypeInv, MetaToken, diskVars, backupVars
<1>3. TypeOK'
  <2>1. metaDataHasChanged' \in BOOLEAN /\ phase' \in Phase
    BY DEF LoseMemory, Phase
  <2>2. /\ events' \in [Room -> SUBSET Position] /\ roomState' \in [Room -> SUBSET Position]
        /\ queue' \in Seq(Block) /\ pendingCommits' \in Nat /\ callbacks' \in Nat
    BY DEF LoseMemory
  <2>3. /\ token' \in Token /\ syncTo' \in Token /\ backupEventStreamToken' \in Token
        /\ roomStores' \subseteq Room /\ syncRooms' \subseteq Room
        /\ toDeletion' \subseteq Room /\ toMessages' \subseteq Room /\ toState' \subseteq Room
        /\ toRestore' \subseteq File
        /\ cur' \in Room \cup {NoRoom} /\ step' \in {"start", "moved", "torn"}
    BY TokenType DEF LoseMemory
  <2> QED
    BY <2>1, <2>2, <2>3 DEF TypeInv, TypeOK, diskVars, backupVars
<1> QED
  BY <1>1, <1>2, <1>3 DEF TypeInv

LEMMA TypeInvInit == Init => TypeInv
<1> SUFFICES ASSUME Init PROVE TypeInv
  OBVIOUS
<1>1. Counted /\ InFile
  BY DEF Init, Counted, InFile
<1>2. MetaToken
  BY TokenType, FileType DEF Init, MetaToken, Absent
<1>3. TypeOK
  <2>1. metaDataHasChanged \in BOOLEAN /\ backupRoot \in BOOLEAN /\ phase \in Phase
    BY DEF Init, Phase
  <2>2. /\ events \in [Room -> SUBSET Position] /\ roomState \in [Room -> SUBSET Position]
        /\ queue \in Seq(Block)
    BY DEF Init
  <2>3. file \in [File -> Content] /\ saved \in [File -> Content]
    BY ContentType DEF Init
  <2> QED
    BY <2>1, <2>2, <2>3, TokenType DEF Init, TypeOK
<1> QED
  BY <1>1, <1>2, <1>3 DEF TypeInv

LEMMA TypeInvNext == TypeInv /\ [Next]_vars => TypeInv'
<1> SUFFICES ASSUME TypeInv, [Next]_vars PROVE TypeInv'
  OBVIOUS
<1>1. CASE MainThread
  BY <1>1, MainThreadType
<1>2. CASE DispatchQueue
  BY <1>2, DispatchQueueType
<1>3. CASE Removal
  BY <1>3, RemovalType
<1>4. CASE Opening
  BY <1>4, OpeningType
<1>5. CASE Closed
  <2>1. LoseMemory /\ UNCHANGED <<diskVars, backupVars>> /\ crashes' \in Nat
    BY <1>5 DEF Closed, TypeInv, TypeOK
  <2> QED
    BY <2>1, LoseMemoryType
<1>6. CASE Crash
  <2>1. LoseMemory /\ UNCHANGED <<diskVars, backupVars>> /\ crashes' \in Nat
    BY <1>6 DEF Crash, TypeInv, TypeOK
  <2> QED
    BY <2>1, LoseMemoryType
<1>7. CASE UNCHANGED vars
  BY <1>7 DEF vars, mainVars, dirtyVars, queueVars, diskVars, backupVars, bookVars,
              TypeInv, TypeOK, Counted, InFile, MetaToken
<1> QED
  BY <1>1, <1>2, <1>3, <1>4, <1>5, <1>6, <1>7 DEF Next

\* The store's state stays well typed; above all, the count of pending commits
\* never goes below zero, where it would wrap and block every later commit.
THEOREM TypeCorrect == Spec => []TypeOK
<1>1. TypeInv => TypeOK
  BY DEF TypeInv
<1> QED
  BY <1>1, TypeInvInit, TypeInvNext, PTL DEF Spec
-----------------------------------------------------------------------------
(***************************************************************************)
(* The repair of FileStore needs exactly one token folder in the backup.   *)
(* There are never two, whatever is interleaved with the blocks and        *)
(* wherever the process stops.                                             *)
(***************************************************************************)
\* The metadata block changes the backup token, so the block after it has to
\* remove the backup before anything else is moved.
Followed(q, i) == q[i].op = "meta" => i < Len(q) /\ q[i + 1].op = "cleanup"
Ends(q) == \A i \in 1..Len(q) : Followed(q, i)

\* Only the metadata block of a new store has no end of a commit behind it.
NewMeta == queue # <<>> /\ ~Followed(queue, 1)

AtEnd ==
    queue # <<>> /\ \/ Head(queue).op = "cleanup"
                    \/ Head(queue).op = "meta" /\ step # "start"

QueueInv ==
    /\ \A i \in 2..Len(queue) : Followed(queue, i)
    /\ NewMeta => /\ token = {} /\ syncTo = {} /\ backupDirs = {}
                  /\ step = "start" => file[MetaFile] = Absent
    /\ phase \notin {"open", "closing"} => syncTo = {}

\* The one token folder is named after the backup token, except between the
\* change of that token and the removal of the backup.
DirsInv ==
    /\ backupDirs # {} => backupRoot
    /\ \E t \in Token : backupDirs \subseteq {t}
    /\ phase \in {"open", "closing"} /\ ~AtEnd => backupDirs \subseteq {backupEventStreamToken}

BackupInv == QueueInv /\ DirsInv
-----------------------------------------------------------------------------
LEMMA EndsConcat ==
    ASSUME NEW q \in Seq(Block), NEW s \in Seq(Block), Ends(s),
           NEW i \in 1..Len(q \o s), ~Followed(q \o s, i)
    PROVE  i \in 1..Len(q) /\ ~Followed(q, i)
<1> DEFINE z == q \o s
<1>1. /\ Len(z) = Len(q) + Len(s)
      /\ \A j \in 1..Len(q) : z[j] = q[j]
      /\ \A j \in 1..Len(s) : z[Len(q) + j] = s[j]
  OBVIOUS
<1>2. CASE i \in 1..Len(q)
  BY <1>1, <1>2 DEF Followed
<1>3. CASE i \notin 1..Len(q)
  <2>1. i - Len(q) \in 1..Len(s) /\ i = Len(q) + (i - Len(q))
    BY <1>1, <1>3
  <2>2. s[i - Len(q)].op = "meta" => i - Len(q) < Len(s) /\ s[i - Len(q) + 1].op = "cleanup"
    BY <2>1 DEF Ends, Followed
  <2>3. z[i].op = "meta" => i < Len(z) /\ z[i + 1].op = "cleanup"
    <3>1. z[i] = s[i - Len(q)]
      BY <1>1, <2>1
    <3>2. ASSUME i - Len(q) < Len(s)
          PROVE  i < Len(z) /\ z[i + 1] = s[i - Len(q) + 1]
      <4>1. i - Len(q) + 1 \in 1..Len(s) /\ i + 1 = Len(q) + (i - Len(q) + 1)
        BY <2>1, <3>2
      <4> QED
        BY <1>1, <2>1, <4>1, <3>2
    <3> QED
      BY <2>2, <3>1, <3>2
  <2> QED
    BY <2>3 DEF Followed
<1> QED
  BY <1>2, <1>3

\* A commit ends the metadata block it queues.
LEMMA SaveDataEnds ==
    ASSUME TypeOK, NEW m \in BOOLEAN
    PROVE  /\ SaveDataToFiles(m) \o <<CleanupBlock>> \in Seq(Block)
           /\ Ends(SaveDataToFiles(m) \o <<CleanupBlock>>)
           /\ queue \o SaveDataToFiles(m) \o <<CleanupBlock>>
                = queue \o (SaveDataToFiles(m) \o <<CleanupBlock>>)
<1> DEFINE s == SaveDataToFiles(m)
           z == s \o <<CleanupBlock>>
<1>1. PICK p \in Seq(Block) : Plain(p) /\ (s = p \/ s = p \o <<MetaBlock>>)
  BY SaveDataShape
<1>2. s \in Seq(Block) /\ z \in Seq(Block) /\ queue \in Seq(Block)
  <2>1. <<MetaBlock>> \in Seq(Block) /\ <<CleanupBlock>> \in Seq(Block)
    BY EndBlocks
  <2>2. \A a, b \in Seq(Block) : a \o b \in Seq(Block)
    OBVIOUS
  <2> HIDE DEF s
  <2>3. s \in Seq(Block)
    BY <1>1, <2>1, <2>2
  <2> QED
    BY <2>1, <2>2, <2>3 DEF TypeOK
<1>3. ASSUME NEW i \in 1..Len(z), z[i].op = "meta"
      PROVE  i < Len(z) /\ z[i + 1].op = "cleanup"
  <2>1. CASE s = p
    <3>1. /\ Len(z) = Len(p) + 1 /\ z[Len(p) + 1] = CleanupBlock
          /\ \A j \in 1..Len(p) : z[j] = p[j]
      BY <2>1
    <3> QED
      BY <1>1, <1>3, <3>1 DEF Plain, CleanupBlock
  <2>2. CASE s = p \o <<MetaBlock>>
    <3>1. /\ Len(z) = Len(p) + 2 /\ z[Len(p) + 2] = CleanupBlock
          /\ \A j \in 1..Len(p) : z[j] = p[j]
      BY <2>2
    <3>2. i \notin 1..Len(p)
      BY <1>1, <1>3, <3>1 DEF Plain
    <3>3. i # Len(p) + 2
      BY <1>3, <3>1 DEF CleanupBlock
    <3>4. i = Len(p) + 1
      BY <3>1, <3>2, <3>3
    <3>5. i + 1 = Len(p) + 2
      BY <3>4
    <3> QED
      BY <3>1, <3>4, <3>5 DEF CleanupBlock
  <2> QED
    BY <1>1, <2>1, <2>2
<1>4. Ends(z)
  BY <1>3 DEF Ends, Followed
<1>5. queue \o s \o <<CleanupBlock>> = queue \o z
  <2>1. \A a, b, c \in Seq(Block) : (a \o b) \o c = a \o (b \o c)
    OBVIOUS
  <2>2. <<CleanupBlock>> \in Seq(Block)
    BY EndBlocks
  <2> QED
    BY <1>2, <2>1, <2>2
<1> QED
  BY <1>2, <1>4, <1>5

\* The rest of a queue in which every metadata block is followed by its end.
LEMMA EndsTail ==
    ASSUME NEW q \in Seq(Block), q # <<>>, \A i \in 2..Len(q) : Followed(q, i)
    PROVE  Ends(Tail(q))
<1>1. Len(Tail(q)) = Len(q) - 1 /\ \A i \in 1..(Len(q) - 1) : Tail(q)[i] = q[i + 1]
  OBVIOUS
<1>2. ASSUME NEW i \in 1..Len(Tail(q)), Tail(q)[i].op = "meta"
      PROVE  i < Len(Tail(q)) /\ Tail(q)[i + 1].op = "cleanup"
  <2>1. i + 1 \in 2..Len(q) /\ q[i + 1].op = "meta"
    BY <1>1, <1>2
  <2>2. i + 1 < Len(q) /\ q[(i + 1) + 1].op = "cleanup"
    BY <2>1 DEF Followed
  <2> QED
    BY <1>1, <1>2, <2>2
<1> QED
  BY <1>2 DEF Ends, Followed

\* The queue after a block that saves rooms is done with one of them.
LEMMA RoomDoneEnds ==
    ASSUME TypeOK, QueueInv, queue # <<>>, Head(queue).op \notin {"meta", "cleanup"},
           NEW r, RoomDone(r)
    PROVE  queue' \in Seq(Block) /\ Ends(queue')
<1>1. queue \in Seq(Block) /\ queue' \in Seq(Block)
  BY RoomDoneType DEF TypeOK
<1>2. \A i \in 2..Len(queue) : Followed(queue, i)
  BY DEF QueueInv
<1>3. CASE queue' = Tail(queue)
  BY <1>1, <1>2, <1>3, EndsTail
<1>4. CASE queue' = <<[Head(queue) EXCEPT !.rooms = @ \ {r}]>> \o Tail(queue)
  <2> DEFINE b == [Head(queue) EXCEPT !.rooms = @ \ {r}]
  <2>1. Head(queue) \in Block /\ Tail(queue) \in Seq(Block)
    BY <1>1
  <2>2. b \in Block /\ b.op = Head(queue).op
    BY <2>1 DEF Block
  <2> HIDE DEF b
  <2>0. queue' = <<b>> \o Tail(queue)
    BY <1>4 DEF b
  <2>3. Len(queue') = Len(queue) /\ queue'[1].op = Head(queue).op
        /\ \A i \in 2..Len(queue) : queue'[i] = queue[i]
    BY <1>1, <2>0, <2>1, <2>2
  <2>4. ASSUME NEW i \in 1..Len(queue'), queue'[i].op = "meta"
        PROVE  i < Len(queue') /\ queue'[i + 1].op = "cleanup"
    <3>1. i \in 2..Len(queue) /\ queue[i].op = "meta"
      BY <1>1, <2>3, <2>4
    <3>2. i < Len(queue) /\ queue[i + 1].op = "cleanup"
      BY <1>2, <3>1 DEF Followed
    <3>3. i + 1 \in 2..Len(queue)
      BY <1>1, <3>1, <3>2
    <3> QED
      BY <2>3, <3>2, <3>3
  <2> QED
    BY <1>1, <2>4 DEF Ends, Followed
<1> QED
  BY <1>1, <1>3, <1>4 DEF RoomDone
-----------------------------------------------------------------------------
\* The steps that queue a commit: the new metadata block is followed by its end.
LEMMA QueueCommit ==
    ASSUME TypeOK, QueueInv, NEW m \in BOOLEAN,
           queue' = queue \o SaveDataToFiles(m) \o <<CleanupBlock>>,
           phase' \in {"open", "closing"},
           UNCHANGED <<step, file, backupDirs>>,
           NewMeta => UNCHANGED <<token, syncTo>>
    PROVE  QueueInv' /\ (queue # <<>> => AtEnd' = AtEnd)
<1> DEFINE s == SaveDataToFiles(m) \o <<CleanupBlock>>
<1>1. s \in Seq(Block) /\ Ends(s) /\ queue' = queue \o s /\ queue \in Seq(Block)
  BY SaveDataEnds DEF TypeOK
<1> HIDE DEF s
<1>2. \A i \in 1..Len(queue') : ~Followed(queue', i) => i \in 1..Len(queue) /\ ~Followed(queue, i)
  BY <1>1, EndsConcat
<1>3. ASSUME NEW i \in 2..Len(queue') PROVE Followed(queue', i)
  BY <1>1, <1>2, <1>3 DEF QueueInv
<1>4. queue' \in Seq(Block)
  <2>1. \A a, b \in Seq(Block) : a \o b \in Seq(Block)
    OBVIOUS
  <2> QED
    BY <1>1, <2>1
<1>5. NewMeta' => NewMeta
  BY <1>1, <1>2, <1>4 DEF NewMeta
<1>6. queue # <<>> => queue' # <<>> /\ Head(queue') = Head(queue)
  BY <1>1
<1>7. NewMeta' => /\ token' = {} /\ syncTo' = {} /\ backupDirs' = {}
                  /\ step' = "start" => file'[MetaFile] = Absent
  BY <1>5 DEF QueueInv
<1>8. AtEnd' = AtEnd \/ queue = <<>>
  BY <1>6 DEF AtEnd
<1> QED
  BY <1>3, <1>7, <1>8 DEF QueueInv

LEMMA CommitBackup ==
    ASSUME TypeOK, BackupInv, phase = "open", NEW m \in BOOLEAN, Commit(m),
           UNCHANGED <<phase, step, file, backupVars, backupEventStreamToken>>,
           NewMeta => UNCHANGED <<token, syncTo>>
    PROVE  BackupInv'
<1> USE DEF backupVars
<1>1. CASE pendingCommits >= 2
  <2>1. queue' = queue
    BY <1>1 DEF Commit
  <2> QED
    BY <2>1 DEF BackupInv, QueueInv, DirsInv, NewMeta, AtEnd
<1>2. CASE ~(pendingCommits >= 2)
  <2>1. queue' = queue \o SaveDataToFiles(m) \o <<CleanupBlock>>
    BY <1>2 DEF Commit
  <2>2. QueueInv' /\ (queue # <<>> => AtEnd' = AtEnd)
    BY <2>1, QueueCommit DEF BackupInv
  <2>3. DirsInv'
    BY <2>2 DEF BackupInv, DirsInv, AtEnd
  <2> QED
    BY <2>2, <2>3 DEF BackupInv
<1> QED
  BY <1>1, <1>2

LEMMA MainThreadBackup == ASSUME TypeOK, BackupInv, MainThread PROVE BackupInv'
<1> DEFINE Same == UNCHANGED <<phase, queue, step, file, backupVars, backupEventStreamToken>>
<1>1. ASSUME Same, NewMeta => UNCHANGED <<token, syncTo>>, phase = "open" PROVE BackupInv'
  BY <1>1 DEF BackupInv, QueueInv, DirsInv, NewMeta, AtEnd, backupVars
<1> HIDE DEF Same
<1>2. ASSUME NEW k \in 0..Len(ServerLog), BeginSync(k) PROVE BackupInv'
  <2>1. ~NewMeta
    BY <1>2 DEF BeginSync, BackupInv, QueueInv, NewMeta
  <2> QED
    BY <1>1, <1>2, <2>1 DEF BeginSync, Same, queueVars, diskVars
<1>3. ASSUME NEW r \in Room, StoreEvents(r) PROVE BackupInv'
  BY <1>1, <1>3 DEF StoreEvents, Same, queueVars, diskVars
<1>4. ASSUME NEW r \in Room, JoinInvitedRoom(r) PROVE BackupInv'
  BY <1>1, <1>4 DEF JoinInvitedRoom, Same, queueVars, diskVars
<1>5. ASSUME NEW r \in Room, DeleteRoom(r) PROVE BackupInv'
  BY <1>1, <1>5 DEF DeleteRoom, Same, queueVars, diskVars
<1>6. ASSUME FinishSync PROVE BackupInv'
  <2>1. ~NewMeta
    BY <1>6 DEF FinishSync, BackupInv, QueueInv
  <2> QED
    BY <1>6, <2>1, CommitBackup DEF FinishSync, diskVars
<1>7. ASSUME AppCommit PROVE BackupInv'
  <2>1. metaDataHasChanged \in BOOLEAN
    BY DEF TypeOK
  <2> QED
    BY <1>7, <2>1, CommitBackup DEF AppCommit, mainVars, diskVars
<1>8. ASSUME StoreNodeMetadata PROVE BackupInv'
  BY <1>1, <1>8 DEF StoreNodeMetadata, Same, mainVars, queueVars, diskVars
<1>9. ASSUME CommitDone PROVE BackupInv'
  BY <1>1, <1>9 DEF CommitDone, Same, mainVars, diskVars
<1>10. ASSUME Close PROVE BackupInv'
  <2>1. metaDataHasChanged \in BOOLEAN
    BY DEF TypeOK
  <2>2. /\ phase = "open" /\ phase' = "closing"
        /\ UNCHANGED <<step, file, backupVars, backupEventStreamToken, token, syncTo>>
    BY <1>10 DEF Close, diskVars
  <2>3. CASE queue' = queue \o SaveDataToFiles(metaDataHasChanged) \o <<CleanupBlock>>
    <3>1. QueueInv' /\ (queue # <<>> => AtEnd' = AtEnd)
      BY <2>1, <2>2, <2>3, QueueCommit DEF BackupInv, backupVars
    <3>2. DirsInv'
      BY <2>2, <3>1 DEF BackupInv, DirsInv, AtEnd, backupVars
    <3> QED
      BY <3>1, <3>2 DEF BackupInv
  <2>4. CASE queue' = queue
    BY <2>2, <2>4 DEF BackupInv, QueueInv, DirsInv, NewMeta, AtEnd, backupVars
  <2> QED
    BY <1>10, <2>3, <2>4 DEF Close
<1> QED
  BY <1>2, <1>3, <1>4, <1>5, <1>6, <1>7, <1>8, <1>9, <1>10 DEF MainThread

\* Moving files keeps to the folder of the backup token.
LEMMA MoveBackup ==
    ASSUME TypeOK, DirsInv, phase \in {"open", "closing"}, ~AtEnd,
           NEW files, MoveToBackup(files)
    PROVE  /\ backupDirs' # {} => backupRoot'
           /\ backupDirs' \subseteq {backupEventStreamToken}
BY DEF DirsInv, MoveToBackup, backupVars

\* The blocks that save rooms.
LEMMA RoomBlockBackup ==
    ASSUME TypeOK, DirsInv, QueueInv, phase \in {"open", "closing"}, phase' = phase,
           queue # <<>>, Head(queue).op \notin {"meta", "cleanup"},
           queue' = queue \/ \E r : RoomDone(r),
           backupEventStreamToken' = backupEventStreamToken,
           UNCHANGED backupVars \/ \E files : MoveToBackup(files)
    PROVE  BackupInv'
<1>1. queue' \in Seq(Block) /\ Ends(queue')
  <2>1. CASE queue' = queue
    <3>1. queue \in Seq(Block) /\ Head(queue) = queue[1]
      BY DEF TypeOK
    <3>2. \A i \in 1..Len(queue) : Followed(queue, i)
      BY <3>1 DEF QueueInv, Followed
    <3> QED
      BY <2>1, <3>1, <3>2 DEF Ends
  <2>2. CASE \E r : RoomDone(r)
    BY <2>2, RoomDoneEnds
  <2> QED
    BY <2>1, <2>2
<1>2. ~NewMeta'
  BY <1>1 DEF Ends, NewMeta
<1>3. QueueInv'
  BY <1>1, <1>2 DEF QueueInv, Ends
<1>4. ~AtEnd
  BY DEF AtEnd
<1>5. (backupDirs' # {} => backupRoot') /\ backupDirs' \subseteq {backupEventStreamToken}
  BY <1>4, MoveBackup DEF DirsInv, backupVars
<1>6. backupEventStreamToken \in Token
  BY DEF TypeOK
<1> QED
  BY <1>3, <1>5, <1>6 DEF BackupInv, DirsInv

LEMMA DispatchQueueBackup == ASSUME TypeInv, BackupInv, DispatchQueue PROVE BackupInv'
<1>1. TypeOK /\ QueueInv /\ DirsInv
  BY DEF TypeInv, BackupInv
<1>2. {"deletion", "messages", "state", "meta", "cleanup"} = Op
  BY DEF Op
<1>3. ASSUME NEW r \in Room,
             SaveDeletion(r) \/ SkipMessages(r) \/ BackupMessages(r) \/ BackupState(r)
      PROVE  BackupInv'
  <2>1. /\ Running("deletion") \/ Running("messages") \/ Running("state")
        /\ phase' = phase /\ backupEventStreamToken' = backupEventStreamToken
        /\ queue' = queue \/ RoomDone(r)
    BY <1>3 DEF SaveDeletion, SkipMessages, BackupMessages, BackupState, mainVars
  <2>2. UNCHANGED backupVars \/ \E files : MoveToBackup(files)
    BY <1>3 DEF SaveDeletion, SkipMessages, BackupMessages, BackupState
  <2> QED
    BY <1>1, <2>1, <2>2, RoomBlockBackup DEF Running
<1>4. ASSUME WriteMessages \/ BeginState \/ EndState PROVE BackupInv'
  <2>1. /\ Running("messages") \/ Running("state")
        /\ phase' = phase /\ backupEventStreamToken' = backupEventStreamToken
        /\ queue' = queue \/ RoomDone(cur)
        /\ UNCHANGED backupVars
    BY <1>4 DEF WriteMessages, BeginState, EndState, mainVars
  <2> QED
    BY <1>1, <2>1, RoomBlockBackup DEF Running
<1>5. ASSUME BackupMeta PROVE BackupInv'
  <2>1. /\ phase \in {"open", "closing"} /\ phase' = phase /\ queue # <<>> /\ queue' = queue
        /\ Head(queue).op = "meta" /\ step = "start" /\ step' = "moved"
        /\ MoveToBackup({MetaFile}) /\ UNCHANGED <<token, syncTo>>
    BY <1>5 DEF BackupMeta, Running, mainVars
  <2>2. ~AtEnd /\ AtEnd'
    BY <2>1 DEF AtEnd
  <2>3. (backupDirs' # {} => backupRoot') /\ backupDirs' \subseteq {backupEventStreamToken}
    BY <1>1, <2>1, <2>2, MoveBackup
  <2>4. backupEventStreamToken \in Token
    BY <1>1 DEF TypeOK
  <2>5. DirsInv'
    BY <2>2, <2>3, <2>4 DEF DirsInv
  <2>6. NewMeta => backupDirs' = {}
    BY <1>1, <2>1 DEF QueueInv, MoveToBackup, backupVars
  <2>7. QueueInv'
    BY <1>1, <2>1, <2>6 DEF QueueInv, NewMeta
  <2> QED
    BY <2>5, <2>7 DEF BackupInv
<1>6. ASSUME BeginMeta PROVE BackupInv'
  BY <1>1, <1>6
  DEF BeginMeta, BackupInv, QueueInv, DirsInv, NewMeta, AtEnd, mainVars, backupVars
<1>7. ASSUME EndMeta \/ CommitEnd PROVE BackupInv'
  <2>1. /\ phase \in {"open", "closing"} /\ phase' = phase /\ queue # <<>>
        /\ queue' = Tail(queue) /\ UNCHANGED backupVars
        /\ Head(queue).op \in {"meta", "cleanup"}
        /\ Head(queue).op = "meta" => step # "start" /\ step' = "start"
        /\ Head(queue).op = "cleanup" => ~backupRoot
    BY <1>7 DEF EndMeta, CommitEnd, Running, mainVars
  <2>2. queue \in Seq(Block) /\ Tail(queue) \in Seq(Block) /\ Head(queue) = queue[1]
    BY <1>1, <2>1 DEF TypeOK
  <2>3. Ends(queue')
    BY <1>1, <2>1, <2>2, EndsTail DEF QueueInv
  <2>4. ~NewMeta'
    BY <2>1, <2>2, <2>3 DEF Ends, NewMeta
  <2>5. QueueInv'
    BY <2>1, <2>3, <2>4 DEF QueueInv, Ends
  <2>6. DirsInv'
    <3>1. CASE backupDirs = {}
      BY <1>1, <2>1, <3>1 DEF DirsInv, backupVars
    <3>2. CASE backupDirs # {}
      <4>1. Head(queue).op = "meta" /\ Followed(queue, 1)
        BY <1>1, <2>1, <3>2 DEF DirsInv, QueueInv, NewMeta
      <4>2. Len(queue) > 1 /\ queue[2].op = "cleanup"
        BY <2>2, <4>1 DEF Followed
      <4>3. queue' # <<>> /\ Head(queue') = queue[2]
        <5>1. \A q \in Seq(Block) :
                Len(q) > 1 => Tail(q) # <<>> /\ Head(Tail(q)) = q[2]
          OBVIOUS
        <5> QED
          BY <2>1, <2>2, <4>2, <5>1
      <4>4. AtEnd'
        BY <4>2, <4>3 DEF AtEnd
      <4> QED
        BY <1>1, <2>1, <4>4 DEF DirsInv, backupVars
    <3> QED
      BY <3>1, <3>2
  <2> QED
    BY <2>5, <2>6 DEF BackupInv
<1> QED
  BY <1>3, <1>4, <1>5, <1>6, <1>7 DEF DispatchQueue

LEMMA RemovalBackup == ASSUME BackupInv, Removal PROVE BackupInv'
<1> USE DEF BackupInv, QueueInv, DirsInv, NewMeta, AtEnd, mainVars, queueVars, diskVars
<1>1. ASSUME RemoveBackup PROVE BackupInv'
  BY <1>1 DEF RemoveBackup
<1>2. ASSUME NEW f \in File, RemoveSavedFile(f) PROVE BackupInv'
  BY <1>2 DEF RemoveSavedFile
<1>3. ASSUME RemoveTokenFolder PROVE BackupInv'
  BY <1>3 DEF RemoveTokenFolder
<1>4. ASSUME RemoveBackupFolder PROVE BackupInv'
  BY <1>4 DEF RemoveBackupFolder
<1> QED
  BY <1>1, <1>2, <1>3, <1>4 DEF Removal

LEMMA OpeningBackup == ASSUME TypeInv, BackupInv, Opening PROVE BackupInv'
<1>1. phase \notin {"open", "closing"} => queue = <<>> /\ step = "start"
  BY DEF TypeInv, Counted
<1>2. ASSUME phase \notin {"open", "closing"}, phase' \notin {"open", "closing"},
             UNCHANGED <<queue, syncTo>>,
             UNCHANGED <<backupRoot, backupDirs>> \/ backupDirs' = {}
      PROVE  BackupInv'
  BY <1>1, <1>2, TokenType DEF BackupInv, QueueInv, DirsInv, NewMeta
<1> USE DEF mainVars, queueVars, backupVars
<1>3. ASSUME OpenClean \/ OpenInterrupted \/ CheckRestored \/ Discard PROVE BackupInv'
  BY <1>2, <1>3 DEF OpenClean, OpenInterrupted, CheckRestored, Discard
<1>4. ASSUME NEW f \in File, RestoreFile(f) \/ EraseFile(f) PROVE BackupInv'
  BY <1>2, <1>4 DEF RestoreFile, EraseFile
<1>5. ASSUME EraseStore \/ \E r \in Room : EraseFolder(r) PROVE BackupInv'
  BY <1>2, <1>5 DEF EraseStore, EraseFolder
<1>6. ASSUME Loaded PROVE BackupInv'
  BY <1>1, <1>6 DEF Loaded, BackupInv, QueueInv, DirsInv, NewMeta
<1>7. ASSUME NewStore PROVE BackupInv'
  <2>1. /\ phase' = "open" /\ token' = {} /\ queue' = <<MetaBlock>> /\ syncTo' = {}
        /\ backupDirs = {} /\ backupDirs' = {} /\ file' = file /\ file[MetaFile] = Absent
    BY <1>7, FileType DEF NewStore, BackupInv, QueueInv, DirsInv, diskVars
  <2>2. QueueInv'
    BY <2>1 DEF QueueInv
  <2>3. DirsInv'
    BY <2>1, TokenType DEF DirsInv
  <2> QED
    BY <2>2, <2>3 DEF BackupInv
<1> QED
  BY <1>3, <1>4, <1>5, <1>6, <1>7 DEF Opening

LEMMA BackupInvNext == TypeInv /\ BackupInv /\ [Next]_vars => BackupInv'
<1> SUFFICES ASSUME TypeInv, BackupInv, [Next]_vars PROVE BackupInv'
  OBVIOUS
<1>1. CASE MainThread
  BY <1>1, MainThreadBackup DEF TypeInv
<1>2. CASE DispatchQueue
  BY <1>2, DispatchQueueBackup
<1>3. CASE Removal
  BY <1>3, RemovalBackup
<1>4. CASE Opening
  BY <1>4, OpeningBackup
<1>5. CASE Closed \/ Crash
  BY <1>5 DEF Closed, Crash, LoseMemory, BackupInv, QueueInv, DirsInv, NewMeta, backupVars
<1>6. CASE UNCHANGED vars
  BY <1>6 DEF vars, mainVars, queueVars, diskVars, backupVars,
              BackupInv, QueueInv, DirsInv, NewMeta, AtEnd
<1> QED
  BY <1>1, <1>2, <1>3, <1>4, <1>5, <1>6 DEF Next

\* Whatever a crash interrupts, the backup folder holds at most one token
\* folder, so that checkStorageValidity knows the token to go back to.
THEOREM OneTokenFolder == Spec => []OneBackup
<1>1. Init => BackupInv
  BY TokenType DEF Init, BackupInv, QueueInv, DirsInv, NewMeta
<1>2. BackupInv => OneBackup
  <2> SUFFICES ASSUME BackupInv PROVE OneBackup
    OBVIOUS
  <2>1. PICK t \in Token : backupDirs \subseteq {t}
    BY DEF BackupInv, DirsInv
  <2>2. IsFiniteSet({t}) /\ Cardinality({t}) = 1
    BY FS_Singleton
  <2> QED
    BY <2>1, <2>2, FS_Subset DEF OneBackup
<1> QED
  BY <1>1, <1>2, TypeInvInit, TypeInvNext, BackupInvNext, PTL DEF Spec
-----------------------------------------------------------------------------
(***************************************************************************)
(* Settled files.  The invariant follows what the memory holds of a room   *)
(* to its file: it is marked for the next commit, or the last block queued *)
(* for it saves it, or it is in the file and no queued block will touch    *)
(* that.                                                                   *)
(***************************************************************************)
\* The block i of q handles the room r.
Does(q, i, r, op) == q[i].op = op /\ r \in q[i].rooms
Free(q, r, op) == \A i \in 1..Len(q) : ~Does(q, i, r, op)

\* The last block of q that has to do with the files op of r is one that will
\* save d (the messages are read from memory when the block runs).
Saves(q, r, op, d) ==
    \E i \in 1..Len(q) :
        /\ Does(q, i, r, op)
        /\ op = "state" => q[i].snap[r] = d
        /\ \A j \in 1..Len(q) : j > i => ~Does(q, j, r, "deletion") /\ ~Does(q, j, r, op)

RoomData == {"messages", "state"}
Due(r, op) == IF op = "messages" THEN r \in toMessages ELSE r \in toState
InMemory(r, op) == IF op = "messages" THEN events[r] ELSE roomState[r]
Loads(r, op) == IF op = "messages" THEN r \in roomStores ELSE roomState[r] # {}

\* What the memory has of a room is marked for the next commit, or a queued
\* block will save it, or the file has it and no block will touch the file.
SavedOnce(r, op) ==
    \/ Due(r, op)
    \/ /\ r \notin toDeletion
       /\ \/ Saves(queue, r, op, InMemory(r, op))
          \/ /\ Free(queue, r, "deletion") /\ Free(queue, r, op)
             /\ file[<<r, op>>] = Whole(InMemory(r, op))

\* The same of the metadata, which a block reads when it begins to write.
MetaSaved ==
    \/ metaDataHasChanged
    \/ \E i \in 2..Len(queue) : queue[i].op = "meta"
    \/ /\ queue # <<>> /\ Head(queue).op = "meta"
       /\ step = "torn" => file[MetaFile] = Torn(token)
    \/ file[MetaFile] = Whole(token)

\* The file that is being replaced is one that the block has to save.
Replaces ==
    step # "start" /\ Head(queue).op # "meta" =>
        /\ cur \in Head(queue).rooms
        /\ step = "torn" => file[<<cur, "state">>] = Torn(Head(queue).snap[cur])

\* A store that is not open has no memory, but for the token it was found with.
NotLoaded ==
    /\ phase \notin {"open", "closing"} =>
         roomStores = {} /\ toDeletion = {} /\ toMessages = {} /\ toState = {}
         /\ roomState = NoSnap
    /\ phase = "releasing" => file[MetaFile] = Whole(token)

DurableInv ==
    /\ phase = "open" => /\ MetaSaved
                         /\ \A r \in Room, op \in RoomData : Loads(r, op) => SavedOnce(r, op)
    /\ Replaces
    /\ NotLoaded
-----------------------------------------------------------------------------
(***************************************************************************)
(* What blocks at the two ends of the queue change for a room.             *)
(***************************************************************************)
LEMMA FreeConcat ==
    ASSUME NEW q \in Seq(Block), NEW s \in Seq(Block), NEW r, NEW op,
           Free(q, r, op), Free(s, r, op)
    PROVE  Free(q \o s, r, op)
<1>1. /\ Len(q \o s) = Len(q) + Len(s)
      /\ \A j \in 1..Len(q) : (q \o s)[j] = q[j]
      /\ \A j \in 1..Len(s) : (q \o s)[Len(q) + j] = s[j]
  OBVIOUS
<1> SUFFICES ASSUME NEW i \in 1..Len(q \o s) PROVE ~Does(q \o s, i, r, op)
  BY DEF Free
<1>2. CASE i \in 1..Len(q)
  BY <1>1, <1>2 DEF Free, Does
<1>3. CASE i \notin 1..Len(q)
  <2>1. i - Len(q) \in 1..Len(s) /\ i = Len(q) + (i - Len(q))
    BY <1>1, <1>3
  <2> QED
    BY <1>1, <2>1 DEF Free, Does
<1> QED
  BY <1>2, <1>3

\* Blocks queued behind q do not disturb what it saves, if none is for the room;
\* what they save themselves, they save whatever is before them.
LEMMA SavesBefore ==
    ASSUME NEW q \in Seq(Block), NEW s \in Seq(Block), NEW r, NEW op, NEW d,
           Saves(q, r, op, d), Free(s, r, "deletion"), Free(s, r, op)
    PROVE  Saves(q \o s, r, op, d)
<1> DEFINE z == q \o s
<1>1. /\ Len(z) = Len(q) + Len(s)
      /\ \A j \in 1..Len(q) : z[j] = q[j]
      /\ \A j \in 1..Len(s) : z[Len(q) + j] = s[j]
  OBVIOUS
<1>2. PICK i \in 1..Len(q) :
        /\ Does(q, i, r, op)
        /\ op = "state" => q[i].snap[r] = d
        /\ \A j \in 1..Len(q) : j > i => ~Does(q, j, r, "deletion") /\ ~Does(q, j, r, op)
  BY DEF Saves
<1> HIDE DEF z
<1>3. i \in 1..Len(z) /\ z[i] = q[i]
  BY <1>1
<1>4. ASSUME NEW j \in 1..Len(z), j > i
      PROVE  ~Does(z, j, r, "deletion") /\ ~Does(z, j, r, op)
  <2>1. CASE j \in 1..Len(q)
    BY <1>1, <1>2, <1>4, <2>1 DEF Does
  <2>2. CASE j \notin 1..Len(q)
    <3>1. j - Len(q) \in 1..Len(s) /\ j = Len(q) + (j - Len(q))
      BY <1>1, <2>2
    <3> QED
      BY <1>1, <3>1 DEF Free, Does
  <2> QED
    BY <2>1, <2>2
<1>5. Saves(z, r, op, d)
  BY <1>2, <1>3, <1>4 DEF Saves, Does
<1> QED
  BY <1>5 DEF z

LEMMA SavesBehind ==
    ASSUME NEW q \in Seq(Block), NEW s \in Seq(Block), NEW r, NEW op, NEW d,
           Saves(s, r, op, d)
    PROVE  Saves(q \o s, r, op, d)
<1> DEFINE z == q \o s
<1>1. /\ Len(z) = Len(q) + Len(s) /\ Len(q) \in Nat
      /\ \A j \in 1..Len(s) : z[Len(q) + j] = s[j]
  OBVIOUS
<1>2. PICK i \in 1..Len(s) :
        /\ Does(s, i, r, op)
        /\ op = "state" => s[i].snap[r] = d
        /\ \A j \in 1..Len(s) : j > i => ~Does(s, j, r, "deletion") /\ ~Does(s, j, r, op)
  BY DEF Saves
<1> HIDE DEF z
<1>3. Len(q) + i \in 1..Len(z) /\ z[Len(q) + i] = s[i]
  BY <1>1
<1>4. ASSUME NEW j \in 1..Len(z), j > Len(q) + i
      PROVE  ~Does(z, j, r, "deletion") /\ ~Does(z, j, r, op)
  <2>1. j - Len(q) \in 1..Len(s) /\ j = Len(q) + (j - Len(q)) /\ j - Len(q) > i
    BY <1>1, <1>4
  <2> QED
    BY <1>1, <1>2, <2>1 DEF Does
<1>5. Saves(z, r, op, d)
  BY <1>2, <1>3, <1>4 DEF Saves, Does
<1> QED
  BY <1>5 DEF z

\* The queue z is q without its first block, or with the room r taken out of it.
Lessened(q, z, r) ==
    \/ z = Tail(q)
    \/ z = <<[Head(q) EXCEPT !.rooms = @ \ {r}]>> \o Tail(q)

LEMMA TailOrHead ==
    ASSUME NEW q \in Seq(Block), q # <<>>, NEW z, NEW r, Lessened(q, z, r)
    PROVE  \E k \in {0, 1} :
             /\ Len(z) = Len(q) - 1 + k /\ Len(q) \in Nat /\ Len(q) > 0
             /\ \A i \in 1..Len(z) : i + 1 - k \in 1..Len(q) /\ (i > k => z[i] = q[i + 1 - k])
             /\ k = 1 => z[1].op = q[1].op /\ z[1].rooms = q[1].rooms \ {r} /\ z[1].snap = q[1].snap
<1>1. Head(q) \in Block /\ Tail(q) \in Seq(Block) /\ Head(q) = q[1]
      /\ Len(Tail(q)) = Len(q) - 1 /\ Len(q) \in Nat /\ Len(q) > 0
      /\ \A i \in 1..(Len(q) - 1) : Tail(q)[i] = q[i + 1]
  OBVIOUS
<1>2. CASE z = Tail(q)
  <2>1. Len(z) = Len(q) - 1 + 0
    BY <1>1, <1>2
  <2>2. \A i \in 1..Len(z) : i + 1 - 0 \in 1..Len(q) /\ (i > 0 => z[i] = q[i + 1 - 0])
    BY <1>1, <1>2
  <2> WITNESS 0 \in {0, 1}
  <2> QED
    BY <1>1, <2>1, <2>2
<1>3. CASE z = <<[Head(q) EXCEPT !.rooms = @ \ {r}]>> \o Tail(q)
  <2> DEFINE b == [Head(q) EXCEPT !.rooms = @ \ {r}]
  <2>1. b \in Block /\ b.op = q[1].op /\ b.rooms = q[1].rooms \ {r} /\ b.snap = q[1].snap
    BY <1>1 DEF Block
  <2> HIDE DEF b
  <2>2. z = <<b>> \o Tail(q)
    BY <1>3 DEF b
  <2>3. Len(z) = Len(q) /\ z[1] = b /\ \A i \in 2..Len(q) : z[i] = q[i]
    BY <1>1, <2>1, <2>2
  <2>4. Len(z) = Len(q) - 1 + 1
    BY <1>1, <2>3
  <2>5. \A i \in 1..Len(z) : i + 1 - 1 \in 1..Len(q) /\ (i > 1 => z[i] = q[i + 1 - 1])
    BY <1>1, <2>3
  <2> QED
    BY <1>1, <2>1, <2>3, <2>4, <2>5
<1> QED
  BY <1>2, <1>3 DEF Lessened

LEMMA FreeLess ==
    ASSUME NEW q \in Seq(Block), q # <<>>, NEW z, NEW x, Lessened(q, z, x),
           NEW r, NEW op, Free(q, r, op)
    PROVE  Free(z, r, op)
<1>1. PICK k \in {0, 1} :
             /\ Len(z) = Len(q) - 1 + k /\ Len(q) \in Nat /\ Len(q) > 0
             /\ \A i \in 1..Len(z) : i + 1 - k \in 1..Len(q) /\ (i > k => z[i] = q[i + 1 - k])
             /\ k = 1 => z[1].op = q[1].op /\ z[1].rooms = q[1].rooms \ {x} /\ z[1].snap = q[1].snap
  BY TailOrHead
<1> SUFFICES ASSUME NEW i \in 1..Len(z) PROVE ~Does(z, i, r, op)
  BY DEF Free
<1>2. CASE i > k
  BY <1>1, <1>2 DEF Free, Does
<1>3. CASE ~(i > k)
  <2>1. k = 1 /\ i = 1 /\ 1 \in 1..Len(q)
    BY <1>1, <1>3
  <2> QED
    BY <1>1, <2>1 DEF Free, Does
<1> QED
  BY <1>2, <1>3

\* After a step of the first block, for x, what q saves is saved by z, or the
\* step was the one that did it.
LEMMA SavesLess ==
    ASSUME NEW q \in Seq(Block), q # <<>>, NEW z, NEW x, Lessened(q, z, x),
           NEW r, NEW op, z = Tail(q) /\ Head(q).op = op => Head(q).rooms \subseteq {x},
           NEW d, Saves(q, r, op, d)
    PROVE  \/ Saves(z, r, op, d)
           \/ /\ x = r /\ Head(q).op = op /\ (op = "state" => Head(q).snap[r] = d)
              /\ Free(z, r, "deletion") /\ Free(z, r, op)
<1>1. PICK k \in {0, 1} :
             /\ Len(z) = Len(q) - 1 + k /\ Len(q) \in Nat /\ Len(q) > 0
             /\ \A i \in 1..Len(z) : i + 1 - k \in 1..Len(q) /\ (i > k => z[i] = q[i + 1 - k])
             /\ k = 1 => z[1].op = q[1].op /\ z[1].rooms = q[1].rooms \ {x} /\ z[1].snap = q[1].snap
  BY TailOrHead
<1>2. PICK i \in 1..Len(q) :
        /\ Does(q, i, r, op)
        /\ op = "state" => q[i].snap[r] = d
        /\ \A j \in 1..Len(q) : j > i => ~Does(q, j, r, "deletion") /\ ~Does(q, j, r, op)
  BY DEF Saves
<1>3. Head(q) = q[1] /\ Len(q) \in Nat
  OBVIOUS
<1>8. k = 0 => z = Tail(q)
  <2>1. ASSUME z = <<[Head(q) EXCEPT !.rooms = @ \ {x}]>> \o Tail(q) PROVE Len(z) = Len(q)
    <3>1. \A b : Len(<<b>> \o Tail(q)) = Len(q)
      OBVIOUS
    <3> QED
      BY <2>1, <3>1
  <2> QED
    BY <1>1, <2>1 DEF Lessened
<1>4. ASSUME NEW j \in 1..Len(z), j > i - 1 + k
      PROVE  ~Does(z, j, r, "deletion") /\ ~Does(z, j, r, op)
  <2>1. j + 1 - k \in 1..Len(q) /\ j + 1 - k > i /\ j > k
    BY <1>1, <1>4
  <2> QED
    BY <1>1, <1>2, <2>1 DEF Does
<1>5. CASE i > 1
  <2> DEFINE n == i - 1 + k
  <2>1. n \in 1..Len(z) /\ n > k /\ n + 1 - k = i
    BY <1>1, <1>5
  <2>2. z[n] = q[i]
    BY <1>1, <2>1
  <2> HIDE DEF n
  <2> QED
    BY <1>2, <1>4, <2>1, <2>2 DEF Saves, Does, n
<1>6. CASE i = 1 /\ x = r
  <2>1. ASSUME NEW j \in 1..Len(z), j > k
        PROVE  ~Does(z, j, r, "deletion") /\ ~Does(z, j, r, op)
    BY <1>1, <1>4, <1>6, <2>1
  <2>2. ASSUME NEW j \in 1..Len(z), ~(j > k)
        PROVE  ~Does(z, j, r, "deletion") /\ ~Does(z, j, r, op)
    <3>1. k = 1 /\ j = 1
      BY <1>1, <2>2
    <3> QED
      BY <1>1, <1>6, <3>1 DEF Does
  <2>3. Free(z, r, "deletion") /\ Free(z, r, op)
    BY <2>1, <2>2 DEF Free
  <2> QED
    BY <1>2, <1>3, <1>6, <2>3 DEF Does
<1>7. CASE i = 1 /\ x # r
  <2>1. k = 1
    <3>1. r \in Head(q).rooms /\ Head(q).op = op
      BY <1>2, <1>3, <1>7 DEF Does
    <3> QED
      BY <1>1, <1>8, <1>7, <3>1
  <2>2. 1 \in 1..Len(z) /\ Does(z, 1, r, op) /\ (op = "state" => z[1].snap[r] = d)
    BY <1>1, <1>2, <1>7, <2>1 DEF Does
  <2>3. \A j \in 1..Len(z) : j > 1 => ~Does(z, j, r, "deletion") /\ ~Does(z, j, r, op)
    BY <1>4, <1>7, <2>1
  <2> QED
    BY <2>2, <2>3 DEF Saves
<1> QED
  BY <1>5, <1>6, <1>7

\* A metadata block that waits in the queue goes on waiting, or is the next.
LEMMA MetaLess ==
    ASSUME NEW q \in Seq(Block), q # <<>>, NEW z \in Seq(Block), NEW x, Lessened(q, z, x),
           NEW i \in 2..Len(q), q[i].op = "meta"
    PROVE  \/ \E j \in 2..Len(z) : z[j].op = "meta"
           \/ z # <<>> /\ Head(z).op = "meta"
<1>1. PICK k \in {0, 1} :
             /\ Len(z) = Len(q) - 1 + k /\ Len(q) \in Nat /\ Len(q) > 0
             /\ \A n \in 1..Len(z) : n + 1 - k \in 1..Len(q) /\ (n > k => z[n] = q[n + 1 - k])
  BY TailOrHead
<1> DEFINE n == i - 1 + k
<1>2. n \in 1..Len(z) /\ n > k /\ n + 1 - k = i
  BY <1>1
<1>3. z[n].op = "meta"
  BY <1>1, <1>2
<1> HIDE DEF n
<1>4. CASE n = 1
  BY <1>2, <1>3, <1>4
<1>5. CASE n # 1
  BY <1>2, <1>3, <1>5
<1> QED
  BY <1>4, <1>5

LEMMA DoneLess ==
    ASSUME TypeOK, queue # <<>>, NEW x, RoomDone(x)
    PROVE  /\ Lessened(queue, queue', x)
           /\ queue' = Tail(queue) => Head(queue).rooms \subseteq {x}
<1>1. queue \in Seq(Block)
  BY DEF TypeOK
<1>2. ASSUME Head(queue).rooms # {x} PROVE queue' # Tail(queue)
  <2> DEFINE b == [Head(queue) EXCEPT !.rooms = @ \ {x}]
  <2>1. queue' = <<b>> \o Tail(queue)
    BY <1>2 DEF RoomDone
  <2> HIDE DEF b
  <2>2. Len(<<b>> \o Tail(queue)) # Len(Tail(queue))
    BY <1>1
  <2> QED
    BY <2>1, <2>2
<1> QED
  BY <1>2 DEF RoomDone, Lessened

\* The block at the head handles a room: what it saves is then in the file.
Frame == UNCHANGED <<phase, token, roomStores, events, roomState, toDeletion, toMessages,
                     toState, metaDataHasChanged>>

LEMMA RoomStep ==
    ASSUME TypeOK, queue # <<>>, NEW x \in Head(queue).rooms, RoomDone(x), Frame,
           Head(queue).op \in {"deletion", "messages", "state"},
           NEW r \in Room, NEW op \in RoomData, SavedOnce(r, op),
           r = x => Head(queue).op \in {"deletion", op} \/ file'[<<r, op>>] = file[<<r, op>>],
           r # x => file'[<<r, op>>] = file[<<r, op>>],
           r = x /\ Head(queue).op = op =>
             file'[<<r, op>>] = Whole(IF op = "messages" THEN events[r] ELSE Head(queue).snap[r])
    PROVE  SavedOnce(r, op)'
<1> DEFINE d == InMemory(r, op)
<1>1. queue \in Seq(Block) /\ Head(queue) = queue[1] /\ 1 \in 1..Len(queue)
  BY DEF TypeOK
<1>2. d' = d /\ (Due(r, op))' = Due(r, op) /\ toDeletion' = toDeletion
  BY DEF Frame, InMemory, Due
<1>3. Lessened(queue, queue', x) /\ (queue' = Tail(queue) => Head(queue).rooms \subseteq {x})
  BY DoneLess
<1> HIDE DEF d
<1>4. CASE Due(r, op)
  BY <1>2, <1>4 DEF SavedOnce
<1>5. CASE r \notin toDeletion /\ Saves(queue, r, op, d)
  <2>1. CASE Saves(queue', r, op, d)
    BY <1>2, <1>5, <2>1 DEF SavedOnce, d
  <2>2. CASE /\ x = r /\ Head(queue).op = op /\ (op = "state" => Head(queue).snap[r] = d)
             /\ Free(queue', r, "deletion") /\ Free(queue', r, op)
    <3>1. file'[<<r, op>>] = Whole(d)
      BY <2>2 DEF d, InMemory, RoomData
    <3> QED
      BY <1>2, <1>5, <2>2, <3>1 DEF SavedOnce, d
  <2> QED
    BY <1>1, <1>3, <1>5, <2>1, <2>2, SavesLess
<1>6. CASE /\ r \notin toDeletion /\ Free(queue, r, "deletion") /\ Free(queue, r, op)
           /\ file[<<r, op>>] = Whole(d)
  <2>1. ~(r = x /\ Head(queue).op \in {"deletion", op})
    BY <1>1, <1>6 DEF Free, Does
  <2>2. Free(queue', r, "deletion") /\ Free(queue', r, op)
    BY <1>1, <1>3, <1>6, FreeLess
  <2>3. file'[<<r, op>>] = file[<<r, op>>]
    BY <2>1
  <2> QED
    BY <1>2, <1>6, <2>2, <2>3 DEF SavedOnce, d
<1> QED
  BY <1>4, <1>5, <1>6 DEF SavedOnce, d

\* A block that is not about rooms ends.
LEMMA EndStep ==
    ASSUME TypeOK, queue # <<>>, queue' = Tail(queue), Frame,
           Head(queue).op \in {"meta", "cleanup"},
           NEW r \in Room, NEW op \in RoomData, SavedOnce(r, op),
           file'[<<r, op>>] = file[<<r, op>>]
    PROVE  SavedOnce(r, op)'
<1> DEFINE d == InMemory(r, op)
<1>1. queue \in Seq(Block) /\ Lessened(queue, queue', NoRoom)
  BY DEF TypeOK, Lessened
<1>2. d' = d /\ (Due(r, op))' = Due(r, op) /\ toDeletion' = toDeletion
  BY DEF Frame, InMemory, Due
<1>3. Head(queue).op # op
  BY DEF RoomData
<1> HIDE DEF d
<1>4. Saves(queue, r, op, d) => Saves(queue', r, op, d)
  BY <1>1, <1>3, SavesLess
<1>5. \A o : Free(queue, r, o) => Free(queue', r, o)
  BY <1>1, FreeLess
<1> QED
  BY <1>2, <1>4, <1>5 DEF SavedOnce, d

\* A step leaves the queue and the memory alone, and touches no file but one
\* that the first block saves.
LEMMA FileStep ==
    ASSUME TypeOK, queue' = queue, Frame,
           NEW r \in Room, NEW op \in RoomData, SavedOnce(r, op),
           \/ file'[<<r, op>>] = file[<<r, op>>]
           \/ queue # <<>> /\ Head(queue).op = op /\ r \in Head(queue).rooms
    PROVE  SavedOnce(r, op)'
<1> DEFINE d == InMemory(r, op)
<1>1. queue \in Seq(Block) /\ (queue # <<>> => Head(queue) = queue[1] /\ 1 \in 1..Len(queue))
  BY DEF TypeOK
<1>2. d' = d /\ (Due(r, op))' = Due(r, op) /\ toDeletion' = toDeletion
  BY DEF Frame, InMemory, Due
<1>3. ~Free(queue, r, op) \/ file'[<<r, op>>] = file[<<r, op>>]
  BY <1>1 DEF Free, Does
<1> HIDE DEF d
<1> QED
  BY <1>2, <1>3 DEF SavedOnce, d

LEMMA MetaStep ==
    ASSUME TypeOK, queue # <<>>, Head(queue).op # "meta", step' = "start", MetaSaved,
           NEW x, Lessened(queue, queue', x), queue' \in Seq(Block),
           UNCHANGED <<metaDataHasChanged, token>>, file'[MetaFile] = file[MetaFile]
    PROVE  MetaSaved'
<1>1. queue \in Seq(Block)
  BY DEF TypeOK
<1>2. CASE \E i \in 2..Len(queue) : queue[i].op = "meta"
  <2>1. \/ \E j \in 2..Len(queue') : queue'[j].op = "meta"
        \/ queue' # <<>> /\ Head(queue').op = "meta"
    BY <1>1, <1>2, MetaLess
  <2> QED
    BY <2>1 DEF MetaSaved
<1> QED
  BY <1>2 DEF MetaSaved
-----------------------------------------------------------------------------
(***************************************************************************)
(* The steps of dispatchQueue.                                             *)
(***************************************************************************)
\* A block that saves rooms is done with the room x.
LEMMA DoneDurable ==
    ASSUME TypeInv, DurableInv, Frame, phase \in {"open", "closing"}, queue # <<>>,
           Head(queue).op \in {"deletion", "messages", "state"}, step' = "start",
           NEW x \in Room, x \in Head(queue).rooms, RoomDone(x),
           file'[MetaFile] = file[MetaFile],
           \A r \in Room, op \in RoomData :
             /\ r # x => file'[<<r, op>>] = file[<<r, op>>]
             /\ r = x => Head(queue).op \in {"deletion", op} \/ file'[<<r, op>>] = file[<<r, op>>]
             /\ r = x /\ Head(queue).op = op /\ Loads(r, op) =>
                  file'[<<r, op>>] = Whole(IF op = "messages" THEN events[r]
                                           ELSE Head(queue).snap[r])
    PROVE  DurableInv'
<1>1. TypeOK /\ queue \in Seq(Block)
  BY DEF TypeInv, TypeOK
<1>2. Lessened(queue, queue', x) /\ queue' \in Seq(Block)
  BY <1>1, DoneLess, RoomDoneType
<1>3. ASSUME phase = "open" PROVE MetaSaved'
  BY <1>1, <1>2, <1>3, MetaStep DEF DurableInv, Frame
<1>4. ASSUME phase = "open", NEW r \in Room, NEW op \in RoomData, Loads(r, op)'
      PROVE  SavedOnce(r, op)'
  <2>1. Loads(r, op) /\ SavedOnce(r, op)
    BY <1>4 DEF Loads, Frame, DurableInv
  <2>2. /\ r # x => file'[<<r, op>>] = file[<<r, op>>]
        /\ r = x => Head(queue).op \in {"deletion", op} \/ file'[<<r, op>>] = file[<<r, op>>]
        /\ r = x /\ Head(queue).op = op =>
             file'[<<r, op>>] = Whole(IF op = "messages" THEN events[r]
                                      ELSE Head(queue).snap[r])
    BY <2>1
  <2> QED
    BY <1>1, <2>1, <2>2, RoomStep
<1>5. Replaces'
  BY DEF Replaces
<1>6. NotLoaded'
  BY DEF NotLoaded, Frame
<1> QED
  BY <1>3, <1>4, <1>5, <1>6 DEF DurableInv, Frame

\* The first block goes on, and at most the file that it replaces changes.
LEMMA FileDurable ==
    ASSUME TypeInv, DurableInv, Frame, phase \in {"open", "closing"}, queue # <<>>,
           queue' = queue, Head(queue).op # "meta", Replaces',
           file'[MetaFile] = file[MetaFile],
           \A r \in Room, op \in RoomData :
             \/ file'[<<r, op>>] = file[<<r, op>>]
             \/ Head(queue).op = op /\ r \in Head(queue).rooms
    PROVE  DurableInv'
<1>1. TypeOK
  BY DEF TypeInv
<1>2. ASSUME phase = "open" PROVE MetaSaved'
  BY <1>2 DEF DurableInv, Frame, MetaSaved
<1>3. ASSUME phase = "open", NEW r \in Room, NEW op \in RoomData, Loads(r, op)'
      PROVE  SavedOnce(r, op)'
  <2>1. SavedOnce(r, op)
    BY <1>3 DEF Loads, Frame, DurableInv
  <2> QED
    BY <1>1, <2>1, FileStep
<1>4. NotLoaded'
  BY DEF NotLoaded, Frame
<1> QED
  BY <1>2, <1>3, <1>4 DEF DurableInv, Frame

\* A file that is moved is one of those that are asked for.
LEMMA MovedFiles ==
    ASSUME TypeOK, NEW files, MoveToBackup(files), NEW f \in File, f \notin files
    PROVE  file'[f] = file[f]
BY DEF MoveToBackup

LEMMA RoomsDurable ==
    ASSUME TypeInv, DurableInv, NEW x \in Room,
           SaveDeletion(x) \/ SkipMessages(x) \/ BackupMessages(x) \/ BackupState(x)
    PROVE  DurableInv'
<1>1. TypeOK /\ InFile /\ Frame /\ phase \in {"open", "closing"} /\ queue # <<>>
      /\ Head(queue).op \in {"deletion", "messages", "state"} /\ x \in Head(queue).rooms
  BY DEF TypeInv, SaveDeletion, SkipMessages, BackupMessages, BackupState, Running,
         Frame, mainVars, dirtyVars
<1>2. MetaFile \in File /\ \A r \in Room, op \in RoomData : <<r, op>> \in File /\ <<r, op>> # MetaFile
  BY FileType, RoomFileNotMeta DEF RoomData
<1>3. CASE SaveDeletion(x)
  <2>1. Head(queue).op = "deletion" /\ RoomDone(x) /\ step' = step
        /\ MoveToBackup({<<x, "messages">>, <<x, "state">>})
    BY <1>3 DEF SaveDeletion, Running
  <2>2. step' = "start"
    BY <1>1, <2>1 DEF InFile
  <2>3. \A f \in File : f \notin {<<x, "messages">>, <<x, "state">>} => file'[f] = file[f]
    BY <1>1, <2>1, MovedFiles
  <2>4. file'[MetaFile] = file[MetaFile]
    BY <1>2, <2>3 DEF RoomData
  <2>5. \A r \in Room, op \in RoomData : r # x => file'[<<r, op>>] = file[<<r, op>>]
    BY <1>2, <2>3
  <2>6. \A op \in RoomData : op # "deletion"
    BY DEF RoomData
  <2> QED
    BY <1>1, <2>1, <2>2, <2>4, <2>5, <2>6, DoneDurable
<1>4. CASE SkipMessages(x)
  <2>1. Head(queue).op = "messages" /\ RoomDone(x) /\ step' = "start" /\ file' = file
        /\ x \notin roomStores
    BY <1>4 DEF SkipMessages, Running, diskVars
  <2>2. \A op \in RoomData : "messages" = op => ~Loads(x, op)
    BY <2>1 DEF Loads
  <2> QED
    BY <1>1, <2>1, <2>2, DoneDurable
<1>5. ASSUME NEW o \in RoomData, Head(queue).op = o, queue' = queue, cur' = x,
             step' = "moved", MoveToBackup({<<x, o>>})
      PROVE  DurableInv'
  <2>1. \A f \in File : f # <<x, o>> => file'[f] = file[f]
    BY <1>1, <1>5, MovedFiles
  <2>2. file'[MetaFile] = file[MetaFile]
    BY <1>2, <2>1
  <2>3. \A r \in Room, op \in RoomData :
             \/ file'[<<r, op>>] = file[<<r, op>>]
             \/ Head(queue).op = op /\ r \in Head(queue).rooms
    BY <1>1, <1>2, <1>5, <2>1
  <2>4. Replaces'
    BY <1>1, <1>5 DEF Replaces
  <2>5. Head(queue).op # "meta"
    BY <1>1
  <2> QED
    BY <1>1, <1>5, <2>2, <2>3, <2>4, <2>5, FileDurable
<1>6. CASE BackupMessages(x)
  BY <1>5, <1>6 DEF BackupMessages, Running, RoomData
<1>7. CASE BackupState(x)
  BY <1>5, <1>7 DEF BackupState, Running, RoomData
<1> QED
  BY <1>3, <1>4, <1>6, <1>7

LEMMA WritesDurable ==
    ASSUME TypeInv, DurableInv, WriteMessages \/ BeginState \/ EndState
    PROVE  DurableInv'
<1>1. TypeOK /\ InFile /\ Replaces /\ Frame /\ phase \in {"open", "closing"} /\ queue # <<>>
      /\ Head(queue).op \in {"messages", "state"} /\ step # "start"
      /\ file \in [File -> Content]
  BY DEF TypeInv, TypeOK, DurableInv, WriteMessages, BeginState, EndState, Running,
         Frame, mainVars, dirtyVars
<1>2. cur \in Room /\ cur \in Head(queue).rooms
  BY <1>1 DEF InFile, Replaces
<1>3. MetaFile \in File /\ \A r \in Room, op \in RoomData : <<r, op>> \in File /\ <<r, op>> # MetaFile
  BY FileType, RoomFileNotMeta DEF RoomData
<1>4. ASSUME NEW o \in RoomData, Head(queue).op = o, RoomDone(cur), step' = "start",
             file' = [file EXCEPT ![<<cur, o>>] =
                        Whole(IF o = "messages" THEN events[cur] ELSE Head(queue).snap[cur])]
      PROVE  DurableInv'
  <2>1. file'[MetaFile] = file[MetaFile]
    BY <1>1, <1>2, <1>3, <1>4
  <2>2. \A r \in Room, op \in RoomData :
          r # cur \/ op # o => file'[<<r, op>>] = file[<<r, op>>]
    BY <1>1, <1>2, <1>3, <1>4
  <2>3. file'[<<cur, o>>] = Whole(IF o = "messages" THEN events[cur] ELSE Head(queue).snap[cur])
    BY <1>1, <1>2, <1>3, <1>4
  <2> QED
    BY <1>1, <1>2, <1>4, <2>1, <2>2, <2>3, DoneDurable
<1>5. CASE WriteMessages
  BY <1>4, <1>5 DEF WriteMessages, Running, RoomData
<1>6. CASE BeginState
  <2>1. Head(queue).op = "state" /\ queue' = queue /\ cur' = cur /\ step' = "torn"
        /\ file' = [file EXCEPT ![<<cur, "state">>] = Torn(Head(queue).snap[cur])]
    BY <1>6 DEF BeginState, Running
  <2>2. file'[MetaFile] = file[MetaFile] /\ file'[<<cur, "state">>] = Torn(Head(queue).snap[cur])
    BY <1>1, <1>2, <1>3, <2>1 DEF RoomData
  <2>3. \A r \in Room, op \in RoomData :
             \/ file'[<<r, op>>] = file[<<r, op>>]
             \/ Head(queue).op = op /\ r \in Head(queue).rooms
    BY <1>1, <1>2, <1>3, <2>1
  <2>4. Replaces'
    BY <1>2, <2>1, <2>2 DEF Replaces
  <2> QED
    BY <1>1, <2>1, <2>2, <2>3, <2>4, FileDurable
<1>7. CASE EndState
  <2>1. Head(queue).op = "state" /\ step = "torn" /\ RoomDone(cur) /\ step' = "start"
        /\ file' = [file EXCEPT ![<<cur, "state">>] = Whole(file[<<cur, "state">>].data)]
    BY <1>7 DEF EndState, Running
  <2>2. file[<<cur, "state">>].data = Head(queue).snap[cur]
    BY <1>1, <2>1 DEF Replaces, Torn
  <2> QED
    BY <1>4, <2>1, <2>2 DEF RoomData
<1> QED
  BY <1>5, <1>6, <1>7

\* The blocks that save no room.
LEMMA OthersDurable ==
    ASSUME TypeInv, DurableInv, BackupMeta \/ BeginMeta \/ EndMeta \/ CommitEnd
    PROVE  DurableInv'
<1>1. TypeOK /\ InFile /\ Frame /\ phase \in {"open", "closing"} /\ queue # <<>>
      /\ Head(queue).op \in {"meta", "cleanup"} /\ queue \in Seq(Block)
      /\ file \in [File -> Content]
  BY DEF TypeInv, TypeOK, BackupMeta, BeginMeta, EndMeta, CommitEnd, Running,
         Frame, mainVars, dirtyVars
<1>2. MetaFile \in File /\ \A r \in Room, op \in RoomData : <<r, op>> \in File /\ <<r, op>> # MetaFile
  BY FileType, RoomFileNotMeta DEF RoomData
<1>3. \A f \in File : f # MetaFile => file'[f] = file[f]
  <2>1. CASE BackupMeta
    BY <1>1, <2>1, MovedFiles DEF BackupMeta
  <2>2. CASE BeginMeta \/ EndMeta \/ CommitEnd
    BY <1>1, <2>2 DEF BeginMeta, EndMeta, CommitEnd, diskVars
  <2> QED
    BY <2>1, <2>2
<1>4. ASSUME phase = "open", NEW r \in Room, NEW op \in RoomData, Loads(r, op)'
      PROVE  SavedOnce(r, op)'
  <2>1. SavedOnce(r, op)
    BY <1>4, <1>1 DEF Loads, Frame, DurableInv
  <2>2. file'[<<r, op>>] = file[<<r, op>>]
    BY <1>2, <1>3
  <2>3. CASE BackupMeta \/ BeginMeta
    BY <1>1, <2>1, <2>2, <2>3, FileStep DEF BackupMeta, BeginMeta
  <2>4. CASE EndMeta \/ CommitEnd
    BY <1>1, <2>1, <2>2, <2>4, EndStep DEF EndMeta, CommitEnd
  <2> QED
    BY <2>3, <2>4
<1>5. ASSUME phase = "open" PROVE MetaSaved'
  <2>1. MetaSaved
    BY <1>5 DEF DurableInv
  <2>2. CASE BackupMeta
    BY <1>1, <2>2 DEF BackupMeta, MetaSaved, Running
  <2>3. CASE BeginMeta
    <3>1. file'[MetaFile] = Torn(token)
      BY <1>1, <1>2, <2>3 DEF BeginMeta
    <3> QED
      BY <1>1, <2>3, <3>1 DEF BeginMeta, MetaSaved, Running, Frame
  <2>4. CASE EndMeta
    <3>1. /\ queue' = Tail(queue) /\ step = "torn" /\ step' = "start"
          /\ Head(queue).op = "meta" /\ file'[MetaFile] = Whole(file[MetaFile].data)
      BY <1>1, <1>2, <2>4 DEF EndMeta, Running
    <3>2. Lessened(queue, queue', NoRoom) /\ queue' \in Seq(Block)
      BY <1>1, <3>1 DEF Lessened
    <3>3. CASE \E i \in 2..Len(queue) : queue[i].op = "meta"
      <4>1. \/ \E j \in 2..Len(queue') : queue'[j].op = "meta"
            \/ queue' # <<>> /\ Head(queue').op = "meta"
        BY <1>1, <3>2, <3>3, MetaLess
      <4> QED
        BY <3>1, <4>1 DEF MetaSaved
    <3>4. CASE file[MetaFile] = Torn(token) \/ file[MetaFile] = Whole(token)
      BY <1>1, <3>1, <3>4 DEF MetaSaved, Frame, Torn, Whole
    <3>5. CASE metaDataHasChanged
      BY <1>1, <3>5 DEF MetaSaved, Frame
    <3> QED
      BY <2>1, <3>1, <3>3, <3>4, <3>5 DEF MetaSaved
  <2>5. CASE CommitEnd
    <3>1. /\ queue' = Tail(queue) /\ step' = step /\ file' = file /\ Head(queue).op = "cleanup"
      BY <2>5 DEF CommitEnd, Running, diskVars
    <3>2. Lessened(queue, queue', NoRoom) /\ queue' \in Seq(Block)
      BY <1>1, <3>1 DEF Lessened
    <3>3. step' = "start" /\ Head(queue).op # "meta"
      BY <1>1, <3>1 DEF InFile
    <3> QED
      BY <1>1, <2>1, <3>1, <3>2, <3>3, MetaStep DEF Frame
  <2> QED
    BY <2>2, <2>3, <2>4, <2>5
<1>6. Replaces'
  <2>1. CASE BackupMeta \/ BeginMeta
    BY <2>1 DEF BackupMeta, BeginMeta, Running, Replaces
  <2>2. CASE EndMeta
    BY <2>2 DEF EndMeta, Replaces
  <2>3. CASE CommitEnd
    BY <1>1, <2>3 DEF CommitEnd, Running, InFile, Replaces
  <2> QED
    BY <2>1, <2>2, <2>3
<1>7. NotLoaded'
  BY <1>1 DEF NotLoaded, Frame
<1> QED
  BY <1>1, <1>4, <1>5, <1>6, <1>7 DEF DurableInv, Frame
-----------------------------------------------------------------------------
(***************************************************************************)
(* The steps of the main thread.                                           *)
(***************************************************************************)
\* The blocks that a commit queues, for one room and one kind of data.
LEMMA RoomsBlockFree ==
    ASSUME NEW o \in Op, NEW rooms \in SUBSET Room, NEW snap, NEW r, NEW op,
           op # o \/ r \notin rooms
    PROVE  Free(RoomsBlock(o, rooms, snap), r, op)
<1> DEFINE b == [op |-> o, rooms |-> rooms, snap |-> snap]
<1>1. CASE rooms = {}
  BY <1>1 DEF RoomsBlock, Free
<1>2. CASE rooms # {}
  <2>1. RoomsBlock(o, rooms, snap) = <<b>>
    BY <1>2 DEF RoomsBlock
  <2>2. Len(<<b>>) = 1 /\ <<b>>[1] = b
    OBVIOUS
  <2>3. b.op = o /\ b.rooms = rooms
    OBVIOUS
  <2> HIDE DEF b
  <2>4. \A i \in 1..Len(<<b>>) : i = 1
    BY <2>2
  <2> QED
    BY <2>1, <2>2, <2>3, <2>4 DEF Free, Does
<1> QED
  BY <1>1, <1>2

LEMMA RoomsBlockSaves ==
    ASSUME NEW o \in RoomData, NEW rooms \in SUBSET Room,
           NEW snap \in [Room -> SUBSET Position], NEW r \in rooms,
           NEW d, o = "state" => snap[r] = d
    PROVE  Saves(RoomsBlock(o, rooms, snap), r, o, d)
<1> DEFINE b == [op |-> o, rooms |-> rooms, snap |-> snap]
<1>1. RoomsBlock(o, rooms, snap) = <<b>>
  BY DEF RoomsBlock
<1>2. Len(<<b>>) = 1 /\ <<b>>[1] = b
  OBVIOUS
<1>3. b.op = o /\ b.rooms = rooms /\ b.snap = snap
  OBVIOUS
<1> HIDE DEF b
<1>4. 1 \in 1..Len(<<b>>) /\ \A i \in 1..Len(<<b>>) : i = 1
  BY <1>2
<1>5. Does(<<b>>, 1, r, o) /\ (o = "state" => <<b>>[1].snap[r] = d)
  BY <1>2, <1>3 DEF Does
<1>6. Saves(<<b>>, r, o, d)
  BY <1>4, <1>5 DEF Saves
<1> QED
  BY <1>1, <1>6

Queued(m) == SaveDataToFiles(m) \o <<CleanupBlock>>

HasMeta(q) == \E i \in 1..Len(q) : q[i].op = "meta"

LEMMA MetaIn ==
    ASSUME NEW p \in Seq(Block), NEW c \in Seq(Block)
    PROVE  HasMeta((p \o <<MetaBlock>>) \o c)
<1>1. MetaBlock \in Block /\ MetaBlock.op = "meta"
  BY EndBlocks DEF MetaBlock
<1>2. ASSUME NEW e \in Block
      PROVE  /\ Len(p) + 1 \in 1..Len((p \o <<e>>) \o c)
             /\ ((p \o <<e>>) \o c)[Len(p) + 1] = e
  OBVIOUS
<1> QED
  BY <1>1, <1>2 DEF HasMeta

\* What a commit queues: it is free of what is not marked, and saves what is.
LEMMA CommitBlocks ==
    ASSUME TypeOK, NEW m \in BOOLEAN
    PROVE  /\ \A r \in Room :
                /\ r \notin toDeletion => Free(Queued(m), r, "deletion")
                /\ \A op \in RoomData :
                     /\ ~Due(r, op) => Free(Queued(m), r, op)
                     /\ Due(r, op) => Saves(Queued(m), r, op, InMemory(r, op))
           /\ m => HasMeta(Queued(m))
<1> DEFINE d == RoomsBlock("deletion", toDeletion, NoSnap)
           g == RoomsBlock("messages", toMessages, NoSnap)
           t == RoomsBlock("state", toState, roomState)
           b == IF m THEN <<MetaBlock>> ELSE <<>>
           c == <<CleanupBlock>>
<1>1. /\ NoSnap \in [Room -> SUBSET Position] /\ roomState \in [Room -> SUBSET Position]
      /\ toDeletion \in SUBSET Room /\ toMessages \in SUBSET Room /\ toState \in SUBSET Room
  BY DEF NoSnap, TypeOK
<1>2. d \in Seq(Block) /\ g \in Seq(Block) /\ t \in Seq(Block)
  <2>1. {"deletion", "messages", "state"} \subseteq Op \ {"meta", "cleanup"}
    BY DEF Op
  <2> HIDE DEF d, g, t
  <2> QED
    BY <1>1, <2>1, RoomsBlockPlain DEF d, g, t
<1>3. b \in Seq(Block) /\ c \in Seq(Block)
  BY EndBlocks
<1>4. \A r \in Room, op \in {"deletion", "messages", "state"} : Free(b, r, op) /\ Free(c, r, op)
  <2>1. MetaBlock.op = "meta" /\ CleanupBlock.op = "cleanup"
    BY DEF MetaBlock, CleanupBlock
  <2> QED
    BY <2>1 DEF Free, Does
<1>5. Queued(m) = (((d \o g) \o t) \o b) \o c
  BY DEF Queued, SaveDataToFiles
<1>6. \A x, y \in Seq(Block) : x \o y \in Seq(Block)
  OBVIOUS
<1>7. {"deletion", "messages", "state"} \subseteq Op /\ RoomData \subseteq Op
  BY DEF Op, RoomData
<1>8. ASSUME NEW r \in Room
      PROVE  /\ \A op : op # "deletion" \/ r \notin toDeletion => Free(d, r, op)
             /\ \A op : op # "messages" \/ r \notin toMessages => Free(g, r, op)
             /\ \A op : op # "state" \/ r \notin toState => Free(t, r, op)
  <2> HIDE DEF d, g, t
  <2> QED
    BY <1>1, <1>7, RoomsBlockFree DEF d, g, t
<1>9. ASSUME NEW r \in toMessages PROVE Saves(g, r, "messages", events[r])
  <2> HIDE DEF g
  <2> QED
    BY <1>1, <1>9, RoomsBlockSaves DEF g, RoomData
<1>10. ASSUME NEW r \in toState PROVE Saves(t, r, "state", roomState[r])
  <2> HIDE DEF t
  <2> QED
    BY <1>1, <1>10, RoomsBlockSaves DEF t, RoomData
<1> HIDE DEF d, g, t, b, c
<1> DEFINE u == (d \o g) \o t
           w == u \o b
<1>19. d \o g \in Seq(Block) /\ u \in Seq(Block) /\ w \in Seq(Block)
  BY <1>2, <1>3, <1>6
<1>20. Queued(m) = w \o c
  BY <1>5
<1> HIDE DEF u, w
<1>21. RoomData \subseteq {"deletion", "messages", "state"} /\ "deletion" \notin RoomData
  BY DEF RoomData
<1>11. m => HasMeta(Queued(m))
  <2>1. HasMeta((u \o <<MetaBlock>>) \o c)
    BY <1>3, <1>19, MetaIn
  <2>2. m => Queued(m) = (u \o <<MetaBlock>>) \o c
    BY <1>20 DEF w, b
  <2> QED
    BY <2>1, <2>2
<1>12. ASSUME NEW r \in Room, NEW op \in {"deletion", "messages", "state"},
              Free(d, r, op), Free(g, r, op), Free(t, r, op)
       PROVE  Free(Queued(m), r, op)
  <2>1. Free(d \o g, r, op)
    BY <1>2, <1>12, FreeConcat
  <2>2. Free(u, r, op)
    BY <1>2, <1>19, <1>12, <2>1, FreeConcat DEF u
  <2>3. Free(w, r, op)
    BY <1>3, <1>4, <1>19, <2>2, FreeConcat DEF w
  <2> QED
    BY <1>3, <1>4, <1>19, <1>20, <2>3, FreeConcat
<1>13. ASSUME NEW r \in Room, NEW op \in RoomData, NEW v, Saves(u, r, op, v)
       PROVE  Saves(Queued(m), r, op, v)
  <2>1. Saves(w, r, op, v)
    BY <1>3, <1>4, <1>19, <1>21, <1>13, SavesBefore DEF w
  <2> QED
    BY <1>3, <1>4, <1>19, <1>21, <1>20, <2>1, SavesBefore
<1>14. ASSUME NEW r \in Room, r \in toMessages PROVE Saves(Queued(m), r, "messages", events[r])
  <2>1. Saves(d \o g, r, "messages", events[r])
    BY <1>2, <1>9, <1>14, SavesBehind
  <2>2. Saves(u, r, "messages", events[r])
    BY <1>2, <1>19, <1>8, <2>1, SavesBefore DEF u
  <2> QED
    BY <1>13, <2>2 DEF RoomData
<1>15. ASSUME NEW r \in Room, r \in toState PROVE Saves(Queued(m), r, "state", roomState[r])
  <2>1. Saves(u, r, "state", roomState[r])
    BY <1>2, <1>19, <1>10, <1>15, SavesBehind DEF u
  <2> QED
    BY <1>13, <2>1 DEF RoomData
<1>16. ASSUME NEW r \in Room, NEW op \in RoomData, Due(r, op)
       PROVE  Saves(Queued(m), r, op, InMemory(r, op))
  BY <1>14, <1>15, <1>16 DEF RoomData, Due, InMemory
<1>17. ASSUME NEW r \in Room, NEW op \in RoomData, ~Due(r, op) PROVE Free(Queued(m), r, op)
  BY <1>8, <1>12, <1>17 DEF RoomData, Due
<1>18. ASSUME NEW r \in Room, r \notin toDeletion PROVE Free(Queued(m), r, "deletion")
  BY <1>8, <1>12, <1>18
<1> QED
  BY <1>11, <1>16, <1>17, <1>18

LEMMA CommitDurable ==
    ASSUME TypeInv, DurableInv, phase = "open", phase' = "open",
           NEW m \in BOOLEAN, Commit(m), m \/ (token' = token /\ ~metaDataHasChanged),
           UNCHANGED <<roomStores, events, roomState, cur, step, file>>
    PROVE  DurableInv'
<1>1. TypeOK /\ InFile /\ MetaSaved /\ Replaces /\ queue \in Seq(Block)
  BY DEF TypeInv, TypeOK, DurableInv
<1>2. NotLoaded'
  BY DEF NotLoaded
<1>3. CASE pendingCommits >= 2
  <2>1. queue' = queue /\ metaDataHasChanged' = m /\ UNCHANGED <<toDeletion, toMessages, toState>>
    BY <1>3 DEF Commit
  <2>2. MetaSaved'
    BY <1>1, <2>1 DEF MetaSaved
  <2>3. Replaces'
    BY <1>1, <2>1 DEF Replaces
  <2>4. \A r \in Room, op \in RoomData :
          (Loads(r, op))' = Loads(r, op) /\ (SavedOnce(r, op))' = SavedOnce(r, op)
    BY <2>1 DEF Loads, SavedOnce, Due, InMemory
  <2> QED
    BY <1>2, <2>2, <2>3, <2>4 DEF DurableInv
<1>4. CASE ~(pendingCommits >= 2)
  <2> DEFINE s == Queued(m)
  <2>1. /\ queue' = queue \o s /\ s \in Seq(Block)
        /\ toDeletion' = {} /\ toMessages' = {} /\ toState' = {}
    BY <1>1, <1>4, SaveDataEnds DEF Commit, Queued
  <2>2. /\ \A r \in Room :
             /\ r \notin toDeletion => Free(s, r, "deletion")
             /\ \A op \in RoomData :
                  /\ ~Due(r, op) => Free(s, r, op)
                  /\ Due(r, op) => Saves(s, r, op, InMemory(r, op))
        /\ m => HasMeta(s)
    BY <1>1, CommitBlocks
  <2> HIDE DEF s
  <2>3. /\ Len(queue') = Len(queue) + Len(s) /\ Len(queue) \in Nat /\ queue' \in Seq(Block)
        /\ \A i \in 1..Len(queue) : queue'[i] = queue[i]
        /\ \A i \in 1..Len(s) : queue'[Len(queue) + i] = s[i]
        /\ queue # <<>> => queue' # <<>> /\ Head(queue') = Head(queue)
    BY <1>1, <2>1
  <2>4. MetaSaved'
    <3>1. CASE m
      <4>1. PICK i \in 1..Len(s) : s[i].op = "meta"
        BY <2>2, <3>1 DEF HasMeta
      <4>2. queue'[Len(queue) + i].op = "meta" /\ Len(queue) + i \in 1..Len(queue')
        BY <2>3, <4>1
      <4>3. CASE Len(queue) + i > 1
        BY <2>3, <4>2, <4>3 DEF MetaSaved
      <4>4. CASE Len(queue) + i = 1
        <5>1. queue = <<>> /\ queue' # <<>> /\ Head(queue').op = "meta"
          BY <1>1, <2>3, <4>2, <4>4
        <5>2. step' = "start"
          BY <1>1, <5>1 DEF InFile
        <5> QED
          BY <5>1, <5>2 DEF MetaSaved
      <4> QED
        BY <2>3, <4>3, <4>4
    <3>2. CASE ~m
      <4>1. CASE \E i \in 2..Len(queue) : queue[i].op = "meta"
        <5>1. PICK i \in 2..Len(queue) : queue[i].op = "meta"
          BY <4>1
        <5>2. i \in 2..Len(queue') /\ queue'[i] = queue[i]
          BY <2>1, <2>3
        <5> QED
          BY <5>1, <5>2 DEF MetaSaved
      <4>2. CASE /\ queue # <<>> /\ Head(queue).op = "meta"
                 /\ step = "torn" => file[MetaFile] = Torn(token)
        BY <2>3, <3>2, <4>2 DEF MetaSaved
      <4>3. CASE file[MetaFile] = Whole(token)
        BY <3>2, <4>3 DEF MetaSaved
      <4> QED
        BY <1>1, <3>2, <4>1, <4>2, <4>3 DEF MetaSaved
    <3> QED
      BY <3>1, <3>2
  <2>5. Replaces'
    BY <1>1, <2>3 DEF Replaces, InFile
  <2>6. ASSUME NEW r \in Room, NEW op \in RoomData, Loads(r, op)' PROVE SavedOnce(r, op)'
    <3> DEFINE v == InMemory(r, op)
    <3>1. v' = v /\ SavedOnce(r, op)
      BY <2>6 DEF Loads, InMemory, DurableInv
    <3> HIDE DEF v
    <3>2. CASE Due(r, op)
      <4>1. Saves(queue', r, op, v)
        BY <1>1, <2>1, <2>2, <3>2, SavesBehind DEF v
      <4> QED
        BY <2>1, <3>1, <4>1 DEF SavedOnce, v
    <3>3. CASE ~Due(r, op) /\ r \notin toDeletion
      <4>1. Free(s, r, "deletion") /\ Free(s, r, op)
        BY <2>2, <3>3
      <4>2. Saves(queue, r, op, v) => Saves(queue', r, op, v)
        BY <1>1, <2>1, <4>1, SavesBefore
      <4>3. \A o : Free(queue, r, o) /\ Free(s, r, o) => Free(queue', r, o)
        BY <1>1, <2>1, FreeConcat
      <4> QED
        BY <2>1, <3>1, <3>3, <4>1, <4>2, <4>3 DEF SavedOnce, v
    <3> QED
      BY <3>1, <3>2, <3>3 DEF SavedOnce
  <2> QED
    BY <1>2, <2>4, <2>5, <2>6 DEF DurableInv
<1> QED
  BY <1>3, <1>4

\* The steps that change no file and queue nothing: a room whose data change is
\* marked for the next commit, one that is deleted is no longer in memory.
LEMMA MemoryDurable ==
    ASSUME DurableInv, phase = "open", phase' = "open",
           UNCHANGED <<queue, cur, step, file, token>>,
           metaDataHasChanged => metaDataHasChanged',
           \A r \in Room, op \in RoomData : Loads(r, op)' =>
             \/ Due(r, op)'
             \/ /\ Loads(r, op) /\ (Due(r, op) => Due(r, op)')
                /\ InMemory(r, op)' = InMemory(r, op)
                /\ r \notin toDeletion => r \notin toDeletion'
    PROVE  DurableInv'
<1>1. MetaSaved'
  BY DEF DurableInv, MetaSaved
<1>2. ASSUME NEW r \in Room, NEW op \in RoomData, Loads(r, op)' PROVE SavedOnce(r, op)'
  <2> DEFINE v == InMemory(r, op)
  <2>1. CASE Due(r, op)'
    BY <2>1 DEF SavedOnce
  <2>2. CASE /\ Loads(r, op) /\ (Due(r, op) => Due(r, op)') /\ v' = v
             /\ r \notin toDeletion => r \notin toDeletion'
    <3>1. SavedOnce(r, op)
      BY <2>2 DEF DurableInv
    <3> HIDE DEF v
    <3> QED
      BY <2>2, <3>1 DEF SavedOnce, v
  <2> QED
    BY <1>2, <2>1, <2>2
<1>3. Replaces'
  BY DEF DurableInv, Replaces
<1>4. NotLoaded'
  BY DEF NotLoaded
<1> QED
  BY <1>1, <1>2, <1>3, <1>4 DEF DurableInv

LEMMA MainThreadDurable == ASSUME TypeInv, DurableInv, MainThread PROVE DurableInv'
<1>1. TypeOK
  BY DEF TypeInv
<1>2. ASSUME NEW k \in 0..Len(ServerLog), BeginSync(k) PROVE DurableInv'
  BY <1>2, MemoryDurable DEF BeginSync, dirtyVars, queueVars, diskVars, Loads, Due, InMemory
<1>3. ASSUME NEW x \in Room, StoreEvents(x) \/ JoinInvitedRoom(x) PROVE DurableInv'
  <2>1. /\ phase = "open" /\ phase' = "open"
        /\ UNCHANGED <<queue, cur, step, file, token, metaDataHasChanged>>
        /\ toMessages' = toMessages \cup {x} /\ toState' = toState \cup {x}
        /\ roomStores' = roomStores \cup {x} /\ toDeletion' \subseteq toDeletion \cup {x}
    BY <1>3 DEF StoreEvents, JoinInvitedRoom, queueVars, diskVars
  <2>2. ASSUME NEW r \in Room, r # x
        PROVE  events'[r] = events[r] /\ roomState'[r] = roomState[r]
    <3>1. CASE StoreEvents(x)
      BY <1>1, <2>2, <3>1 DEF StoreEvents, TypeOK
    <3>2. CASE JoinInvitedRoom(x)
      BY <1>1, <2>2, <3>2 DEF JoinInvitedRoom, TypeOK
    <3> QED
      BY <1>3, <3>1, <3>2
  <2>3. ASSUME NEW r \in Room, NEW op \in RoomData, Loads(r, op)'
        PROVE  \/ Due(r, op)'
               \/ /\ Loads(r, op) /\ (Due(r, op) => Due(r, op)')
                  /\ InMemory(r, op)' = InMemory(r, op)
                  /\ r \notin toDeletion => r \notin toDeletion'
    <3>1. CASE r = x
      BY <2>1, <3>1 DEF Due
    <3>2. CASE r # x
      BY <2>1, <2>2, <2>3, <3>2 DEF Loads, Due, InMemory
    <3> QED
      BY <3>1, <3>2
  <2> QED
    BY <2>1, <2>3, MemoryDurable
<1>4. ASSUME NEW x \in Room, DeleteRoom(x) PROVE DurableInv'
  <2>1. /\ phase = "open" /\ phase' = "open"
        /\ UNCHANGED <<queue, cur, step, file, token, metaDataHasChanged, events>>
        /\ toMessages' = toMessages \ {x} /\ toState' = toState \ {x}
        /\ roomStores' = roomStores \ {x} /\ toDeletion' = toDeletion \cup {x}
    BY <1>4 DEF DeleteRoom, queueVars, diskVars
  <2>2. roomState'[x] = {} /\ \A r \in Room : r # x => roomState'[r] = roomState[r]
    BY <1>1, <1>4 DEF DeleteRoom, TypeOK
  <2>3. ASSUME NEW r \in Room, NEW op \in RoomData, Loads(r, op)'
        PROVE  /\ Loads(r, op) /\ (Due(r, op) => Due(r, op)')
               /\ InMemory(r, op)' = InMemory(r, op)
               /\ r \notin toDeletion => r \notin toDeletion'
    <3>1. r # x
      BY <2>1, <2>2, <2>3 DEF Loads
    <3> QED
      BY <2>1, <2>2, <2>3, <3>1 DEF Loads, Due, InMemory
  <2> QED
    BY <2>1, <2>3, MemoryDurable
<1>5. ASSUME FinishSync PROVE DurableInv'
  BY <1>5, CommitDurable DEF FinishSync, diskVars
<1>6. ASSUME AppCommit PROVE DurableInv'
  <2>1. metaDataHasChanged \in BOOLEAN
    BY <1>1 DEF TypeOK
  <2> QED
    BY <1>6, <2>1, CommitDurable DEF AppCommit, mainVars, diskVars
<1>7. ASSUME StoreNodeMetadata \/ CommitDone PROVE DurableInv'
  BY <1>7, MemoryDurable DEF StoreNodeMetadata, CommitDone, mainVars, dirtyVars, queueVars,
     diskVars, Loads, Due, InMemory
<1>8. ASSUME Close PROVE DurableInv'
  <2>1. phase' = "closing" /\ UNCHANGED <<cur, step, file>>
    BY <1>8 DEF Close, diskVars
  <2>2. metaDataHasChanged \in BOOLEAN
    BY <1>1 DEF TypeOK
  <2>3. queue # <<>> => queue' # <<>> /\ Head(queue') = Head(queue)
    BY <1>1, <1>8, <2>2, SaveDataCount DEF Close
  <2>4. step # "start" => queue # <<>>
    BY DEF TypeInv, InFile
  <2>5. Replaces'
    BY <2>1, <2>3, <2>4 DEF DurableInv, Replaces
  <2> QED
    BY <2>1, <2>5 DEF DurableInv, NotLoaded
<1> QED
  BY <1>2, <1>3, <1>4, <1>5, <1>6, <1>7, <1>8 DEF MainThread
-----------------------------------------------------------------------------
LEMMA OpeningDurable == ASSUME TypeInv, DurableInv, Opening PROVE DurableInv'
<1>1. /\ TypeOK /\ file \in [File -> Content] /\ MetaFile \in File
      /\ phase \notin {"open", "closing"} => queue = <<>> /\ step = "start"
  BY FileType DEF TypeInv, TypeOK, Counted
<1>2. ASSUME phase \notin {"open", "closing"}, phase' \notin {"open", "closing"},
             step' = step, phase' = "releasing" => file'[MetaFile] = Whole(token'),
             UNCHANGED <<roomStores, toDeletion, toMessages, toState, roomState>>
      PROVE  DurableInv'
  BY <1>1, <1>2 DEF DurableInv, NotLoaded, Replaces
<1>3. ASSUME NEW c \in Content, HasToken(c) PROVE c = Whole(c.data)
  BY <1>3 DEF HasToken, Content, Whole
<1>4. CASE OpenClean
  <2>1. HasToken(file[MetaFile]) => file[MetaFile] = Whole(file[MetaFile].data)
    BY <1>1, <1>3
  <2> QED
    BY <1>2, <1>4, <2>1 DEF OpenClean, dirtyVars, diskVars
<1>5. CASE CheckRestored
  <2>1. HasToken(file[MetaFile]) => file[MetaFile] = Whole(file[MetaFile].data)
    BY <1>1, <1>3
  <2> QED
    BY <1>2, <1>5, <2>1 DEF CheckRestored, dirtyVars, diskVars
<1>6. CASE OpenInterrupted \/ Discard
  BY <1>2, <1>6 DEF OpenInterrupted, Discard, dirtyVars, queueVars
<1>7. CASE \E f \in File : RestoreFile(f) \/ EraseFile(f)
  BY <1>2, <1>7 DEF RestoreFile, EraseFile, mainVars, dirtyVars, queueVars
<1>8. CASE EraseStore \/ \E r \in Room : EraseFolder(r)
  BY <1>2, <1>8 DEF EraseStore, EraseFolder, mainVars, dirtyVars, queueVars
<1>9. CASE Loaded
  <2>1. /\ phase = "releasing" /\ phase' = "open" /\ roomStores' = {}
        /\ queue' = <<>> /\ step' = "start" /\ UNCHANGED <<token, file>>
        /\ toDeletion' = {} /\ roomState' = [r \in Room |-> StateOf(r)]
    BY <1>1, <1>9 DEF Loaded, DurableInv, NotLoaded, dirtyVars, queueVars, diskVars
  <2>2. MetaSaved'
    BY <2>1 DEF DurableInv, NotLoaded, MetaSaved
  <2>3. ASSUME NEW r \in Room, NEW op \in RoomData, Loads(r, op)' PROVE SavedOnce(r, op)'
    <3>1. op = "state" /\ StateOf(r) # {} /\ roomState'[r] = StateOf(r)
      BY <2>1, <2>3 DEF Loads, RoomData
    <3>2. file[<<r, "state">>] \in Content /\ file[<<r, "state">>].st = "whole"
          /\ StateOf(r) = file[<<r, "state">>].data
      BY <1>1, <3>1, FileType DEF StateOf
    <3>3. file[<<r, "state">>] = Whole(StateOf(r))
      BY <3>2 DEF Content, Whole
    <3>4. Len(queue') = 0
      BY <2>1
    <3>5. \A o : Free(queue', r, o)
      BY <3>4 DEF Free
    <3> QED
      BY <2>1, <3>1, <3>3, <3>5 DEF SavedOnce, InMemory
  <2> QED
    BY <2>1, <2>2, <2>3 DEF DurableInv, Replaces, NotLoaded
<1>10. CASE NewStore
  <2>1. /\ phase = "resetting" /\ phase' = "open" /\ roomStores' = {} /\ roomState' = NoSnap
        /\ queue' = <<MetaBlock>> /\ step' = "start"
    BY <1>1, <1>10 DEF NewStore, DurableInv, NotLoaded
  <2>2. MetaSaved'
    <3>1. queue' # <<>> /\ Head(queue') = MetaBlock
      BY <2>1
    <3> QED
      BY <2>1, <3>1 DEF MetaSaved, MetaBlock
  <2>3. \A r \in Room, op \in RoomData : ~Loads(r, op)'
    BY <2>1 DEF Loads, NoSnap, RoomData
  <2> QED
    BY <2>1, <2>2, <2>3 DEF DurableInv, Replaces, NotLoaded
<1> QED
  BY <1>4, <1>5, <1>6, <1>7, <1>8, <1>9, <1>10 DEF Opening

\* A removal of the backup, or a step of nobody, changes nothing of it.
LEMMA StutterDurable ==
    ASSUME DurableInv, UNCHANGED <<mainVars, dirtyVars, queueVars, diskVars>>
    PROVE  DurableInv'
<1>1. UNCHANGED <<phase, token, roomStores, events, roomState, toDeletion, toMessages, toState,
                  metaDataHasChanged, queue, cur, step, file>>
  BY DEF mainVars, dirtyVars, queueVars, diskVars
<1>2. \A r, op : /\ (Loads(r, op))' = Loads(r, op)
                 /\ (SavedOnce(r, op))' = SavedOnce(r, op)
  BY <1>1 DEF Loads, SavedOnce, Due, InMemory
<1> QED
  BY <1>1, <1>2 DEF DurableInv, MetaSaved, Replaces, NotLoaded

LEMMA DurableInvInit == Init => DurableInv
BY DEF Init, DurableInv, Replaces, NotLoaded, NoSnap

LEMMA DurableInvNext == TypeInv /\ DurableInv /\ [Next]_vars => DurableInv'
<1> SUFFICES ASSUME TypeInv, DurableInv, [Next]_vars PROVE DurableInv'
  OBVIOUS
<1>1. CASE MainThread
  BY <1>1, MainThreadDurable
<1>2. CASE DispatchQueue
  BY <1>2, RoomsDurable, WritesDurable, OthersDurable DEF DispatchQueue
<1>3. CASE Removal
  BY <1>3, StutterDurable
  DEF Removal, RemoveBackup, RemoveSavedFile, RemoveTokenFolder, RemoveBackupFolder
<1>4. CASE Opening
  BY <1>4, OpeningDurable
<1>5. CASE Closed \/ Crash
  BY <1>5 DEF Closed, Crash, LoseMemory, DurableInv, Replaces, NotLoaded, NoSnap
<1>6. CASE UNCHANGED vars
  BY <1>6, StutterDurable DEF vars
<1> QED
  BY <1>1, <1>2, <1>3, <1>4, <1>5, <1>6 DEF Next

\* Whatever order blocks and responses ran in, and whatever crashed before, once
\* the queue is empty and nothing is marked for a commit the files say what the
\* memory says.
THEOREM SettledIsSaved == Spec => []DurableAtRest
<1>1. TypeInv /\ DurableInv => DurableAtRest
  <2> SUFFICES ASSUME TypeInv, DurableInv, Settled
               PROVE  /\ file[MetaFile] = Whole(token)
                      /\ \A r \in roomStores : file[<<r, "messages">>] = Whole(events[r])
                      /\ \A r \in Room : roomState[r] # {} => StateOf(r) = roomState[r]
    BY DEF DurableAtRest
  <2>1. /\ phase = "open" /\ Len(queue) = 0 /\ queue = <<>> /\ ~metaDataHasChanged
        /\ toMessages = {} /\ toState = {}
    BY DEF Settled
  <2>2. \A r, op, d : ~Saves(queue, r, op, d)
    BY <2>1 DEF Saves
  <2>3. \A r \in Room, op \in RoomData : Loads(r, op) => file[<<r, op>>] = Whole(InMemory(r, op))
    BY <2>1, <2>2 DEF DurableInv, SavedOnce, Due
  <2>4. file[MetaFile] = Whole(token)
    BY <2>1 DEF DurableInv, MetaSaved
  <2>5. ASSUME NEW r \in roomStores PROVE file[<<r, "messages">>] = Whole(events[r])
    <3>1. r \in Room
      BY DEF TypeInv, TypeOK
    <3> QED
      BY <2>3, <3>1 DEF RoomData, Loads, InMemory
  <2>6. ASSUME NEW r \in Room, roomState[r] # {} PROVE StateOf(r) = roomState[r]
    <3>1. file[<<r, "state">>] = Whole(roomState[r])
      BY <2>3, <2>6 DEF RoomData, Loads, InMemory
    <3> QED
      BY <3>1 DEF StateOf, Whole
  <2> QED
    BY <2>4, <2>5, <2>6
<1> QED
  BY <1>1, TypeInvInit, TypeInvNext, DurableInvInit, DurableInvNext, PTL DEF Spec
-----------------------------------------------------------------------------
(***************************************************************************)
(* What a repaired store holds.  For every set of rooms, every event       *)
(* stream and every number of crashes, this module proves of a store that  *)
(* applies responses only when no commit is pending, and removes a folder  *)
(* at once, that it misses no event behind its token and that no erased    *)
(* event comes back, in memory or on disk.                                 *)
(***************************************************************************)

\* What the invariant depends on.  FileStore_overlap shows that it does not
\* hold when responses overlap commits.
Careful == ~Overlap /\ AtomicRemoval /\ AtomicReset

Up == phase \in {"open", "closing"}
-----------------------------------------------------------------------------
(***************************************************************************)
(* What a file, or a part of the memory, has to hold for a token.          *)
(***************************************************************************)
\* The events of the room that no later leave, or first join, made obsolete.
Live(r) ==
    {p \in Position : /\ ServerLog[p].room = r /\ ServerLog[p].kind # "leave"
                      /\ \A q \in Position : q > p /\ ServerLog[q].room = r
                                             => ServerLog[q].kind = "event"}

\* Where the content of the file has to start anew: a first join erases the
\* messages of the room, and keeps its state.
Cuts(f) ==
    {q \in Position : /\ ServerLog[q].room = f[1]
                      /\ \/ ServerLog[q].kind = "leave"
                         \/ ServerLog[q].kind = "join" /\ f[2] = "messages"}

\* The content c of f serves a client that was sent t: it misses nothing of t
\* and holds nothing from before a cut in t.
Right(f, c, t) ==
    /\ \A p \in Live(f[1]) \cap t : c.st = "whole" /\ p \in c.data
    /\ \A q \in Cuts(f) \cap t : \A p \in c.data :
         p > q \/ (p = q /\ ServerLog[q].kind = "join")

\* The part of the stream that the memory has applied to a room.
Handled(r) == token \cup (IF r \in syncRooms THEN {} ELSE syncTo)
-----------------------------------------------------------------------------
(***************************************************************************)
(* The invariant.                                                          *)
(***************************************************************************)
\* What the repair would make of a file, and the token it would go back to.
Kept(f) == IF saved[f] # Absent THEN saved[f] ELSE file[f]
Target == IF HasToken(Kept(MetaFile)) THEN Kept(MetaFile).data ELSE {}

\* Wherever the process stops, the repair finds a store that is right.
Disk ==
    /\ backupRoot => /\ HasToken(Kept(MetaFile))
                     /\ backupDirs = {Kept(MetaFile).data}
    /\ ~backupRoot => backupDirs = {} /\ \A f \in File : saved[f] = Absent
    /\ \A f \in RoomFile : Right(f, Kept(f), Target)

\* A store that is not open has no memory, and the files copied back are those
\* of the backup.
Blank ==
    /\ roomStores = {} /\ syncTo = {} /\ syncRooms = {}
    /\ toDeletion = {} /\ toMessages = {} /\ toState = {}
    /\ cur = NoRoom

Opened ==
    /\ phase # "discarding"
    /\ ~Up => Blank
    /\ phase = "restoring" => backupRoot
    /\ phase # "restoring" => toRestore = {}
    /\ \A f \in toRestore : saved[f] # Absent
    /\ phase \in {"restoring", "releasing"} =>
         \A f \in File \ toRestore : saved[f] # Absent => file[f] = saved[f]
    /\ phase = "releasing" => /\ file[MetaFile] = Whole(token) /\ token # {}
                              /\ backupEventStreamToken = token

\* The work of the blocks that save rooms: what is marked for the next commit,
\* and what is queued.
RoomOp == {"deletion", "messages", "state"}
Each(rooms, op) == {<<r, op>> : r \in rooms}
Marked == Each(toDeletion, "deletion") \cup Each(toMessages, "messages")
          \cup Each(toState, "state")
Work(q) == {w \in Room \X RoomOp : \E i \in 1..Len(q) : q[i].op = w[2] /\ w[1] \in q[i].rooms}
Todo == Marked \cup Work(queue)

\* The blocks that save rooms come first, one of each kind, deletion before the
\* others, and something comes after them.
Sorted(q) ==
    \A j \in 1..Len(q) : q[j].op \in RoomOp =>
        /\ \A i \in 1..(j - 1) : q[i].op \in RoomOp \ {q[j].op}
        /\ q[j].op = "deletion" => j = 1
Ended(q) == \A j \in 1..Len(q) : q[j].op \in RoomOp => j < Len(q)

\* The metadata is the first thing that is saved after the rooms.
Renames(q) ==
    \E i \in 1..Len(q) : q[i].op = "meta" /\ \A j \in 1..(i - 1) : q[j].op \in RoomOp

\* A state block has the state that is in memory.
Snaps(q) == \A i \in 1..Len(q) : q[i].op = "state" => q[i].snap = roomState

Blocks == Sorted(queue) /\ Ended(queue) /\ Snaps(queue)

\* Rooms are marked while a response is applied, when nothing is queued.
Response ==
    /\ syncTo # {} => token \subseteq syncTo /\ OneSection(syncTo \ token)
    /\ syncTo = {} => syncRooms = {}
    /\ Marked # {} => queue = <<>> /\ pendingCommits = 0 /\ syncTo # {}
    /\ \A w \in Marked : w[1] \notin syncRooms

Memory ==
    /\ \A r \in roomStores : Right(<<r, "messages">>, Whole(events[r]), Handled(r))
    /\ \A r \in Room : Right(<<r, "state">>, Whole(roomState[r]), Handled(r))
    /\ \A w \in Todo : w[2] = "messages" => w[1] \in roomStores

\* A room that is to be deleted: what is written of it afterwards is all that
\* is left to hold, and its files have not been moved yet.
Gone ==
    \A w \in Todo : w[2] = "deletion" =>
        \A f \in RoomFile : f[1] = w[1] =>
            /\ f \in Todo \/ Live(f[1]) \cap Handled(f[1]) = {}
            /\ saved[f] = Absent
            /\ backupEventStreamToken = {} => file[f] = Absent

\* Until its first token is saved, a store has no files of a room but those of
\* the response it is applying.
Unsaved ==
    token = {} => \A f \in RoomFile : syncTo = {} \/ f[1] \in syncRooms =>
                      file[f] = Absent /\ f \notin Todo

Files ==
    \A f \in RoomFile : \/ f \in Todo \/ <<f[1], "deletion">> \in Todo
                        \/ Right(f, file[f], Handled(f[1]))

\* The file that the first block is replacing, if it is one of a room.
Replacing(f) == step # "start" /\ f = <<cur, Head(queue).op>>

\* No file is moved a second time in a commit.
MovedOnce ==
    \A f \in RoomFile \cap Todo : saved[f] = Absent \/ file[f] = Absent \/ Replacing(f)

\* A file that was not moved is replaced only if nothing in it is needed.
Replaced ==
    \A f \in RoomFile : Replacing(f) =>
        /\ f \in Work(queue)
        /\ saved[f] = Absent => Live(f[1]) \cap Target = {}
        /\ step = "torn" => f[2] = "state" /\ file[f] = Torn(roomState[f[1]])

\* The metadata is being replaced.
Started == queue # <<>> /\ Head(queue).op = "meta" /\ step # "start"

\* A store after a reset, whose first metadata is still to be written.
Reset ==
    /\ token = {} /\ queue # <<>> /\ Head(queue).op = "meta" /\ step = "start"
    /\ \A f \in File : file[f] = Absent

Meta ==
    /\ ~Started => file[MetaFile] = Whole(backupEventStreamToken) \/ Reset
    /\ Started => /\ backupEventStreamToken = token
                  /\ ~HasToken(file[MetaFile])
                  /\ step = "torn" => file[MetaFile] = Torn(token)
                  /\ saved[MetaFile] # Absent \/ ~backupRoot
    /\ saved[MetaFile] # Absent => Started \/ (queue # <<>> /\ Head(queue).op = "cleanup")
    /\ backupEventStreamToken # token => Renames(queue)
    /\ backupEventStreamToken \subseteq token \/ Reset
    /\ queue = <<>> => ~backupRoot

UpInv ==
    /\ Blocks /\ Response /\ Memory /\ Gone /\ Unsaved /\ Files /\ MovedOnce
    /\ Replaced /\ Meta

RepairInv == Disk /\ Opened /\ (Up => UpInv)
-----------------------------------------------------------------------------
(***************************************************************************)
(* What a content has to hold.                                             *)
(***************************************************************************)
\* What is right for some events is right for fewer of them.
LEMMA RightLess ==
    ASSUME NEW f, NEW c, NEW u, NEW t, Right(f, c, u),
           \A p \in t : p \in Position /\ ServerLog[p].room = f[1] => p \in u
    PROVE  Right(f, c, t)
BY DEF Right, Live, Cuts

\* Everything is right for a client that was sent nothing.
LEMMA RightNothing == \A f, c : Right(f, c, {})
BY DEF Right

\* A missing file is right if nothing of it is needed.
LEMMA RightAbsent ==
    \A f, t : Live(f[1]) \cap t = {} <=> Right(f, Absent, t)
BY DEF Right, Absent
-----------------------------------------------------------------------------
(***************************************************************************)
(* The queue of blocks.                                                    *)
(***************************************************************************)
LEMMA RoomOpType == RoomOp \subseteq Op /\ "meta" \notin RoomOp /\ "cleanup" \notin RoomOp
BY DEF RoomOp, Op

LEMMA NoWork == /\ Sorted(<<>>) /\ Ended(<<>>) /\ Snaps(<<>>)
                /\ Work(<<>>) = {} /\ ~Renames(<<>>)
BY DEF Sorted, Ended, Snaps, Work, Renames

\* The first block is of a kind that no later block is of.
LEMMA TailBlocks ==
    ASSUME NEW q \in Seq(Block), q # <<>>, Sorted(q), Ended(q)
    PROVE  /\ Sorted(Tail(q)) /\ Ended(Tail(q)) /\ (Snaps(q) => Snaps(Tail(q)))
           /\ Work(Tail(q)) = {w \in Work(q) : w[2] # q[1].op}
           /\ q[1].op \in RoomOp =>
                Tail(q) # <<>> /\ (Renames(q) => Renames(Tail(q)))
           /\ q[1].op \notin RoomOp => Work(q) = {} /\ Work(Tail(q)) = {}
<1> DEFINE z == Tail(q)
<1>1. /\ z \in Seq(Block) /\ Len(z) = Len(q) - 1 /\ Len(q) \in Nat \ {0}
      /\ \A i \in 1..Len(z) : z[i] = q[i + 1] /\ i + 1 \in 1..Len(q)
      /\ \A i \in 2..Len(q) : q[i] = z[i - 1] /\ i - 1 \in 1..Len(z)
  OBVIOUS
<1> HIDE DEF z
<1>2. ASSUME NEW j \in 2..Len(q), q[j].op \in RoomOp
      PROVE  q[1].op \in RoomOp /\ q[1].op # q[j].op /\ q[j].op # "deletion"
  <2>1. j \in 1..Len(q) /\ 1 \in 1..(j - 1) /\ j # 1
    BY <1>1, <1>2
  <2> QED
    BY <1>2, <2>1 DEF Sorted
<1>3. Sorted(z)
  <2> SUFFICES ASSUME NEW j \in 1..Len(z), z[j].op \in RoomOp
               PROVE  /\ \A i \in 1..(j - 1) : z[i].op \in RoomOp \ {z[j].op}
                      /\ z[j].op # "deletion"
    BY DEF Sorted
  <2>1. j + 1 \in 2..Len(q) /\ j + 1 \in 1..Len(q) /\ q[j + 1].op \in RoomOp /\ z[j] = q[j + 1]
    BY <1>1
  <2>2. ASSUME NEW i \in 1..(j - 1) PROVE z[i].op \in RoomOp \ {z[j].op}
    <3>1. i + 1 \in 1..((j + 1) - 1) /\ i \in 1..Len(z)
      BY <1>1
    <3>2. q[i + 1].op \in RoomOp \ {q[j + 1].op}
      BY <2>1, <3>1 DEF Sorted
    <3> QED
      BY <1>1, <2>1, <3>1, <3>2
  <2> QED
    BY <1>2, <2>1, <2>2
<1>4. Ended(z)
  BY <1>1 DEF Ended
<1>5. Snaps(q) => Snaps(z)
  BY <1>1 DEF Snaps
<1>6. Work(z) = {w \in Work(q) : w[2] # q[1].op}
  <2>1. ASSUME NEW w \in Work(z) PROVE w \in Work(q) /\ w[2] # q[1].op
    <3>1. PICK i \in 1..Len(z) : z[i].op = w[2] /\ w[1] \in z[i].rooms
      BY <2>1 DEF Work
    <3>2. i + 1 \in 2..Len(q) /\ i + 1 \in 1..Len(q) /\ q[i + 1] = z[i]
      BY <1>1
    <3>3. w \in Room \X RoomOp
      BY <2>1 DEF Work
    <3>4. w[2] \in RoomOp
      BY <3>3
    <3>5. q[1].op # w[2]
      BY <1>2, <3>1, <3>2, <3>4
    <3> QED
      BY <3>1, <3>2, <3>3, <3>5 DEF Work
  <2>2. ASSUME NEW w \in Work(q), w[2] # q[1].op PROVE w \in Work(z)
    <3>1. PICK i \in 1..Len(q) : q[i].op = w[2] /\ w[1] \in q[i].rooms
      BY <2>2 DEF Work
    <3>2. i \in 2..Len(q)
      BY <1>1, <2>2, <3>1
    <3> QED
      BY <1>1, <2>2, <3>1, <3>2 DEF Work
  <2> QED
    BY <2>1, <2>2
<1>7. q[1].op \in RoomOp => z # <<>>
  <2>1. 1 \in 1..Len(q)
    BY <1>1
  <2>2. q[1].op \in RoomOp => 1 < Len(q)
    BY <2>1 DEF Ended
  <2> QED
    BY <1>1, <2>2
<1>8. q[1].op \in RoomOp /\ Renames(q) => Renames(z)
  <2> SUFFICES ASSUME q[1].op \in RoomOp, Renames(q) PROVE Renames(z)
    OBVIOUS
  <2>1. PICK i \in 1..Len(q) : q[i].op = "meta" /\ \A j \in 1..(i - 1) : q[j].op \in RoomOp
    BY DEF Renames
  <2>2. i \in 2..Len(q)
    BY <1>1, <2>1, RoomOpType
  <2>3. i - 1 \in 1..Len(z) /\ z[i - 1] = q[i]
    BY <1>1, <2>2
  <2>4. ASSUME NEW j \in 1..((i - 1) - 1) PROVE z[j].op \in RoomOp
    <3>1. j \in 1..Len(z) /\ j + 1 \in 1..(i - 1)
      BY <1>1, <2>2
    <3> QED
      BY <1>1, <2>1, <3>1
  <2> QED
    BY <2>1, <2>3, <2>4 DEF Renames
<1>9. q[1].op \notin RoomOp => Work(q) = {}
  <2> SUFFICES ASSUME q[1].op \notin RoomOp, NEW w \in Work(q) PROVE FALSE
    OBVIOUS
  <2>1. PICK i \in 1..Len(q) : q[i].op = w[2] /\ w[2] \in RoomOp
    BY DEF Work
  <2>2. i \in 2..Len(q)
    BY <1>1, <2>1
  <2> QED
    BY <1>2, <2>1, <2>2
<1> QED
  BY <1>3, <1>4, <1>5, <1>6, <1>7, <1>8, <1>9 DEF z

LEMMA SecondBlock ==
    ASSUME NEW q \in Seq(Block), 1 < Len(q)
    PROVE  Tail(q) # <<>> /\ Head(Tail(q)) = q[1 + 1]
<1> DEFINE z == Tail(q)
<1>1. z \in Seq(Block) /\ Len(z) = Len(q) - 1 /\ Len(q) \in Nat
  OBVIOUS
<1>2. \A i \in 1..(Len(q) - 1) : z[i] = q[i + 1]
  OBVIOUS
<1> HIDE DEF z
<1>3. 1 \in 1..(Len(q) - 1) /\ z # <<>>
  BY <1>1
<1>4. Head(z) = z[1]
  BY <1>1, <1>3
<1> QED
  BY <1>2, <1>3, <1>4 DEF z

\* The first block is done with one of its rooms.
LEMMA HeadBlocks ==
    ASSUME NEW q \in Seq(Block), q # <<>>, Sorted(q), Ended(q), NEW r, NEW b \in Block,
           b.op = q[1].op, b.rooms = q[1].rooms \ {r}, b.snap = q[1].snap,
           q[1].op \in RoomOp
    PROVE  LET z == <<b>> \o Tail(q) IN
           /\ z \in Seq(Block) /\ z # <<>>
           /\ Sorted(z) /\ Ended(z) /\ (Snaps(q) => Snaps(z))
           /\ Renames(q) => Renames(z)
           /\ Work(z) = Work(q) \ {<<r, q[1].op>>}
<1> DEFINE z == <<b>> \o Tail(q)
<1>1. /\ z \in Seq(Block) /\ z # <<>> /\ Len(z) = Len(q) /\ Len(q) \in Nat \ {0}
      /\ z[1] = b /\ \A i \in 2..Len(q) : z[i] = q[i]
  OBVIOUS
<1> HIDE DEF z
<1>2. \A i \in 1..Len(q) : z[i].op = q[i].op /\ z[i].snap = q[i].snap
  BY <1>1
<1>3. Sorted(z) /\ Ended(z)
  <2>1. ASSUME NEW j \in 1..Len(z), z[j].op \in RoomOp
        PROVE  /\ \A i \in 1..(j - 1) : z[i].op \in RoomOp \ {z[j].op}
               /\ z[j].op = "deletion" => j = 1
               /\ j < Len(z)
    <3>1. \A i \in 1..(j - 1) : i \in 1..Len(q)
      BY <1>1
    <3>2. j \in 1..Len(q) /\ q[j].op = z[j].op
      BY <1>1, <1>2
    <3> QED
      BY <1>1, <1>2, <2>1, <3>1, <3>2 DEF Sorted, Ended
  <2> QED
    BY <2>1 DEF Sorted, Ended
<1>4. Snaps(q) => Snaps(z)
  BY <1>1, <1>2 DEF Snaps
<1>5. Renames(q) => Renames(z)
  <2> SUFFICES ASSUME Renames(q) PROVE Renames(z)
    OBVIOUS
  <2>1. PICK i \in 1..Len(q) : q[i].op = "meta" /\ \A j \in 1..(i - 1) : q[j].op \in RoomOp
    BY DEF Renames
  <2>2. \A j \in 1..(i - 1) : j \in 1..Len(q)
    BY <1>1
  <2> QED
    BY <1>1, <1>2, <2>1, <2>2 DEF Renames
<1>6. Work(z) = Work(q) \ {<<r, q[1].op>>}
  <2>1. ASSUME NEW w \in Work(z) PROVE w \in Work(q) \ {<<r, q[1].op>>}
    <3>1. PICK i \in 1..Len(z) : z[i].op = w[2] /\ w[1] \in z[i].rooms
      BY <2>1 DEF Work
    <3>2. w \in Room \X RoomOp
      BY <2>1 DEF Work
    <3>3. i \in 1..Len(q) /\ q[i].op = w[2] /\ w[1] \in q[i].rooms
      BY <1>1, <1>2, <3>1
    <3>4. i = 1 => w[1] # r
      BY <1>1, <3>1
    <3>5. i # 1 => w[2] # q[1].op
      <4> SUFFICES ASSUME i # 1 PROVE w[2] # q[1].op
        OBVIOUS
      <4>1. 1 \in 1..(i - 1) /\ w[2] \in RoomOp
        BY <3>2, <3>3
      <4> QED
        BY <3>3, <4>1 DEF Sorted
    <3> QED
      BY <3>2, <3>3, <3>4, <3>5 DEF Work
  <2>2. ASSUME NEW w \in Work(q), w # <<r, q[1].op>> PROVE w \in Work(z)
    <3>1. PICK i \in 1..Len(q) : q[i].op = w[2] /\ w[1] \in q[i].rooms
      BY <2>2 DEF Work
    <3>2. w \in Room \X RoomOp
      BY <2>2 DEF Work
    <3>3. w = <<w[1], w[2]>>
      BY <3>2
    <3>4. z[i].op = w[2] /\ w[1] \in z[i].rooms
      BY <1>1, <1>2, <2>2, <3>1, <3>3
    <3> QED
      BY <1>1, <3>1, <3>2, <3>4 DEF Work
  <2> QED
    BY <2>1, <2>2
<1> QED
  BY <1>1, <1>3, <1>4, <1>5, <1>6 DEF z

\* RoomDone takes the work on one file off the queue, whether the block goes on
\* or is over.
LEMMA RoomDoneWork ==
    ASSUME TypeOK, Blocks, queue # <<>>, Head(queue).op \in RoomOp,
           NEW r \in Head(queue).rooms, RoomDone(r), roomState' = roomState
    PROVE  /\ queue' # <<>> /\ Blocks'
           /\ Renames(queue) => Renames(queue')
           /\ Work(queue') = Work(queue) \ {<<r, Head(queue).op>>}
<1> DEFINE b == [Head(queue) EXCEPT !.rooms = @ \ {r}]
<1>1. queue \in Seq(Block) /\ Head(queue) = queue[1] /\ queue[1] \in Block
  BY DEF TypeOK
<1>3. CASE Head(queue).rooms = {r}
  <2>1. queue' = Tail(queue)
    BY <1>3 DEF RoomDone
  <2>2. /\ Sorted(queue') /\ Ended(queue') /\ Snaps(queue')
        /\ queue' # <<>> /\ (Renames(queue) => Renames(queue'))
        /\ Work(queue') = {w \in Work(queue) : w[2] # queue[1].op}
    BY <1>1, <2>1, TailBlocks DEF Blocks
  <2>3. ASSUME NEW w \in Work(queue), w[2] = queue[1].op PROVE w = <<r, queue[1].op>>
    <3>1. PICK i \in 1..Len(queue) : queue[i].op = w[2] /\ w[1] \in queue[i].rooms
      BY DEF Work
    <3>2. w \in Room \X RoomOp
      BY DEF Work
    <3>3. i = 1
      <4> SUFFICES ASSUME i # 1 PROVE FALSE
        OBVIOUS
      <4>1. 1 \in 1..(i - 1) /\ queue[i].op \in RoomOp
        BY <1>1, <3>1, <3>2
      <4> QED
        BY <1>1, <2>3, <3>1, <4>1 DEF Blocks, Sorted
    <3> QED
      BY <1>1, <1>3, <2>3, <3>1, <3>2, <3>3
  <2>4. Work(queue') = Work(queue) \ {<<r, queue[1].op>>}
    BY <2>2, <2>3
  <2>5. Blocks'
    BY <2>2 DEF Blocks, Snaps
  <2> QED
    BY <1>1, <2>2, <2>4, <2>5
<1>4. CASE Head(queue).rooms # {r}
  <2>1. b \in Block /\ b.op = queue[1].op /\ b.rooms = queue[1].rooms \ {r}
        /\ b.snap = queue[1].snap
    BY <1>1 DEF Block
  <2>2. queue' = <<b>> \o Tail(queue)
    BY <1>4 DEF RoomDone
  <2> HIDE DEF b
  <2>3. /\ Sorted(queue') /\ Ended(queue') /\ Snaps(queue')
        /\ queue' # <<>> /\ (Renames(queue) => Renames(queue'))
        /\ Work(queue') = Work(queue) \ {<<r, queue[1].op>>}
    BY <1>1, <2>1, <2>2, HeadBlocks DEF Blocks
  <2>4. Blocks'
    BY <2>3 DEF Blocks, Snaps
  <2> QED
    BY <1>1, <2>3, <2>4
<1> QED
  BY <1>3, <1>4

\* Blocks that save no room, queued at the end.
LEMMA AppendEnd ==
    ASSUME NEW q \in Seq(Block), NEW s \in Seq(Block), s # <<>>, Sorted(q),
           \A i \in 1..Len(s) : s[i].op \notin RoomOp
    PROVE  /\ q \o s \in Seq(Block) /\ q \o s # <<>>
           /\ Sorted(q \o s) /\ Ended(q \o s) /\ (Snaps(q) => Snaps(q \o s))
           /\ Renames(q) => Renames(q \o s)
           /\ Work(q \o s) = Work(q)
<1> DEFINE z == q \o s
<1>1. /\ z \in Seq(Block) /\ z # <<>> /\ Len(z) = Len(q) + Len(s)
      /\ Len(q) \in Nat /\ Len(s) \in Nat \ {0}
      /\ \A i \in 1..Len(q) : z[i] = q[i] /\ i \in 1..Len(z)
      /\ \A i \in 1..Len(z) : i \in 1..Len(q) \/ (i - Len(q) \in 1..Len(s) /\ z[i] = s[i - Len(q)])
  OBVIOUS
<1> HIDE DEF z
<1>2. \A i \in 1..Len(z) : z[i].op \in RoomOp => i \in 1..Len(q) /\ q[i] = z[i] /\ i < Len(z)
  BY <1>1
<1>3. Sorted(z)
  <2> SUFFICES ASSUME NEW j \in 1..Len(z), z[j].op \in RoomOp
               PROVE  /\ \A i \in 1..(j - 1) : z[i].op \in RoomOp \ {z[j].op}
                      /\ z[j].op = "deletion" => j = 1
    BY DEF Sorted
  <2>1. j \in 1..Len(q) /\ \A i \in 1..(j - 1) : i \in 1..Len(q)
    BY <1>1, <1>2
  <2> QED
    BY <1>1, <2>1 DEF Sorted
<1>4. Ended(z)
  BY <1>2 DEF Ended
<1>5. Snaps(q) => Snaps(z)
  <2>1. "state" \in RoomOp
    BY DEF RoomOp
  <2> QED
    BY <1>2, <2>1 DEF Snaps
<1>6. Renames(q) => Renames(z)
  <2> SUFFICES ASSUME Renames(q) PROVE Renames(z)
    OBVIOUS
  <2>1. PICK i \in 1..Len(q) : q[i].op = "meta" /\ \A j \in 1..(i - 1) : q[j].op \in RoomOp
    BY DEF Renames
  <2>2. \A j \in 1..(i - 1) : j \in 1..Len(q)
    BY <1>1
  <2> QED
    BY <1>1, <2>1, <2>2 DEF Renames
<1>7. Work(z) = Work(q)
  <2>1. ASSUME NEW w \in Work(z) PROVE w \in Work(q)
    <3>1. PICK i \in 1..Len(z) : z[i].op = w[2] /\ w[1] \in z[i].rooms
      BY <2>1 DEF Work
    <3>2. w \in Room \X RoomOp
      BY <2>1 DEF Work
    <3> QED
      BY <1>2, <3>1, <3>2 DEF Work
  <2>2. ASSUME NEW w \in Work(q) PROVE w \in Work(z)
    BY <1>1, <2>2 DEF Work
  <2> QED
    BY <2>1, <2>2
<1> QED
  BY <1>1, <1>3, <1>4, <1>5, <1>6, <1>7 DEF z

\* The kinds of the blocks of a queue, and the kinds it may be extended by.
Kinds(q) == {q[i].op : i \in 1..Len(q)}
Extends(q, op) == /\ Sorted(q) /\ Snaps(q) /\ Kinds(q) \subseteq RoomOp \ {op}
                  /\ op = "deletion" => q = <<>>
Extended(q, z, op, rooms) ==
    /\ z \in Seq(Block) /\ Sorted(z) /\ Snaps(z)
    /\ Kinds(z) \subseteq Kinds(q) \cup {op}
    /\ Work(z) = Work(q) \cup Each(rooms, op)

\* A block that saves rooms, queued behind blocks of other kinds.
LEMMA AppendRooms ==
    ASSUME NEW q \in Seq(Block), NEW op \in RoomOp, NEW rooms \in SUBSET Room,
           NEW snap \in [Room -> SUBSET Position], Extends(q, op),
           op = "state" => snap = roomState
    PROVE  Extended(q, q \o RoomsBlock(op, rooms, snap), op, rooms)
<1> DEFINE b == [op |-> op, rooms |-> rooms, snap |-> snap]
           z == q \o RoomsBlock(op, rooms, snap)
<1>0. /\ Sorted(q) /\ Snaps(q) /\ (op = "deletion" => q = <<>>)
      /\ \A i \in 1..Len(q) : q[i].op \in RoomOp \ {op}
  BY DEF Extends, Kinds
<1>1. CASE rooms = {}
  <2>1. z = q
    BY <1>1 DEF RoomsBlock
  <2>2. Each(rooms, op) = {}
    BY <1>1 DEF Each
  <2> QED
    BY <1>0, <2>1, <2>2 DEF Extended
<1>2. CASE rooms # {}
  <2>1. z = Append(q, b) /\ b \in Block
    <3>1. b \in Block
      BY RoomOpType DEF Block
    <3> QED
      BY <1>2, <3>1 DEF RoomsBlock
  <2>2. b.op = op /\ b.rooms = rooms /\ b.snap = snap
    OBVIOUS
  <2> HIDE DEF b, z
  <2>3. /\ z \in Seq(Block) /\ Len(z) = Len(q) + 1 /\ Len(q) \in Nat
        /\ \A i \in 1..Len(q) : z[i] = q[i] /\ i \in 1..Len(z)
        /\ z[Len(q) + 1] = b /\ Len(q) + 1 \in 1..Len(z)
        /\ \A i \in 1..Len(z) : i \in 1..Len(q) \/ i = Len(q) + 1
    BY <2>1
  <2>4. Sorted(z)
    <3> SUFFICES ASSUME NEW j \in 1..Len(z), z[j].op \in RoomOp
                 PROVE  /\ \A i \in 1..(j - 1) : z[i].op \in RoomOp \ {z[j].op}
                        /\ z[j].op = "deletion" => j = 1
      BY DEF Sorted
    <3>1. \A i \in 1..(j - 1) : i \in 1..Len(q)
      BY <2>3
    <3>2. CASE j \in 1..Len(q)
      BY <1>0, <2>3, <3>1, <3>2 DEF Sorted
    <3>3. CASE j = Len(q) + 1
      <4>1. z[j].op = op
        BY <2>2, <2>3, <3>3
      <4>2. op = "deletion" => j = 1
        BY <1>0, <3>3
      <4> QED
        BY <1>0, <2>3, <3>1, <4>1, <4>2
    <3> QED
      BY <2>3, <3>2, <3>3
  <2>5. Snaps(z)
    BY <1>0, <2>2, <2>3 DEF Snaps
  <2>6. Kinds(z) \subseteq Kinds(q) \cup {op}
    <3>1. \A i \in 1..Len(z) : z[i].op = op \/ \E j \in 1..Len(q) : z[i].op = q[j].op
      BY <2>2, <2>3
    <3> QED
      BY <3>1 DEF Kinds
  <2>7. Work(z) = Work(q) \cup Each(rooms, op)
    <3>1. ASSUME NEW w \in Work(z) PROVE w \in Work(q) \cup Each(rooms, op)
      <4>1. PICK i \in 1..Len(z) : z[i].op = w[2] /\ w[1] \in z[i].rooms
        BY <3>1 DEF Work
      <4>2. w \in Room \X RoomOp
        BY <3>1 DEF Work
      <4>3. CASE i \in 1..Len(q)
        BY <2>3, <4>1, <4>2, <4>3 DEF Work
      <4>4. CASE i = Len(q) + 1
        <5>1. w[1] \in rooms /\ w[2] = op
          BY <2>2, <2>3, <4>1, <4>4
        <5>2. w = <<w[1], w[2]>>
          BY <4>2
        <5> QED
          BY <5>1, <5>2 DEF Each
      <4> QED
        BY <2>3, <4>3, <4>4
    <3>2. ASSUME NEW w \in Work(q) PROVE w \in Work(z)
      BY <2>3, <3>2 DEF Work
    <3>3. ASSUME NEW w \in Each(rooms, op) PROVE w \in Work(z)
      <4>1. w \in Room \X RoomOp /\ w[1] \in rooms /\ w[2] = op
        BY <3>3 DEF Each
      <4> QED
        BY <2>2, <2>3, <4>1 DEF Work
    <3> QED
      BY <3>1, <3>2, <3>3
  <2> QED
    BY <2>3, <2>4, <2>5, <2>6, <2>7 DEF z, Extended
<1> QED
  BY <1>1, <1>2

\* A commit moves what is marked to the end of the queue, the metadata last.
LEMMA SaveDataWork ==
    ASSUME TypeOK, NEW m \in BOOLEAN
    PROVE  \E p \in Seq(Block) :
             /\ Sorted(p) /\ Snaps(p) /\ Work(p) = Marked
             /\ \A i \in 1..Len(p) : p[i].op \in RoomOp
             /\ SaveDataToFiles(m) = p \o (IF m THEN <<MetaBlock>> ELSE <<>>)
             /\ Marked = {} => p = <<>>
<1> DEFINE d == <<>> \o RoomsBlock("deletion", toDeletion, NoSnap)
           g == d \o RoomsBlock("messages", toMessages, NoSnap)
           t == g \o RoomsBlock("state", toState, roomState)
<1>1. /\ NoSnap \in [Room -> SUBSET Position] /\ roomState \in [Room -> SUBSET Position]
      /\ toDeletion \in SUBSET Room /\ toMessages \in SUBSET Room /\ toState \in SUBSET Room
  BY DEF TypeOK, NoSnap
<1>2. /\ d \in Seq(Block) /\ Sorted(d) /\ Snaps(d)
      /\ Kinds(d) \subseteq {"deletion"}
      /\ Work(d) = Each(toDeletion, "deletion")
  <2> HIDE DEF d
  <2>1. "deletion" \in RoomOp /\ "deletion" # "state"
    BY DEF RoomOp
  <2>2. Kinds(<<>>) = {} /\ <<>> \in Seq(Block)
    BY DEF Kinds
  <2>3. Extends(<<>>, "deletion")
    BY <2>2, NoWork DEF Extends
  <2>4. Extended(<<>>, <<>> \o RoomsBlock("deletion", toDeletion, NoSnap),
                 "deletion", toDeletion)
    BY <1>1, <2>1, <2>2, <2>3, AppendRooms
  <2>5. Extended(<<>>, d, "deletion", toDeletion)
    BY <2>4 DEF d
  <2> QED
    BY <2>2, <2>5, NoWork DEF Extended
<1>3. /\ g \in Seq(Block) /\ Sorted(g) /\ Snaps(g)
      /\ Kinds(g) \subseteq {"deletion", "messages"}
      /\ Work(g) = Work(d) \cup Each(toMessages, "messages")
  <2> HIDE DEF d, g
  <2>1. Extended(d, g, "messages", toMessages)
    <3>1. "messages" \in RoomOp /\ "messages" # "state" /\ "messages" # "deletion"
      BY DEF RoomOp
    <3>2. Extends(d, "messages")
      BY <1>2 DEF Extends, RoomOp
    <3>3. Extended(d, d \o RoomsBlock("messages", toMessages, NoSnap),
                   "messages", toMessages)
      BY <1>1, <1>2, <3>1, <3>2, AppendRooms
    <3> QED
      BY <3>3 DEF g
  <2> QED
    BY <1>2, <2>1 DEF Extended
<1>4. /\ t \in Seq(Block) /\ Sorted(t) /\ Snaps(t)
      /\ Kinds(t) \subseteq RoomOp
      /\ Work(t) = Work(g) \cup Each(toState, "state")
  <2> HIDE DEF d, g, t
  <2>1. Extended(g, t, "state", toState)
    <3>1. "state" \in RoomOp /\ "state" # "deletion"
      BY DEF RoomOp
    <3>2. Extends(g, "state")
      BY <1>3 DEF Extends, RoomOp
    <3>3. Extended(g, g \o RoomsBlock("state", toState, roomState), "state", toState)
      BY <1>1, <1>3, <3>1, <3>2, AppendRooms
    <3> QED
      BY <3>3 DEF t
  <2> QED
    BY <1>3, <2>1 DEF RoomOp, Extended
<1>5. Work(t) = Marked
  BY <1>2, <1>3, <1>4 DEF Marked
<1>6. Marked = {} => t = <<>>
  <2> SUFFICES ASSUME Marked = {} PROVE t = <<>>
    OBVIOUS
  <2>1. ASSUME NEW x \in toDeletion \cup toMessages \cup toState PROVE FALSE
    <3>1. <<x, "deletion">> \in Marked \/ <<x, "messages">> \in Marked \/ <<x, "state">> \in Marked
      BY <2>1 DEF Marked, Each
    <3> QED
      BY <3>1
  <2>2. toDeletion = {} /\ toMessages = {} /\ toState = {}
    BY <2>1
  <2> QED
    BY <2>2 DEF RoomsBlock
<1>7. SaveDataToFiles(m) = t \o (IF m THEN <<MetaBlock>> ELSE <<>>)
  <2>1. d = RoomsBlock("deletion", toDeletion, NoSnap)
    <3>1. \A s \in Seq(Block) : <<>> \o s = s
      OBVIOUS
    <3>2. RoomsBlock("deletion", toDeletion, NoSnap) \in Seq(Block)
      BY <1>1, RoomsBlockPlain, RoomOpType DEF Op
    <3> QED
      BY <3>1, <3>2
  <2> QED
    BY <2>1 DEF SaveDataToFiles
<1> HIDE DEF d, g, t
<1>8. \A i \in 1..Len(t) : t[i].op \in RoomOp
  BY <1>4 DEF Kinds
<1> QED
  BY <1>4, <1>5, <1>6, <1>7, <1>8

LEMMA CommitWork ==
    ASSUME TypeOK, Blocks, NEW m \in BOOLEAN, Marked # {} => queue = <<>>
    PROVE  LET z == queue \o SaveDataToFiles(m) \o <<CleanupBlock>> IN
           /\ z # <<>> /\ Sorted(z) /\ Ended(z) /\ Snaps(z)
           /\ Work(z) = Todo
           /\ Renames(queue) \/ (queue = <<>> /\ m) => Renames(z)
           /\ queue # <<>> => Head(z) = Head(queue)
<1> DEFINE z == queue \o SaveDataToFiles(m) \o <<CleanupBlock>>
           e == (IF m THEN <<MetaBlock>> ELSE <<>>) \o <<CleanupBlock>>
<1>1. PICK p \in Seq(Block) :
        /\ Sorted(p) /\ Snaps(p) /\ Work(p) = Marked
        /\ \A i \in 1..Len(p) : p[i].op \in RoomOp
        /\ SaveDataToFiles(m) = p \o (IF m THEN <<MetaBlock>> ELSE <<>>)
        /\ Marked = {} => p = <<>>
  BY SaveDataWork
<1>2. /\ e \in Seq(Block) /\ e # <<>> /\ (m => e[1].op = "meta")
      /\ \A i \in 1..Len(e) : e[i].op \notin RoomOp
  <2>1. /\ MetaBlock \in Block /\ CleanupBlock \in Block
        /\ MetaBlock.op = "meta" /\ CleanupBlock.op = "cleanup"
    BY EndBlocks DEF MetaBlock, CleanupBlock
  <2>2. CASE m
    <3>1. e = <<MetaBlock>> \o <<CleanupBlock>>
      BY <2>2
    <3>2. /\ e \in Seq(Block) /\ Len(e) = 2 /\ e[1] = MetaBlock /\ e[2] = CleanupBlock
      BY <2>1, <3>1
    <3> QED
      BY <2>1, <3>2, RoomOpType
  <2>3. CASE ~m
    <3>1. e = <<CleanupBlock>>
      BY <2>3, EndBlocks
    <3> QED
      BY <2>1, <2>3, <3>1, RoomOpType
  <2> QED
    BY <2>2, <2>3
<1>3. queue \in Seq(Block)
  BY DEF TypeOK
<1>4. z = (queue \o p) \o e
  <2> DEFINE n == IF m THEN <<MetaBlock>> ELSE <<>>
             c == <<CleanupBlock>>
  <2>1. n \in Seq(Block) /\ c \in Seq(Block)
    BY EndBlocks
  <2>2. \A x, y \in Seq(Block) : x \o y \in Seq(Block)
    OBVIOUS
  <2>3. \A x, y, v \in Seq(Block) : (x \o y) \o v = x \o (y \o v)
    OBVIOUS
  <2>4. SaveDataToFiles(m) = p \o n /\ z = (queue \o SaveDataToFiles(m)) \o c /\ e = n \o c
    BY <1>1
  <2> HIDE DEF n, c, z, e
  <2>5. queue \o (p \o n) = (queue \o p) \o n
    BY <1>3, <2>1, <2>3
  <2>6. ((queue \o p) \o n) \o c = (queue \o p) \o (n \o c)
    <3>1. queue \o p \in Seq(Block)
      BY <1>3, <2>2
    <3> QED
      BY <2>1, <2>3, <3>1
  <2> QED
    BY <2>4, <2>5, <2>6
<1> HIDE DEF e, z
<1>5. ASSUME NEW q \in Seq(Block), z = q \o e, Sorted(q), Snaps(q)
      PROVE  /\ z # <<>> /\ Sorted(z) /\ Ended(z) /\ Snaps(z)
             /\ Work(z) = Work(q) /\ (Renames(q) => Renames(z))
  BY <1>2, <1>5, AppendEnd
<1>6. CASE queue = <<>>
  <2>1. z = p \o e
    BY <1>1, <1>3, <1>4, <1>6
  <2>2. Todo = Marked
    BY <1>6, NoWork DEF Todo
  <2>3. ASSUME m PROVE Renames(z)
    <3>1. /\ Len(p) + 1 \in 1..Len(z) /\ z[Len(p) + 1] = e[1]
          /\ \A j \in 1..((Len(p) + 1) - 1) : j \in 1..Len(p) /\ z[j] = p[j]
      BY <1>1, <1>2, <2>1
    <3> QED
      BY <1>1, <1>2, <2>3, <3>1 DEF Renames
  <2> QED
    BY <1>1, <1>5, <1>6, <2>1, <2>2, <2>3, NoWork DEF z
<1>7. CASE queue # <<>>
  <2>1. Marked = {} /\ p = <<>>
    BY <1>1, <1>7
  <2>2. z = queue \o e
    BY <1>3, <1>4, <2>1
  <2>3. Todo = Work(queue)
    BY <2>1 DEF Todo
  <2>4. Head(z) = Head(queue)
    BY <1>2, <1>3, <1>7, <2>2
  <2> QED
    BY <1>3, <1>5, <1>7, <2>2, <2>3, <2>4 DEF z, Blocks
<1> QED
  BY <1>6, <1>7

\* Nothing is left to do for a room file once the first block saves no room.
LEMMA NoTodo ==
    ASSUME TypeOK, Blocks, Response, queue # <<>>, Head(queue).op \notin RoomOp
    PROVE  Marked = {} /\ Work(queue) = {} /\ Todo = {} /\ Work(Tail(queue)) = {}
<1>1. queue \in Seq(Block) /\ Head(queue) = queue[1]
  BY DEF TypeOK
<1>2. Work(queue) = {} /\ Work(Tail(queue)) = {}
  BY <1>1, TailBlocks DEF Blocks
<1> QED
  BY <1>2 DEF Response, Todo

\* The work of the first block is for the rooms of that block, and deletion is
\* the work of no other.
LEMMA WorkHead ==
    ASSUME TypeOK, Blocks, queue # <<>>, Head(queue).op \in RoomOp
    PROVE  /\ \A r \in Room : <<r, Head(queue).op>> \in Work(queue) <=> r \in Head(queue).rooms
           /\ Head(queue).op # "deletion" => \A w \in Work(queue) : w[2] # "deletion"
<1>1. queue \in Seq(Block) /\ Head(queue) = queue[1] /\ 1 \in 1..Len(queue)
  BY DEF TypeOK
<1>2. ASSUME NEW w \in Work(queue), w[2] = queue[1].op PROVE w[1] \in queue[1].rooms
  <2>1. PICK i \in 1..Len(queue) : queue[i].op = w[2] /\ w[1] \in queue[i].rooms
    BY DEF Work
  <2>2. i # 1 => 1 \in 1..(i - 1) /\ queue[i].op \in RoomOp
    BY <1>1, <1>2, <2>1
  <2> QED
    BY <1>1, <1>2, <2>1, <2>2 DEF Blocks, Sorted
<1>3. ASSUME NEW r \in Room, r \in queue[1].rooms PROVE <<r, queue[1].op>> \in Work(queue)
  BY <1>1, <1>3 DEF Work
<1>4. ASSUME queue[1].op # "deletion", NEW w \in Work(queue) PROVE w[2] # "deletion"
  <2>1. PICK i \in 1..Len(queue) : queue[i].op = w[2]
    BY DEF Work
  <2>2. "deletion" \in RoomOp
    BY DEF RoomOp
  <2> QED
    BY <1>4, <2>1, <2>2 DEF Blocks, Sorted
<1>5. ASSUME NEW r \in Room, <<r, queue[1].op>> \in Work(queue) PROVE r \in queue[1].rooms
  BY <1>2, <1>5
<1> QED
  BY <1>1, <1>3, <1>4, <1>5
-----------------------------------------------------------------------------
(***************************************************************************)
(* The disk.                                                               *)
(***************************************************************************)
LEMMA FileFacts ==
    /\ MetaFile \in File /\ MetaFile \notin RoomFile /\ RoomFile \subseteq File
    /\ \A f \in File : f \in RoomFile \/ f = MetaFile
    /\ \A f \in RoomFile : f[1] \in Room /\ f[2] \in {"messages", "state"} /\ f = <<f[1], f[2]>>
    /\ \A r \in Room : <<r, "messages">> \in RoomFile /\ <<r, "state">> \in RoomFile
BY RoomAssumption DEF File, RoomFile, MetaFile

LEMMA ContentFacts ==
    /\ ~HasToken(Absent)
    /\ \A d : /\ Whole(d) # Absent /\ Whole(d).st = "whole" /\ Whole(d).data = d
              /\ Torn(d) # Absent /\ ~HasToken(Torn(d)) /\ Torn(d).data = d
              /\ HasToken(Whole(d)) <=> d # {}
    /\ \A c \in Content : HasToken(c) => c = Whole(c.data)
BY DEF HasToken, Absent, Whole, Torn, Content

\* The disk is the same.
LEMMA DiskSame ==
    ASSUME Disk, UNCHANGED <<file, backupVars>>
    PROVE  Disk'
BY DEF Disk, Kept, Target, backupVars

\* A move to the backup keeps every file, if none of them was moved before.
LEMMA MoveKept ==
    ASSUME TypeOK, Disk, NEW files \in SUBSET File, MoveToBackup(files),
           (\A f \in files : saved[f] = Absent) \/ (\A f \in files : file[f] = Absent),
           Kept(MetaFile) = Whole(backupEventStreamToken) \/ \A f \in File : file[f] = Absent
    PROVE  /\ Disk' /\ Target' = Target
           /\ \A f \in File \ files : file'[f] = file[f] /\ saved'[f] = saved[f]
           /\ backupEventStreamToken # {} => \A f \in files : file'[f] = Absent
           /\ backupEventStreamToken = {} => file' = file /\ saved' = saved
           /\ \A f \in files : saved'[f] = Absent =>
                backupEventStreamToken = {} \/ Kept(f) = Absent
           /\ \A f \in File : saved[f] # Absent => saved'[f] # Absent
           /\ (\A f \in files : file[f] = Absent) => UNCHANGED <<file, backupVars>>
<1> DEFINE B == backupEventStreamToken
<1>1. CASE B = {} \/ \A f \in files : file[f] = Absent
  <2>1. UNCHANGED <<file, backupVars>>
    BY <1>1 DEF MoveToBackup
  <2>2. Disk' /\ Target' = Target
    BY <2>1, DiskSame DEF Target, Kept, backupVars
  <2>3. saved' = saved /\ file' = file
    BY <2>1 DEF backupVars
  <2> QED
    BY <1>1, <2>1, <2>2, <2>3 DEF Kept
<1>2. CASE ~(B = {} \/ \A f \in files : file[f] = Absent)
  <2>1. /\ backupRoot' = TRUE /\ backupDirs' = backupDirs \cup {B}
        /\ saved' = [f \in File |-> IF f \in files THEN file[f] ELSE saved[f]]
        /\ file' = [f \in File |-> IF f \in files THEN Absent ELSE file[f]]
    BY <1>2 DEF MoveToBackup
  <2>2. \A f \in files : saved[f] = Absent
    BY <1>2
  <2>3. \A f \in files : file'[f] = Absent /\ saved'[f] = file[f]
    BY <2>1
  <2>4. \A f \in File \ files : file'[f] = file[f] /\ saved'[f] = saved[f]
    BY <2>1
  <2>5. \A f \in File : Kept(f)' = Kept(f)
    BY <2>2, <2>3, <2>4 DEF Kept
  <2>6. Target' = Target
    BY <2>5, FileFacts DEF Target
  <2>7. Kept(MetaFile) = Whole(B) /\ B # {}
    BY <1>2
  <2>8. backupDirs \subseteq {B}
    BY <2>7, ContentFacts DEF Disk
  <2>9. Disk'
    <3>1. backupDirs' = {B}
      BY <2>1, <2>8
    <3>2. Kept(MetaFile)' = Whole(B)
      BY <2>5, <2>7, FileFacts
    <3>3. HasToken(Kept(MetaFile)') /\ Kept(MetaFile)'.data = B
      BY <2>7, <3>2, ContentFacts
    <3>4. \A f \in RoomFile : Right(f, Kept(f)', Target')
      BY <2>5, <2>6, FileFacts DEF Disk
    <3> QED
      BY <2>1, <3>1, <3>3, <3>4 DEF Disk
  <2> QED
    BY <1>2, <2>2, <2>3, <2>4, <2>6, <2>9 DEF Kept
<1> QED
  BY <1>1, <1>2

\* A file of a room is written: its backup stays, or what is written is right.
LEMMA WriteKept ==
    ASSUME TypeOK, Disk, NEW f \in RoomFile, NEW c, file' = [file EXCEPT ![f] = c],
           UNCHANGED backupVars, saved[f] # Absent \/ Right(f, c, Target)
    PROVE  /\ Disk' /\ Target' = Target /\ file'[f] = c
           /\ \A g \in File \ {f} : file'[g] = file[g]
<1>1. /\ \A g \in File \ {f} : file'[g] = file[g]
      /\ file'[f] = c /\ saved' = saved /\ backupRoot' = backupRoot /\ backupDirs' = backupDirs
  BY FileFacts DEF TypeOK, backupVars
<1>2. \A g \in File \ {f} : Kept(g)' = Kept(g)
  BY <1>1 DEF Kept
<1>3. Kept(MetaFile)' = Kept(MetaFile) /\ Target' = Target
  BY <1>2, FileFacts DEF Target
<1>4. Right(f, Kept(f)', Target)
  BY <1>1 DEF Kept, Disk
<1>5. \A g \in RoomFile : Right(g, Kept(g)', Target')
  BY <1>2, <1>3, <1>4, FileFacts DEF Disk
<1> QED
  BY <1>1, <1>3, <1>5 DEF Disk
-----------------------------------------------------------------------------
(***************************************************************************)
(* The blocks that save rooms.                                             *)
(***************************************************************************)
RoomBlock(op) ==
    /\ TypeInv /\ Disk /\ UpInv
    /\ op \in RoomOp /\ Running(op)
    /\ UNCHANGED <<mainVars, dirtyVars, pendingCommits, backupEventStreamToken>>

\* While such a block runs, nothing is marked, and the metadata on the disk is
\* that of the backup token.
LEMMA RoomBlockFacts ==
    ASSUME NEW op, RoomBlock(op)
    PROVE  /\ TypeOK /\ queue # <<>> /\ Head(queue).op = op /\ op \in RoomOp
           /\ Marked = {} /\ Todo = Work(queue)
           /\ Kept(MetaFile) = Whole(backupEventStreamToken)
           /\ Target = backupEventStreamToken /\ Target \subseteq token
           /\ file[MetaFile] = Whole(backupEventStreamToken) /\ saved[MetaFile] = Absent
           /\ Marked' = {} /\ Todo' = Work(queue')
           /\ \A r : Handled(r)' = Handled(r)
           /\ op = "deletion" => step = "start"
           /\ step # "start" => cur \in Room
<1>1. /\ TypeOK /\ queue # <<>> /\ Head(queue).op = op /\ op \in RoomOp
      /\ op \notin {"meta", "cleanup"}
      /\ step # "start" => Head(queue).op \in {"messages", "state"} /\ cur \in Room
  BY RoomOpType DEF RoomBlock, Running, TypeInv, InFile
<1>2. Marked = {} /\ Todo = Work(queue)
  BY <1>1 DEF RoomBlock, UpInv, Response, Todo
<1>3. ~Started /\ ~Reset
  BY <1>1 DEF Started, Reset
<1>4. /\ file[MetaFile] = Whole(backupEventStreamToken) /\ saved[MetaFile] = Absent
      /\ backupEventStreamToken \subseteq token
  BY <1>1, <1>3 DEF RoomBlock, UpInv, Meta
<1>5. Kept(MetaFile) = Whole(backupEventStreamToken)
  BY <1>4 DEF Kept
<1>6. Target = backupEventStreamToken
  BY <1>5, ContentFacts DEF Target
<1>7. Marked' = {} /\ Todo' = Work(queue') /\ \A r : Handled(r)' = Handled(r)
  BY <1>2 DEF RoomBlock, Marked, Todo, Work, Handled, mainVars, dirtyVars
<1> QED
  BY <1>1, <1>2, <1>4, <1>5, <1>6, <1>7

\* What such a block leaves as it is.
LEMMA RoomBlockFrame ==
    ASSUME NEW op, RoomBlock(op), Blocks', queue' # <<>>,
           Renames(queue) => Renames(queue'), Work(queue') \subseteq Work(queue),
           step' = "start" \/ Head(queue').op \in RoomOp,
           file'[MetaFile] = file[MetaFile], saved'[MetaFile] = saved[MetaFile],
           \A f \in RoomFile : f \in Todo \/ file'[f] = file[f] \/ file'[f] = Absent
    PROVE  Blocks' /\ Response' /\ Memory' /\ Unsaved' /\ Meta'
<1>1. /\ TypeOK /\ queue # <<>> /\ Head(queue).op = op /\ op \in RoomOp
      /\ Marked' = {} /\ Todo' \subseteq Todo /\ \A r : Handled(r)' = Handled(r)
      /\ file[MetaFile] = Whole(backupEventStreamToken) /\ saved[MetaFile] = Absent
      /\ op \notin {"meta", "cleanup"}
  BY RoomBlockFacts, RoomOpType
<1>2. Response'
  BY <1>1 DEF RoomBlock, UpInv, Response, OneSection, mainVars
<1>3. Memory'
  BY <1>1 DEF RoomBlock, UpInv, Memory, mainVars
<1>4. Unsaved'
  BY <1>1 DEF RoomBlock, UpInv, Unsaved, mainVars
<1>5. ~Started'
  BY RoomOpType DEF Started
<1>6. ~Reset
  BY <1>1 DEF Reset
<1>7. /\ backupEventStreamToken # token => Renames(queue)
      /\ backupEventStreamToken \subseteq token
      /\ token' = token /\ backupEventStreamToken' = backupEventStreamToken
  BY <1>6 DEF RoomBlock, UpInv, Meta, mainVars
<1>8. Renames(queue') <=> Renames(queue)'
  BY DEF Renames
<1>9. Meta'
  BY <1>1, <1>5, <1>7, <1>8 DEF Meta
<1> QED
  BY <1>2, <1>3, <1>4, <1>9

\* The files of a room are moved to the backup: none of them was moved before,
\* and what the room has left to hold is still to be written.
LEMMA SaveDeletionKeeps ==
    ASSUME TypeInv, Disk, UpInv, NEW r \in Room, SaveDeletion(r)
    PROVE  Disk' /\ UpInv'
<1> DEFINE F == {<<r, "messages">>, <<r, "state">>}
           w == <<r, "deletion">>
<1>1. /\ RoomBlock("deletion") /\ r \in Head(queue).rooms
      /\ MoveToBackup(F) /\ RoomDone(r) /\ step' = step /\ cur' = cur
      /\ "deletion" \in RoomOp
  BY DEF SaveDeletion, RoomBlock, RoomOp, Running
<1>2. /\ TypeOK /\ queue # <<>> /\ Head(queue).op = "deletion" /\ step = "start"
      /\ Todo = Work(queue) /\ Todo' = Work(queue') /\ \A x : Handled(x)' = Handled(x)
      /\ Kept(MetaFile) = Whole(backupEventStreamToken)
  BY <1>1, RoomBlockFacts
<1>3. roomState' = roomState /\ backupEventStreamToken' = backupEventStreamToken
  BY <1>1 DEF RoomBlock, mainVars
<1>4. /\ queue' # <<>> /\ Blocks' /\ (Renames(queue) => Renames(queue'))
      /\ Work(queue') = Work(queue) \ {w}
  BY <1>1, <1>2, <1>3, RoomDoneWork DEF UpInv
<1>5. w \in Todo
  BY <1>1, <1>2, WorkHead DEF UpInv
<1>6. F \subseteq RoomFile /\ \A f \in RoomFile : f[1] = r <=> f \in F
  BY FileFacts
<1>7. \A f \in F : /\ f \in Todo \/ Live(r) \cap Handled(r) = {}
                   /\ saved[f] = Absent
                   /\ backupEventStreamToken = {} => file[f] = Absent
  BY <1>5, <1>6 DEF UpInv, Gone
<1>8. /\ Disk' /\ Target' = Target
      /\ \A f \in File \ F : file'[f] = file[f] /\ saved'[f] = saved[f]
      /\ backupEventStreamToken # {} => \A f \in F : file'[f] = Absent
      /\ backupEventStreamToken = {} => file' = file /\ saved' = saved
  BY <1>1, <1>2, <1>6, <1>7, FileFacts, MoveKept
<1>9. \A f \in F : file'[f] = Absent
  BY <1>7, <1>8
<1>10. MetaFile \in File \ F
  BY <1>6, FileFacts
<1>11. Blocks' /\ Response' /\ Memory' /\ Unsaved' /\ Meta'
  <2>1. \A f \in RoomFile : f \in Todo \/ file'[f] = file[f] \/ file'[f] = Absent
    BY <1>8, <1>9, FileFacts
  <2> QED
    BY <1>1, <1>2, <1>4, <1>8, <1>10, <2>1, RoomBlockFrame
<1>12. Gone'
  <2> SUFFICES ASSUME NEW v \in Todo', v[2] = "deletion", NEW f \in RoomFile, f[1] = v[1]
               PROVE  /\ f \in Todo' \/ Live(f[1]) \cap Handled(f[1])' = {}
                      /\ saved'[f] = Absent
                      /\ backupEventStreamToken = {} => file'[f] = Absent
    BY <1>3 DEF Gone, Live
  <2>1. v \in Todo /\ v # w /\ v \in Room \X RoomOp
    BY <1>2, <1>4 DEF Work
  <2>2. v = <<v[1], v[2]>>
    BY <2>1
  <2>3. f \notin F /\ f # w
    BY <1>6, <2>1, <2>2, FileFacts
  <2>4. /\ f \in Todo \/ Live(f[1]) \cap Handled(f[1]) = {}
        /\ saved[f] = Absent /\ (backupEventStreamToken = {} => file[f] = Absent)
    BY <2>1 DEF UpInv, Gone
  <2>5. f \in Todo => f \in Todo'
    BY <1>2, <1>4, <2>3
  <2> QED
    BY <1>2, <1>8, <2>3, <2>4, <2>5, FileFacts
<1>13. Files'
  <2> SUFFICES ASSUME NEW f \in RoomFile
               PROVE  \/ f \in Todo' \/ <<f[1], "deletion">> \in Todo'
                      \/ Right(f, file'[f], Handled(f[1]))
    BY <1>2 DEF Files, Right, Live, Cuts
  <2>1. f # w
    BY FileFacts
  <2>2. CASE f \in F
    BY <1>2, <1>4, <1>6, <1>7, <1>9, <2>1, <2>2, RightAbsent
  <2>3. CASE f \notin F
    <3>1. <<f[1], "deletion">> # w /\ file'[f] = file[f]
      BY <1>6, <1>8, <2>3, FileFacts
    <3> QED
      BY <1>2, <1>4, <2>1, <3>1 DEF UpInv, Files
  <2> QED
    BY <2>2, <2>3
<1>14. MovedOnce'
  <2> SUFFICES ASSUME NEW f \in RoomFile, f \in Todo'
               PROVE  saved'[f] = Absent \/ file'[f] = Absent
    BY DEF MovedOnce
  <2>1. f \in Todo /\ ~Replacing(f)
    BY <1>2, <1>4 DEF Replacing
  <2> QED
    BY <1>8, <1>9, <2>1, FileFacts DEF UpInv, MovedOnce
<1>15. Replaced'
  BY <1>1, <1>2 DEF Replaced, Replacing
<1> QED
  BY <1>8, <1>11, <1>12, <1>13, <1>14, <1>15 DEF UpInv

\* The file of a room is moved to the backup before it is replaced: it was not
\* moved before, and it is kept there unless it holds nothing that is needed.
LEMMA BackupKeeps ==
    ASSUME NEW op \in {"messages", "state"}, NEW r \in Room, RoomBlock(op),
           step = "start", r \in Head(queue).rooms, MoveToBackup({<<r, op>>}),
           cur' = r, step' = "moved", queue' = queue
    PROVE  Disk' /\ UpInv'
<1> DEFINE f0 == <<r, op>>
<1>1. /\ TypeOK /\ Disk /\ UpInv /\ queue # <<>> /\ Head(queue).op = op /\ op \in RoomOp
      /\ Todo = Work(queue) /\ Todo' = Work(queue') /\ \A x : Handled(x)' = Handled(x)
      /\ Kept(MetaFile) = Whole(backupEventStreamToken)
      /\ Target = backupEventStreamToken
  BY RoomBlockFacts DEF RoomBlock
<1>2. roomState' = roomState /\ backupEventStreamToken' = backupEventStreamToken
  BY DEF RoomBlock, mainVars
<1>3. f0 \in RoomFile /\ f0 \in Todo /\ MetaFile \in File \ {f0} /\ {f0} \in SUBSET File
  <2>1. f0 \in RoomFile
    BY FileFacts
  <2>2. f0 \in Todo
    BY <1>1, WorkHead DEF UpInv
  <2> QED
    BY <2>1, <2>2, FileFacts
<1>4. saved[f0] = Absent \/ file[f0] = Absent
  BY <1>1, <1>3 DEF UpInv, MovedOnce, Replacing
<1>5. /\ Disk' /\ Target' = Target
      /\ \A f \in File \ {f0} : file'[f] = file[f] /\ saved'[f] = saved[f]
      /\ saved'[f0] = Absent => backupEventStreamToken = {} \/ Kept(f0) = Absent
  BY <1>1, <1>3, <1>4, MoveKept
<1>6. Todo' = Todo /\ Work(queue') = Work(queue) /\ Head(queue').op = op
  BY <1>1
<1>7. Blocks' /\ (Renames(queue) => Renames(queue'))
  BY <1>1, <1>2 DEF UpInv, Blocks, Snaps
<1>8. Blocks' /\ Response' /\ Memory' /\ Unsaved' /\ Meta'
  <2>1. \A f \in RoomFile : f \in Todo \/ file'[f] = file[f] \/ file'[f] = Absent
    BY <1>3, <1>5, FileFacts
  <2> QED
    BY <1>1, <1>3, <1>5, <1>6, <1>7, <2>1, RoomBlockFrame
<1>9. Gone'
  <2>1. \A w \in Todo' : w[2] # "deletion"
    BY <1>1, <1>6, WorkHead DEF UpInv
  <2> QED
    BY <2>1 DEF Gone
<1>10. Files'
  <2> SUFFICES ASSUME NEW f \in RoomFile
               PROVE  \/ f \in Todo' \/ <<f[1], "deletion">> \in Todo'
                      \/ Right(f, file'[f], Handled(f[1]))
    BY <1>1 DEF Files, Right, Live, Cuts
  <2>1. CASE f = f0
    BY <1>3, <1>6, <2>1
  <2>2. CASE f # f0
    BY <1>1, <1>5, <1>6, <2>2, FileFacts DEF UpInv, Files
  <2> QED
    BY <2>1, <2>2
<1>11. MovedOnce'
  <2> SUFFICES ASSUME NEW f \in RoomFile, f \in Todo'
               PROVE  saved'[f] = Absent \/ file'[f] = Absent \/ Replacing(f)'
    BY DEF MovedOnce
  <2>1. CASE f = f0
    BY <1>6, <2>1 DEF Replacing
  <2>2. CASE f # f0
    <3>1. saved[f] = Absent \/ file[f] = Absent
      BY <1>1, <1>6 DEF UpInv, MovedOnce, Replacing
    <3> QED
      BY <1>5, <2>2, <3>1, FileFacts
  <2> QED
    BY <2>1, <2>2
<1>12. Replaced'
  <2> SUFFICES ASSUME NEW f \in RoomFile, Replacing(f)'
               PROVE  /\ f \in Work(queue') /\ step' # "torn"
                      /\ saved'[f] = Absent => Live(f[1]) \cap Target = {}
    BY <1>5 DEF Replaced, Work, Live
  <2>1. f = f0
    BY <1>6 DEF Replacing
  <2>2. backupEventStreamToken = {} => Target = {}
    BY <1>1
  <2>3. Kept(f0) = Absent => Live(f0[1]) \cap Target = {}
    <3>1. Right(f0, Kept(f0), Target)
      BY <1>1, <1>3 DEF Disk
    <3> QED
      BY <3>1, RightAbsent
  <2> QED
    BY <1>1, <1>3, <1>5, <1>6, <2>1, <2>2, <2>3
<1> QED
  BY <1>5, <1>8, <1>9, <1>10, <1>11, <1>12 DEF UpInv

LEMMA BackupMessagesKeeps ==
    ASSUME TypeInv, Disk, UpInv, NEW r \in Room, BackupMessages(r)
    PROVE  Disk' /\ UpInv'
<1>1. RoomBlock("messages")
  BY DEF BackupMessages, RoomBlock, RoomOp, Running
<1> QED
  BY <1>1, BackupKeeps DEF BackupMessages

LEMMA BackupStateKeeps ==
    ASSUME TypeInv, Disk, UpInv, NEW r \in Room, BackupState(r)
    PROVE  Disk' /\ UpInv'
<1>1. RoomBlock("state")
  BY DEF BackupState, RoomBlock, RoomOp, Running
<1> QED
  BY <1>1, BackupKeeps DEF BackupState

\* A response is applied only when nothing is queued, so the messages that a
\* block has to save are still in memory.
LEMMA SkipMessagesNever ==
    ASSUME TypeInv, Disk, UpInv, NEW r \in Room, SkipMessages(r)
    PROVE  FALSE
<1>1. RoomBlock("messages") /\ r \in Head(queue).rooms /\ r \notin roomStores
  BY DEF SkipMessages, RoomBlock, RoomOp, Running
<1>2. <<r, "messages">> \in Todo
  BY <1>1, RoomBlockFacts, WorkHead DEF UpInv
<1> QED
  BY <1>1, <1>2 DEF UpInv, Memory

\* What is known of a room file when it is written.
LEMMA WriteFacts ==
    ASSUME NEW op \in {"messages", "state"}, RoomBlock(op), step # "start"
    PROVE  LET f0 == <<cur, op>> IN
           /\ TypeOK /\ Disk /\ UpInv /\ queue # <<>> /\ Head(queue).op = op /\ op \in RoomOp
           /\ Todo = Work(queue) /\ Todo' = Work(queue') /\ \A x : Handled(x)' = Handled(x)
           /\ Target \subseteq Handled(cur) /\ cur \in Head(queue).rooms
           /\ f0 \in RoomFile /\ f0 \in Todo /\ MetaFile \in File \ {f0} /\ Replacing(f0)
           /\ \A f : Replacing(f) => f = f0
           /\ saved[f0] = Absent => Live(cur) \cap Target = {}
           /\ step = "torn" => op = "state" /\ file[f0] = Torn(roomState[cur])
           /\ \A w \in Todo : w[2] # "deletion"
           /\ roomState' = roomState /\ backupEventStreamToken' = backupEventStreamToken
<1> DEFINE f0 == <<cur, op>>
<1>1. /\ TypeOK /\ Disk /\ UpInv /\ queue # <<>> /\ Head(queue).op = op /\ op \in RoomOp
      /\ Todo = Work(queue) /\ Todo' = Work(queue') /\ \A x : Handled(x)' = Handled(x)
      /\ Target \subseteq token /\ cur \in Room
  BY RoomBlockFacts DEF RoomBlock
<1>2. f0 \in RoomFile /\ MetaFile \in File \ {f0}
  <2>1. f0 \in RoomFile
    BY <1>1 DEF RoomFile
  <2> QED
    BY <2>1, FileFacts
<1>3. Replacing(f0) /\ \A f : Replacing(f) => f = f0
  BY <1>1 DEF Replacing
<1>4. /\ f0 \in Work(queue)
      /\ saved[f0] = Absent => Live(f0[1]) \cap Target = {}
      /\ step = "torn" => f0[2] = "state" /\ file[f0] = Torn(roomState[f0[1]])
  BY <1>1, <1>2, <1>3 DEF UpInv, Replaced
<1>5. cur \in Head(queue).rooms /\ \A w \in Todo : w[2] # "deletion"
  BY <1>1, <1>4, WorkHead DEF UpInv
<1>6. Target \subseteq Handled(cur)
  BY <1>1 DEF Handled
<1>7. roomState' = roomState /\ backupEventStreamToken' = backupEventStreamToken
  BY DEF RoomBlock, mainVars
<1> QED
  BY <1>1, <1>2, <1>3, <1>4, <1>5, <1>6, <1>7

\* The file of a room is written whole: it holds what the memory holds.
LEMMA WriteKeeps ==
    ASSUME NEW op \in {"messages", "state"}, RoomBlock(op), step # "start", NEW c,
           file' = [file EXCEPT ![<<cur, op>>] = c], Right(<<cur, op>>, c, Handled(cur)),
           UNCHANGED backupVars, RoomDone(cur), step' = "start"
    PROVE  Disk' /\ UpInv'
<1> DEFINE f0 == <<cur, op>>
<1>1. /\ TypeOK /\ Disk /\ UpInv /\ queue # <<>> /\ Head(queue).op = op /\ op \in RoomOp
      /\ Todo = Work(queue) /\ Todo' = Work(queue') /\ \A x : Handled(x)' = Handled(x)
      /\ Target \subseteq Handled(cur) /\ cur \in Head(queue).rooms
      /\ f0 \in RoomFile /\ f0 \in Todo /\ MetaFile \in File \ {f0}
      /\ \A f : Replacing(f) => f = f0
      /\ \A w \in Todo : w[2] # "deletion"
      /\ roomState' = roomState
  BY WriteFacts
<1>2. Right(f0, c, Target)
  BY <1>1, RightLess
<1>3. /\ Disk' /\ Target' = Target /\ file'[f0] = c
      /\ \A g \in File \ {f0} : file'[g] = file[g]
  BY <1>1, <1>2, WriteKept
<1>4. saved' = saved
  BY DEF backupVars
<1>5. /\ queue' # <<>> /\ Blocks' /\ (Renames(queue) => Renames(queue'))
      /\ Todo' = Todo \ {f0}
  BY <1>1, RoomDoneWork DEF UpInv
<1>6. Blocks' /\ Response' /\ Memory' /\ Unsaved' /\ Meta'
  <2>1. \A f \in RoomFile : f \in Todo \/ file'[f] = file[f] \/ file'[f] = Absent
    BY <1>1, <1>3, FileFacts
  <2> QED
    BY <1>1, <1>3, <1>4, <1>5, <2>1, RoomBlockFrame
<1>7. Gone'
  BY <1>1, <1>5 DEF Gone
<1>8. Files'
  <2> SUFFICES ASSUME NEW f \in RoomFile
               PROVE  \/ f \in Todo' \/ <<f[1], "deletion">> \in Todo'
                      \/ Right(f, file'[f], Handled(f[1]))
    BY <1>1 DEF Files, Right, Live, Cuts
  <2>1. CASE f = f0
    BY <1>3, <2>1
  <2>2. CASE f # f0
    <3>1. <<f[1], "deletion">> # f0
      OBVIOUS
    <3> QED
      BY <1>1, <1>3, <1>5, <2>2, <3>1, FileFacts DEF UpInv, Files
  <2> QED
    BY <2>1, <2>2
<1>9. MovedOnce'
  <2> SUFFICES ASSUME NEW f \in RoomFile, f \in Todo'
               PROVE  saved'[f] = Absent \/ file'[f] = Absent
    BY DEF MovedOnce
  <2>1. f \in Todo /\ f # f0 /\ ~Replacing(f)
    BY <1>1, <1>5
  <2> QED
    BY <1>1, <1>3, <1>4, <2>1, FileFacts DEF UpInv, MovedOnce
<1>10. Replaced'
  BY DEF Replaced, Replacing
<1> QED
  BY <1>3, <1>6, <1>7, <1>8, <1>9, <1>10 DEF UpInv

LEMMA WriteMessagesKeeps ==
    ASSUME TypeInv, Disk, UpInv, WriteMessages
    PROVE  Disk' /\ UpInv'
<1>1. /\ RoomBlock("messages") /\ step = "moved"
      /\ file' = [file EXCEPT ![<<cur, "messages">>] = Whole(events[cur])]
      /\ UNCHANGED backupVars /\ RoomDone(cur) /\ step' = "start"
  BY DEF WriteMessages, RoomBlock, RoomOp, Running
<1>2. <<cur, "messages">> \in Todo
  BY <1>1, WriteFacts
<1>3. cur \in roomStores
  BY <1>2 DEF UpInv, Memory
<1>4. Right(<<cur, "messages">>, Whole(events[cur]), Handled(cur))
  BY <1>3 DEF UpInv, Memory
<1> QED
  BY <1>1, <1>4, WriteKeeps

LEMMA EndStateKeeps ==
    ASSUME TypeInv, Disk, UpInv, EndState
    PROVE  Disk' /\ UpInv'
<1> DEFINE f0 == <<cur, "state">>
<1>1. /\ RoomBlock("state") /\ step = "torn"
      /\ file' = [file EXCEPT ![f0] = Whole(@.data)]
      /\ UNCHANGED backupVars /\ RoomDone(cur) /\ step' = "start"
  BY DEF EndState, RoomBlock, RoomOp, Running
<1>2. f0 \in RoomFile /\ file[f0] = Torn(roomState[cur])
  BY <1>1, WriteFacts
<1>3. file' = [file EXCEPT ![f0] = Whole(roomState[cur])]
  BY <1>1, <1>2, ContentFacts
<1>4. cur \in Room
  BY <1>1, RoomBlockFacts
<1>5. Right(f0, Whole(roomState[cur]), Handled(cur))
  BY <1>4 DEF UpInv, Memory
<1> QED
  BY <1>1, <1>3, <1>5, WriteKeeps

\* The state file is torn while it is written, but its backup is kept, or nothing
\* of it is needed.
LEMMA BeginStateKeeps ==
    ASSUME TypeInv, Disk, UpInv, BeginState
    PROVE  Disk' /\ UpInv'
<1> DEFINE f0 == <<cur, "state">>
           c == Torn(roomState[cur])
<1>1. /\ RoomBlock("state") /\ step = "moved"
      /\ file' = [file EXCEPT ![f0] = Torn(Head(queue).snap[cur])]
      /\ UNCHANGED backupVars /\ queue' = queue /\ step' = "torn" /\ cur' = cur
  BY DEF BeginState, RoomBlock, RoomOp, Running
<1>2. /\ TypeOK /\ Disk /\ UpInv /\ queue # <<>> /\ Head(queue).op = "state"
      /\ "state" \in RoomOp
      /\ Todo = Work(queue) /\ Todo' = Work(queue') /\ \A x : Handled(x)' = Handled(x)
      /\ Target \subseteq Handled(cur)
      /\ f0 \in RoomFile /\ f0 \in Todo /\ MetaFile \in File \ {f0}
      /\ \A f : Replacing(f) => f = f0
      /\ saved[f0] = Absent => Live(cur) \cap Target = {}
      /\ \A w \in Todo : w[2] # "deletion"
      /\ roomState' = roomState
  BY <1>1, WriteFacts
<1>3. file' = [file EXCEPT ![f0] = c]
  <2>1. Head(queue) = queue[1] /\ 1 \in 1..Len(queue)
    BY <1>2 DEF TypeOK
  <2>2. Head(queue).snap = roomState
    BY <1>2, <2>1 DEF UpInv, Blocks, Snaps
  <2> QED
    BY <1>1, <2>2
<1>4. saved[f0] # Absent \/ Right(f0, c, Target)
  <2>1. cur \in Room
    BY <1>1, RoomBlockFacts
  <2>2. Right(f0, Whole(roomState[cur]), Handled(cur))
    BY <2>1 DEF UpInv, Memory
  <2>3. Right(f0, Whole(roomState[cur]), Target)
    BY <1>2, <2>2, RightLess
  <2>4. Live(cur) \cap Target = {} => Right(f0, c, Target)
    BY <2>3 DEF Right, Whole, Torn
  <2> QED
    BY <1>2, <2>4
<1>5. /\ Disk' /\ Target' = Target /\ file'[f0] = c
      /\ \A g \in File \ {f0} : file'[g] = file[g]
  BY <1>1, <1>2, <1>3, <1>4, WriteKept
<1>6. saved' = saved /\ Todo' = Todo
  BY <1>1, <1>2 DEF backupVars
<1>7. Blocks' /\ (Renames(queue) => Renames(queue')) /\ Work(queue') = Work(queue)
  BY <1>1, <1>2 DEF UpInv, Blocks, Snaps
<1>8. Blocks' /\ Response' /\ Memory' /\ Unsaved' /\ Meta'
  <2>1. \A f \in RoomFile : f \in Todo \/ file'[f] = file[f] \/ file'[f] = Absent
    BY <1>2, <1>5, FileFacts
  <2> QED
    BY <1>1, <1>2, <1>5, <1>6, <1>7, <2>1, RoomBlockFrame
<1>9. Gone'
  BY <1>2, <1>6 DEF Gone
<1>10. Files'
  <2> SUFFICES ASSUME NEW f \in RoomFile
               PROVE  \/ f \in Todo' \/ <<f[1], "deletion">> \in Todo'
                      \/ Right(f, file'[f], Handled(f[1]))
    BY <1>2 DEF Files, Right, Live, Cuts
  <2> QED
    BY <1>2, <1>5, <1>6, FileFacts DEF UpInv, Files
<1>11. MovedOnce'
  <2> SUFFICES ASSUME NEW f \in RoomFile, f \in Todo'
               PROVE  saved'[f] = Absent \/ file'[f] = Absent \/ Replacing(f)'
    BY DEF MovedOnce
  <2>1. CASE f = f0
    BY <1>1, <1>2, <2>1 DEF Replacing
  <2>2. CASE f # f0
    BY <1>2, <1>5, <1>6, <2>2, FileFacts DEF UpInv, MovedOnce
  <2> QED
    BY <2>1, <2>2
<1>12. Replaced'
  <2> SUFFICES ASSUME NEW f \in RoomFile, Replacing(f)'
               PROVE  /\ f \in Work(queue')
                      /\ saved'[f] = Absent => Live(f[1]) \cap Target = {}
                      /\ f[2] = "state" /\ file'[f] = Torn(roomState[f[1]])
    BY <1>2, <1>5 DEF Replaced, Work, Live
  <2>1. f = f0
    BY <1>1, <1>2 DEF Replacing
  <2> QED
    BY <1>2, <1>5, <1>6, <1>7, <2>1
<1> QED
  BY <1>5, <1>8, <1>9, <1>10, <1>11, <1>12 DEF UpInv
-----------------------------------------------------------------------------
(***************************************************************************)
(* The blocks that save the metadata and end a commit.                     *)
(***************************************************************************)
EndBlock ==
    /\ TypeInv /\ Disk /\ UpInv
    /\ Up /\ queue # <<>> /\ Head(queue).op \in {"meta", "cleanup"}
    /\ UNCHANGED <<mainVars, dirtyVars, pendingCommits>>
    /\ queue' \in {queue, Tail(queue)} /\ (queue' # queue => step' = "start")
    /\ \A f \in RoomFile : file'[f] = file[f]

\* Such a block has only the metadata to disturb.
LEMMA EndBlockFrame ==
    ASSUME EndBlock
    PROVE  /\ \A f \in RoomFile : Right(f, file[f], token)
           /\ Meta' => UpInv'
<1>1. /\ TypeOK /\ Marked = {} /\ Work(queue) = {} /\ Todo = {} /\ Work(Tail(queue)) = {}
      /\ Head(queue) = queue[1] /\ queue \in Seq(Block) /\ Head(queue).op \notin RoomOp
  BY NoTodo, RoomOpType DEF EndBlock, TypeInv, TypeOK, UpInv
<1>2. /\ token' = token /\ syncTo' = syncTo /\ syncRooms' = syncRooms
      /\ roomStores' = roomStores /\ events' = events /\ roomState' = roomState
      /\ Marked' = {} /\ \A r : Handled(r)' = Handled(r)
  BY <1>1 DEF EndBlock, mainVars, dirtyVars, Marked, Handled
<1>3. Work(queue') = {} /\ Todo' = {}
  BY <1>1, <1>2 DEF EndBlock, Todo, Work
<1>4. \A f \in RoomFile : Right(f, file[f], Handled(f[1]))
  BY <1>1 DEF EndBlock, UpInv, Files
<1>5. ASSUME NEW f \in RoomFile PROVE Right(f, file[f], token)
  <2>1. token \subseteq Handled(f[1])
    BY DEF Handled
  <2> QED
    BY <1>4, <2>1, RightLess
<1>6. Blocks'
  <2>1. Sorted(queue') /\ Ended(queue') /\ Snaps(queue')
    <3>1. Sorted(queue) /\ Ended(queue) /\ Snaps(queue)
      BY DEF EndBlock, UpInv, Blocks
    <3>2. Sorted(Tail(queue)) /\ Ended(Tail(queue)) /\ Snaps(Tail(queue))
      BY <1>1, <3>1, TailBlocks DEF EndBlock
    <3> QED
      BY <3>1, <3>2 DEF EndBlock
  <2> QED
    BY <1>2, <2>1 DEF Blocks, Snaps
<1>7. Response'
  BY <1>2 DEF EndBlock, UpInv, Response, OneSection
<1>8. Memory'
  BY <1>2, <1>3 DEF EndBlock, UpInv, Memory, Right, Live, Cuts
<1>9. Gone' /\ MovedOnce'
  BY <1>3 DEF Gone, MovedOnce
<1>10. Unsaved'
  BY <1>2, <1>3 DEF EndBlock, UpInv, Unsaved
<1>11. Files'
  BY <1>2, <1>4 DEF EndBlock, Files, Right, Live, Cuts
<1>12. Replaced'
  <2> SUFFICES ASSUME NEW f \in RoomFile, Replacing(f)' PROVE FALSE
    BY DEF Replaced
  <2>1. queue' = queue
    BY DEF EndBlock, Replacing
  <2>2. f[2] = Head(queue).op
    BY <2>1 DEF Replacing
  <2> QED
    BY <1>1, <2>2, FileFacts DEF RoomOp
<1> QED
  BY <1>5, <1>6, <1>7, <1>8, <1>9, <1>10, <1>11, <1>12 DEF UpInv

\* At the end of a commit the metadata that is on the disk is the one in memory.
LEMMA EndFacts ==
    ASSUME TypeInv, UpInv, queue # <<>>, Head(queue).op = "cleanup"
    PROVE  /\ step = "start" /\ ~Started /\ ~Reset
           /\ backupEventStreamToken = token /\ file[MetaFile] = Whole(token)
<1>1. step = "start"
  BY DEF TypeInv, InFile
<1>2. ~Started /\ ~Reset
  BY <1>1 DEF Started, Reset
<1>3. ~Renames(queue)
  <2> SUFFICES ASSUME Renames(queue) PROVE FALSE
    OBVIOUS
  <2>1. PICK i \in 1..Len(queue) :
          queue[i].op = "meta" /\ \A j \in 1..(i - 1) : queue[j].op \in RoomOp
    BY DEF Renames
  <2>2. Head(queue) = queue[1] /\ Len(queue) \in Nat
    BY DEF TypeInv, TypeOK
  <2>3. i = 1 \/ 1 \in 1..(i - 1)
    BY <2>2
  <2> QED
    BY <2>1, <2>2, <2>3, RoomOpType
<1> QED
  BY <1>1, <1>2, <1>3 DEF UpInv, Meta

\* The metadata is moved to the backup, and is kept there.
LEMMA BackupMetaKeeps ==
    ASSUME TypeInv, Disk, UpInv, BackupMeta
    PROVE  Disk' /\ UpInv'
<1>1. /\ Up /\ queue # <<>> /\ Head(queue).op = "meta" /\ step = "start"
      /\ MoveToBackup({MetaFile}) /\ backupEventStreamToken' = token
      /\ step' = "moved" /\ queue' = queue
      /\ UNCHANGED <<mainVars, dirtyVars, pendingCommits>>
  BY DEF BackupMeta, Running, Up
<1>2. ~Started /\ saved[MetaFile] = Absent
      /\ (file[MetaFile] = Whole(backupEventStreamToken) \/ \A f \in File : file[f] = Absent)
  BY <1>1 DEF Started, UpInv, Meta, Reset
<1>3. Kept(MetaFile) = Whole(backupEventStreamToken) \/ \A f \in File : file[f] = Absent
  BY <1>2 DEF Kept
<1>4. MetaFile \in File /\ {MetaFile} \in SUBSET File
  BY FileFacts
<1>5. /\ Disk' /\ \A f \in File \ {MetaFile} : file'[f] = file[f]
      /\ backupEventStreamToken # {} => file'[MetaFile] = Absent
      /\ backupEventStreamToken = {} => file'[MetaFile] = file[MetaFile]
  BY <1>1, <1>2, <1>3, <1>4, MoveKept DEF TypeInv
<1>6. EndBlock
  BY <1>1, <1>5, FileFacts DEF EndBlock
<1>7. ~HasToken(file'[MetaFile])
  BY <1>2, <1>4, <1>5, ContentFacts
<1>8. saved'[MetaFile] # Absent \/ ~backupRoot'
  BY <1>5, <1>7 DEF Disk, Kept
<1>9. Meta'
  BY <1>1, <1>7, <1>8 DEF Meta, Started, mainVars
<1> QED
  BY <1>5, <1>6, <1>9, EndBlockFrame

\* The metadata is torn while it is written, but either its backup is kept or the
\* store has no token to lose.
LEMMA BeginMetaKeeps ==
    ASSUME TypeInv, Disk, UpInv, BeginMeta
    PROVE  Disk' /\ UpInv'
<1>1. /\ Up /\ queue # <<>> /\ Head(queue).op = "meta" /\ step = "moved"
      /\ file' = [file EXCEPT ![MetaFile] = Torn(token)]
      /\ step' = "torn" /\ queue' = queue
      /\ UNCHANGED <<mainVars, dirtyVars, pendingCommits, backupEventStreamToken, backupVars>>
  BY DEF BeginMeta, Running, Up
<1>2. /\ Started /\ backupEventStreamToken = token /\ ~HasToken(file[MetaFile])
      /\ saved[MetaFile] # Absent \/ ~backupRoot
  BY <1>1 DEF Started, UpInv, Meta
<1>3. /\ file'[MetaFile] = Torn(token) /\ \A f \in File \ {MetaFile} : file'[f] = file[f]
      /\ saved' = saved /\ backupRoot' = backupRoot /\ backupDirs' = backupDirs
  BY <1>1, FileFacts DEF TypeInv, TypeOK, backupVars
<1>4. ~HasToken(file'[MetaFile])
  BY <1>3, ContentFacts
<1>5. \A f \in RoomFile : Kept(f)' = Kept(f)
  BY <1>3, FileFacts DEF Kept
<1>6. Target' = Target
  BY <1>2, <1>3, <1>4 DEF Target, Kept
<1>7. Disk'
  BY <1>2, <1>3, <1>5, <1>6 DEF Disk, Kept
<1>8. EndBlock
  BY <1>1, <1>3, FileFacts DEF EndBlock
<1>9. Meta'
  <2>1. Started' /\ token' = token /\ backupEventStreamToken' = backupEventStreamToken
    BY <1>1 DEF Started, mainVars
  <2> QED
    BY <1>1, <1>2, <1>3, <1>4, <2>1 DEF Meta
<1> QED
  BY <1>7, <1>8, <1>9, EndBlockFrame

\* The metadata is written whole: a store without a backup now serves its token.
LEMMA EndMetaKeeps ==
    ASSUME TypeInv, BackupInv, Disk, UpInv, EndMeta
    PROVE  Disk' /\ UpInv'
<1>1. /\ Up /\ queue # <<>> /\ Head(queue).op = "meta" /\ step = "torn"
      /\ file' = [file EXCEPT ![MetaFile] = Whole(@.data)]
      /\ step' = "start" /\ queue' = Tail(queue)
      /\ UNCHANGED <<mainVars, dirtyVars, pendingCommits, backupEventStreamToken, backupVars>>
  BY DEF EndMeta, Running, Up
<1>2. /\ Started /\ backupEventStreamToken = token /\ ~HasToken(file[MetaFile])
      /\ file[MetaFile] = Torn(token)
      /\ saved[MetaFile] # Absent \/ ~backupRoot
  BY <1>1 DEF Started, UpInv, Meta
<1>3. /\ file'[MetaFile] = Whole(token) /\ \A f \in File \ {MetaFile} : file'[f] = file[f]
      /\ saved' = saved /\ backupRoot' = backupRoot /\ backupDirs' = backupDirs
      /\ token' = token /\ backupEventStreamToken' = backupEventStreamToken
  BY <1>1, <1>2, FileFacts, ContentFacts DEF TypeInv, TypeOK, backupVars, mainVars
<1>4. EndBlock
  BY <1>1, <1>3, FileFacts DEF EndBlock
<1>5. \A f \in RoomFile : Kept(f)' = Kept(f)
  BY <1>3, FileFacts DEF Kept
<1>6. Disk'
  <2>1. CASE saved[MetaFile] # Absent
    <3>1. Kept(MetaFile)' = Kept(MetaFile) /\ Target' = Target
      BY <1>3, <2>1 DEF Target, Kept
    <3> QED
      BY <1>3, <1>5, <3>1 DEF Disk
  <2>2. CASE saved[MetaFile] = Absent
    <3>1. ~backupRoot /\ backupDirs = {} /\ \A f \in File : saved[f] = Absent
      BY <1>2, <2>2 DEF Disk
    <3>2. Target' \subseteq token
      BY <1>3, <2>2, ContentFacts DEF Target, Kept
    <3>3. \A f \in RoomFile : Right(f, file[f], Target')
      BY <1>4, <3>2, EndBlockFrame, RightLess
    <3>4. \A f \in RoomFile : Kept(f)' = file[f]
      BY <1>3, <3>1, FileFacts DEF Kept
    <3> QED
      BY <1>3, <3>1, <3>3, <3>4 DEF Disk
  <2> QED
    BY <2>1, <2>2
<1>7. ASSUME backupRoot PROVE queue' # <<>> /\ Head(queue').op = "cleanup"
  <2>1. backupDirs # {}
    BY <1>7 DEF Disk
  <2>2. queue \in Seq(Block) /\ Head(queue) = queue[1]
    BY DEF TypeInv, TypeOK
  <2>3. Followed(queue, 1)
    BY <1>1, <2>1 DEF BackupInv, QueueInv, NewMeta
  <2>4. 1 < Len(queue) /\ queue[1 + 1].op = "cleanup"
    BY <1>1, <2>2, <2>3 DEF Followed
  <2>5. Tail(queue) # <<>> /\ Head(Tail(queue)) = queue[1 + 1]
    BY <2>2, <2>4, SecondBlock
  <2> QED
    BY <1>1, <2>4, <2>5
<1>8. Meta'
  <2>1. ~Started'
    BY <1>1 DEF Started
  <2>2. saved[MetaFile] # Absent => backupRoot
    BY FileFacts DEF Disk
  <2> QED
    BY <1>2, <1>3, <1>7, <2>1, <2>2 DEF Meta
<1> QED
  BY <1>4, <1>6, <1>8, EndBlockFrame

LEMMA CommitEndKeeps ==
    ASSUME TypeInv, Disk, UpInv, CommitEnd
    PROVE  Disk' /\ UpInv'
<1>1. /\ Up /\ queue # <<>> /\ Head(queue).op = "cleanup" /\ ~backupRoot
      /\ queue' = Tail(queue) /\ step' = step
      /\ UNCHANGED <<mainVars, dirtyVars, pendingCommits, backupEventStreamToken, file, backupVars>>
  BY DEF CommitEnd, Running, Up, diskVars
<1>2. /\ step = "start" /\ backupEventStreamToken = token /\ file[MetaFile] = Whole(token)
  BY <1>1, EndFacts
<1>3. Disk'
  BY <1>1, DiskSame
<1>4. EndBlock
  BY <1>1, <1>2 DEF EndBlock
<1>5. saved[MetaFile] = Absent
  BY <1>1, FileFacts DEF Disk
<1>6. Meta'
  BY <1>1, <1>2, <1>5 DEF Meta, Started, mainVars, backupVars
<1> QED
  BY <1>3, <1>4, <1>6, EndBlockFrame

\* The backup is removed once the files alone serve the token in memory.
LEMMA RemoveBackupKeeps ==
    ASSUME TypeInv, Disk, UpInv, Up, RemoveBackup
    PROVE  Disk' /\ UpInv'
<1>1. /\ queue # <<>> /\ Head(queue).op = "cleanup" /\ queue' = queue /\ step' = step
      /\ backupRoot' = FALSE /\ backupDirs' = {} /\ saved' = [f \in File |-> Absent]
      /\ UNCHANGED <<mainVars, dirtyVars, pendingCommits, backupEventStreamToken, file>>
  BY DEF RemoveBackup, RemovingBackup, Running, Up, queueVars, diskVars
<1>2. /\ step = "start" /\ backupEventStreamToken = token /\ file[MetaFile] = Whole(token)
  BY <1>1, EndFacts
<1>3. EndBlock
  BY <1>1 DEF EndBlock
<1>4. \A f \in File : Kept(f)' = file[f]
  BY <1>1 DEF Kept
<1>5. Target' \subseteq token
  BY <1>2, <1>4, FileFacts, ContentFacts DEF Target
<1>6. \A f \in RoomFile : Right(f, file[f], Target')
  BY <1>3, <1>5, EndBlockFrame, RightLess
<1>7. Disk'
  BY <1>1, <1>4, <1>6, FileFacts DEF Disk
<1>8. Meta'
  BY <1>1, <1>2, FileFacts DEF Meta, Started, mainVars
<1> QED
  BY <1>3, <1>7, <1>8, EndBlockFrame
-----------------------------------------------------------------------------
(***************************************************************************)
(* The main thread.                                                        *)
(***************************************************************************)
\* A token is a prefix of the stream.
LEMMA TokenBelow ==
    ASSUME NEW t \in Token, NEW q \in t, NEW p \in Position \ t
    PROVE  p > q
<1>1. Len(ServerLog) \in Nat
  BY LogAssumption
<1>2. PICK k \in 0..Len(ServerLog) : t = 1..k
  BY DEF Token, Upto
<1> QED
  BY <1>1, <1>2 DEF Position

\* The step changes nothing that the invariant is about but, if nothing is
\* marked, the count of pending commits.
LEMMA UpSame ==
    ASSUME Disk, UpInv,
           UNCHANGED <<token, roomStores, events, roomState, syncTo, syncRooms,
                       toDeletion, toMessages, toState, queue, cur, step,
                       backupEventStreamToken, file, backupVars>>,
           Marked = {} \/ UNCHANGED pendingCommits
    PROVE  Disk' /\ UpInv'
<1>1. Disk'
  BY DiskSame
<1>2. Marked' = Marked /\ Todo' = Todo /\ \A r : Handled(r)' = Handled(r)
  BY DEF Marked, Todo, Work, Handled
<1>3. saved' = saved /\ backupRoot' = backupRoot
  BY DEF backupVars
<1>4. Blocks'
  BY DEF UpInv, Blocks, Sorted, Ended, Snaps
<1>5. Response'
  BY <1>2 DEF UpInv, Response, OneSection
<1>6. Memory' /\ Gone' /\ Files' /\ Unsaved'
  <2>1. Memory'
    BY <1>2 DEF UpInv, Memory
  <2>2. Gone'
    BY <1>2, <1>3 DEF UpInv, Gone
  <2>3. Files'
    BY <1>2 DEF UpInv, Files
  <2>4. Unsaved'
    BY <1>2 DEF UpInv, Unsaved
  <2> QED
    BY <2>1, <2>2, <2>3, <2>4
<1>7. \A f : Replacing(f)' <=> Replacing(f)
  BY DEF Replacing
<1>8. MovedOnce'
  BY <1>2, <1>3, <1>7 DEF UpInv, MovedOnce
<1>9. Replaced'
  <2>1. Target' = Target /\ Work(queue)' = Work(queue)
    BY <1>3 DEF Target, Kept, Work
  <2> QED
    BY <1>3, <1>7, <2>1 DEF UpInv, Replaced
<1>10. Meta'
  <2>1. (Started' <=> Started) /\ (Reset' <=> Reset) /\ (Renames(queue)' <=> Renames(queue))
    BY DEF Started, Reset, Renames
  <2> QED
    BY <1>3, <2>1 DEF UpInv, Meta
<1> QED
  BY <1>1, <1>4, <1>5, <1>6, <1>8, <1>9, <1>10 DEF UpInv

\* Nothing is queued: the files are those of the last commit.
LEMMA IdleFacts ==
    ASSUME TypeInv, Disk, UpInv, queue = <<>>
    PROVE  /\ TypeOK /\ step = "start" /\ ~Started /\ ~Reset
           /\ Work(queue) = {} /\ Todo = Marked /\ \A f : ~Replacing(f)
           /\ ~backupRoot /\ \A f \in File : saved[f] = Absent
           /\ backupEventStreamToken = token /\ file[MetaFile] = Whole(token)
<1>1. step = "start" /\ TypeOK
  BY DEF TypeInv, InFile
<1>2. ~Started /\ ~Reset /\ \A f : ~Replacing(f)
  BY <1>1 DEF Started, Reset, Replacing
<1>3. Work(queue) = {} /\ ~Renames(queue)
  BY NoWork
<1>4. ~backupRoot
  BY DEF UpInv, Meta
<1> QED
  BY <1>1, <1>2, <1>3, <1>4 DEF UpInv, Meta, Disk, Todo

LEMMA BeginSyncKeeps ==
    ASSUME TypeInv, Disk, UpInv, Careful, NEW k, BeginSync(k)
    PROVE  Disk' /\ UpInv'
<1>1. /\ syncTo = {} /\ queue = <<>> /\ pendingCommits = 0
      /\ Upto(k) # token /\ token \subseteq Upto(k) /\ OneSection(Upto(k) \ token)
      /\ syncTo' = Upto(k) /\ syncRooms' = {ServerLog[p].room : p \in Upto(k) \ token}
      /\ UNCHANGED <<phase, token, roomStores, events, roomState, dirtyVars,
                     queueVars, file, backupVars>>
  BY DEF BeginSync, MayHandle, Careful, diskVars
<1>2. /\ step = "start" /\ ~Started /\ ~Reset /\ Work(queue) = {} /\ Todo = Marked
      /\ backupEventStreamToken = token /\ file[MetaFile] = Whole(token)
  BY <1>1, IdleFacts
<1>3. Marked = {} /\ Todo = {} /\ syncRooms = {}
  BY <1>1, <1>2 DEF UpInv, Response
<1>4. /\ queue' = queue /\ step' = step /\ cur' = cur /\ pendingCommits' = pendingCommits
      /\ backupEventStreamToken' = backupEventStreamToken
      /\ saved' = saved /\ backupRoot' = backupRoot /\ Marked' = {} /\ Todo' = {}
  BY <1>1, <1>3 DEF queueVars, backupVars, dirtyVars, Marked, Todo, Work
<1>5. ASSUME NEW f, NEW c, Right(f, c, Handled(f[1])) PROVE Right(f, c, Handled(f[1])')
  <2>1. Handled(f[1]) = token
    BY <1>1 DEF Handled
  <2>2. ASSUME NEW p \in Handled(f[1])', ServerLog[p].room = f[1] PROVE p \in token
    BY <1>1, <2>2 DEF Handled
  <2> QED
    BY <1>5, <2>1, <2>2, RightLess
<1>6. Disk'
  BY <1>1, DiskSame
<1>7. Blocks'
  BY <1>1, <1>4, NoWork DEF Blocks, Snaps
<1>8. Response'
  BY <1>1, <1>4 DEF Response, OneSection
<1>9. Memory'
  <2>1. ASSUME NEW r, NEW x PROVE <<r, x>>[1] = r
    OBVIOUS
  <2>2. ASSUME NEW r \in roomStores
        PROVE  Right(<<r, "messages">>, Whole(events[r]), Handled(r)')
    BY <1>5, <2>1 DEF UpInv, Memory
  <2>3. ASSUME NEW r \in Room
        PROVE  Right(<<r, "state">>, Whole(roomState[r]), Handled(r)')
    BY <1>5, <2>1 DEF UpInv, Memory
  <2> QED
    BY <1>1, <1>4, <2>2, <2>3 DEF Memory, Right, Live, Cuts
<1>10. Gone' /\ MovedOnce'
  BY <1>4 DEF Gone, MovedOnce
<1>11. Unsaved'
  BY <1>1, <1>4 DEF UpInv, Unsaved
<1>12. Files'
  BY <1>1, <1>3, <1>5 DEF UpInv, Files, Right, Live, Cuts
<1>13. Replaced'
  BY <1>2, <1>4 DEF Replaced, Replacing
<1>14. Meta'
  BY <1>1, <1>2, <1>4 DEF UpInv, Meta, Started, Reset
<1> QED
  BY <1>6, <1>7, <1>8, <1>9, <1>10, <1>11, <1>12, <1>13, <1>14 DEF UpInv

\* A room of the response is handled, with nothing queued: the work W is marked
\* for it, and that is all that it needs.
Handles(r, W) ==
    /\ r \in syncRooms /\ queue = <<>> /\ pendingCommits = 0
    /\ UNCHANGED <<token, syncTo, queueVars, file, backupVars>>
    /\ syncRooms' = syncRooms \ {r}
    /\ Marked' = Marked \cup W /\ \A w \in W : w = <<r, w[2]>>
    /\ \A x \in Room \ {r} : /\ x \in roomStores' <=> x \in roomStores
                            /\ events'[x] = events[x] /\ roomState'[x] = roomState[x]
    /\ roomStores' \subseteq Room /\ (<<r, "messages">> \in W => r \in roomStores')
    /\ r \in roomStores' => Right(<<r, "messages">>, Whole(events'[r]), token \cup syncTo)
    /\ Right(<<r, "state">>, Whole(roomState'[r]), token \cup syncTo)
    /\ \/ <<r, "messages">> \in W /\ <<r, "state">> \in W
       \/ <<r, "deletion">> \in W /\ Live(r) \cap (token \cup syncTo) = {}

LEMMA HandleRoom ==
    ASSUME TypeInv, Disk, UpInv, NEW r, NEW W, Handles(r, W)
    PROVE  Disk' /\ UpInv'
<1> USE DEF Handles
<1>1. /\ TypeOK /\ step = "start" /\ ~Started /\ ~Reset /\ Work(queue) = {} /\ Todo = Marked
      /\ ~backupRoot /\ \A f \in File : saved[f] = Absent
      /\ backupEventStreamToken = token /\ file[MetaFile] = Whole(token)
  BY IdleFacts
<1>2. /\ queue' = queue /\ step' = step /\ cur' = cur /\ pendingCommits' = pendingCommits
      /\ backupEventStreamToken' = backupEventStreamToken /\ token' = token /\ syncTo' = syncTo
      /\ saved' = saved /\ backupRoot' = backupRoot /\ file' = file
  BY DEF queueVars, backupVars
<1>3. Todo' = Todo \cup W
  BY <1>1, <1>2 DEF Todo, Work
<1>4. r \in Room /\ syncTo # {} /\ \A w \in Todo : w[1] \notin syncRooms
  BY <1>1 DEF TypeOK, UpInv, Response
<1>5. \A w \in W : w = <<r, w[2]>> /\ w[1] = r
  OBVIOUS
<1>6. /\ Handled(r)' = token \cup syncTo
      /\ \A x : x # r => Handled(x)' = Handled(x)
  BY <1>2 DEF Handled
<1>7. Disk'
  BY <1>2, DiskSame
<1>8. Blocks'
  BY <1>2, NoWork DEF Blocks, Snaps
<1>9. Response'
  BY <1>1, <1>2, <1>3, <1>4, <1>5 DEF UpInv, Response, OneSection
<1>10. Memory'
  <2>1. ASSUME NEW x \in roomStores' PROVE Right(<<x, "messages">>, Whole(events'[x]), Handled(x)')
    <3>1. CASE x = r
      BY <1>6, <2>1, <3>1
    <3>2. CASE x # r
      BY <1>6, <2>1, <3>2 DEF UpInv, Memory
    <3> QED
      BY <3>1, <3>2
  <2>2. ASSUME NEW x \in Room PROVE Right(<<x, "state">>, Whole(roomState'[x]), Handled(x)')
    <3>1. CASE x = r
      BY <1>6, <3>1
    <3>2. CASE x # r
      BY <1>6, <3>2 DEF UpInv, Memory
    <3> QED
      BY <3>1, <3>2
  <2>3. ASSUME NEW w \in Todo', w[2] = "messages" PROVE w[1] \in roomStores'
    <3>1. CASE w \in W
      <4>1. w = <<r, "messages">> /\ w[1] = r
        BY <1>5, <2>3, <3>1
      <4> QED
        BY <3>1, <4>1
    <3>2. CASE w \in Todo
      <4>1. w[1] \in roomStores /\ w[1] # r
        BY <1>4, <2>3, <3>2 DEF UpInv, Memory
      <4> QED
        BY <1>1, <4>1 DEF TypeOK
    <3> QED
      BY <1>3, <3>1, <3>2
  <2> QED
    BY <2>1, <2>2, <2>3 DEF Memory, Right, Live, Cuts
<1>11. Gone'
  <2> SUFFICES ASSUME NEW w \in Todo', w[2] = "deletion", NEW f \in RoomFile, f[1] = w[1]
               PROVE  /\ f \in Todo' \/ Live(f[1]) \cap Handled(f[1])' = {}
                      /\ backupEventStreamToken = {} => file[f] = Absent
    BY <1>1, <1>2, FileFacts DEF Gone, Live
  <2>1. CASE w \in W
    <3>1. f[1] = r
      BY <1>5, <2>1
    <3>2. f = <<r, "messages">> \/ f = <<r, "state">>
      BY <3>1, FileFacts
    <3>3. token = {} => file[f] = Absent
      BY <1>4, <3>1 DEF UpInv, Unsaved
    <3> QED
      BY <1>1, <1>3, <1>6, <3>1, <3>2, <3>3
  <2>2. CASE w \in Todo
    <3>1. f[1] # r
      BY <1>4, <2>2
    <3> QED
      BY <1>3, <1>6, <2>2, <3>1 DEF UpInv, Gone
  <2> QED
    BY <1>3, <2>1, <2>2
<1>12. Unsaved'
  <2> SUFFICES ASSUME token = {}, NEW f \in RoomFile, f[1] \in syncRooms \ {r}
               PROVE  file[f] = Absent /\ f \notin Todo'
    BY <1>2, <1>4 DEF Unsaved
  <2> QED
    BY <1>3, <1>5 DEF UpInv, Unsaved
<1>13. Files'
  <2> SUFFICES ASSUME NEW f \in RoomFile
               PROVE  \/ f \in Todo' \/ <<f[1], "deletion">> \in Todo'
                      \/ Right(f, file'[f], Handled(f[1])')
    BY DEF Files, Right, Live, Cuts
  <2>1. CASE f[1] = r
    <3>1. f = <<r, "messages">> \/ f = <<r, "state">>
      BY <2>1, FileFacts
    <3> QED
      BY <1>3, <2>1, <3>1
  <2>2. CASE f[1] # r
    BY <1>2, <1>3, <1>6, <2>2 DEF UpInv, Files
  <2> QED
    BY <2>1, <2>2
<1>14. MovedOnce' /\ Replaced'
  BY <1>1, <1>2, FileFacts DEF MovedOnce, Replaced, Replacing
<1>15. Meta'
  BY <1>1, <1>2, FileFacts DEF Meta, Started
<1> QED
  BY <1>7, <1>8, <1>9, <1>10, <1>11, <1>12, <1>13, <1>14, <1>15 DEF UpInv

\* What the handling of a room starts from.
LEMMA HandleFacts ==
    ASSUME TypeInv, Disk, UpInv, Careful, NEW r \in syncRooms, MayHandle
    PROVE  /\ queue = <<>> /\ pendingCommits = 0 /\ r \in Room /\ Todo = Marked
           /\ Handled(r) = token /\ token \subseteq syncTo /\ token \in Token
           /\ Delta(r, token) = {p \in Position \cap (syncTo \ token) : ServerLog[p].room = r}
           /\ syncTo \subseteq Position
           /\ \A q \in token, p \in Delta(r, token) : p > q
           /\ r \notin toDeletion /\ r \notin toMessages /\ r \notin toState
           /\ roomStores \subseteq Room
           /\ events \in [Room -> SUBSET Position] /\ roomState \in [Room -> SUBSET Position]
<1>1. queue = <<>> /\ pendingCommits = 0
  BY DEF MayHandle, Careful
<1>2. TypeOK /\ Todo = Marked
  BY <1>1, IdleFacts
<1>3. r \in Room /\ token \in Token /\ syncTo \subseteq Position /\ token \subseteq Position
  BY <1>2, TokenType DEF TypeOK
<1>4. syncTo # {} /\ token \subseteq syncTo
  BY DEF UpInv, Response
<1>5. Handled(r) = token
  BY DEF Handled
<1>6. Delta(r, token) = {p \in Position \cap (syncTo \ token) : ServerLog[p].room = r}
  BY <1>3 DEF Delta
<1>7. \A q \in token, p \in Delta(r, token) : p > q
  BY <1>3, <1>6, TokenBelow
<1>8. ASSUME r \in toDeletion \/ r \in toMessages \/ r \in toState PROVE FALSE
  <2>1. PICK w \in Marked : w[1] = r
    <3>1. <<r, "deletion">> \in Marked \/ <<r, "messages">> \in Marked \/ <<r, "state">> \in Marked
      BY <1>8 DEF Marked, Each
    <3> QED
      BY <3>1
  <2> QED
    BY <2>1 DEF UpInv, Response
<1> QED
  BY <1>1, <1>2, <1>3, <1>4, <1>5, <1>6, <1>7, <1>8 DEF TypeOK

\* What getOrCreateRoomStore finds for such a room is right.
LEMMA MessagesRight ==
    ASSUME TypeInv, Disk, UpInv, Careful, NEW r \in syncRooms, MayHandle
    PROVE  Right(<<r, "messages">>, Whole(MessagesOf(r)), token)
<1> DEFINE f == <<r, "messages">>
<1>1. /\ r \in Room /\ Todo = Marked /\ Handled(r) = token /\ r \notin toDeletion
      /\ r \notin toMessages
  BY HandleFacts
<1>2. CASE r \in roomStores
  BY <1>1, <1>2 DEF UpInv, Memory, MessagesOf
<1>3. CASE r \notin roomStores
  <2>1. f \in RoomFile /\ f[1] = r
    BY <1>1, FileFacts
  <2>2. f \notin Todo /\ <<r, "deletion">> \notin Todo
    BY <1>1 DEF Marked, Each
  <2>3. Right(f, file[f], token)
    BY <1>1, <2>1, <2>2 DEF UpInv, Files
  <2>4. CASE file[f].st = "whole"
    <3>1. MessagesOf(r) = file[f].data
      BY <1>1, <1>3, <2>4 DEF MessagesOf
    <3> QED
      BY <2>3, <2>4, <3>1 DEF Right, Whole
  <2>5. CASE file[f].st # "whole"
    <3>1. MessagesOf(r) = {}
      BY <1>3, <2>5 DEF MessagesOf
    <3> QED
      BY <2>3, <2>5, <3>1 DEF Right, Whole
  <2> QED
    BY <2>4, <2>5
<1> QED
  BY <1>2, <1>3

\* Later events, from the last cut of the response on, make the content right for
\* the response.
LEMMA AddEvents ==
    ASSUME TypeInv, Disk, UpInv, Careful, NEW r \in syncRooms, MayHandle,
           NEW x, NEW d, Right(<<r, x>>, Whole(d), token),
           NEW new \in SUBSET Delta(r, token),
           \A p \in Live(r) \cap Delta(r, token) : p \in new,
           \A q \in Cuts(<<r, x>>) : q \notin Delta(r, token)
    PROVE  Right(<<r, x>>, Whole(d \cup new), token \cup syncTo)
<1> DEFINE f == <<r, x>>
<1>1. /\ Delta(r, token) = {p \in Position \cap (syncTo \ token) : ServerLog[p].room = r}
      /\ \A q \in token, p \in Delta(r, token) : p > q
  BY HandleFacts
<1>2. f[1] = r /\ Whole(d).data = d /\ Whole(d \cup new).data = d \cup new
      /\ Whole(d \cup new).st = "whole"
  BY DEF Whole
<1> HIDE DEF f
<1>3. ASSUME NEW p \in Live(r) \cap (token \cup syncTo) PROVE p \in d \cup new
  <2>1. CASE p \in token
    BY <1>2, <1>3, <2>1 DEF Right, f
  <2>2. CASE p \notin token
    BY <1>1, <1>3, <2>2 DEF Live
  <2> QED
    BY <2>1, <2>2
<1>4. ASSUME NEW q \in Cuts(f) \cap (token \cup syncTo), NEW p \in d \cup new
      PROVE  p > q \/ (p = q /\ ServerLog[q].kind = "join")
  <2>1. q \in token
    BY <1>1, <1>2, <1>4 DEF Cuts, f
  <2>2. CASE p \in d
    BY <1>2, <1>4, <2>1, <2>2 DEF Right, f
  <2>3. CASE p \in new
    BY <1>1, <2>1, <2>3
  <2> QED
    BY <2>2, <2>3
<1> QED
  BY <1>2, <1>3, <1>4 DEF Right, f

LEMMA StoreEventsKeeps ==
    ASSUME TypeInv, Disk, UpInv, Careful, NEW r \in Room, StoreEvents(r)
    PROVE  Disk' /\ UpInv'
<1>1. r \in syncRooms /\ MayHandle
  BY DEF StoreEvents
<1>2. /\ \A p \in Delta(r, token) : ServerLog[p].kind = "event"
      /\ events' = [events EXCEPT ![r] = MessagesOf(r) \cup Delta(r, token)]
      /\ roomStores' = roomStores \cup {r}
      /\ roomState' = [roomState EXCEPT ![r] = @ \cup Delta(r, token)]
      /\ toMessages' = toMessages \cup {r} /\ toState' = toState \cup {r}
      /\ toDeletion' = toDeletion /\ syncRooms' = syncRooms \ {r}
      /\ UNCHANGED <<token, syncTo, queueVars, file, backupVars>>
  BY DEF StoreEvents, diskVars
<1>3. /\ queue = <<>> /\ pendingCommits = 0 /\ Handled(r) = token
      /\ roomStores \subseteq Room
      /\ events \in [Room -> SUBSET Position] /\ roomState \in [Room -> SUBSET Position]
  BY <1>1, HandleFacts
<1> DEFINE W == {<<r, "messages">>, <<r, "state">>}
<1>4. Marked' = Marked \cup W
  BY <1>2 DEF Marked, Each
<1>5. \A f : \A q \in Cuts(f) : q \notin Delta(r, token)
  BY <1>2 DEF Cuts
<1>6. Right(<<r, "messages">>, Whole(MessagesOf(r) \cup Delta(r, token)), token \cup syncTo)
  BY <1>1, <1>5, MessagesRight, AddEvents
<1>7. Right(<<r, "state">>, Whole(roomState[r] \cup Delta(r, token)), token \cup syncTo)
  <2>1. Right(<<r, "state">>, Whole(roomState[r]), token)
    BY <1>3 DEF UpInv, Memory
  <2> QED
    BY <1>1, <1>5, <2>1, AddEvents
<1>8. /\ events'[r] = MessagesOf(r) \cup Delta(r, token) /\ roomState'[r] = roomState[r] \cup Delta(r, token)
      /\ \A x \in Room \ {r} : /\ x \in roomStores' <=> x \in roomStores
                               /\ events'[x] = events[x] /\ roomState'[x] = roomState[x]
      /\ roomStores' \subseteq Room /\ r \in roomStores'
  BY <1>2, <1>3
<1>9. <<r, "messages">> \in W /\ <<r, "state">> \in W /\ \A w \in W : w = <<r, w[2]>>
  OBVIOUS
<1>10. /\ Right(<<r, "messages">>, Whole(events'[r]), token \cup syncTo)
       /\ Right(<<r, "state">>, Whole(roomState'[r]), token \cup syncTo)
  BY <1>6, <1>7, <1>8
<1> HIDE DEF W
<1>11. /\ r \in syncRooms /\ queue = <<>> /\ pendingCommits = 0
       /\ UNCHANGED <<token, syncTo, queueVars, file, backupVars>>
       /\ syncRooms' = syncRooms \ {r}
  BY <1>1, <1>2, <1>3
<1>12. Handles(r, W)
  BY <1>4, <1>8, <1>9, <1>10, <1>11 DEF Handles
<1> QED
  BY <1>12, HandleRoom

LEMMA JoinInvitedRoomKeeps ==
    ASSUME TypeInv, Disk, UpInv, Careful, NEW r \in Room, JoinInvitedRoom(r)
    PROVE  Disk' /\ UpInv'
<1>1. r \in syncRooms /\ MayHandle
  BY DEF JoinInvitedRoom
<1>2. PICK j \in Delta(r, token) :
        /\ ServerLog[j].kind = "join"
        /\ \A p \in Delta(r, token) : ServerLog[p].kind = "join" => p <= j
        /\ LET new == {p \in Delta(r, token) : p >= j} IN
             /\ events' = [events EXCEPT ![r] = new]
             /\ roomState' = [roomState EXCEPT ![r] = @ \cup new]
  BY DEF JoinInvitedRoom
<1>3. /\ \A p \in Delta(r, token) : ServerLog[p].kind # "leave"
      /\ roomStores' = roomStores \cup {r} /\ toDeletion' = toDeletion \cup {r}
      /\ toMessages' = toMessages \cup {r} /\ toState' = toState \cup {r}
      /\ syncRooms' = syncRooms \ {r}
      /\ UNCHANGED <<token, syncTo, queueVars, file, backupVars>>
  BY DEF JoinInvitedRoom, diskVars
<1>4. /\ queue = <<>> /\ pendingCommits = 0 /\ Handled(r) = token
      /\ Delta(r, token) = {p \in Position \cap (syncTo \ token) : ServerLog[p].room = r}
      /\ syncTo \subseteq Position /\ token \in Token
      /\ \A q \in token, p \in Delta(r, token) : p > q
      /\ roomStores \subseteq Room
      /\ events \in [Room -> SUBSET Position] /\ roomState \in [Room -> SUBSET Position]
  BY <1>1, HandleFacts
<1> DEFINE new == {p \in Delta(r, token) : p >= j}
           W == {<<r, "deletion">>, <<r, "messages">>, <<r, "state">>}
<1>5. events' = [events EXCEPT ![r] = new] /\ roomState' = [roomState EXCEPT ![r] = @ \cup new]
  BY <1>2
<1>6. new \in SUBSET Delta(r, token) /\ \A p \in new : p >= j
  OBVIOUS
<1>7. \A p \in Delta(r, token) : p >= j => p \in new
  OBVIOUS
<1> HIDE DEF new
<1>8. ASSUME NEW p \in Live(r) PROVE p >= j
  <2>1. /\ p \in Position /\ j \in Position /\ ServerLog[j].room = r
        /\ ~(j > p /\ ServerLog[j].room = r /\ ServerLog[j].kind # "event")
    BY <1>2, <1>4 DEF Live
  <2>2. p \in Nat /\ j \in Nat
    BY <2>1 DEF Position
  <2> QED
    BY <1>2, <2>1, <2>2
<1>9. Right(<<r, "messages">>, Whole(new), token \cup syncTo)
  <2>1. ASSUME NEW p \in Live(r) \cap (token \cup syncTo) PROVE p \in new
    <3>1. p \notin token
      <4> SUFFICES ASSUME p \in token PROVE FALSE
        OBVIOUS
      <4>1. j > p /\ p \in Nat /\ j \in Nat
        BY <1>4, <2>1 DEF Live, Position
      <4> QED
        BY <1>8, <4>1
    <3>2. p \in Delta(r, token)
      BY <1>4, <3>1 DEF Live
    <3> QED
      BY <1>7, <1>8, <3>2
  <2>2. ASSUME NEW q \in Cuts(<<r, "messages">>) \cap (token \cup syncTo), NEW p \in new
        PROVE  p > q \/ (p = q /\ ServerLog[q].kind = "join")
    <3>1. CASE q \in token
      BY <1>4, <1>6, <3>1
    <3>2. CASE q \notin token
      <4>1. q \in Delta(r, token) /\ ServerLog[q].kind = "join"
        BY <1>3, <1>4, <3>2 DEF Cuts
      <4>2. q <= j /\ j <= p /\ q \in Nat /\ j \in Nat /\ p \in Nat
        BY <1>2, <1>4, <1>6, <4>1 DEF Position
      <4> QED
        BY <4>1, <4>2
    <3> QED
      BY <3>1, <3>2
  <2>3. <<r, "messages">>[1] = r /\ Whole(new).data = new /\ Whole(new).st = "whole"
    BY DEF Whole
  <2> QED
    BY <2>1, <2>2, <2>3 DEF Right
<1>10. Right(<<r, "state">>, Whole(roomState[r] \cup new), token \cup syncTo)
  <2>1. Right(<<r, "state">>, Whole(roomState[r]), token)
    BY <1>4 DEF UpInv, Memory
  <2>2. \A q \in Cuts(<<r, "state">>) : q \notin Delta(r, token)
    BY <1>3 DEF Cuts
  <2>3. \A p \in Live(r) \cap Delta(r, token) : p \in new
    BY <1>7, <1>8
  <2> QED
    BY <1>1, <1>6, <2>1, <2>2, <2>3, AddEvents
<1>11. Marked' = Marked \cup W
  BY <1>3 DEF Marked, Each
<1>12. /\ events'[r] = new /\ roomState'[r] = roomState[r] \cup new
       /\ \A x \in Room \ {r} : /\ x \in roomStores' <=> x \in roomStores
                                /\ events'[x] = events[x] /\ roomState'[x] = roomState[x]
       /\ roomStores' \subseteq Room /\ r \in roomStores'
  BY <1>3, <1>4, <1>5
<1>13. <<r, "messages">> \in W /\ <<r, "state">> \in W /\ \A w \in W : w = <<r, w[2]>>
  OBVIOUS
<1>14. /\ Right(<<r, "messages">>, Whole(events'[r]), token \cup syncTo)
       /\ Right(<<r, "state">>, Whole(roomState'[r]), token \cup syncTo)
  BY <1>9, <1>10, <1>12
<1> HIDE DEF W
<1>15. /\ r \in syncRooms /\ queue = <<>> /\ pendingCommits = 0
       /\ UNCHANGED <<token, syncTo, queueVars, file, backupVars>>
       /\ syncRooms' = syncRooms \ {r}
  BY <1>1, <1>3, <1>4
<1>16. Handles(r, W)
  BY <1>11, <1>12, <1>13, <1>14, <1>15 DEF Handles
<1> QED
  BY <1>16, HandleRoom

LEMMA DeleteRoomKeeps ==
    ASSUME TypeInv, Disk, UpInv, Careful, NEW r \in Room, DeleteRoom(r)
    PROVE  Disk' /\ UpInv'
<1>1. r \in syncRooms /\ MayHandle
  BY DEF DeleteRoom
<1>2. PICK l \in Delta(r, token) : ServerLog[l].kind = "leave"
  BY DEF DeleteRoom
<1>3. /\ roomStores' = roomStores \ {r} /\ toDeletion' = toDeletion \cup {r}
      /\ toMessages' = toMessages \ {r} /\ toState' = toState \ {r}
      /\ roomState' = [roomState EXCEPT ![r] = {}] /\ events' = events
      /\ syncRooms' = syncRooms \ {r}
      /\ UNCHANGED <<token, syncTo, queueVars, file, backupVars>>
  BY DEF DeleteRoom, diskVars
<1>4. /\ queue = <<>> /\ pendingCommits = 0 /\ Handled(r) = token
      /\ Delta(r, token) = {p \in Position \cap (syncTo \ token) : ServerLog[p].room = r}
      /\ token \in Token
      /\ \A q \in token, p \in Delta(r, token) : p > q
      /\ r \notin toMessages /\ r \notin toState /\ roomStores \subseteq Room
      /\ roomState \in [Room -> SUBSET Position]
  BY <1>1, HandleFacts
<1>5. Live(r) \cap (token \cup syncTo) = {}
  <2> SUFFICES ASSUME NEW p \in Live(r), p \in token \cup syncTo PROVE FALSE
    OBVIOUS
  <2>1. /\ p \in Position /\ l \in Position /\ p # l /\ ServerLog[p].room = r
        /\ ServerLog[l].room = r /\ ~(l > p)
    BY <1>2, <1>4 DEF Live
  <2>2. p > l
    BY <2>1 DEF Position
  <2>3. p \in syncTo \ token /\ l \in syncTo \ token
    BY <1>4, <2>1
  <2>4. OneSection(syncTo \ token)
    BY <2>3 DEF UpInv, Response
  <2>5. p <= l
    BY <1>2, <2>1, <2>3, <2>4 DEF OneSection
  <2> QED
    BY <2>1, <2>2, <2>5 DEF Position
<1>6. Right(<<r, "state">>, Whole({}), token \cup syncTo)
  BY <1>5 DEF Right, Whole
<1> DEFINE W == {<<r, "deletion">>}
<1>7. Marked' = Marked \cup W
  <2>1. toMessages' = toMessages /\ toState' = toState
    BY <1>3, <1>4
  <2> QED
    BY <1>3, <2>1 DEF Marked, Each
<1>8. roomState'[r] = {} /\ r \notin roomStores' /\ roomStores' \subseteq Room
      /\ \A x \in Room \ {r} : /\ x \in roomStores' <=> x \in roomStores
                               /\ events'[x] = events[x] /\ roomState'[x] = roomState[x]
  BY <1>3, <1>4
<1>9. <<r, "deletion">> \in W /\ <<r, "messages">> \notin W /\ \A w \in W : w = <<r, w[2]>>
  OBVIOUS
<1>10. Right(<<r, "state">>, Whole(roomState'[r]), token \cup syncTo)
  BY <1>6, <1>8
<1> HIDE DEF W
<1>11. /\ r \in syncRooms /\ queue = <<>> /\ pendingCommits = 0
       /\ UNCHANGED <<token, syncTo, queueVars, file, backupVars>>
       /\ syncRooms' = syncRooms \ {r}
  BY <1>1, <1>3, <1>4
<1>12. Handles(r, W)
  BY <1>5, <1>7, <1>8, <1>9, <1>10, <1>11 DEF Handles
<1> QED
  BY <1>12, HandleRoom

\* A commit queues what is marked: the work to do stays the same.
LEMMA CommitFrame ==
    ASSUME TypeInv, Disk, UpInv, NEW m \in BOOLEAN,
           queue' = queue \o SaveDataToFiles(m) \o <<CleanupBlock>>,
           toDeletion' = {}, toMessages' = {}, toState' = {},
           UNCHANGED <<roomStores, events, roomState, cur, step,
                       backupEventStreamToken, file, backupVars>>,
           \A r : Handled(r)' = Handled(r)
    PROVE  /\ Disk' /\ queue' # <<>> /\ Marked' = {} /\ Todo' = Todo
           /\ Renames(queue) \/ (queue = <<>> /\ m) => Renames(queue')
           /\ queue # <<>> => Head(queue') = Head(queue)
           /\ Started' <=> Started
           /\ Blocks' /\ Memory' /\ Gone' /\ Files' /\ MovedOnce' /\ Replaced'
<1>1. TypeOK /\ Blocks /\ (Marked # {} => queue = <<>>)
  BY DEF TypeInv, UpInv, Response
<1>2. /\ queue' # <<>> /\ Sorted(queue') /\ Ended(queue') /\ Snaps(queue')
      /\ Work(queue') = Todo
      /\ Renames(queue) \/ (queue = <<>> /\ m) => Renames(queue')
      /\ queue # <<>> => Head(queue') = Head(queue)
  BY <1>1, CommitWork
<1>3. Marked' = {}
  BY DEF Marked, Each
<1>4. Todo' = Todo
  BY <1>2, <1>3 DEF Todo, Work
<1>5. saved' = saved /\ backupRoot' = backupRoot
  BY DEF backupVars
<1>6. Disk' /\ Target' = Target
  BY <1>5, DiskSame DEF Target, Kept
<1>7. queue = <<>> => step = "start"
  BY DEF TypeInv, InFile
<1>8. (Started' <=> Started) /\ \A f : Replacing(f)' <=> Replacing(f)
  BY <1>2, <1>7 DEF Started, Replacing
<1>9. Blocks'
  BY <1>2 DEF Blocks, Snaps
<1>10. Memory'
  BY <1>4 DEF UpInv, Memory, Right, Live, Cuts
<1>11. Gone'
  BY <1>4, <1>5 DEF UpInv, Gone, Live
<1>12. Files'
  BY <1>4 DEF UpInv, Files, Right, Live, Cuts
<1>13. MovedOnce'
  BY <1>4, <1>5, <1>8 DEF UpInv, MovedOnce
<1>14. Replaced'
  <2>1. Work(queue) \subseteq Work(queue')
    BY <1>2 DEF Todo
  <2> QED
    BY <1>5, <1>6, <1>8, <2>1 DEF UpInv, Replaced, Live
<1> QED
  BY <1>2, <1>3, <1>4, <1>6, <1>8, <1>9, <1>10, <1>11, <1>12, <1>13, <1>14

LEMMA FinishSyncKeeps ==
    ASSUME TypeInv, Disk, UpInv, Careful, FinishSync
    PROVE  Disk' /\ UpInv'
<1>1. /\ syncTo # {} /\ syncRooms = {} /\ queue = <<>> /\ pendingCommits = 0
      /\ token' = syncTo /\ syncTo' = {} /\ Commit(TRUE)
      /\ UNCHANGED <<roomStores, events, roomState, syncRooms, cur, step,
                     backupEventStreamToken, file, backupVars>>
  BY DEF FinishSync, MayHandle, Careful, diskVars
<1>2. /\ queue' = queue \o SaveDataToFiles(TRUE) \o <<CleanupBlock>>
      /\ toDeletion' = {} /\ toMessages' = {} /\ toState' = {}
  <2>1. MayHandle
    BY DEF FinishSync
  <2>2. ~(pendingCommits >= 2)
    BY <2>1 DEF MayHandle, Careful
  <2>3. Commit(TRUE)
    BY <1>1
  <2> QED
    BY <2>2, <2>3 DEF Commit
<1>3. token \subseteq syncTo
  BY <1>1 DEF UpInv, Response
<1>4. \A r : Handled(r)' = Handled(r)
  BY <1>1, <1>3 DEF Handled
<1>5. /\ Disk' /\ queue' # <<>> /\ Marked' = {} /\ Renames(queue')
      /\ Started' <=> Started
      /\ Blocks' /\ Memory' /\ Gone' /\ Files' /\ MovedOnce' /\ Replaced'
  BY <1>1, <1>2, <1>4, CommitFrame
<1>6. Response'
  BY <1>1, <1>5 DEF Response
<1>7. Unsaved'
  BY <1>1 DEF Unsaved
<1>8. Meta'
  <2>1. /\ ~Started /\ backupEventStreamToken = token /\ file[MetaFile] = Whole(token)
        /\ saved[MetaFile] = Absent
    BY <1>1, IdleFacts, FileFacts
  <2>2. Renames(queue)'
    BY <1>5 DEF Renames
  <2>3. saved' = saved
    BY <1>1 DEF backupVars
  <2> QED
    BY <1>1, <1>3, <1>5, <2>1, <2>2, <2>3 DEF Meta
<1> QED
  BY <1>5, <1>6, <1>7, <1>8 DEF UpInv

\* A commit of what has changed, and the flush of a store that is closed.
LEMMA CommitKeeps ==
    ASSUME TypeInv, Disk, UpInv, NEW m \in BOOLEAN,
           queue' = queue \o SaveDataToFiles(m) \o <<CleanupBlock>>,
           toDeletion' = {}, toMessages' = {}, toState' = {},
           UNCHANGED <<token, roomStores, events, roomState, syncTo, syncRooms, cur,
                       step, backupEventStreamToken, file, backupVars>>
    PROVE  Disk' /\ UpInv'
<1>1. \A r : Handled(r)' = Handled(r)
  BY DEF Handled
<1>2. /\ Disk' /\ queue' # <<>> /\ Marked' = {} /\ Todo' = Todo
      /\ Renames(queue) => Renames(queue')
      /\ queue # <<>> => Head(queue') = Head(queue)
      /\ Started' <=> Started
      /\ Blocks' /\ Memory' /\ Gone' /\ Files' /\ MovedOnce' /\ Replaced'
  BY <1>1, CommitFrame
<1>3. Response'
  BY <1>2 DEF UpInv, Response, OneSection
<1>4. Unsaved'
  BY <1>2 DEF UpInv, Unsaved
<1>5. Meta'
  <2>1. Reset => Reset'
    BY <1>2 DEF Reset
  <2>2. saved' = saved /\ backupRoot' = backupRoot
    BY DEF backupVars
  <2>3. Renames(queue) => Renames(queue)'
    BY <1>2 DEF Renames
  <2> QED
    BY <1>2, <2>1, <2>2, <2>3 DEF UpInv, Meta
<1> QED
  BY <1>2, <1>3, <1>4, <1>5 DEF UpInv

LEMMA AppCommitKeeps ==
    ASSUME TypeInv, Disk, UpInv, AppCommit
    PROVE  Disk' /\ UpInv'
<1>1. /\ Commit(metaDataHasChanged) /\ metaDataHasChanged \in BOOLEAN
      /\ UNCHANGED <<token, roomStores, events, roomState, syncTo, syncRooms, cur,
                     step, backupEventStreamToken, file, backupVars>>
  BY DEF AppCommit, TypeInv, TypeOK, mainVars, diskVars
<1>2. CASE pendingCommits >= 2
  BY <1>1, <1>2, UpSame DEF Commit
<1>3. CASE ~(pendingCommits >= 2)
  BY <1>1, <1>3, CommitKeeps DEF Commit
<1> QED
  BY <1>2, <1>3

LEMMA StoreNodeMetadataKeeps ==
    ASSUME TypeInv, Disk, UpInv, StoreNodeMetadata
    PROVE  Disk' /\ UpInv'
BY UpSame DEF StoreNodeMetadata, mainVars, queueVars, diskVars

\* A commit that ends was pending, so nothing is marked.
LEMMA CommitDoneKeeps ==
    ASSUME TypeInv, Disk, UpInv, CommitDone
    PROVE  Disk' /\ UpInv'
<1>1. /\ phase = "open" /\ callbacks > 0
      /\ UNCHANGED <<mainVars, dirtyVars, queue, cur, step, backupEventStreamToken,
                     file, backupVars>>
  BY DEF CommitDone, diskVars
<1>2. pendingCommits > 0
  <2>1. pendingCommits = callbacks + Cleanups(queue) /\ callbacks \in Nat
    BY <1>1 DEF TypeInv, TypeOK, Counted
  <2>2. Cleanups(queue) \in Nat
    BY CleanupsType DEF TypeInv, TypeOK
  <2> QED
    BY <1>1, <2>1, <2>2
<1>3. Marked = {}
  BY <1>2 DEF UpInv, Response
<1> QED
  BY <1>1, <1>3, UpSame DEF mainVars, dirtyVars

LEMMA CloseKeeps ==
    ASSUME TypeInv, Disk, UpInv, Close
    PROVE  Disk' /\ UpInv'
<1>1. /\ metaDataHasChanged \in BOOLEAN
      /\ UNCHANGED <<token, roomStores, events, roomState, syncTo, syncRooms, cur,
                     step, pendingCommits, backupEventStreamToken, file, backupVars>>
  BY DEF Close, TypeInv, TypeOK, diskVars
<1>2. CASE pendingCommits > 0
  <2>1. /\ queue' = queue \o SaveDataToFiles(metaDataHasChanged) \o <<CleanupBlock>>
        /\ toDeletion' = {} /\ toMessages' = {} /\ toState' = {}
    BY <1>2 DEF Close
  <2> QED
    BY <1>1, <2>1, CommitKeeps
<1>3. CASE ~(pendingCommits > 0)
  <2>1. UNCHANGED <<queue, dirtyVars>>
    BY <1>3 DEF Close
  <2> QED
    BY <1>1, <2>1, UpSame DEF dirtyVars
<1> QED
  BY <1>2, <1>3
-----------------------------------------------------------------------------
(***************************************************************************)
(* Opening the store, and losing the memory.                               *)
(***************************************************************************)
\* What the invariant asks of an open store, besides UpInv, and of a store that
\* is neither open nor being repaired.
LEMMA OpenedUp ==
    ASSUME Up', toRestore' = {}
    PROVE  Opened'
BY DEF Opened, Up

LEMMA OpenedDown ==
    ASSUME phase' \in {"closed", "resetting"}, Blank', toRestore' = {}
    PROVE  Opened' /\ ~Up'
BY DEF Opened, Up

\* The variables that a step of the opening leaves blank.
LEMMA BlankSame ==
    ASSUME Blank, UNCHANGED <<roomStores, syncTo, syncRooms, toDeletion, toMessages,
                              toState, cur>>
    PROVE  Blank'
BY DEF Blank

LEMMA OpenCleanKeeps ==
    ASSUME TypeInv, Disk, Opened, OpenClean
    PROVE  Disk' /\ Opened' /\ ~Up'
<1>1. /\ phase = "closed" /\ ~backupRoot /\ toRestore' = toRestore
      /\ UNCHANGED <<roomStores, syncTo, syncRooms, toDeletion, toMessages, toState, cur,
                     file, backupVars>>
  BY DEF OpenClean, dirtyVars, diskVars
<1>2. Blank' /\ toRestore' = {}
  BY <1>1, BlankSame DEF Opened, Up
<1>3. Disk'
  BY <1>1, DiskSame
<1>4. CASE HasToken(file[MetaFile])
  <2>1. token' = file[MetaFile].data /\ backupEventStreamToken' = token' /\ phase' = "releasing"
    BY <1>4 DEF OpenClean
  <2>2. file[MetaFile] = Whole(file[MetaFile].data) /\ file[MetaFile].data # {}
    BY <1>4, FileFacts, ContentFacts DEF TypeInv, TypeOK, HasToken
  <2>3. \A f \in File : saved'[f] = Absent
    BY <1>1 DEF Disk, backupVars
  <2> QED
    BY <1>1, <1>2, <1>3, <2>1, <2>2, <2>3 DEF Opened, Up
<1>5. CASE ~HasToken(file[MetaFile])
  <2>1. phase' = "resetting"
    BY <1>5 DEF OpenClean
  <2> QED
    BY <1>2, <1>3, <2>1, OpenedDown
<1> QED
  BY <1>4, <1>5

LEMMA OpenInterruptedKeeps ==
    ASSUME TypeInv, Disk, Opened, OpenInterrupted
    PROVE  Disk' /\ Opened' /\ ~Up'
<1>1. /\ phase = "closed" /\ backupRoot
      /\ UNCHANGED <<roomStores, syncTo, syncRooms, toDeletion, toMessages, toState, cur,
                     file, backupVars>>
  BY DEF OpenInterrupted, dirtyVars, diskVars, queueVars
<1>2. Blank' /\ toRestore = {}
  BY <1>1, BlankSame DEF Opened, Up
<1>3. Disk' /\ saved' = saved /\ backupRoot' = backupRoot
  BY <1>1, DiskSame DEF backupVars
<1>4. CASE phase' = "restoring" /\ toRestore' = {f \in File : saved[f] # Absent}
  BY <1>1, <1>2, <1>3, <1>4 DEF Opened, Up
<1>5. CASE phase' = "resetting" /\ toRestore' = toRestore
  BY <1>2, <1>3, <1>5, OpenedDown
<1> QED
  BY <1>4, <1>5 DEF OpenInterrupted

\* Copying a file back changes nothing of what the repair will find.
LEMMA RestoreFileKeeps ==
    ASSUME TypeInv, Disk, Opened, NEW f \in File, RestoreFile(f)
    PROVE  Disk' /\ Opened' /\ ~Up'
<1>1. /\ phase = "restoring" /\ f \in toRestore
      /\ UNCHANGED <<roomStores, syncTo, syncRooms, toDeletion, toMessages, toState, cur,
                     backupVars>>
  BY DEF RestoreFile, dirtyVars, queueVars
<1>2. Blank' /\ backupRoot /\ saved[f] # Absent
  BY <1>1, BlankSame DEF Opened, Up
<1>3. saved' = saved /\ backupRoot' = backupRoot /\ backupDirs' = backupDirs
  BY <1>1 DEF backupVars
<1>4. CASE f = MetaFile \/ f[1] \in folder
  <2>1. /\ file' = [file EXCEPT ![f] = saved[f]] /\ toRestore' = toRestore \ {f}
        /\ phase' = phase
    BY <1>4 DEF RestoreFile
  <2>2. file'[f] = saved[f] /\ \A g \in File \ {f} : file'[g] = file[g]
    BY <2>1 DEF TypeInv, TypeOK
  <2>3. \A g \in File : Kept(g)' = Kept(g)
    BY <1>2, <1>3, <2>2 DEF Kept
  <2>4. Target' = Target
    BY <2>3, FileFacts DEF Target
  <2>5. Disk'
    BY <1>2, <1>3, <2>3, <2>4, FileFacts DEF Disk
  <2> QED
    BY <1>1, <1>2, <1>3, <2>1, <2>2, <2>5 DEF Opened, Up
<1>5. CASE ~(f = MetaFile \/ f[1] \in folder)
  <2>1. phase' = "resetting" /\ toRestore' = {} /\ file' = file
    BY <1>5 DEF RestoreFile
  <2>2. Disk'
    BY <1>1, <2>1, DiskSame
  <2> QED
    BY <1>2, <2>1, <2>2, OpenedDown
<1> QED
  BY <1>4, <1>5

\* The restored metadata always holds the token that the backup is named after.
LEMMA CheckRestoredKeeps ==
    ASSUME TypeInv, Disk, Opened, CheckRestored
    PROVE  Disk' /\ Opened' /\ ~Up'
<1>1. /\ phase = "restoring" /\ toRestore = {} /\ toRestore' = toRestore
      /\ UNCHANGED <<roomStores, syncTo, syncRooms, toDeletion, toMessages, toState, cur,
                     file, backupVars>>
  BY DEF CheckRestored, dirtyVars, diskVars
<1>2. /\ Blank' /\ backupRoot
      /\ \A f \in File : saved[f] # Absent => file[f] = saved[f]
  BY <1>1, BlankSame DEF Opened, Up
<1>3. Kept(MetaFile) = file[MetaFile]
  BY <1>2, FileFacts DEF Kept
<1>4. HasToken(file[MetaFile]) /\ backupDirs = {file[MetaFile].data}
  BY <1>2, <1>3 DEF Disk
<1>5. /\ token' = file[MetaFile].data /\ backupEventStreamToken' = token'
      /\ phase' = "releasing"
  BY <1>4 DEF CheckRestored
<1>6. file[MetaFile] = Whole(file[MetaFile].data) /\ file[MetaFile].data # {}
  BY <1>4, FileFacts, ContentFacts DEF TypeInv, TypeOK, HasToken
<1>7. Disk' /\ saved' = saved /\ file' = file
  BY <1>1, DiskSame DEF backupVars
<1> QED
  BY <1>1, <1>2, <1>5, <1>6, <1>7 DEF Opened, Up

\* The store is kept: its files are right for the token it opens with.
LEMMA LoadedKeeps ==
    ASSUME TypeInv, Disk, Opened, Loaded
    PROVE  Disk' /\ Opened' /\ UpInv'
<1>1. /\ phase = "releasing" /\ ~backupRoot /\ phase' = "open" /\ toRestore' = toRestore
      /\ roomState' = [r \in Room |-> StateOf(r)]
      /\ UNCHANGED <<token, roomStores, events, syncTo, syncRooms, toDeletion, toMessages,
                     toState, queueVars, file, backupVars>>
  BY DEF Loaded, dirtyVars, diskVars
<1>2. /\ Blank /\ toRestore = {} /\ file[MetaFile] = Whole(token) /\ token # {}
      /\ backupEventStreamToken = token
  BY <1>1 DEF Opened, Up
<1>3. queue = <<>> /\ step = "start" /\ pendingCommits = 0
  BY <1>1 DEF TypeInv, Counted
<1>4. \A f \in File : saved[f] = Absent /\ Kept(f) = file[f]
  BY <1>1 DEF Disk, Kept
<1>5. Target = token
  BY <1>2, <1>4, FileFacts, ContentFacts DEF Target
<1>6. \A f \in RoomFile : Right(f, file[f], token)
  BY <1>4, <1>5, FileFacts DEF Disk
<1>7. /\ queue' = <<>> /\ step' = "start" /\ pendingCommits' = 0 /\ syncTo' = {}
      /\ syncRooms' = {} /\ roomStores' = {} /\ token' = token
      /\ backupEventStreamToken' = token /\ file' = file /\ saved' = saved
      /\ backupRoot' = FALSE
  BY <1>1, <1>2, <1>3 DEF queueVars, backupVars, Blank
<1>8. Marked' = {} /\ Todo' = {} /\ \A r : Handled(r)' = token
  <2>1. Marked' = {}
    BY <1>1, <1>2 DEF Marked, Each, Blank
  <2>2. Work(queue') = {} /\ Work(queue)' = {}
    BY <1>7, NoWork DEF Work
  <2> QED
    BY <1>7, <2>1, <2>2 DEF Todo, Handled
<1>9. Disk'
  BY <1>1, DiskSame
<1>10. Opened'
  BY <1>1, <1>2, OpenedUp DEF Up
<1>11. Blocks'
  BY <1>7, NoWork DEF Blocks, Snaps
<1>12. Response'
  BY <1>7, <1>8 DEF Response
<1>13. Memory'
  <2>1. ASSUME NEW r \in Room PROVE Right(<<r, "state">>, Whole(roomState'[r]), token)
    <3> DEFINE f == <<r, "state">>
    <3>1. roomState'[r] = StateOf(r) /\ f \in RoomFile
      BY <1>1, FileFacts
    <3>2. Right(f, file[f], token)
      BY <1>6, <3>1
    <3>3. CASE file[f].st = "whole"
      <4>1. StateOf(r) = file[f].data
        BY <3>3 DEF StateOf
      <4> QED
        BY <3>1, <3>2, <3>3, <4>1 DEF Right, Whole
    <3>4. CASE file[f].st # "whole"
      <4>1. StateOf(r) = {}
        BY <3>4 DEF StateOf
      <4> QED
        BY <3>1, <3>2, <3>4, <4>1 DEF Right, Whole
    <3> QED
      BY <3>3, <3>4
  <2> QED
    BY <1>7, <1>8, <2>1 DEF Memory, Right, Live, Cuts
<1>14. Gone' /\ MovedOnce' /\ Replaced'
  BY <1>7, <1>8 DEF Gone, MovedOnce, Replaced, Replacing
<1>15. Unsaved'
  BY <1>2, <1>7 DEF Unsaved
<1>16. Files'
  BY <1>6, <1>7, <1>8 DEF Files, Right, Live, Cuts
<1>17. Meta'
  BY <1>2, <1>4, <1>7, FileFacts DEF Meta, Started
<1> QED
  BY <1>9, <1>10, <1>11, <1>12, <1>13, <1>14, <1>15, <1>16, <1>17 DEF UpInv

LEMMA EraseStoreKeeps ==
    ASSUME TypeInv, Disk, Opened, EraseStore
    PROVE  Disk' /\ Opened' /\ ~Up'
<1>1. /\ phase = "resetting" /\ file' = [f \in File |-> Absent]
      /\ backupRoot' = FALSE /\ backupDirs' = {} /\ saved' = [f \in File |-> Absent]
      /\ UNCHANGED <<phase, toRestore, roomStores, syncTo, syncRooms, toDeletion,
                     toMessages, toState, cur>>
  BY DEF EraseStore, mainVars, dirtyVars, queueVars
<1>2. Blank' /\ toRestore' = {} /\ phase' = "resetting"
  BY <1>1, BlankSame DEF Opened, Up
<1>3. Target' = {}
  BY <1>1, FileFacts, ContentFacts DEF Target, Kept
<1>4. Disk'
  BY <1>1, <1>3, RightNothing DEF Disk
<1> QED
  BY <1>2, <1>4, OpenedDown

\* A new store has nothing, and needs nothing.
LEMMA NewStoreKeeps ==
    ASSUME TypeInv, Disk, Opened, NewStore
    PROVE  Disk' /\ Opened' /\ UpInv'
<1>1. /\ phase = "resetting" /\ phase' = "open" /\ token' = {} /\ queue' = <<MetaBlock>>
      /\ ~backupRoot /\ \A f \in File : file[f] = Absent
      /\ UNCHANGED <<roomStores, events, roomState, syncTo, syncRooms, toDeletion,
                     toMessages, toState, step, file, backupVars, toRestore>>
  BY DEF NewStore, dirtyVars, diskVars
<1>2. Blank /\ toRestore = {}
  BY <1>1 DEF Opened, Up
<1>3. step = "start"
  BY <1>1 DEF TypeInv, Counted
<1>4. /\ MetaBlock \in Block /\ MetaBlock.op = "meta" /\ Head(queue') = MetaBlock
      /\ queue' # <<>> /\ Len(queue') = 1 /\ queue'[1] = MetaBlock
  BY <1>1, EndBlocks DEF MetaBlock
<1>5. /\ Sorted(queue') /\ Ended(queue') /\ Snaps(queue')
      /\ Work(queue') = {} /\ Renames(queue')
  <2>1. \A i \in 1..Len(queue') : i = 1 /\ queue'[i].op = "meta"
    BY <1>4
  <2>2. 1 \in 1..Len(queue') /\ 1..(1 - 1) = {}
    BY <1>4
  <2>3. Renames(queue')
    BY <1>4, <2>2 DEF Renames
  <2>4. Sorted(queue') /\ Ended(queue')
    BY <2>1, RoomOpType DEF Sorted, Ended
  <2>5. Snaps(queue')
    BY <2>1 DEF Snaps
  <2>6. Work(queue') = {}
    <3> SUFFICES ASSUME NEW w \in Work(queue') PROVE FALSE
      OBVIOUS
    <3>1. w[2] \in RoomOp /\ \E i \in 1..Len(queue') : queue'[i].op = w[2]
      BY DEF Work
    <3> QED
      BY <2>1, <3>1, RoomOpType
  <2> QED
    BY <2>3, <2>4, <2>5, <2>6
<1>6. /\ syncTo' = {} /\ syncRooms' = {} /\ roomStores' = {} /\ file' = file /\ saved' = saved
      /\ backupRoot' = FALSE /\ \A f \in File : saved[f] = Absent
  BY <1>1, <1>2 DEF Blank, backupVars, Disk
<1>7. Marked' = {} /\ Todo' = {} /\ \A r : Handled(r)' = {}
  <2>1. Marked' = {}
    BY <1>1, <1>2 DEF Marked, Each, Blank
  <2>2. Work(queue)' = {}
    BY <1>5 DEF Work
  <2> QED
    BY <1>1, <1>6, <2>1, <2>2 DEF Todo, Handled
<1>8. Disk'
  BY <1>1, DiskSame
<1>9. Opened'
  BY <1>1, <1>2, OpenedUp DEF Up
<1>10. Blocks'
  BY <1>1, <1>5 DEF Blocks, Snaps
<1>11. Response'
  BY <1>6, <1>7 DEF Response
<1>12. Memory'
  BY <1>6, <1>7, RightNothing DEF Memory, Right, Live, Cuts
<1>13. Gone' /\ MovedOnce' /\ Replaced'
  BY <1>1, <1>3, <1>7 DEF Gone, MovedOnce, Replaced, Replacing
<1>14. Unsaved'
  BY <1>1, <1>6, <1>7, FileFacts DEF Unsaved
<1>15. Files'
  BY <1>7, RightNothing DEF Files, Right, Live, Cuts
<1>16. Meta'
  <2>1. Reset' /\ ~Started'
    BY <1>1, <1>3, <1>4, <1>6 DEF Reset, Started
  <2>2. Renames(queue)'
    BY <1>5 DEF Renames
  <2> QED
    BY <1>4, <1>6, <2>1, <2>2, FileFacts DEF Meta
<1> QED
  BY <1>8, <1>9, <1>10, <1>11, <1>12, <1>13, <1>14, <1>15, <1>16 DEF UpInv

\* The backup is removed once its files are copied back.
LEMMA ReleaseKeeps ==
    ASSUME TypeInv, Disk, Opened, Careful, ~Up, RemoveBackup
    PROVE  Disk' /\ Opened' /\ ~Up'
<1>1. phase = "releasing"
  BY DEF RemoveBackup, RemovingBackup, Running, Up, Opened, Careful
<1>2. /\ backupRoot' = FALSE /\ backupDirs' = {} /\ saved' = [f \in File |-> Absent]
      /\ UNCHANGED <<phase, token, roomStores, syncTo, syncRooms, toDeletion, toMessages,
                     toState, cur, backupEventStreamToken, file, toRestore>>
  BY DEF RemoveBackup, mainVars, dirtyVars, queueVars, diskVars
<1>3. Blank'
  BY <1>1, <1>2, BlankSame DEF Opened, Up
<1>4. \A f \in File : Kept(f)' = file[f] /\ Kept(f) = file[f]
  BY <1>1, <1>2 DEF Opened, Kept
<1>5. Target' = Target
  BY <1>4, FileFacts DEF Target
<1>6. Disk'
  BY <1>2, <1>4, <1>5, FileFacts DEF Disk
<1> QED
  BY <1>1, <1>2, <1>3, <1>6 DEF Opened, Up

LEMMA LoseMemoryKeeps ==
    ASSUME Disk, LoseMemory, UNCHANGED <<diskVars, backupVars>>
    PROVE  Disk' /\ Opened' /\ ~Up'
<1>1. Disk'
  BY DiskSame DEF diskVars
<1> QED
  BY <1>1, OpenedDown DEF LoseMemory, Blank
-----------------------------------------------------------------------------
(***************************************************************************)
(* The invariant, and what it says of the events behind the token.         *)
(***************************************************************************)
LEMMA RepairMain ==
    ASSUME TypeInv, RepairInv, Careful, MainThread
    PROVE  RepairInv'
<1>1. phase = "open" /\ toRestore' = toRestore /\ phase' \in {"open", "closing"}
  BY DEF MainThread, BeginSync, StoreEvents, JoinInvitedRoom, DeleteRoom, FinishSync,
         AppCommit, StoreNodeMetadata, CommitDone, Close, mainVars
<1>2. Disk /\ Opened /\ UpInv /\ Up
  BY <1>1 DEF RepairInv, Up
<1>3. Opened'
  BY <1>1, <1>2, OpenedUp DEF Opened, Up
<1>4. Disk' /\ UpInv'
  BY <1>2, BeginSyncKeeps, StoreEventsKeeps, JoinInvitedRoomKeeps, DeleteRoomKeeps,
     FinishSyncKeeps, AppCommitKeeps, StoreNodeMetadataKeeps, CommitDoneKeeps, CloseKeeps
  DEF MainThread
<1> QED
  BY <1>3, <1>4 DEF RepairInv

LEMMA RepairQueue ==
    ASSUME TypeInv, BackupInv, RepairInv, DispatchQueue
    PROVE  RepairInv'
<1>1. /\ phase \in {"open", "closing"} /\ toRestore' = toRestore /\ phase' = phase
  BY DEF DispatchQueue, SaveDeletion, SkipMessages, BackupMessages, BackupState,
         WriteMessages, BeginState, EndState, BackupMeta, BeginMeta, EndMeta, CommitEnd,
         Running, mainVars
<1>2. Disk /\ Opened /\ UpInv /\ Up
  BY <1>1 DEF RepairInv, Up
<1>3. Opened'
  BY <1>1, <1>2, OpenedUp DEF Opened, Up
<1>4. Disk' /\ UpInv'
  BY <1>2, SaveDeletionKeeps, SkipMessagesNever, BackupMessagesKeeps, BackupStateKeeps,
     WriteMessagesKeeps, BeginStateKeeps, EndStateKeeps, BackupMetaKeeps, BeginMetaKeeps,
     EndMetaKeeps, CommitEndKeeps
  DEF DispatchQueue
<1> QED
  BY <1>3, <1>4 DEF RepairInv

LEMMA RepairRemoval ==
    ASSUME TypeInv, RepairInv, Careful, Removal
    PROVE  RepairInv'
<1>1. RemoveBackup
  BY DEF Removal, RemoveSavedFile, RemoveTokenFolder, RemoveBackupFolder, Careful
<1>2. CASE Up
  <2>1. Disk' /\ UpInv'
    BY <1>1, <1>2, RemoveBackupKeeps DEF RepairInv
  <2>2. phase' = phase /\ toRestore' = toRestore
    BY <1>1 DEF RemoveBackup, mainVars
  <2>3. Opened'
    BY <1>2, <2>2, OpenedUp DEF RepairInv, Opened, Up
  <2> QED
    BY <2>1, <2>3 DEF RepairInv
<1>3. CASE ~Up
  BY <1>1, <1>3, ReleaseKeeps DEF RepairInv
<1> QED
  BY <1>2, <1>3

LEMMA RepairOpening ==
    ASSUME TypeInv, RepairInv, Careful, Opening
    PROVE  RepairInv'
<1>1. Disk /\ Opened
  BY DEF RepairInv
<1>2. ~Discard /\ (\A f : ~EraseFile(f)) /\ (\A r : ~EraseFolder(r))
  BY <1>1 DEF Discard, EraseFile, EraseFolder, Careful, Opened
<1>3. Disk' /\ Opened' /\ (Up' => UpInv')
  BY <1>1, <1>2, OpenCleanKeeps, OpenInterruptedKeeps, RestoreFileKeeps, CheckRestoredKeeps,
     LoadedKeeps, EraseStoreKeeps, NewStoreKeeps
  DEF Opening
<1> QED
  BY <1>3 DEF RepairInv

LEMMA RepairStutter ==
    ASSUME RepairInv, UNCHANGED vars
    PROVE  RepairInv'
<1>1. Disk /\ Opened
  BY DEF RepairInv
<1>2. /\ phase' = phase /\ toRestore' = toRestore
      /\ UNCHANGED <<token, roomStores, events, roomState, syncTo, syncRooms,
                     toDeletion, toMessages, toState, queue, cur, step, pendingCommits,
                     backupEventStreamToken, file, backupVars>>
  BY DEF vars, mainVars, dirtyVars, queueVars, diskVars
<1>3. CASE Up
  <2>1. Disk' /\ UpInv'
    BY <1>1, <1>2, <1>3, UpSame DEF RepairInv
  <2>2. Opened'
    BY <1>1, <1>2, <1>3, OpenedUp DEF Opened, Up
  <2> QED
    BY <2>1, <2>2 DEF RepairInv
<1>4. CASE ~Up
  <2>1. Disk' /\ saved' = saved /\ backupRoot' = backupRoot
    BY <1>1, <1>2, DiskSame DEF backupVars
  <2>2. Opened' /\ ~Up'
    BY <1>1, <1>2, <1>4, <2>1, BlankSame DEF Opened, Up
  <2> QED
    BY <2>1, <2>2 DEF RepairInv
<1> QED
  BY <1>3, <1>4

LEMMA RepairInvInit == Init => RepairInv
<1> SUFFICES ASSUME Init PROVE RepairInv
  OBVIOUS
<1>1. /\ file = [f \in File |-> Absent] /\ saved = [f \in File |-> Absent]
      /\ ~backupRoot /\ backupDirs = {} /\ phase = "closed" /\ toRestore = {}
  BY DEF Init
<1>2. Target = {}
  BY <1>1, FileFacts, ContentFacts DEF Target, Kept
<1>3. Disk
  BY <1>1, <1>2, RightNothing DEF Disk
<1>4. Opened /\ ~Up
  BY <1>1 DEF Init, Opened, Blank, Up
<1> QED
  BY <1>3, <1>4 DEF RepairInv

LEMMA RepairInvNext ==
    ASSUME Careful
    PROVE  TypeInv /\ BackupInv /\ RepairInv /\ [Next]_vars => RepairInv'
<1> SUFFICES ASSUME TypeInv, BackupInv, RepairInv, [Next]_vars PROVE RepairInv'
  OBVIOUS
<1>1. CASE Closed \/ Crash
  BY <1>1, LoseMemoryKeeps DEF Closed, Crash, RepairInv
<1>2. CASE UNCHANGED vars
  BY <1>2, RepairStutter
<1> QED
  BY <1>1, <1>2, RepairMain, RepairQueue, RepairRemoval, RepairOpening DEF Next

\* The memory of an open store, and the file that it would load, miss no event.
LEMMA RepairNothingMissed == TypeOK /\ RepairInv => NothingMissed
<1> SUFFICES ASSUME TypeOK, RepairInv, phase = "open", NEW p \in Wanted(token)
             PROVE  /\ p \in MessagesOf(ServerLog[p].room)
                    /\ p \in roomState[ServerLog[p].room]
  BY DEF NothingMissed
<1> DEFINE r == ServerLog[p].room
           f == <<r, "messages">>
<1>1. UpInv
  BY DEF RepairInv, Up
<1>2. p \in Position /\ ServerLog[p] \in Entry
  <2>1. p \in Position
    BY TokenType DEF TypeOK, Wanted
  <2> QED
    BY <2>1, LogAssumption DEF Position
<1>3. r \in Room /\ f \in RoomFile /\ p \in Live(r) /\ p \in token /\ p \in Handled(r)
  BY <1>2, FileFacts DEF Entry, Wanted, Live, Handled
<1>4. ASSUME NEW x, NEW c, Right(<<r, x>>, c, Handled(r)) PROVE c.st = "whole" /\ p \in c.data
  BY <1>3, <1>4 DEF Right
<1>5. p \in roomState[r]
  <2>1. Right(<<r, "state">>, Whole(roomState[r]), Handled(r))
    BY <1>1, <1>3 DEF UpInv, Memory
  <2> QED
    BY <1>4, <2>1 DEF Whole
<1>6. CASE r \in roomStores
  <2>1. Right(<<r, "messages">>, Whole(events[r]), Handled(r))
    BY <1>1, <1>6 DEF UpInv, Memory
  <2> QED
    BY <1>4, <1>5, <1>6, <2>1 DEF Whole, MessagesOf
<1>7. CASE r \notin roomStores
  <2>1. f \notin Todo
    BY <1>1, <1>7 DEF UpInv, Memory
  <2>2. <<r, "deletion">> \notin Todo
    <3> SUFFICES ASSUME <<r, "deletion">> \in Todo PROVE FALSE
      OBVIOUS
    <3>1. f[1] = r /\ <<r, "deletion">>[1] = r /\ <<r, "deletion">>[2] = "deletion"
      OBVIOUS
    <3>2. f \in Todo \/ Live(r) \cap Handled(r) = {}
      BY <1>1, <1>3, <3>1 DEF UpInv, Gone
    <3> QED
      BY <1>3, <2>1, <3>2
  <2>3. Right(f, file[f], Handled(r))
    BY <1>1, <1>3, <2>1, <2>2 DEF UpInv, Files
  <2>4. file[f].st = "whole" /\ p \in file[f].data
    BY <1>4, <2>3
  <2>5. r \notin toDeletion
    BY <2>2 DEF Todo, Marked, Each
  <2> QED
    BY <1>5, <1>7, <2>4, <2>5 DEF MessagesOf
<1> QED
  BY <1>6, <1>7

\* What the memory holds of a room starts at its last leave or first join.
LEMMA RepairNoGhost == TypeOK /\ RepairInv => NoGhost
<1> SUFFICES ASSUME TypeOK, RepairInv, phase = "open", NEW q \in token,
                    ServerLog[q].kind # "event", ServerLog[q].room \in roomStores,
                    NEW p \in events[ServerLog[q].room]
             PROVE  p >= q
  BY DEF NoGhost
<1> DEFINE r == ServerLog[q].room
           f == <<r, "messages">>
<1>1. UpInv
  BY DEF RepairInv, Up
<1>2. r \in Room /\ q \in Position /\ p \in Position
  BY TokenType DEF TypeOK
<1>3. ServerLog[q] \in Entry
  BY <1>2, LogAssumption DEF Position
<1>4. q \in Cuts(f) \cap Handled(r)
  BY <1>2, <1>3 DEF Entry, Cuts, Handled
<1>5. Right(f, Whole(events[r]), Handled(r))
  BY <1>1 DEF UpInv, Memory
<1>6. p > q \/ p = q
  BY <1>4, <1>5 DEF Right, Whole
<1> QED
  BY <1>2, <1>6 DEF Position

\* So do the files, once nothing is left to save.
LEMMA RepairErased == TypeInv /\ RepairInv => Erased
<1> SUFFICES ASSUME TypeInv, RepairInv, Settled, NEW q \in token, ServerLog[q].kind = "leave",
                    NEW f \in RoomFile, f[1] = ServerLog[q].room, NEW p \in file[f].data
             PROVE  p > q
  BY DEF Erased
<1>1. Disk /\ UpInv /\ queue = <<>> /\ toDeletion = {} /\ toMessages = {} /\ toState = {}
  BY DEF RepairInv, Up, Settled
<1>2. Todo = {}
  BY <1>1, IdleFacts DEF Marked, Each
<1>3. Right(f, file[f], Handled(f[1]))
  BY <1>1, <1>2 DEF UpInv, Files
<1>4. q \in Cuts(f) \cap Handled(f[1])
  <2>1. q \in Position
    BY TokenType DEF TypeInv, TypeOK
  <2> QED
    BY <2>1 DEF Cuts, Handled
<1> QED
  BY <1>3, <1>4 DEF Right

LEMMA RepairInvAlways == Careful /\ Spec => [](TypeInv /\ BackupInv /\ RepairInv)
<1> SUFFICES ASSUME Careful PROVE Spec => [](TypeInv /\ BackupInv /\ RepairInv)
  OBVIOUS
<1>1. Init => TypeInv /\ BackupInv /\ RepairInv
  <2>1. Init => BackupInv
    BY TokenType DEF Init, BackupInv, QueueInv, DirsInv, NewMeta
  <2> QED
    BY <2>1, TypeInvInit, RepairInvInit
<1>2. TypeInv /\ BackupInv /\ RepairInv /\ [Next]_vars => (TypeInv /\ BackupInv /\ RepairInv)'
  BY TypeInvNext, BackupInvNext, RepairInvNext
<1> QED
  BY <1>1, <1>2, PTL DEF Spec

\* A crash at any point of a commit, and the repair, may lose the progress of the
\* token, but an open store has every event behind its token.
THEOREM NeverMisses == Careful /\ Spec => []NothingMissed
<1>1. TypeInv /\ BackupInv /\ RepairInv => NothingMissed
  BY RepairNothingMissed DEF TypeInv
<1> QED
  BY <1>1, RepairInvAlways, PTL

\* No room store holds events from before a leave, or a first join, that the client
\* has handled: neither the repair nor a commit brings an erased room back.
THEOREM NoGhostReturns == Careful /\ Spec => []NoGhost
<1>1. TypeInv /\ BackupInv /\ RepairInv => NoGhost
  BY RepairNoGhost DEF TypeInv
<1> QED
  BY <1>1, RepairInvAlways, PTL

\* Once nothing is left to save, no file of a room holds events from before a leave.
THEOREM ErasedForGood == Careful /\ Spec => []Erased
<1>1. TypeInv /\ BackupInv /\ RepairInv => Erased
  BY RepairErased
<1> QED
  BY <1>1, RepairInvAlways, PTL
=============================================================================
