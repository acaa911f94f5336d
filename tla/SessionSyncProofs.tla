-------------------------- MODULE SessionSyncProofs --------------------------
(***************************************************************************)
(* What holds of the sync loop whatever the bounds and whatever the        *)
(* application does: types, that a delayed pause is honoured, that whatever*)
(* is under way is followed by one thing, and that a session that was      *)
(* paused or closed with nothing in hand stays quiet.                      *)
(***************************************************************************)
EXTENDS SessionSync, FiniteSetTheorems, TLAPS

\* TypeOK in parts, one for each group of variables that actions keep together.
LoopOK ==
    /\ eventStreamRequest \in Request \cup {None}
    /\ req \in [Request -> RequestRecord]
    /\ main \in Seq(Block)
    /\ catchingUp \in BOOLEAN
DataOK == token \in Position /\ initialCache \in Position
StartOK ==
    /\ starting \in {"no", "profile", "crypto"}
    /\ cacheTask \in CacheTask \cup {NoTask}
    /\ bgCache \in Cached
RetryOK ==
    /\ retries \in [RetryKind -> Nat] /\ waiting \in Nat
    /\ reachable \in BOOLEAN
BlockOK ==
    /\ onResumeDone \in BOOLEAN /\ onBackgroundSyncDone \in BOOLEAN
    /\ onBackgroundSyncFail \in BOOLEAN
PauseOK ==
    preventPauseCount \in Nat /\ backgroundTask \in BOOLEAN /\ active \in BOOLEAN
BoundOK == stream \in Position /\ calls \in Nat /\ errors \in Nat
SessionOK == state \in State /\ closed \in BOOLEAN /\ turn \in Turn
RestOK == /\ SessionOK /\ DataOK /\ StartOK /\ RetryOK /\ BlockOK /\ PauseOK
          /\ BoundOK

LEMMA TypeParts == TypeOK <=> LoopOK /\ RestOK
  BY DEF TypeOK, LoopOK, RestOK, SessionOK, DataOK, StartOK, RetryOK, BlockOK,
         PauseOK, BoundOK

\* A part whose variables do not change still holds.
LEMMA Kept ==
  /\ LoopOK /\ UNCHANGED loopVars => LoopOK'
  /\ DataOK /\ UNCHANGED dataVars => DataOK'
  /\ StartOK /\ UNCHANGED startVars => StartOK'
  /\ RetryOK /\ UNCHANGED retryVars => RetryOK'
  /\ BlockOK /\ UNCHANGED blockVars => BlockOK'
  /\ PauseOK /\ UNCHANGED pauseVars => PauseOK'
  /\ BoundOK /\ UNCHANGED boundVars => BoundOK'
  BY DEF LoopOK, DataOK, StartOK, RetryOK, BlockOK, PauseOK, BoundOK, loopVars,
         dataVars, startVars, retryVars, blockVars, pauseVars, boundVars
-----------------------------------------------------------------------------
(***************************************************************************)
(* The operators.                                                          *)
(***************************************************************************)
LEMMA FreeType == Free \in RequestRecord
  BY BoundAssumption DEF Free, RequestRecord, Stage, Error, Position

\* Changing one request, or a field of it, keeps the type of req.
LEMMA Replaced ==
  ASSUME NEW q \in [Request -> RequestRecord], NEW r \in Request,
         NEW rec \in RequestRecord
  PROVE  [q EXCEPT ![r] = rec] \in [Request -> RequestRecord]
  OBVIOUS

LEMMA StageType ==
  ASSUME NEW q \in [Request -> RequestRecord], NEW r \in Request, NEW s \in Stage
  PROVE  [q EXCEPT ![r].stage = s] \in [Request -> RequestRecord]
<1>1. [q[r] EXCEPT !.stage = s] \in RequestRecord
  BY DEF RequestRecord
<1> QED
  BY <1>1

LEMMA CancelType ==
  ASSUME NEW q \in [Request -> RequestRecord], NEW r \in Request \cup {None}
  PROVE  Cancel(q, r) \in [Request -> RequestRecord]
<1>1. CASE r # None /\ q[r].stage = "sent"
  BY <1>1, StageType DEF Cancel, Stage
<1>2. CASE ~(r # None /\ q[r].stage = "sent")
  BY <1>2 DEF Cancel
<1> QED
  BY <1>1, <1>2

\* serverSync keeps the types of the loop, whatever it is called with.
LEMMA ServerSyncType ==
  ASSUME token \in Position, initialCache \in Position,
         NEW current \in Request \cup {None},
         NEW q \in [Request -> RequestRecord], NEW m \in Seq(Block),
         NEW long \in BOOLEAN, NEW init \in BOOLEAN, catchingUp \in BOOLEAN,
         ServerSync(current, q, m, long, init)
  PROVE  LoopOK'
<1>1. CASE closed
  BY <1>1 DEF ServerSync, LoopOK
<1>2. CASE ~closed
  <2> DEFINE r == NewRequest(q)
             new == [Free EXCEPT !.since = token, !.long = long, !.init = init]
  <2>1. r \in Request
    BY <1>2 DEF ServerSync, NewRequest
  <2>2. new \in RequestRecord
    BY FreeType DEF RequestRecord
  <2>3. [new EXCEPT !.stage = "received", !.next = initialCache] \in RequestRecord
    BY <2>2 DEF RequestRecord, Stage
  <2>4. [new EXCEPT !.stage = "sent"] \in RequestRecord
    BY <2>2 DEF RequestRecord, Stage
  <2>5. [kind |-> "notify", of |-> r] \in Block
    BY <2>1 DEF Block
  <2>6. CASE token = 0 /\ initialCache # 0
    <3>1. /\ req' = [q EXCEPT ![r] =
                       [new EXCEPT !.stage = "received", !.next = initialCache]]
          /\ main' = Append(m, [kind |-> "notify", of |-> r])
          /\ eventStreamRequest' = current /\ catchingUp' = catchingUp
      BY <1>2, <2>6 DEF ServerSync
    <3>2. req' \in [Request -> RequestRecord]
      <4> HIDE DEF r, new
      <4> QED BY <3>1, <2>1, <2>3, Replaced
    <3>3. main' \in Seq(Block)
      <4> HIDE DEF r, new
      <4> QED BY <3>1, <2>5
    <3> QED
      BY <3>1, <3>2, <3>3 DEF LoopOK
  <2>7. CASE ~(token = 0 /\ initialCache # 0)
    <3>1. /\ req' = [q EXCEPT ![r] = [new EXCEPT !.stage = "sent"]]
          /\ main' = m /\ eventStreamRequest' = r /\ catchingUp' = ~long
      BY <1>2, <2>7 DEF ServerSync
    <3>2. req' \in [Request -> RequestRecord]
      <4> HIDE DEF r, new
      <4> QED BY <3>1, <2>1, <2>4, Replaced
    <3> QED
      <4> HIDE DEF r
      <4> QED BY <2>1, <3>1, <3>2 DEF LoopOK
  <2> QED
    BY <2>6, <2>7
<1> QED
  BY <1>1, <1>2

\* A pause at once.
LEMMA PauseNowType ==
  ASSUME LoopOK, BlockOK, PauseNow
  PROVE  LoopOK' /\ BlockOK' /\ state' = "Paused"
<1>1. req' \in [Request -> RequestRecord]
  BY CancelType DEF LoopOK, PauseNow
<1> QED
  BY <1>1 DEF LoopOK, BlockOK, PauseNow

LEMMA DoResumeType ==
  ASSUME LoopOK, RestOK, NEW st \in State, DoResume(st)
  PROVE  /\ LoopOK' /\ BlockOK' /\ PauseOK' /\ state' \in State
         /\ state' \in {st, "SyncInProgress"} /\ backgroundTask' = FALSE
         /\ UNCHANGED preventPauseCount
<1>1. LoopOK'
  <2>1. CASE ServerSync(eventStreamRequest, req, main, FALSE, FALSE)
    BY <2>1, ServerSyncType DEF LoopOK, RestOK, DataOK
  <2>2. CASE UNCHANGED loopVars
    BY <2>2, Kept
  <2> QED
    BY <2>1, <2>2 DEF DoResume
<1>2. state' \in State /\ state' \in {st, "SyncInProgress"}
  BY DEF DoResume, State
<1> QED
  BY <1>1, <1>2 DEF RestOK, BlockOK, PauseOK, DoResume

LEMMA LetPauseType ==
  ASSUME LoopOK, RestOK, NEW count \in Nat, LetPause(count),
         UNCHANGED <<closed, turn>>, BoundOK'
  PROVE  LoopOK' /\ RestOK'
<1>1. PauseOK' /\ DataOK' /\ StartOK' /\ RetryOK'
  BY Kept DEF LetPause, RestOK, PauseOK
<1>2. CASE PauseNow
  <2>1. LoopOK' /\ BlockOK' /\ SessionOK'
    BY <1>2, PauseNowType DEF RestOK, SessionOK, State
  <2> QED
    BY <1>1, <2>1 DEF RestOK
<1>3. CASE UNCHANGED <<state, loopVars, blockVars>>
  <2>1. LoopOK' /\ BlockOK' /\ SessionOK'
    BY <1>3, Kept DEF RestOK, SessionOK
  <2> QED
    BY <1>1, <2>1 DEF RestOK
<1> QED
  BY <1>2, <1>3 DEF LetPause

LEMMA ReadCacheType ==
  ASSUME DataOK, NEW cache \in Cached, NEW then \in {"start", "resume"},
         NEW old \in {"StoreDataReady", "Paused"}, ReadCache(cache, then, old)
  PROVE  /\ cacheTask' \in CacheTask /\ bgCache' \in Cached
         /\ state' = "ProcessingBackgroundSyncCache"
<1>1. (IF cache.since = token THEN cache.next ELSE 0) \in Position
  BY BoundAssumption DEF Cached, Position
<1> QED
  BY <1>1 DEF ReadCache, CacheTask

LEMMA DoStartType ==
  ASSUME LoopOK, RestOK, DoStart
  PROVE  /\ LoopOK' /\ BlockOK' /\ PauseOK' /\ state' \in State
         /\ state' # "PauseRequested" /\ (backgroundTask' => backgroundTask)
         /\ UNCHANGED preventPauseCount
         /\ starting' \in {"no", "profile", "crypto"}
<1>1. CASE token # 0
  <2>1. DoResume("SyncInProgress") /\ UNCHANGED starting
    BY <1>1 DEF DoStart
  <2> QED
    BY <2>1, DoResumeType DEF RestOK, StartOK, State
<1>2. CASE token = 0
  BY <1>2, Kept DEF DoStart, RestOK, State, pauseVars
<1> QED
  BY <1>1, <1>2 DEF RestOK
-----------------------------------------------------------------------------
(***************************************************************************)
(* The calls of the application.                                           *)
(***************************************************************************)
LEMMA InitType == Init => LoopOK /\ RestOK
<1> SUFFICES ASSUME Init PROVE LoopOK /\ RestOK
  OBVIOUS
<1>1. LoopOK
  <2>1. req \in [Request -> RequestRecord] /\ main \in Seq(Block)
    BY FreeType DEF Init
  <2> QED
    BY <2>1 DEF Init, LoopOK
<1>2. DataOK /\ BoundOK /\ bgCache \in Cached
  BY BoundAssumption DEF Init, DataOK, BoundOK, Position, Cached, NoCache
<1>3. SessionOK
  BY DEF Init, SessionOK, Turn, State
<1>4. StartOK /\ BlockOK /\ PauseOK /\ RetryOK
  BY <1>2 DEF Init, StartOK, BlockOK, PauseOK, RetryOK
<1> QED
  BY <1>1, <1>2, <1>3, <1>4 DEF RestOK

LEMMA CallType ==
  ASSUME RestOK, NEW name, Call(name)
  PROVE  BoundOK' /\ UNCHANGED <<closed, turn>>
  BY DEF Call, RestOK, BoundOK

\* A call that reads the cache of the extension changes nothing else.
LEMMA CacheReadType ==
  ASSUME RestOK, NEW then \in {"start", "resume"}, MustReadCache(state),
         ReadCache(bgCache, then, state), UNCHANGED <<closed, turn, starting>>
  PROVE  SessionOK' /\ StartOK'
<1>1. /\ cacheTask' \in CacheTask /\ bgCache' \in Cached
      /\ state' = "ProcessingBackgroundSyncCache"
  BY ReadCacheType DEF MustReadCache, RestOK, StartOK
<1> QED
  BY <1>1 DEF SessionOK, StartOK, RestOK, State

LEMMA AppCallType ==
  ASSUME LoopOK, RestOK, AppCall
  PROVE  LoopOK' /\ RestOK'
<1>1. CASE Start
  <2>1. /\ BoundOK' /\ UNCHANGED <<closed, turn>> /\ DataOK' /\ RetryOK'
    BY <1>1, CallType, Kept DEF Start, RestOK
  <2>2. CASE MustReadCache(state)
    <3>1. SessionOK' /\ StartOK'
      BY <1>1, <2>1, <2>2, CacheReadType DEF Start
    <3>2. LoopOK' /\ BlockOK' /\ PauseOK'
      BY <1>1, <2>2, Kept DEF Start, RestOK
    <3> QED
      BY <2>1, <3>1, <3>2 DEF RestOK
  <2>3. CASE ~MustReadCache(state)
    <3>1. DoStart /\ UNCHANGED <<cacheTask, bgCache>>
      BY <1>1, <2>3 DEF Start
    <3>2. LoopOK' /\ BlockOK' /\ PauseOK' /\ SessionOK' /\ StartOK'
      BY <2>1, <3>1, DoStartType DEF RestOK, SessionOK, StartOK
    <3> QED
      BY <2>1, <3>2 DEF RestOK
  <2> QED
    BY <2>2, <2>3
<1>2. CASE Pause
  <2>1. /\ BoundOK' /\ UNCHANGED <<closed, turn>> /\ DataOK' /\ StartOK' /\ RetryOK'
    BY <1>2, CallType, Kept DEF Pause, RestOK
  <2>2. CASE PauseLater
    <3>1. LoopOK' /\ BlockOK' /\ SessionOK' /\ PauseOK'
      BY <1>2, <2>1, <2>2, Kept DEF Pause, PauseLater, RestOK, SessionOK, PauseOK,
         State
    <3> QED
      BY <2>1, <3>1 DEF RestOK
  <2>3. CASE PauseNow /\ UNCHANGED backgroundTask
    <3>1. LoopOK' /\ BlockOK' /\ SessionOK' /\ PauseOK'
      BY <1>2, <2>1, <2>3, PauseNowType DEF Pause, RestOK, SessionOK, PauseOK, State
    <3> QED
      BY <2>1, <3>1 DEF RestOK
  <2> QED
    BY <1>2, <2>2, <2>3 DEF Pause
<1>3. CASE Resume
  <2>1. /\ BoundOK' /\ UNCHANGED <<closed, turn, starting>> /\ DataOK' /\ RetryOK'
    BY <1>3, CallType, Kept DEF Resume, RestOK
  <2>2. CASE MustReadCache(state)
    <3>1. SessionOK' /\ StartOK'
      BY <1>3, <2>1, <2>2, CacheReadType DEF Resume
    <3>2. LoopOK' /\ BlockOK' /\ PauseOK'
      BY <1>3, <2>2, Kept DEF Resume, RestOK
    <3> QED
      BY <2>1, <3>1, <3>2 DEF RestOK
  <2>3. CASE ~MustReadCache(state)
    <3>1. DoResume(state) /\ UNCHANGED <<cacheTask, bgCache>> /\ state \in State
      BY <1>3, <2>3 DEF Resume, RestOK, SessionOK
    <3>2. LoopOK' /\ BlockOK' /\ PauseOK' /\ SessionOK' /\ StartOK'
      BY <2>1, <3>1, DoResumeType DEF RestOK, SessionOK, StartOK
    <3> QED
      BY <2>1, <3>2 DEF RestOK
  <2> QED
    BY <2>2, <2>3
<1>4. CASE Reconnect
  <2>1. LoopOK'
    BY <1>4, ServerSyncType, CancelType DEF Reconnect, LoopOK, RestOK, DataOK
  <2>2. /\ BoundOK' /\ SessionOK' /\ DataOK' /\ StartOK' /\ RetryOK' /\ BlockOK'
        /\ PauseOK'
    BY <1>4, CallType, Kept DEF Reconnect, RestOK, SessionOK
  <2> QED
    BY <2>1, <2>2 DEF RestOK
<1>5. CASE Close
  <2>1. LoopOK'
    BY <1>5, CancelType DEF Close, LoopOK
  <2>2. DataOK'
    BY <1>5, BoundAssumption DEF Close, RestOK, DataOK, Position
  <2>3. SessionOK' /\ PauseOK'
    BY <1>5 DEF Close, RestOK, SessionOK, PauseOK, State
  <2>4. StartOK' /\ RetryOK' /\ BlockOK' /\ BoundOK'
    BY <1>5, Kept DEF Close, RestOK, BoundOK
  <2> QED
    BY <2>1, <2>2, <2>3, <2>4 DEF RestOK
<1>6. ASSUME NEW ignore \in BOOLEAN, BackgroundSync(ignore)
      PROVE  LoopOK' /\ RestOK'
  <2>1. LoopOK'
    BY <1>6, ServerSyncType DEF BackgroundSync, LoopOK, RestOK, DataOK
  <2>2. BoundOK' /\ SessionOK' /\ DataOK' /\ StartOK' /\ RetryOK' /\ PauseOK'
    BY <1>6, CallType, Kept DEF BackgroundSync, RestOK, SessionOK, State
  <2>3. BlockOK'
    BY <1>6 DEF BackgroundSync, RestOK, BlockOK
  <2> QED
    BY <2>1, <2>2, <2>3 DEF RestOK
<1>7. CASE RetainPreventPause
  BY <1>7, LetPauseType, CallType DEF RetainPreventPause, RestOK, PauseOK
<1>8. CASE ReleasePreventPause
  BY <1>8, LetPauseType, CallType DEF ReleasePreventPause, RestOK, PauseOK
<1>9. CASE ChangeActive
  <2>1. LoopOK' /\ BoundOK' /\ SessionOK' /\ DataOK' /\ StartOK' /\ RetryOK' /\ BlockOK'
    BY <1>9, CallType, Kept DEF ChangeActive, RestOK, SessionOK
  <2>2. PauseOK'
    BY <1>9 DEF ChangeActive, RestOK, PauseOK
  <2> QED
    BY <2>1, <2>2 DEF RestOK
<1> QED
  BY <1>1, <1>2, <1>3, <1>4, <1>5, <1>6, <1>7, <1>8, <1>9 DEF AppCall
-----------------------------------------------------------------------------
(***************************************************************************)
(* The node, the network and the extension.                                *)
(***************************************************************************)
\* A block about r is appended to what the main thread has to run.
LEMMA PostType ==
  ASSUME NEW m \in Seq(Block), NEW r \in Request,
         NEW kind \in {"answer", "failure", "notify", "end"}
  PROVE  Append(m, [kind |-> kind, of |-> r]) \in Seq(Block)
<1>1. [kind |-> kind, of |-> r] \in Block
  BY DEF Block
<1> QED
  BY <1>1

\* Observers are notified in turn.
LEMMA ReachableType ==
  ASSUME NEW m \in Seq(Block), NEW n \in Nat
  PROVE  m \o [i \in 1..n |-> [kind |-> "reachable", of |-> None]] \in Seq(Block)
<1>1. [kind |-> "reachable", of |-> None] \in Block
  BY DEF Block
<1> DEFINE s == [i \in 1..n |-> [kind |-> "reachable", of |-> None]]
<1>2. s \in Seq(Block)
  BY <1>1
<1>3. m \o s \in Seq(Block)
  <2> HIDE DEF s
  <2> QED
    BY <1>2
<1> QED
  BY <1>3

LEMMA FailsType == ASSUME BoundOK, Fails PROVE BoundOK'
  BY DEF Fails, BoundOK

LEMMA FromOutsideType ==
  ASSUME LoopOK, RestOK, FromOutside
  PROVE  LoopOK' /\ RestOK'
<1>1. CASE NodeEvent
  <2>1. BoundOK'
    BY <1>1, BoundAssumption DEF NodeEvent, RestOK, BoundOK, Position
  <2>2. /\ LoopOK' /\ SessionOK' /\ DataOK' /\ StartOK' /\ RetryOK' /\ BlockOK'
        /\ PauseOK'
    BY <1>1, Kept DEF NodeEvent, RestOK, SessionOK
  <2> QED
    BY <2>1, <2>2 DEF RestOK
<1>2. CASE NetworkLost
  <2>1. RetryOK'
    BY <1>2 DEF NetworkLost, RestOK, RetryOK
  <2>2. /\ LoopOK' /\ SessionOK' /\ DataOK' /\ StartOK' /\ BoundOK' /\ BlockOK'
        /\ PauseOK'
    BY <1>2, Kept, FailsType DEF NetworkLost, RestOK, SessionOK
  <2> QED
    BY <2>1, <2>2 DEF RestOK
<1>3. CASE NetworkBack
  <2>1. main' \in Seq(Block)
    BY <1>3, ReachableType DEF NetworkBack, LoopOK, RestOK, RetryOK
  <2>2. LoopOK' /\ RetryOK'
    BY <1>3, <2>1 DEF NetworkBack, LoopOK, RestOK, RetryOK
  <2>3. /\ SessionOK' /\ DataOK' /\ StartOK' /\ BlockOK' /\ PauseOK' /\ BoundOK'
    BY <1>3, Kept DEF NetworkBack, RestOK, SessionOK
  <2> QED
    BY <2>2, <2>3 DEF RestOK
<1>4. CASE ExtensionSync
  <2>1. bgCache' \in Cached
    BY <1>4 DEF ExtensionSync, Cached, RestOK, DataOK, BoundOK
  <2>2. StartOK'
    BY <1>4, <2>1 DEF ExtensionSync, RestOK, StartOK
  <2>3. /\ LoopOK' /\ SessionOK' /\ DataOK' /\ RetryOK' /\ BlockOK' /\ PauseOK'
        /\ BoundOK'
    BY <1>4, Kept DEF ExtensionSync, RestOK, SessionOK, DataOK
  <2> QED
    BY <2>2, <2>3 DEF RestOK
<1>5. CASE ExpireBackgroundTask
  BY <1>5, LetPauseType, Kept DEF ExpireBackgroundTask, RestOK
<1>6. CASE StartFails
  <2>1. StartOK' /\ SessionOK'
    BY <1>6 DEF StartFails, RestOK, StartOK, SessionOK, State
  <2>2. /\ LoopOK' /\ DataOK' /\ RetryOK' /\ BlockOK' /\ PauseOK' /\ BoundOK'
    BY <1>6, Kept, FailsType DEF StartFails, RestOK
  <2> QED
    BY <2>1, <2>2 DEF RestOK
<1>7. ASSUME NEW r \in Request, Answer(r)
      PROVE  LoopOK' /\ RestOK'
  <2>1. PICK next \in Position, more \in BOOLEAN :
          req' = [req EXCEPT ![r].stage = "answered", ![r].next = next,
                             ![r].more = more]
    BY <1>7 DEF Answer
  <2>2. [req[r] EXCEPT !.stage = "answered", !.next = next, !.more = more]
          \in RequestRecord
    BY DEF LoopOK, RequestRecord, Stage
  <2>3. req' \in [Request -> RequestRecord]
    BY <2>1, <2>2 DEF LoopOK
  <2>4. LoopOK'
    BY <1>7, <2>3, PostType DEF Answer, Post, LoopOK
  <2>5. RestOK'
    BY <1>7, Kept DEF Answer, RestOK, SessionOK
  <2> QED
    BY <2>4, <2>5
<1>8. ASSUME NEW r \in Request, RequestCancelled(r)
      PROVE  LoopOK' /\ RestOK'
  <2>1. [req[r] EXCEPT !.stage = "failed", !.error = "cancelled"] \in RequestRecord
    BY DEF LoopOK, RequestRecord, Stage, Error
  <2>2. req' \in [Request -> RequestRecord]
    BY <1>8, <2>1 DEF LoopOK, RequestCancelled
  <2>3. LoopOK'
    BY <1>8, <2>2, PostType DEF RequestCancelled, Post, LoopOK
  <2>4. RestOK'
    BY <1>8, Kept DEF RequestCancelled, RestOK, SessionOK
  <2> QED
    BY <2>3, <2>4
<1>9. ASSUME NEW r \in Request, NEW e \in Error \ {"cancelled"}, RequestFails(r, e)
      PROVE  LoopOK' /\ RestOK'
  <2>1. [req[r] EXCEPT !.stage = "failed", !.error = e] \in RequestRecord
    BY DEF LoopOK, RequestRecord, Stage
  <2>2. req' \in [Request -> RequestRecord]
    BY <1>9, <2>1 DEF LoopOK, RequestFails
  <2>3. LoopOK'
    BY <1>9, <2>2, PostType DEF RequestFails, Post, LoopOK
  <2>4. RestOK'
    BY <1>9, Kept, FailsType DEF RequestFails, RestOK, SessionOK
  <2> QED
    BY <2>3, <2>4
<1> QED
  BY <1>1, <1>2, <1>3, <1>4, <1>5, <1>6, <1>7, <1>8, <1>9 DEF FromOutside
-----------------------------------------------------------------------------
(***************************************************************************)
(* The main thread.                                                        *)
(***************************************************************************)
LEMMA TailType ==
  ASSUME LoopOK, main # <<>>
  PROVE  Head(main) \in Block /\ Tail(main) \in Seq(Block)
  BY DEF LoopOK

LEMMA FreedType ==
  ASSUME LoopOK, NEW r \in Request
  PROVE  [req EXCEPT ![r] = Free] \in [Request -> RequestRecord]
  BY FreeType DEF LoopOK

\* The turn of the main thread moves on, about r.
LEMMA TurnType ==
  ASSUME NEW r \in Request,
         NEW at \in {"background", "resume", "notified", "fail", "run", "error"}
  PROVE  [at |-> at, of |-> r] \in Turn
  BY DEF Turn

LEMMA TurnOf ==
  ASSUME RestOK, turn # Idle
  PROVE  turn.of \in Request
  BY DEF RestOK, SessionOK, Turn

LEMMA ReturnType ==
  ASSUME LoopOK, NEW r \in Request, Return(r)
  PROVE  req' \in [Request -> RequestRecord] /\ turn' \in Turn
  BY FreedType DEF Return, Turn

LEMMA PauseAgainType ==
  ASSUME LoopOK, RestOK, NEW r \in Request, NEW goOn \in {"resume", "run", "error"},
         PauseAgain(r, goOn)
  PROVE  /\ LoopOK' /\ SessionOK' /\ DataOK' /\ StartOK' /\ RetryOK' /\ PauseOK'
         /\ BoundOK'
         /\ onResumeDone' = onResumeDone
<1>1. DataOK' /\ StartOK' /\ RetryOK' /\ BoundOK'
  BY Kept DEF PauseAgain, RestOK
<1>2. PauseOK'
  BY DEF PauseAgain, RestOK, PauseOK
<1>3. LoopOK'
  BY ReturnType DEF PauseAgain, LoopOK
<1>4. SessionOK'
  BY ReturnType, TurnType DEF PauseAgain, RestOK, SessionOK, State
<1> QED
  BY <1>1, <1>2, <1>3, <1>4 DEF PauseAgain

LEMMA StartStepType ==
  ASSUME LoopOK, RestOK, GotProfile \/ StartedCrypto \/ ApplyCache \/ CacheDone
  PROVE  LoopOK' /\ RestOK'
<1>1. CASE GotProfile
  <2>1. StartOK'
    BY <1>1 DEF GotProfile, RestOK, StartOK
  <2>2. /\ LoopOK' /\ SessionOK' /\ DataOK' /\ RetryOK' /\ BlockOK' /\ PauseOK'
        /\ BoundOK'
    BY <1>1, Kept DEF GotProfile, RestOK, SessionOK
  <2> QED
    BY <2>1, <2>2 DEF RestOK
<1>2. CASE StartedCrypto
  <2>1. LoopOK'
    BY <1>2, ServerSyncType DEF StartedCrypto, LoopOK, RestOK, DataOK
  <2>2. StartOK'
    BY <1>2 DEF StartedCrypto, RestOK, StartOK
  <2>3. SessionOK' /\ DataOK' /\ RetryOK' /\ BlockOK' /\ PauseOK' /\ BoundOK'
    BY <1>2, Kept DEF StartedCrypto, RestOK, SessionOK
  <2> QED
    BY <2>1, <2>2, <2>3 DEF RestOK
<1>3. CASE ApplyCache
  <2>1. cacheTask \in CacheTask
    BY <1>3 DEF ApplyCache, RestOK, StartOK, NoTask
  <2>2. StartOK' /\ DataOK'
    BY <1>3, <2>1 DEF ApplyCache, RestOK, StartOK, DataOK, CacheTask
  <2>3. LoopOK' /\ SessionOK' /\ RetryOK' /\ BlockOK' /\ PauseOK' /\ BoundOK'
    BY <1>3, Kept DEF ApplyCache, RestOK, SessionOK
  <2> QED
    BY <2>2, <2>3 DEF RestOK
<1>4. CASE CacheDone
  <2>1. cacheTask \in CacheTask
    BY <1>4 DEF CacheDone, RestOK, StartOK, NoTask
  <2>2. /\ cacheTask.then \in {"start", "resume"} /\ cacheTask.old \in State
        /\ cacheTask.old \in {"StoreDataReady", "Paused"}
    BY <2>1 DEF CacheTask, State
  <2>3. CacheLeft \subseteq Cached
    BY <2>1, BoundAssumption DEF CacheLeft, CacheTask, Cached, NoCache, RestOK,
       StartOK, Position
  <2>4. DataOK' /\ RetryOK' /\ BoundOK' /\ UNCHANGED <<closed, turn>>
    BY <1>4, Kept DEF CacheDone, RestOK
  <2>5. PICK left \in CacheLeft :
          IF left # NoCache
          THEN /\ ReadCache(left, cacheTask.then, cacheTask.old)
               /\ UNCHANGED <<loopVars, blockVars, pauseVars, starting>>
          ELSE /\ cacheTask' = NoTask /\ bgCache' = NoCache
               /\ IF cacheTask.then = "start" THEN DoStart
                  ELSE DoResume(cacheTask.old) /\ UNCHANGED starting
    BY <1>4 DEF CacheDone
  <2>6. CASE left # NoCache
    <3>1. /\ cacheTask' \in CacheTask /\ bgCache' \in Cached
          /\ state' = "ProcessingBackgroundSyncCache"
      BY <2>2, <2>3, <2>5, <2>6, ReadCacheType DEF RestOK
    <3>2. SessionOK' /\ StartOK'
      BY <2>4, <2>5, <2>6, <3>1 DEF SessionOK, StartOK, RestOK, State
    <3>3. LoopOK' /\ BlockOK' /\ PauseOK'
      BY <2>5, <2>6, Kept DEF RestOK
    <3> QED
      BY <2>4, <3>2, <3>3 DEF RestOK
  <2>7. CASE left = NoCache
    <3>1. bgCache' \in Cached /\ cacheTask' = NoTask
      BY <2>3, <2>5, <2>7
    <3>2. CASE DoStart
      <4>1. LoopOK' /\ BlockOK' /\ PauseOK' /\ SessionOK' /\ StartOK'
        BY <2>4, <3>1, <3>2, DoStartType DEF RestOK, SessionOK, StartOK
      <4> QED
        BY <2>4, <4>1 DEF RestOK
    <3>3. CASE DoResume(cacheTask.old) /\ UNCHANGED starting
      <4>1. LoopOK' /\ BlockOK' /\ PauseOK' /\ SessionOK' /\ StartOK'
        BY <2>2, <2>4, <3>1, <3>3, DoResumeType DEF RestOK, SessionOK, StartOK
      <4> QED
        BY <2>4, <4>1 DEF RestOK
    <3> QED
      BY <2>5, <2>7, <3>2, <3>3
  <2> QED
    BY <2>6, <2>7
<1> QED
  BY <1>1, <1>2, <1>3, <1>4

LEMMA ResponseStepType ==
  ASSUME LoopOK, RestOK, NEW r \in Request,
         \/ ReceiveAnswer(r) \/ Notify(r) \/ Apply(r) \/ LastMessagesFixed(r)
         \/ EndSync(r)
  PROVE  LoopOK' /\ RestOK'
<1>1. CASE ReceiveAnswer(r)
  <2>1. main # <<>>
    BY <1>1 DEF ReceiveAnswer, HeadIs
  <2>2. req' \in [Request -> RequestRecord]
    <3>1. [req EXCEPT ![r].stage = "received"] \in [Request -> RequestRecord]
      BY StageType DEF LoopOK, Stage
    <3> QED
      BY <1>1, <3>1, FreedType DEF ReceiveAnswer
  <2>3. main' \in Seq(Block)
    BY <1>1, <2>1, TailType, PostType DEF ReceiveAnswer
  <2>4. LoopOK'
    BY <1>1, <2>2, <2>3 DEF ReceiveAnswer, LoopOK
  <2>5. RestOK'
    BY <1>1, Kept DEF ReceiveAnswer, RestOK, SessionOK
  <2> QED
    BY <2>4, <2>5
<1>2. CASE Notify(r)
  <2>1. main # <<>>
    BY <1>2 DEF Notify, HeadIs
  <2>2. [req[r] EXCEPT !.stage = "applying", !.first = (token = 0),
                       !.more = @ /\ catchingUp] \in RequestRecord
    BY DEF LoopOK, RequestRecord, Stage
  <2>3. req' \in [Request -> RequestRecord]
    BY <1>2, <2>2 DEF Notify, LoopOK
  <2>4. LoopOK'
    BY <1>2, <2>1, <2>3, TailType DEF Notify, LoopOK
  <2>5. DataOK'
    BY <1>2 DEF Notify, LoopOK, RequestRecord, RestOK, DataOK
  <2>6. SessionOK' /\ StartOK' /\ RetryOK' /\ BlockOK' /\ PauseOK' /\ BoundOK'
    BY <1>2, Kept DEF Notify, RestOK, SessionOK
  <2> QED
    BY <2>4, <2>5, <2>6 DEF RestOK
<1>3. CASE Apply(r)
  <2>1. req' \in [Request -> RequestRecord]
    <3>1. /\ [req EXCEPT ![r].stage = "applied"] \in [Request -> RequestRecord]
          /\ [req EXCEPT ![r].stage = "ending"] \in [Request -> RequestRecord]
      BY StageType DEF LoopOK, Stage
    <3> QED
      BY <1>3, <3>1 DEF Apply
  <2>2. LoopOK'
    BY <1>3, <2>1, PostType DEF Apply, Post, LoopOK
  <2>3. DataOK'
    BY <1>3, BoundAssumption DEF Apply, LoopOK, RequestRecord, RestOK, DataOK, Position
  <2>4. SessionOK' /\ StartOK' /\ RetryOK' /\ BlockOK' /\ PauseOK' /\ BoundOK'
    BY <1>3, Kept DEF Apply, RestOK, SessionOK
  <2> QED
    BY <2>2, <2>3, <2>4 DEF RestOK
<1>4. CASE LastMessagesFixed(r)
  <2>1. req' \in [Request -> RequestRecord]
    BY <1>4, StageType DEF LastMessagesFixed, LoopOK, Stage
  <2>2. LoopOK'
    BY <1>4, <2>1, PostType DEF LastMessagesFixed, Post, LoopOK
  <2>3. RestOK'
    BY <1>4, Kept DEF LastMessagesFixed, RestOK, SessionOK
  <2> QED
    BY <2>2, <2>3
<1>5. CASE EndSync(r)
  <2>1. main # <<>>
    BY <1>5 DEF EndSync, HeadIs
  <2>2. DataOK' /\ StartOK' /\ RetryOK' /\ PauseOK' /\ BoundOK'
        /\ UNCHANGED <<state, closed>>
    BY <1>5, Kept DEF EndSync, RestOK
  <2>3. BlockOK'
    <3>1. UNCHANGED <<onResumeDone, onBackgroundSyncDone, onBackgroundSyncFail>>
      BY <1>5 DEF EndSync
    <3> QED
      BY <3>1 DEF RestOK, BlockOK
  <2>4. CASE req[r].more /\ state \notin {"PauseRequested", "Paused"}
    <3>1. /\ ServerSync(eventStreamRequest, [req EXCEPT ![r] = Free], Tail(main),
                        FALSE, req[r].init)
          /\ UNCHANGED turn
      BY <1>5, <2>4 DEF EndSync
    <3>2. req[r].init \in BOOLEAN
      BY DEF LoopOK, RequestRecord
    <3>3. /\ [req EXCEPT ![r] = Free] \in [Request -> RequestRecord]
          /\ Tail(main) \in Seq(Block)
      BY <2>1, TailType, FreedType
    <3>4. LoopOK'
      BY <3>1, <3>2, <3>3, ServerSyncType DEF LoopOK, RestOK, DataOK
    <3> QED
      BY <2>2, <2>3, <3>1, <3>4 DEF RestOK, SessionOK
  <2>5. CASE ~(req[r].more /\ state \notin {"PauseRequested", "Paused"})
    <3>1. LoopOK'
      BY <1>5, <2>1, <2>5, TailType DEF EndSync, LoopOK
    <3>2. turn' \in Turn
      BY <1>5, <2>5, TurnType DEF EndSync, AtEnd, AfterBackground
    <3> QED
      BY <2>2, <2>3, <3>1, <3>2 DEF RestOK, SessionOK
  <2> QED
    BY <2>4, <2>5
<1> QED
  BY <1>1, <1>2, <1>3, <1>4, <1>5

LEMMA EndStepType ==
  ASSUME LoopOK, RestOK,
         BackgroundSyncDone \/ ResumeDone \/ Run \/ Pursue \/ BackgroundSyncFailed
  PROVE  LoopOK' /\ RestOK'
<1>1. turn.of \in Request
  <2>1. turn.at # "idle"
    BY DEF BackgroundSyncDone, ResumeDone, Run, Pursue, BackgroundSyncFailed
  <2> QED
    BY <2>1, TurnOf DEF Idle
<1>2. CASE BackgroundSyncDone
  <2>1. PauseAgain(turn.of, AfterBackground)
        /\ AfterBackground \in {"resume", "run", "error"}
    BY <1>2 DEF BackgroundSyncDone, AfterBackground
  <2>2. /\ LoopOK' /\ SessionOK' /\ DataOK' /\ StartOK' /\ RetryOK' /\ PauseOK'
        /\ BoundOK' /\ onResumeDone' = onResumeDone
    BY <1>1, <2>1, PauseAgainType
  <2> QED
    BY <1>2, <2>2 DEF BackgroundSyncDone, RestOK, BlockOK
<1>3. CASE BackgroundSyncFailed
  <2>1. /\ LoopOK' /\ SessionOK' /\ DataOK' /\ StartOK' /\ RetryOK' /\ PauseOK'
        /\ BoundOK' /\ onResumeDone' = onResumeDone
    BY <1>1, <1>3, PauseAgainType DEF BackgroundSyncFailed
  <2> QED
    BY <1>3, <2>1 DEF BackgroundSyncFailed, RestOK, BlockOK
<1>4. CASE ResumeDone
  <2>1. LoopOK'
    BY <1>1, <1>4, ReturnType DEF ResumeDone, LoopOK
  <2>2. turn' \in Turn
    <3>1. turn = [at |-> "resume", of |-> turn.of]
      BY <1>4 DEF ResumeDone, RestOK, SessionOK, Turn, Idle
    <3>2. [turn EXCEPT !.at = "run"] = [at |-> "run", of |-> turn.of]
      BY <3>1
    <3> QED
      BY <1>1, <1>4, <3>2, ReturnType, TurnType DEF ResumeDone
  <2>3. BlockOK'
    BY <1>4 DEF ResumeDone, RestOK, BlockOK
  <2>4. SessionOK' /\ DataOK' /\ StartOK' /\ RetryOK' /\ PauseOK' /\ BoundOK'
    BY <1>4, <2>2, Kept DEF ResumeDone, RestOK, SessionOK
  <2> QED
    BY <2>1, <2>3, <2>4 DEF RestOK
<1>5. CASE Run
  <2>1. turn' \in Turn
    <3>1. turn = [at |-> "run", of |-> turn.of]
      BY <1>5 DEF Run, RestOK, SessionOK, Turn, Idle
    <3>2. [turn EXCEPT !.at = "notified"] = [at |-> "notified", of |-> turn.of]
      BY <3>1
    <3> QED
      BY <1>1, <1>5, <3>2, TurnType DEF Run
  <2>2. SessionOK'
    BY <1>5, <2>1 DEF Run, RestOK, SessionOK, State
  <2> QED
    BY <1>5, <2>2, Kept DEF Run, RestOK
<1>6. CASE Pursue
  <2>1. /\ DataOK' /\ StartOK' /\ RetryOK' /\ BlockOK' /\ PauseOK' /\ BoundOK'
        /\ UNCHANGED <<state, closed>>
    BY <1>6, Kept DEF Pursue, RestOK
  <2>2. CASE closed \/ state = "Paused"
    <3>1. LoopOK' /\ turn' \in Turn
      BY <1>1, <1>6, <2>2, ReturnType DEF Pursue, LoopOK
    <3> QED
      BY <2>1, <3>1 DEF RestOK, SessionOK
  <2>3. CASE ~(closed \/ state = "Paused")
    <3>1. /\ ServerSync(eventStreamRequest, [req EXCEPT ![turn.of] = Free], main,
                        ~req[turn.of].more, FALSE)
          /\ turn' = Idle
      BY <1>6, <2>3 DEF Pursue
    <3>2. LoopOK'
      BY <1>1, <3>1, FreedType, ServerSyncType DEF LoopOK, RestOK, DataOK
    <3> QED
      BY <2>1, <3>1, <3>2 DEF RestOK, SessionOK, Turn
  <2> QED
    BY <2>2, <2>3
<1> QED
  BY <1>2, <1>3, <1>4, <1>5, <1>6

LEMMA ErrorStepType ==
  ASSUME LoopOK, RestOK, NEW r \in Request,
         \/ ReceiveFailure(r) \/ InitialSyncFails(r) \/ IgnoreCancellation(r)
         \/ CatchUpTimedOut(r) \/ RetryAfterNodeError(r) \/ RetryWhenReachable(r)
  PROVE  LoopOK' /\ RestOK'
<1>1. CASE ReceiveFailure(r)
  <2>1. main # <<>>
    BY <1>1 DEF ReceiveFailure, HeadIs
  <2>2. LoopOK'
    BY <1>1, <2>1, TailType, FreedType DEF ReceiveFailure, LoopOK
  <2>3. turn' \in Turn
    BY <1>1, TurnType DEF ReceiveFailure, RestOK, SessionOK
  <2>4. BlockOK'
    BY <1>1 DEF ReceiveFailure, RestOK, BlockOK
  <2>5. SessionOK' /\ DataOK' /\ StartOK' /\ RetryOK' /\ PauseOK' /\ BoundOK'
    BY <1>1, <2>3, Kept DEF ReceiveFailure, RestOK, SessionOK
  <2> QED
    BY <2>2, <2>4, <2>5 DEF RestOK
<1>2. CASE InitialSyncFails(r)
  <2>1. LoopOK' /\ turn' \in Turn
    BY <1>2, ReturnType DEF InitialSyncFails, LoopOK
  <2>2. SessionOK'
    BY <1>2, <2>1 DEF InitialSyncFails, RestOK, SessionOK, State
  <2> QED
    BY <1>2, <2>1, <2>2, Kept DEF InitialSyncFails, RestOK
<1>3. CASE IgnoreCancellation(r)
  <2>1. LoopOK' /\ turn' \in Turn
    BY <1>3, ReturnType DEF IgnoreCancellation, LoopOK
  <2>2. SessionOK'
    BY <1>3, <2>1 DEF IgnoreCancellation, RestOK, SessionOK
  <2> QED
    BY <1>3, <2>1, <2>2, Kept DEF IgnoreCancellation, RestOK
<1>4. CASE CatchUpTimedOut(r)
  <2>1. Cancel(req, eventStreamRequest) \in [Request -> RequestRecord]
    BY CancelType DEF LoopOK
  <2>2. [Cancel(req, eventStreamRequest) EXCEPT ![r] = Free]
          \in [Request -> RequestRecord]
    BY <2>1, FreeType
  <2>3. LoopOK'
    BY <1>4, <2>2, ServerSyncType DEF CatchUpTimedOut, LoopOK, RestOK, DataOK
  <2>4. SessionOK'
    BY <1>4 DEF CatchUpTimedOut, RestOK, SessionOK, Turn
  <2> QED
    BY <1>4, <2>3, <2>4, Kept DEF CatchUpTimedOut, RestOK
<1>5. CASE RetryAfterNodeError(r)
  <2>1. LoopOK' /\ turn' \in Turn
    BY <1>5, ReturnType DEF RetryAfterNodeError, LoopOK
  <2>2. SessionOK'
    BY <1>5, <2>1 DEF RetryAfterNodeError, RestOK, SessionOK, State
  <2>3. RetryOK'
    BY <1>5 DEF RetryAfterNodeError, RestOK, RetryOK, RetryKind
  <2> QED
    BY <1>5, <2>1, <2>2, <2>3, Kept DEF RetryAfterNodeError, RestOK
<1>6. CASE RetryWhenReachable(r)
  <2>1. LoopOK' /\ turn' \in Turn
    BY <1>6, ReturnType DEF RetryWhenReachable, LoopOK
  <2>2. SessionOK'
    BY <1>6, <2>1 DEF RetryWhenReachable, RestOK, SessionOK, State
  <2>3. RetryOK'
    BY <1>6 DEF RetryWhenReachable, RestOK, RetryOK, RetryKind
  <2> QED
    BY <1>6, <2>1, <2>2, <2>3, Kept DEF RetryWhenReachable, RestOK
<1> QED
  BY <1>1, <1>2, <1>3, <1>4, <1>5, <1>6

LEMMA RetryStepType ==
  ASSUME LoopOK, RestOK, RetryReachable \/ \E k \in RetryKind : Retry(k)
  PROVE  LoopOK' /\ RestOK'
<1>1. CASE RetryReachable
  <2>1. Tail(main) \in Seq(Block)
    BY <1>1, TailType DEF RetryReachable, HeadIs
  <2>2. LoopOK'
    <3>1. CASE ServerSync(eventStreamRequest, req, Tail(main), FALSE, FALSE)
      BY <2>1, <3>1, ServerSyncType DEF LoopOK, RestOK, DataOK
    <3>2. CASE main' = Tail(main) /\ UNCHANGED <<eventStreamRequest, req, catchingUp>>
      BY <2>1, <3>2 DEF LoopOK
    <3> QED
      BY <1>1, <3>1, <3>2 DEF RetryReachable
  <2>3. RetryOK'
    <3>1. /\ (waiting > 0 /\ waiting' = waiting - 1) \/ waiting' = waiting
          /\ UNCHANGED <<retries, reachable>>
      BY <1>1 DEF RetryReachable
    <3> QED
      BY <3>1 DEF RestOK, RetryOK
  <2>4. SessionOK'
    BY <1>1 DEF RetryReachable, RestOK, SessionOK, State
  <2> QED
    BY <1>1, <2>2, <2>3, <2>4, Kept DEF RetryReachable, RestOK
<1>2. ASSUME NEW k \in RetryKind, Retry(k)
      PROVE  LoopOK' /\ RestOK'
  <2>1. LoopOK'
    <3>1. CASE eventStreamRequest = None
      BY <1>2, <3>1, Kept DEF Retry
    <3>2. CASE eventStreamRequest # None
      BY <1>2, <3>2, ServerSyncType DEF Retry, LoopOK, RestOK, DataOK
    <3> QED
      BY <3>1, <3>2
  <2>2. RetryOK'
    BY <1>2 DEF Retry, RestOK, RetryOK
  <2>3. SessionOK'
    BY <1>2 DEF Retry, RestOK, SessionOK, State
  <2> QED
    BY <1>2, <2>1, <2>2, <2>3, Kept DEF Retry, RestOK
<1> QED
  BY <1>1, <1>2

LEMMA MainThreadType ==
  ASSUME LoopOK, RestOK, MainThread
  PROVE  LoopOK' /\ RestOK'
  BY StartStepType, ResponseStepType, EndStepType, ErrorStepType, RetryStepType
     DEF MainThread

\* Type correctness, whatever the application does: in particular the count of
\* what prevents a pause never wraps below zero (releasePreventPause).
THEOREM TypesKept == Spec => []TypeOK
<1>1. Init => TypeOK
  BY InitType, TypeParts
<1>2. TypeOK /\ [Next]_vars => TypeOK'
  <2> SUFFICES ASSUME LoopOK, RestOK, [Next]_vars PROVE LoopOK' /\ RestOK'
    BY TypeParts DEF TypeOK, LoopOK, RestOK, SessionOK, DataOK, StartOK, RetryOK,
       BlockOK, PauseOK, BoundOK
  <2>1. CASE Next
    BY <2>1, AppCallType, FromOutsideType, MainThreadType DEF Next
  <2>2. CASE UNCHANGED vars
    BY <2>2, Kept DEF vars, RestOK, SessionOK
  <2> QED
    BY <2>1, <2>2
<1> QED
  BY <1>1, <1>2, PTL DEF Spec
-----------------------------------------------------------------------------
(***************************************************************************)
(* A delayed pause.                                                        *)
(***************************************************************************)
\* A step that changes neither the state, nor the count, nor the background
\* task, but to stop it, keeps PauseHonoured.
LEMMA HonouredKept ==
  ASSUME PauseHonoured, preventPauseCount' = preventPauseCount,
         state' = "PauseRequested" => state = "PauseRequested",
         backgroundTask' => backgroundTask
  PROVE  PauseHonoured'
  BY DEF PauseHonoured

LEMMA LetPauseHonoured ==
  ASSUME PauseHonoured, NEW count \in Nat, LetPause(count)
  PROVE  PauseHonoured'
<1>1. CASE count = 0
  BY <1>1 DEF LetPause, PauseNow, PauseHonoured, Pauseable
<1>2. CASE count # 0
  BY <1>2 DEF LetPause, PauseHonoured
<1> QED
  BY <1>1, <1>2

\* The calls are where a pause is asked for, delayed, and let go.
LEMMA AppCallHonoured ==
  ASSUME LoopOK, RestOK, PauseHonoured, AppCall
  PROVE  PauseHonoured'
<1>1. CASE Start
  <2>1. CASE MustReadCache(state)
    BY <1>1, <2>1, HonouredKept DEF Start, ReadCache, pauseVars
  <2>2. CASE ~MustReadCache(state)
    BY <1>1, <2>2, DoStartType, HonouredKept DEF Start
  <2> QED
    BY <2>1, <2>2
<1>2. CASE Pause
  BY <1>2 DEF Pause, PauseLater, PauseNow, PauseHonoured
<1>3. CASE Resume
  <2>1. CASE MustReadCache(state)
    BY <1>3, <2>1, HonouredKept DEF Resume, ReadCache, pauseVars
  <2>2. CASE ~MustReadCache(state)
    <3>1. DoResume(state) /\ state \in State
      BY <1>3, <2>2 DEF Resume, RestOK, SessionOK
    <3>2. /\ state' \in {state, "SyncInProgress"} /\ backgroundTask' = FALSE
          /\ UNCHANGED preventPauseCount
      BY <3>1, DoResumeType
    <3> QED
      BY <3>2, HonouredKept
  <2> QED
    BY <2>1, <2>2
<1>4. CASE Reconnect
  BY <1>4, HonouredKept DEF Reconnect, pauseVars
<1>5. CASE Close
  BY <1>5, HonouredKept DEF Close
<1>6. ASSUME NEW ignore \in BOOLEAN, BackgroundSync(ignore)
      PROVE  PauseHonoured'
  BY <1>6, HonouredKept DEF BackgroundSync, pauseVars
<1>7. CASE RetainPreventPause
  BY <1>7, LetPauseHonoured DEF RetainPreventPause, RestOK, PauseOK
<1>8. CASE ReleasePreventPause
  BY <1>8, LetPauseHonoured DEF ReleasePreventPause, RestOK, PauseOK
<1>9. CASE ChangeActive
  BY <1>9, HonouredKept DEF ChangeActive
<1> QED
  BY <1>1, <1>2, <1>3, <1>4, <1>5, <1>6, <1>7, <1>8, <1>9 DEF AppCall

LEMMA FromOutsideHonoured ==
  ASSUME RestOK, PauseHonoured, FromOutside
  PROVE  PauseHonoured'
<1>1. CASE ExpireBackgroundTask
  BY <1>1, LetPauseHonoured DEF ExpireBackgroundTask
<1>2. CASE ~ExpireBackgroundTask
  <2>1. /\ UNCHANGED pauseVars
        /\ state' = state \/ state' = "InitialSyncFailed"
    BY <1>2 DEF FromOutside, NodeEvent, NetworkLost, NetworkBack, ExtensionSync,
       StartFails, Answer, RequestCancelled, RequestFails
  <2> QED
    BY <2>1, HonouredKept DEF pauseVars
<1> QED
  BY <1>1, <1>2

\* What follows the block of a background sync may delay a pause.
LEMMA PauseAgainHonoured ==
  ASSUME PauseHonoured, NEW r, NEW goOn, PauseAgain(r, goOn)
  PROVE  PauseHonoured'
  BY DEF PauseAgain, PauseHonoured

LEMMA CacheDoneHonoured ==
  ASSUME LoopOK, RestOK, PauseHonoured, CacheDone
  PROVE  PauseHonoured'
<1>1. cacheTask.old \in State /\ cacheTask.old # "PauseRequested"
  BY DEF RestOK, StartOK, CacheTask, NoTask, State
<1>2. PICK left \in CacheLeft :
        IF left # NoCache
        THEN /\ ReadCache(left, cacheTask.then, cacheTask.old)
             /\ UNCHANGED <<loopVars, blockVars, pauseVars, starting>>
        ELSE /\ cacheTask' = NoTask /\ bgCache' = NoCache
             /\ IF cacheTask.then = "start" THEN DoStart
                ELSE DoResume(cacheTask.old) /\ UNCHANGED starting
  BY DEF CacheDone
<1>3. CASE left # NoCache
  BY <1>2, <1>3, HonouredKept DEF ReadCache, pauseVars
<1>4. CASE DoStart
  BY <1>4, DoStartType, HonouredKept
<1>5. CASE DoResume(cacheTask.old)
  <2>1. /\ state' \in {cacheTask.old, "SyncInProgress"} /\ backgroundTask' = FALSE
        /\ UNCHANGED preventPauseCount
    BY <1>1, <1>5, DoResumeType
  <2> QED
    BY <1>1, <2>1, HonouredKept
<1> QED
  BY <1>2, <1>3, <1>4, <1>5

LEMMA MainThreadHonoured ==
  ASSUME LoopOK, RestOK, PauseHonoured, MainThread
  PROVE  PauseHonoured'
<1>1. CASE CacheDone
  BY <1>1, CacheDoneHonoured
<1>2. CASE BackgroundSyncDone \/ BackgroundSyncFailed
  BY <1>2, PauseAgainHonoured DEF BackgroundSyncDone, BackgroundSyncFailed
<1>3. CASE ~(CacheDone \/ BackgroundSyncDone \/ BackgroundSyncFailed)
  <2>1. UNCHANGED pauseVars
    BY <1>3 DEF MainThread, GotProfile, StartedCrypto, ApplyCache, ResumeDone, Run,
       Pursue, RetryReachable, Retry, ReceiveAnswer, Notify, Apply,
       LastMessagesFixed, EndSync, ReceiveFailure, InitialSyncFails,
       IgnoreCancellation, CatchUpTimedOut, RetryAfterNodeError, RetryWhenReachable
  <2>2. state' = "PauseRequested" => state = "PauseRequested"
    BY <1>3 DEF MainThread, GotProfile, StartedCrypto, ApplyCache, ResumeDone, Run,
       Pursue, RetryReachable, Retry, ReceiveAnswer, Notify, Apply,
       LastMessagesFixed, EndSync, ReceiveFailure, InitialSyncFails,
       IgnoreCancellation, CatchUpTimedOut, RetryAfterNodeError, RetryWhenReachable
  <2> QED
    BY <2>1, <2>2, HonouredKept DEF pauseVars
<1> QED
  BY <1>1, <1>2, <1>3

\* A delayed pause, and the background task that pays for the delay, never last
\* longer than what prevents the pause (pause, setPreventPauseCount, _resume).
THEOREM PauseIsHonoured == Spec => []PauseHonoured
<1>1. Init => PauseHonoured
  BY DEF Init, PauseHonoured
<1>2. TypeOK /\ PauseHonoured /\ [Next]_vars => PauseHonoured'
  <2> SUFFICES ASSUME LoopOK, RestOK, PauseHonoured, [Next]_vars
               PROVE  PauseHonoured'
    BY TypeParts
  <2>1. CASE Next
    BY <2>1, AppCallHonoured, FromOutsideHonoured, MainThreadHonoured DEF Next
  <2>2. CASE UNCHANGED vars
    BY <2>2 DEF vars, pauseVars, PauseHonoured
  <2> QED
    BY <2>1, <2>2
<1> QED
  BY <1>1, <1>2, TypesKept, PTL DEF Spec

-----------------------------------------------------------------------------
(***************************************************************************)
(* The blocks that are posted, and the requests under way.                 *)
(***************************************************************************)
Running(x) == ~Stopped(x)

\* A request has one block at most, posted or running, and is where it says.
Fits(kind, stage) == \/ kind = "answer" /\ stage = "answered"
                     \/ kind = "failure" /\ stage = "failed"
                     \/ kind = "notify" /\ stage = "received"
                     \/ kind = "end" /\ stage = "ending"
PostedIn(q, m, t) ==
    /\ \A i \in DOMAIN m : m[i].of # None =>
           /\ Fits(m[i].kind, q[m[i].of].stage)
           /\ m[i].of # t.of
           /\ \A j \in DOMAIN m : m[j].of = m[i].of => i = j
    /\ t.at \in {"background", "resume", "run", "notified"} => q[t.of].stage = "ending"
    /\ t.at \in {"fail", "error"} => q[t.of].stage = "failed"

\* The requests that take the session further, and what else does.
LiveOf(q) == {r \in Request : Running(q[r])}
Count(q) == Cardinality(LiveOf(q))
Others == retries["node"] + retries["network"] + waiting
          + IF starting = "no" THEN 0 ELSE 1

Blocks == PostedIn(req, main, turn) /\ IsFiniteSet(LiveOf(req))
-----------------------------------------------------------------------------
(***************************************************************************)
(* Blocks.                                                                 *)
(***************************************************************************)
Unposted(r, m, t) == t.of # r /\ \A i \in DOMAIN m : m[i].of # r

\* A request that nothing was posted about, or no longer, has no block.
LEMMA NoBlock ==
  ASSUME NEW q \in [Request -> RequestRecord], NEW m \in Seq(Block), NEW t \in Turn,
         PostedIn(q, m, t), NEW r \in Request,
         q[r].stage \in {"free", "sent", "cancelled", "applying", "applied"}
  PROVE  Unposted(r, m, t)
<1>1. \A i \in DOMAIN m : m[i].of # r
  BY RequestAssumption DEF PostedIn, Fits
<1>2. t.of # r
  BY RequestAssumption DEF PostedIn, Turn, Idle
<1> QED
  BY <1>1, <1>2 DEF Unposted

\* Such a request may change.
LEMMA PostedChange ==
  ASSUME NEW q \in [Request -> RequestRecord], NEW m \in Seq(Block), NEW t \in Turn,
         PostedIn(q, m, t), NEW r \in Request, Unposted(r, m, t), NEW x \in RequestRecord
  PROVE  PostedIn([q EXCEPT ![r] = x], m, t)
<1> DEFINE p == [q EXCEPT ![r] = x]
<1>1. \A s \in Request : s # r => p[s] = q[s]
  OBVIOUS
<1>2. ASSUME NEW i \in DOMAIN m, m[i].of # None
      PROVE  /\ Fits(m[i].kind, p[m[i].of].stage) /\ m[i].of # t.of
             /\ \A j \in DOMAIN m : m[j].of = m[i].of => i = j
  <2>1. m[i] \in Block
    OBVIOUS
  <2>2. m[i].of \in Request /\ m[i].of # r
    BY <1>2, <2>1 DEF Block, Unposted
  <2> QED
    BY <1>1, <1>2, <2>2 DEF PostedIn
<1>3. t # Idle => t.of \in Request /\ p[t.of] = q[t.of]
  BY <1>1 DEF Turn, Unposted
<1>4. t = Idle => t.at = "idle"
  BY DEF Idle
<1>5. PostedIn(p, m, t)
  <2> HIDE DEF p
  <2> QED
    BY <1>2, <1>3, <1>4 DEF PostedIn
<1> QED
  BY <1>5

\* A block is posted about it.
LEMMA PostedMore ==
  ASSUME NEW q \in [Request -> RequestRecord], NEW m \in Seq(Block), NEW t \in Turn,
         PostedIn(q, m, t), NEW r \in Request, Unposted(r, m, t),
         NEW kind, Fits(kind, q[r].stage)
  PROVE  PostedIn(q, Append(m, [kind |-> kind, of |-> r]), t)
<1> DEFINE b == [kind |-> kind, of |-> r]
           n == Append(m, b)
<1>1. /\ DOMAIN n = 1..Len(m) + 1 /\ DOMAIN m = 1..Len(m) /\ Len(m) \in Nat
      /\ n[Len(m) + 1] = b /\ \A i \in 1..Len(m) : n[i] = m[i]
  <2>1. b \in [kind : {kind}, of : {r}]
    OBVIOUS
  <2>2. m \in Seq(Block \cup [kind : {kind}, of : {r}])
    OBVIOUS
  <2> QED
    BY <2>1, <2>2
<1>2. b.kind = kind /\ b.of = r
  OBVIOUS
<1> HIDE DEF n, b
<1>3. ASSUME NEW i \in DOMAIN n, n[i].of # None
      PROVE  /\ Fits(n[i].kind, q[n[i].of].stage) /\ n[i].of # t.of
             /\ \A j \in DOMAIN n : n[j].of = n[i].of => i = j
  <2>1. CASE i = Len(m) + 1
    BY <1>1, <1>2, <2>1 DEF Unposted
  <2>2. CASE i \in 1..Len(m)
    BY <1>1, <1>2, <1>3, <2>2 DEF Unposted, PostedIn
  <2> QED
    BY <1>1, <2>1, <2>2
<1> QED
  BY <1>3 DEF PostedIn, n, b

\* The first block is taken, and is the only one about its request.
LEMMA PostedLess ==
  ASSUME NEW q \in [Request -> RequestRecord], NEW m \in Seq(Block), m # <<>>,
         NEW t \in Turn, PostedIn(q, m, t)
  PROVE  /\ PostedIn(q, Tail(m), t) /\ Tail(m) \in Seq(Block)
         /\ Head(m).of # None => /\ Unposted(Head(m).of, Tail(m), t)
                                 /\ Head(m).of \in Request
                                 /\ Fits(Head(m).kind, q[Head(m).of].stage)
<1>1. /\ Len(m) \in Nat \ {0} /\ DOMAIN m = 1..Len(m)
      /\ DOMAIN Tail(m) = 1..Len(m) - 1 /\ Head(m) = m[1]
      /\ \A i \in 1..Len(m) - 1 : Tail(m)[i] = m[i + 1]
  OBVIOUS
<1>2. \A i \in DOMAIN Tail(m) : i + 1 \in DOMAIN m /\ Tail(m)[i] = m[i + 1] /\ i + 1 # 1
  BY <1>1
<1>3. ASSUME NEW i \in DOMAIN Tail(m), Tail(m)[i].of # None
      PROVE  /\ Fits(Tail(m)[i].kind, q[Tail(m)[i].of].stage) /\ Tail(m)[i].of # t.of
             /\ \A j \in DOMAIN Tail(m) : Tail(m)[j].of = Tail(m)[i].of => i = j
  <2>1. /\ Fits(Tail(m)[i].kind, q[Tail(m)[i].of].stage) /\ Tail(m)[i].of # t.of
    BY <1>2, <1>3 DEF PostedIn
  <2>2. ASSUME NEW j \in DOMAIN Tail(m), Tail(m)[j].of = Tail(m)[i].of PROVE i = j
    <3>1. i + 1 = j + 1
      BY <1>2, <1>3, <2>2 DEF PostedIn
    <3> QED
      BY <1>1, <3>1
  <2> QED
    BY <2>1, <2>2
<1>4. PostedIn(q, Tail(m), t)
  BY <1>3 DEF PostedIn
<1>5. 1 \in DOMAIN m /\ m[1] \in Block
  BY <1>1
<1>6. ASSUME Head(m).of # None
      PROVE  /\ Unposted(Head(m).of, Tail(m), t)
             /\ Head(m).of \in Request
             /\ Fits(Head(m).kind, q[Head(m).of].stage)
  <2>1. Head(m).of \in Request
    BY <1>1, <1>5, <1>6 DEF Block
  <2>2. Fits(Head(m).kind, q[Head(m).of].stage) /\ t.of # Head(m).of
    BY <1>1, <1>5, <1>6 DEF PostedIn
  <2>3. \A i \in DOMAIN Tail(m) : Tail(m)[i].of # Head(m).of
    BY <1>1, <1>2, <1>5, <1>6 DEF PostedIn
  <2> QED
    BY <2>1, <2>2, <2>3 DEF Unposted
<1> QED
  BY <1>4, <1>6

\* The network is back: blocks about no request.
LEMMA PostedReachable ==
  ASSUME LoopOK, waiting \in Nat, NEW t, PostedIn(req, main, t),
         main' = main \o [i \in 1..waiting |-> [kind |-> "reachable", of |-> None]]
  PROVE  PostedIn(req, main', t)
<1> DEFINE b == [i \in 1..waiting |-> [kind |-> "reachable", of |-> None]]
<1>1. b \in Seq([kind : {"reachable"}, of : {None}]) /\ Len(b) = waiting
  OBVIOUS
<1>2. /\ Len(main) \in Nat /\ DOMAIN main = 1..Len(main)
      /\ DOMAIN main' = 1..Len(main) + waiting
      /\ \A i \in 1..Len(main) : main'[i] = main[i]
      /\ \A i \in Len(main) + 1 .. Len(main) + waiting : main'[i].of = None
  <2>1. main \in Seq(Block \cup [kind : {"reachable"}, of : {None}])
    BY DEF LoopOK
  <2> QED
    BY <1>1, <2>1
<1>3. \A i \in DOMAIN main' : main'[i].of # None => i \in DOMAIN main /\ main'[i] = main[i]
  BY <1>2
<1> HIDE DEF b
<1> QED
  BY <1>3 DEF PostedIn

\* The block that runs is another, or none.
LEMMA PostedTurn ==
  ASSUME NEW q \in [Request -> RequestRecord], NEW m \in Seq(Block), NEW t \in Turn,
         PostedIn(q, m, t), NEW r \in Request, \A i \in DOMAIN m : m[i].of # r
  PROVE  /\ PostedIn(q, m, Idle)
         /\ Unposted(r, m, Idle)
         /\ \A at \in {"background", "resume", "run", "notified"} :
                q[r].stage = "ending" => PostedIn(q, m, [at |-> at, of |-> r])
         /\ \A at \in {"fail", "error"} :
                q[r].stage = "failed" => PostedIn(q, m, [at |-> at, of |-> r])
  BY RequestAssumption DEF PostedIn, Unposted, Idle

LEMMA PostedCancel ==
  ASSUME NEW q \in [Request -> RequestRecord], NEW m \in Seq(Block), NEW t \in Turn,
         PostedIn(q, m, t), NEW r \in Request \cup {None}
  PROVE  PostedIn(Cancel(q, r), m, t)
<1>1. CASE r # None /\ q[r].stage = "sent"
  <2>1. r \in Request /\ Unposted(r, m, t)
    BY <1>1, NoBlock
  <2>2. Cancel(q, r) = [q EXCEPT ![r] = [q[r] EXCEPT !.stage = "cancelled"]]
    BY <1>1 DEF Cancel
  <2>3. [q[r] EXCEPT !.stage = "cancelled"] \in RequestRecord
    BY <1>1 DEF RequestRecord, Stage
  <2>4. PostedIn([q EXCEPT ![r] = [q[r] EXCEPT !.stage = "cancelled"]], m, t)
    BY <2>1, <2>3, PostedChange
  <2> QED
    BY <2>2, <2>4
<1>2. CASE ~(r # None /\ q[r].stage = "sent")
  BY <1>2 DEF Cancel
<1> QED
  BY <1>1, <1>2
-----------------------------------------------------------------------------
(***************************************************************************)
(* What the steps have in common.                                          *)
(***************************************************************************)
\* Counting after one request has changed.
LEMMA Recount ==
  ASSUME NEW q \in [Request -> RequestRecord], IsFiniteSet(LiveOf(q)),
         NEW r \in Request, NEW x
  PROVE  /\ IsFiniteSet(LiveOf([q EXCEPT ![r] = x]))
         /\ Count(q) \in Nat
         /\ (Running(q[r]) <=> Running(x)) => Count([q EXCEPT ![r] = x]) = Count(q)
         /\ Running(q[r]) /\ ~Running(x) => Count([q EXCEPT ![r] = x]) = Count(q) - 1
         /\ ~Running(q[r]) /\ Running(x) => Count([q EXCEPT ![r] = x]) = Count(q) + 1
<1> DEFINE p == [q EXCEPT ![r] = x]
<1>1. p[r] = x /\ \A s \in Request : s # r => p[s] = q[s]
  OBVIOUS
<1> HIDE DEF p
<1>2. /\ r \in LiveOf(q) <=> Running(q[r])
      /\ Running(x) => LiveOf(p) = LiveOf(q) \cup {r}
      /\ ~Running(x) => LiveOf(p) = LiveOf(q) \ {r}
  BY <1>1 DEF LiveOf
<1>3. Count(q) \in Nat
  BY FS_CardinalityType DEF Count
<1>4. CASE Running(x)
  <2>1. IsFiniteSet(LiveOf(p))
        /\ Count(p) = IF r \in LiveOf(q) THEN Count(q) ELSE Count(q) + 1
    BY <1>2, <1>4, FS_AddElement DEF Count
  <2> QED
    BY <1>2, <1>3, <1>4, <2>1 DEF p
<1>5. CASE ~Running(x)
  <2>1. IsFiniteSet(LiveOf(p))
        /\ Count(p) = IF r \in LiveOf(q) THEN Count(q) - 1 ELSE Count(q)
    BY <1>2, <1>5, FS_RemoveElement DEF Count
  <2> QED
    BY <1>2, <1>3, <1>5, <2>1 DEF p
<1> QED
  BY <1>4, <1>5

\* A cancelled request takes nothing further.
LEMMA CancelCount ==
  ASSUME NEW q \in [Request -> RequestRecord], IsFiniteSet(LiveOf(q)),
         NEW r \in Request \cup {None}
  PROVE  /\ IsFiniteSet(LiveOf(Cancel(q, r)))
         /\ Count(q) \in Nat /\ Count(Cancel(q, r)) \in Nat
         /\ Count(Cancel(q, r)) <= Count(q)
<1>1. LiveOf(Cancel(q, r)) \subseteq LiveOf(q)
  <2>1. CASE r # None /\ q[r].stage = "sent"
    <3> DEFINE x == [q[r] EXCEPT !.stage = "cancelled"]
               c == [q EXCEPT ![r] = x]
    <3>1. Cancel(q, r) = c /\ r \in Request
      BY <2>1 DEF Cancel
    <3>2. x.stage = "cancelled"
      BY <2>1 DEF RequestRecord
    <3>3. \A s \in Request : s # r => c[s] = q[s]
      OBVIOUS
    <3>4. c[r] = x
      BY <3>1
    <3> HIDE DEF c, x
    <3>5. Stopped(c[r])
      BY <3>2, <3>4 DEF Stopped
    <3> QED
      BY <3>1, <3>3, <3>5 DEF LiveOf, Running
  <2>2. CASE ~(r # None /\ q[r].stage = "sent")
    BY <2>2 DEF Cancel
  <2> QED
    BY <2>1, <2>2
<1>2. IsFiniteSet(LiveOf(Cancel(q, r))) /\ Count(Cancel(q, r)) <= Count(q)
  BY <1>1, FS_Subset DEF Count
<1> QED
  BY <1>2, FS_CardinalityType DEF Count

\* serverSync makes one request, sent, or received from the initial cache.
OneMade(current, q, m) ==
  \E r \in Request, x \in RequestRecord :
     /\ q[r].stage = "free" /\ req' = [q EXCEPT ![r] = x]
     /\ \/ x.stage = "sent" /\ main' = m
        \/ x.stage = "received" /\ main' = Append(m, [kind |-> "notify", of |-> r])

LEMMA NewOne ==
  ASSUME RestOK, ~closed, NEW current, NEW q, NEW m, NEW long \in BOOLEAN,
         NEW init \in BOOLEAN, ServerSync(current, q, m, long, init)
  PROVE  OneMade(current, q, m)
<1> DEFINE r == NewRequest(q)
           new == [Free EXCEPT !.since = token, !.long = long, !.init = init]
           x == [new EXCEPT !.stage = "received", !.next = initialCache]
           y == [new EXCEPT !.stage = "sent"]
<1>1. r \in Request /\ q[r].stage = "free"
  BY DEF ServerSync, NewRequest
<1>2. new \in RequestRecord
  BY FreeType DEF RequestRecord, RestOK, DataOK
<1>3. x \in RequestRecord /\ x.stage = "received" /\ y \in RequestRecord /\ y.stage = "sent"
  BY <1>2 DEF RequestRecord, Stage, RestOK, DataOK
<1>4. CASE token = 0 /\ initialCache # 0
  <2>1. req' = [q EXCEPT ![r] = x] /\ main' = Append(m, [kind |-> "notify", of |-> r])
    BY <1>4 DEF ServerSync
  <2> HIDE DEF r, x
  <2> QED
    BY <1>1, <1>3, <2>1 DEF OneMade
<1>5. CASE ~(token = 0 /\ initialCache # 0)
  <2>1. req' = [q EXCEPT ![r] = y] /\ main' = m
    BY <1>5 DEF ServerSync
  <2> HIDE DEF r, y
  <2> QED
    BY <1>1, <1>3, <2>1 DEF OneMade
<1> QED
  BY <1>4, <1>5

\* One more request is under way, unless the session is closed.
LEMMA Served ==
  ASSUME RestOK, NEW current, NEW q \in [Request -> RequestRecord],
         NEW m \in Seq(Block), NEW long \in BOOLEAN, NEW init \in BOOLEAN,
         ServerSync(current, q, m, long, init), NEW t \in Turn,
         PostedIn(q, m, t), IsFiniteSet(LiveOf(q))
  PROVE  /\ PostedIn(req', main', t) /\ IsFiniteSet(LiveOf(req')) /\ Count(q) \in Nat
         /\ ~closed => Count(req') = Count(q) + 1
         /\ closed => Count(req') = Count(q)
<1>0. Count(q) \in Nat
  BY FS_CardinalityType DEF Count
<1>1. CASE closed
  <2>1. req' = q /\ main' = m
    BY <1>1 DEF ServerSync
  <2> QED
    BY <1>0, <1>1, <2>1
<1>2. CASE ~closed
  <2>1. OneMade(current, q, m)
    BY <1>2, NewOne
  <2>2. PICK r \in Request, x \in RequestRecord :
          /\ q[r].stage = "free" /\ req' = [q EXCEPT ![r] = x]
          /\ \/ x.stage = "sent" /\ main' = m
             \/ x.stage = "received" /\ main' = Append(m, [kind |-> "notify", of |-> r])
    BY <2>1 DEF OneMade
  <2>3. Unposted(r, m, t)
    BY <2>2, NoBlock
  <2>4. PostedIn(req', m, t)
    BY <2>2, <2>3, PostedChange
  <2>5. req' \in [Request -> RequestRecord] /\ req'[r] = x
    BY <2>2
  <2>6. PostedIn(req', main', t)
    <3>1. CASE main' = m
      BY <2>4, <3>1
    <3>2. CASE x.stage = "received" /\ main' = Append(m, [kind |-> "notify", of |-> r])
      <4>1. Fits("notify", req'[r].stage)
        BY <2>5, <3>2 DEF Fits
      <4> QED
        BY <2>3, <2>4, <2>5, <3>2, <4>1, PostedMore
    <3> QED
      BY <2>2, <3>1, <3>2
  <2>7. ~Running(q[r]) /\ Running(x)
    BY <2>2 DEF Running, Stopped
  <2> QED
    BY <1>0, <1>2, <2>2, <2>6, <2>7, Recount
<1> QED
  BY <1>1, <1>2

\* A request changes, and a block may be posted about it.
LEMMA Changed ==
  ASSUME LoopOK, Blocks, NEW r \in Request, NEW x \in RequestRecord,
         req' = [req EXCEPT ![r] = x], NEW m \in Seq(Block), NEW t \in Turn,
         PostedIn(req, m, t), Unposted(r, m, t),
         \/ main' = m
         \/ \E kind : Fits(kind, x.stage) /\ main' = Append(m, [kind |-> kind, of |-> r])
  PROVE  /\ PostedIn(req', main', t) /\ IsFiniteSet(LiveOf(req')) /\ Count(req) \in Nat
         /\ (Running(req[r]) <=> Running(x)) => Count(req') = Count(req)
         /\ Running(req[r]) /\ ~Running(x) => Count(req') = Count(req) - 1
<1>0. req \in [Request -> RequestRecord] /\ IsFiniteSet(LiveOf(req))
  BY DEF LoopOK, Blocks
<1>1. req' \in [Request -> RequestRecord] /\ req'[r] = x
  BY <1>0
<1>2. PostedIn(req', m, t)
  BY <1>0, PostedChange
<1>3. PostedIn(req', main', t)
  <2>1. ASSUME NEW kind, Fits(kind, x.stage),
               main' = Append(m, [kind |-> kind, of |-> r])
        PROVE  PostedIn(req', main', t)
    BY <1>1, <1>2, <2>1, PostedMore
  <2> QED
    BY <1>2, <2>1
<1> QED
  BY <1>0, <1>3, Recount

\* The turn about a request is over, or goes on with another block.
LEMMA TurnOver ==
  ASSUME LoopOK, RestOK, Blocks, turn # Idle
  PROVE  /\ turn.of \in Request
         /\ PostedIn(req, main, Idle) /\ Unposted(turn.of, main, Idle)
         /\ turn.at \in {"background", "resume", "run", "notified"} =>
               /\ req[turn.of].stage = "ending"
               /\ \A at \in {"background", "resume", "run", "notified"} :
                     PostedIn(req, main, [at |-> at, of |-> turn.of])
         /\ turn.at \in {"fail", "error"} =>
               /\ req[turn.of].stage = "failed"
               /\ \A at \in {"fail", "error"} :
                     PostedIn(req, main, [at |-> at, of |-> turn.of])
<1>1. turn.of \in Request
  BY TurnOf
<1>2. /\ req \in [Request -> RequestRecord] /\ main \in Seq(Block) /\ turn \in Turn
      /\ PostedIn(req, main, turn)
  BY DEF LoopOK, RestOK, SessionOK, Blocks
<1>3. \A i \in DOMAIN main : main[i].of # turn.of
  BY <1>1, <1>2, RequestAssumption DEF PostedIn
<1>4. /\ turn.at \in {"background", "resume", "run", "notified"} => req[turn.of].stage = "ending"
      /\ turn.at \in {"fail", "error"} => req[turn.of].stage = "failed"
  BY <1>2 DEF PostedIn
<1> QED
  BY <1>1, <1>2, <1>3, <1>4, PostedTurn
-----------------------------------------------------------------------------
(***************************************************************************)
(* One for one: what every step does to the number of loops.               *)
(***************************************************************************)
Asked == calls' # calls \/ cacheTask' # cacheTask
Ended ==
    closed' \/ state' \in {"Paused", "InitialSyncFailed"} \/ eventStreamRequest = None
ByOne == (Loops' > Loops => Asked) /\ (Loops' = 0 /\ Loops > 0 => Ended)

LEMMA OthersType == (RestOK => Others \in Nat) /\ (RestOK' => Others' \in Nat)
  BY DEF RestOK, RetryOK, Others, RetryKind

LEMMA Counted ==
  ASSUME RestOK, RestOK', Blocks, Blocks',
         Asked \/ Count(req') + Others' <= Count(req) + Others,
         Ended \/ Count(req') + Others' >= Count(req) + Others
         \/ Count(req') + Others' > 0
  PROVE  ByOne
<1>1. /\ Count(req) \in Nat /\ Count(req') \in Nat
  BY FS_CardinalityType DEF Blocks, Count
<1>2. Others \in Nat /\ Others' \in Nat
  BY OthersType
<1>3. Live = LiveOf(req) /\ Live' = LiveOf(req')
  BY DEF Live, LiveOf, Running
<1>4. Cardinality(Live) = Count(req) /\ Cardinality(Live') = Count(req')
  BY <1>3 DEF Count
<1>5. Loops = Count(req) + Others
  BY <1>1, <1>4 DEF Loops, Chains, Others, RestOK, RetryOK, RetryKind
<1>6. Loops' = Count(req') + Others'
  BY <1>1, <1>4 DEF Loops, Chains, Others, RestOK, RetryOK, RetryKind
<1>7. Loops \in Nat /\ Loops' \in Nat
  BY <1>1, <1>2, <1>5, <1>6
<1>8. Asked \/ ~(Loops' > Loops)
  BY <1>1, <1>2, <1>5, <1>6
<1>9. Ended \/ Loops' # 0 \/ ~(Loops > 0)
  <2>1. CASE Ended
    BY <2>1
  <2>2. CASE Count(req') + Others' >= Count(req) + Others
    BY <1>5, <1>6, <1>7, <2>2
  <2>3. CASE Count(req') + Others' > 0
    BY <1>6, <1>7, <2>3
  <2> QED
    BY <2>1, <2>2, <2>3
<1> QED
  BY <1>8, <1>9, Zenon DEF ByOne

LEMMA OthersSame == UNCHANGED <<retries, waiting, starting>> => Others' = Others
  BY DEF Others

\* Nothing changes of the requests, and of the rest at most the start.
LEMMA Untouched ==
  ASSUME RestOK, RestOK', Blocks, UNCHANGED <<req, main, turn, retries, waiting>>,
         \/ starting' = starting
         \/ Ended /\ starting # "no"
         \/ Asked /\ starting' # "no"
  PROVE  Blocks' /\ ByOne
<1>1. Blocks'
  BY DEF Blocks
<1>2. Count(req') = Count(req) /\ Count(req) \in Nat
  BY FS_CardinalityType DEF Blocks, Count
<1>3. Others \in Nat /\ Others' \in Nat
  BY OthersType
<1>4. \/ Others' = Others
      \/ Ended /\ Others' <= Others
      \/ Asked /\ Others' >= Others
  BY <1>3 DEF Others, RestOK, RetryOK, RetryKind
<1> HIDE DEF Asked, Ended
<1> QED
  BY <1>1, <1>2, <1>3, <1>4, Counted
-----------------------------------------------------------------------------
(***************************************************************************)
(* The calls of the application.                                           *)
(***************************************************************************)
LEMMA Resumed ==
  ASSUME LoopOK, RestOK, Blocks, NEW st, DoResume(st), UNCHANGED turn
  PROVE  Blocks' /\ Count(req) \in Nat /\ Count(req') \in Nat /\ Count(req') >= Count(req)
<1>1. /\ req \in [Request -> RequestRecord] /\ main \in Seq(Block) /\ turn \in Turn
      /\ PostedIn(req, main, turn) /\ IsFiniteSet(LiveOf(req))
  BY DEF LoopOK, RestOK, SessionOK, Blocks
<1>2. Count(req) \in Nat
  BY <1>1, FS_CardinalityType DEF Count
<1>3. CASE ServerSync(eventStreamRequest, req, main, FALSE, FALSE)
  <2>1. /\ PostedIn(req', main', turn) /\ IsFiniteSet(LiveOf(req'))
        /\ Count(req') = Count(req) + 1 \/ Count(req') = Count(req)
    BY <1>1, <1>3, Served
  <2> QED
    BY <1>2, <2>1 DEF Blocks
<1>4. CASE UNCHANGED loopVars
  BY <1>1, <1>2, <1>4 DEF loopVars, Blocks
<1> QED
  BY <1>3, <1>4 DEF DoResume

LEMMA PausedNow ==
  ASSUME LoopOK, RestOK, Blocks, PauseNow, UNCHANGED turn
  PROVE  /\ Blocks' /\ Count(req) \in Nat /\ Count(req') \in Nat
         /\ Count(req') <= Count(req) /\ state' = "Paused"
<1>1. /\ req \in [Request -> RequestRecord] /\ main \in Seq(Block) /\ turn \in Turn
      /\ PostedIn(req, main, turn) /\ IsFiniteSet(LiveOf(req))
      /\ eventStreamRequest \in Request \cup {None}
  BY DEF LoopOK, RestOK, SessionOK, Blocks
<1>2. req' = Cancel(req, eventStreamRequest) /\ main' = main /\ state' = "Paused"
  BY DEF PauseNow
<1> QED
  BY <1>1, <1>2, CancelCount, PostedCancel DEF Blocks

\* A pause that was prevented is made, or not yet.
LEMMA LetPaused ==
  ASSUME LoopOK, RestOK, RestOK', Blocks, NEW count, LetPause(count), UNCHANGED turn
  PROVE  Blocks' /\ ByOne
<1>1. UNCHANGED <<retries, waiting, starting>>
  BY DEF LetPause, retryVars, startVars
<1>2. CASE PauseNow
  <2>1. Others' = Others /\ Others \in Nat
    BY <1>1, OthersSame, OthersType
  <2>2. /\ Blocks' /\ Count(req) \in Nat /\ Count(req') \in Nat
        /\ Count(req') <= Count(req) /\ Ended
    BY <1>2, PausedNow DEF Ended
  <2> HIDE DEF Ended
  <2> QED
    BY <2>1, <2>2, Counted
<1>3. CASE UNCHANGED <<state, loopVars, blockVars>>
  BY <1>1, <1>3, Untouched DEF loopVars
<1> QED
  BY <1>2, <1>3 DEF LetPause

\* The start goes on.
LEMMA Started ==
  ASSUME LoopOK, RestOK, RestOK', Blocks, DoStart, UNCHANGED <<turn, retryVars>>, Asked
  PROVE  Blocks' /\ ByOne
<1>1. CASE token # 0
  <2>1. DoResume("SyncInProgress") /\ UNCHANGED <<retries, waiting, starting>>
    BY <1>1 DEF DoStart, retryVars
  <2>2. Others' = Others /\ Others \in Nat
    BY <2>1, OthersSame, OthersType
  <2> QED
    BY <2>1, <2>2, Resumed, Counted
<1>2. CASE token = 0
  BY <1>2, Untouched DEF DoStart, loopVars, retryVars
<1> QED
  BY <1>1, <1>2 DEF RestOK, DataOK, Position

LEMMA CallCounts == ASSUME RestOK, NEW name, Call(name) PROVE Asked /\ turn' = turn
  BY DEF Call, Asked, RestOK, BoundOK

LEMMA AppCallBlocks ==
  ASSUME LoopOK, RestOK, RestOK', Blocks, AppCall
  PROVE  Blocks' /\ ByOne
<1>1. CASE Start
  <2>1. Asked /\ UNCHANGED <<turn, retryVars>>
    BY <1>1, CallCounts DEF Start
  <2>2. CASE MustReadCache(state)
    BY <1>1, <2>1, <2>2, Untouched DEF Start, loopVars, retryVars
  <2>3. CASE ~MustReadCache(state)
    BY <1>1, <2>1, <2>3, Started DEF Start
  <2> QED
    BY <2>2, <2>3
<1>2. CASE Pause
  <2>1. Asked /\ UNCHANGED <<turn, retries, waiting, starting>>
    BY <1>2, CallCounts DEF Pause, retryVars, startVars
  <2>2. CASE PauseLater
    BY <2>1, <2>2, Untouched DEF PauseLater, loopVars
  <2>3. CASE PauseNow
    <3>1. Others' = Others /\ Others \in Nat
      BY <2>1, OthersSame, OthersType
    <3>2. /\ Blocks' /\ Count(req) \in Nat /\ Count(req') \in Nat
          /\ Count(req') <= Count(req) /\ Ended
      BY <2>1, <2>3, PausedNow DEF Ended
    <3> HIDE DEF Asked, Ended
    <3> QED
      BY <3>1, <3>2, <2>1, Counted
  <2> QED
    BY <1>2, <2>2, <2>3 DEF Pause
<1>3. CASE Resume
  <2>1. Asked /\ UNCHANGED <<turn, retries, waiting, starting>>
    BY <1>3, CallCounts DEF Resume, retryVars
  <2>2. CASE MustReadCache(state)
    BY <1>3, <2>1, <2>2, Untouched DEF Resume, loopVars
  <2>3. CASE ~MustReadCache(state)
    <3>1. DoResume(state)
      BY <1>3, <2>3 DEF Resume
    <3>2. Others' = Others /\ Others \in Nat
      BY <2>1, OthersSame, OthersType
    <3> QED
      BY <2>1, <3>1, <3>2, Resumed, Counted
  <2> QED
    BY <2>2, <2>3
<1>4. CASE Reconnect
  <2>1. /\ Asked /\ UNCHANGED <<turn, closed, retries, waiting, starting>>
        /\ eventStreamRequest \in Request /\ ~closed
    BY <1>4, CallCounts DEF Reconnect, retryVars, startVars, Call, LoopOK
  <2> DEFINE c == Cancel(req, eventStreamRequest)
  <2>2. /\ c \in [Request -> RequestRecord] /\ PostedIn(c, main, turn)
        /\ IsFiniteSet(LiveOf(c)) /\ Count(c) \in Nat
        /\ main \in Seq(Block) /\ turn \in Turn
    BY <2>1, CancelType, CancelCount, PostedCancel
       DEF LoopOK, RestOK, SessionOK, Blocks
  <2>3. ServerSync(None, c, main, FALSE, FALSE)
    BY <1>4 DEF Reconnect
  <2> HIDE DEF c
  <2>4. /\ PostedIn(req', main', turn) /\ IsFiniteSet(LiveOf(req'))
        /\ Count(req') = Count(c) + 1
    BY <2>1, <2>2, <2>3, Served
  <2>5. Others' = Others /\ Others \in Nat /\ Count(req) \in Nat
    BY <2>1, OthersSame, OthersType, FS_CardinalityType DEF Blocks, Count
  <2>6. Blocks'
    BY <2>1, <2>4 DEF Blocks
  <2> QED
    BY <2>1, <2>2, <2>4, <2>5, <2>6, Counted
<1>5. CASE Close
  <2>1. Asked /\ Ended /\ UNCHANGED <<turn, main>>
    BY <1>5 DEF Close, Asked, Ended, RestOK, BoundOK
  <2>2. req' = Cancel(req, eventStreamRequest)
    BY <1>5 DEF Close
  <2>3. Blocks'
    BY <2>1, <2>2, CancelCount, PostedCancel DEF LoopOK, RestOK, SessionOK, Blocks
  <2> QED
    BY <2>1, <2>3, Counted
<1>6. ASSUME NEW ignore \in BOOLEAN, BackgroundSync(ignore)
      PROVE  Blocks' /\ ByOne
  <2>1. /\ Asked /\ UNCHANGED <<turn, retries, waiting, starting>>
        /\ ServerSync(eventStreamRequest, req, main, FALSE, FALSE)
    BY <1>6, CallCounts DEF BackgroundSync, retryVars, startVars
  <2>2. /\ PostedIn(req', main', turn) /\ IsFiniteSet(LiveOf(req')) /\ Count(req) \in Nat
        /\ Count(req') = Count(req) + 1 \/ Count(req') = Count(req)
    BY <2>1, Served DEF LoopOK, RestOK, SessionOK, Blocks
  <2>3. Others' = Others /\ Others \in Nat
    BY <2>1, OthersSame, OthersType
  <2>4. Blocks'
    BY <2>1, <2>2 DEF Blocks
  <2> QED
    BY <2>1, <2>2, <2>3, <2>4, Counted
<1>7. CASE RetainPreventPause \/ ReleasePreventPause
  BY <1>7, LetPaused, CallCounts DEF RetainPreventPause, ReleasePreventPause
<1>8. CASE ChangeActive
  BY <1>8, CallCounts, Untouched DEF ChangeActive, loopVars, retryVars, startVars
<1> QED
  BY <1>1, <1>2, <1>3, <1>4, <1>5, <1>6, <1>7, <1>8 DEF AppCall
-----------------------------------------------------------------------------
(***************************************************************************)
(* The node, the network and the extension.                                *)
(***************************************************************************)
\* A request that goes on, and what may be posted about it.
LEMMA GoesOn ==
  ASSUME LoopOK, RestOK, RestOK', Blocks, NEW r \in Request, NEW x \in RequestRecord,
         req' = [req EXCEPT ![r] = x], Running(req[r]) <=> Running(x),
         NEW m \in Seq(Block), PostedIn(req, m, turn), Unposted(r, m, turn),
         \/ main' = m
         \/ \E kind : Fits(kind, x.stage) /\ main' = Append(m, [kind |-> kind, of |-> r]),
         UNCHANGED <<turn, retries, waiting, starting>>
  PROVE  Blocks' /\ ByOne
<1>1. turn \in Turn
  BY DEF RestOK, SessionOK
<1>2. /\ PostedIn(req', main', turn) /\ IsFiniteSet(LiveOf(req')) /\ Count(req) \in Nat
      /\ Count(req') = Count(req)
  BY <1>1, Changed
<1>3. Blocks'
  BY <1>2 DEF Blocks
<1>4. Others' = Others /\ Others \in Nat
  BY OthersSame, OthersType
<1> QED
  BY <1>2, <1>3, <1>4, Counted

LEMMA FromOutsideBlocks ==
  ASSUME LoopOK, RestOK, RestOK', Blocks, FromOutside
  PROVE  Blocks' /\ ByOne
<1>0. /\ main \in Seq(Block) /\ PostedIn(req, main, turn) /\ turn \in Turn
      /\ req \in [Request -> RequestRecord]
  BY DEF LoopOK, RestOK, SessionOK, Blocks
<1>1. CASE NodeEvent \/ ExtensionSync \/ NetworkLost
  BY <1>1, Untouched
     DEF NodeEvent, ExtensionSync, NetworkLost, loopVars, startVars, retryVars
<1>2. CASE NetworkBack
  <2>1. UNCHANGED <<turn, req, retries, waiting, starting>>
    BY <1>2 DEF NetworkBack, startVars
  <2>2. PostedIn(req, main', turn)
    BY <1>0, <1>2, PostedReachable DEF NetworkBack, RestOK, RetryOK
  <2>3. Blocks' /\ Count(req') = Count(req) /\ Count(req) \in Nat
    BY <2>1, <2>2, FS_CardinalityType DEF Blocks, Count
  <2>4. Others' = Others /\ Others \in Nat
    BY <2>1, OthersSame, OthersType
  <2> QED
    BY <2>3, <2>4, Counted
<1>3. CASE ExpireBackgroundTask
  BY <1>3, LetPaused DEF ExpireBackgroundTask
<1>4. CASE StartFails
  <2>1. Ended /\ starting # "no" /\ UNCHANGED <<req, main, turn, retries, waiting>>
    BY <1>4 DEF StartFails, Ended, loopVars, retryVars
  <2> QED
    BY <2>1, Untouched
<1>5. ASSUME NEW r \in Request, Answer(r)
      PROVE  Blocks' /\ ByOne
  <2>1. PICK next \in Position, more \in BOOLEAN :
          req' = [req EXCEPT ![r].stage = "answered", ![r].next = next,
                             ![r].more = more]
    BY <1>5 DEF Answer
  <2> DEFINE x == [req[r] EXCEPT !.stage = "answered", !.next = next, !.more = more]
  <2>2. x \in RequestRecord /\ x.stage = "answered" /\ req' = [req EXCEPT ![r] = x]
    BY <1>0, <2>1 DEF RequestRecord, Stage
  <2>3. Running(req[r]) /\ Running(x) /\ Fits("answer", x.stage)
    BY <1>5, <2>2 DEF Answer, Running, Stopped, Fits
  <2>4. Unposted(r, main, turn)
    BY <1>0, <1>5, NoBlock DEF Answer
  <2>5. /\ main' = Append(main, [kind |-> "answer", of |-> r])
        /\ UNCHANGED <<turn, retries, waiting, starting>>
    BY <1>5 DEF Answer, Post, startVars, retryVars
  <2> HIDE DEF x
  <2> QED
    BY <1>0, <2>2, <2>3, <2>4, <2>5, GoesOn
<1>6. ASSUME NEW r \in Request, RequestCancelled(r)
      PROVE  Blocks' /\ ByOne
  <2> DEFINE x == [req[r] EXCEPT !.stage = "failed", !.error = "cancelled"]
  <2>1. /\ x \in RequestRecord /\ x.stage = "failed" /\ x.error = "cancelled"
        /\ req' = [req EXCEPT ![r] = x]
    BY <1>0, <1>6 DEF RequestCancelled, RequestRecord, Stage, Error
  <2>2. ~Running(req[r]) /\ ~Running(x) /\ Fits("failure", x.stage)
    BY <1>6, <2>1 DEF RequestCancelled, Running, Stopped, Fits
  <2>3. Unposted(r, main, turn)
    BY <1>0, <1>6, NoBlock DEF RequestCancelled
  <2>4. /\ main' = Append(main, [kind |-> "failure", of |-> r])
        /\ UNCHANGED <<turn, retries, waiting, starting>>
    BY <1>6 DEF RequestCancelled, Post, startVars, retryVars
  <2> HIDE DEF x
  <2> QED
    BY <1>0, <2>1, <2>2, <2>3, <2>4, GoesOn
<1>7. ASSUME NEW r \in Request, NEW e \in Error \ {"cancelled"}, RequestFails(r, e)
      PROVE  Blocks' /\ ByOne
  <2> DEFINE x == [req[r] EXCEPT !.stage = "failed", !.error = e]
  <2>1. /\ x \in RequestRecord /\ x.stage = "failed" /\ x.error = e
        /\ req' = [req EXCEPT ![r] = x]
    BY <1>0, <1>7 DEF RequestFails, RequestRecord, Stage
  <2>2. Running(req[r]) /\ Running(x) /\ Fits("failure", x.stage)
    BY <1>7, <2>1 DEF RequestFails, Running, Stopped, Fits
  <2>3. Unposted(r, main, turn)
    BY <1>0, <1>7, NoBlock DEF RequestFails
  <2>4. /\ main' = Append(main, [kind |-> "failure", of |-> r])
        /\ UNCHANGED <<turn, retries, waiting, starting>>
    BY <1>7 DEF RequestFails, Post, startVars, retryVars
  <2> HIDE DEF x
  <2> QED
    BY <1>0, <2>1, <2>2, <2>3, <2>4, GoesOn
<1> QED
  BY <1>1, <1>2, <1>3, <1>4, <1>5, <1>6, <1>7 DEF FromOutside
-----------------------------------------------------------------------------
(***************************************************************************)
(* The main thread.                                                        *)
(***************************************************************************)
\* A request that goes on being served, with the requests and blocks it has.
LEMMA OneMore ==
  ASSUME LoopOK, RestOK, RestOK', Blocks,
         NEW current, NEW q \in [Request -> RequestRecord], NEW m \in Seq(Block),
         NEW long \in BOOLEAN, NEW init \in BOOLEAN,
         ServerSync(current, q, m, long, init),
         PostedIn(q, m, turn'), IsFiniteSet(LiveOf(q)), UNCHANGED closed,
         Asked \/ Count(q) + 1 + Others' <= Count(req) + Others,
         Asked \/ Count(q) + Others' <= Count(req) + Others
  PROVE  Blocks' /\ ByOne
<1>1. turn' \in Turn
  BY DEF RestOK, SessionOK
<1>2. /\ PostedIn(req', main', turn') /\ IsFiniteSet(LiveOf(req')) /\ Count(q) \in Nat
      /\ ~closed => Count(req') = Count(q) + 1
      /\ closed => Count(req') = Count(q)
  BY <1>1, Served
<1>3. Blocks'
  BY <1>2 DEF Blocks
<1>4. Others' \in Nat /\ Others \in Nat
  BY OthersType
<1>5. closed => Ended
  BY DEF Ended
<1> HIDE DEF Asked, Ended
<1>6. Ended \/ Count(req') + Others' > 0
  BY <1>2, <1>4, <1>5
<1>7. Asked \/ Count(req') + Others' <= Count(req) + Others
  BY <1>2, <1>4
<1> QED
  BY <1>3, <1>6, <1>7, Counted

LEMMA StartStepBlocks ==
  ASSUME LoopOK, RestOK, RestOK', Blocks,
         GotProfile \/ StartedCrypto \/ ApplyCache \/ CacheDone
  PROVE  Blocks' /\ ByOne
<1>0. /\ main \in Seq(Block) /\ PostedIn(req, main, turn) /\ turn \in Turn
      /\ req \in [Request -> RequestRecord] /\ IsFiniteSet(LiveOf(req))
      /\ Count(req) \in Nat
  BY FS_CardinalityType DEF LoopOK, RestOK, SessionOK, Blocks, Count
<1>1. CASE GotProfile
  <2>1. /\ UNCHANGED <<req, main, turn, retries, waiting>> /\ starting # "no"
        /\ Ended \/ starting' # "no"
    BY <1>1 DEF GotProfile, Ended, loopVars, retryVars
  <2>2. CASE starting' = "no"
    BY <2>1, <2>2, Untouched
  <2>3. CASE starting' # "no"
    <3>1. Others' = Others /\ Others \in Nat
      BY <2>1, <2>3, OthersType DEF Others
    <3>2. Blocks' /\ Count(req') = Count(req)
      BY <2>1 DEF Blocks
    <3> QED
      BY <1>0, <3>1, <3>2, Counted
  <2> QED
    BY <2>2, <2>3
<1>2. CASE StartedCrypto
  <2>1. /\ ServerSync(eventStreamRequest, req, main, FALSE, TRUE)
        /\ UNCHANGED <<turn, closed, retries, waiting>>
        /\ starting = "crypto" /\ starting' = "no"
    BY <1>2 DEF StartedCrypto, retryVars
  <2>2. Others = Others' + 1 /\ Others' \in Nat
    BY <2>1, OthersType DEF Others, RestOK, RetryOK, RetryKind
  <2>3. Count(req) + 1 + Others' <= Count(req) + Others
        /\ Count(req) + Others' <= Count(req) + Others
    BY <1>0, <2>2
  <2>4. PostedIn(req, main, turn') /\ UNCHANGED closed
    BY <1>0, <2>1
  <2> QED
    BY <1>0, <2>1, <2>3, <2>4, OneMore
<1>3. CASE ApplyCache
  BY <1>3, Untouched DEF ApplyCache, loopVars, retryVars
<1>4. CASE CacheDone
  <2>1. UNCHANGED <<turn, retryVars>> /\ cacheTask \in CacheTask
        /\ cacheTask.stage = "applied"
    BY <1>4 DEF CacheDone, RestOK, StartOK, NoTask
  <2>2. PICK left \in CacheLeft :
          IF left # NoCache
          THEN /\ ReadCache(left, cacheTask.then, cacheTask.old)
               /\ UNCHANGED <<loopVars, blockVars, pauseVars, starting>>
          ELSE /\ cacheTask' = NoTask /\ bgCache' = NoCache
               /\ IF cacheTask.then = "start" THEN DoStart
                  ELSE DoResume(cacheTask.old) /\ UNCHANGED starting
    BY <1>4 DEF CacheDone
  <2>3. CASE left # NoCache
    BY <2>1, <2>2, <2>3, Untouched DEF loopVars, retryVars
  <2>4. CASE left = NoCache
    <3>1. Asked
      BY <2>1, <2>2, <2>4 DEF Asked, NoTask
    <3>2. CASE DoStart
      BY <2>1, <3>1, <3>2, Started
    <3>3. CASE DoResume(cacheTask.old) /\ UNCHANGED starting
      <4>1. Others' = Others /\ Others \in Nat
        BY <2>1, <3>3, OthersSame, OthersType DEF retryVars
      <4> HIDE DEF Asked
      <4> QED
        BY <2>1, <3>1, <3>3, <4>1, Resumed, Counted
    <3> QED
      BY <2>2, <2>4, <3>2, <3>3
  <2> QED
    BY <2>3, <2>4
<1> QED
  BY <1>1, <1>2, <1>3, <1>4

\* The first block is taken.
LEMMA HeadTaken ==
  ASSUME LoopOK, RestOK, Blocks, NEW kind, HeadIs(kind)
  PROVE  /\ turn = Idle /\ Idle \in Turn /\ Tail(main) \in Seq(Block)
         /\ PostedIn(req, Tail(main), Idle)
         /\ Head(main).of \in Request =>
               /\ Unposted(Head(main).of, Tail(main), Idle)
               /\ Fits(kind, req[Head(main).of].stage)
<1>1. /\ req \in [Request -> RequestRecord] /\ main \in Seq(Block) /\ turn \in Turn
      /\ PostedIn(req, main, turn) /\ turn = Idle /\ main # <<>> /\ Head(main).kind = kind
  BY DEF LoopOK, RestOK, SessionOK, Blocks, HeadIs
<1> QED
  BY <1>1, PostedLess, RequestAssumption

\* A request is over before its turn begins, or in it.
LEMMA Freed ==
  ASSUME LoopOK, RestOK, RestOK', Blocks, NEW r \in Request,
         req' = [req EXCEPT ![r] = Free], NEW m \in Seq(Block), main' = m,
         PostedIn(req, m, turn'), Unposted(r, m, turn'),
         UNCHANGED starting,
         \/ ~Running(req[r]) /\ UNCHANGED <<retries, waiting>>
         \/ Running(req[r]) /\ Ended /\ UNCHANGED <<retries, waiting>>
         \/ Running(req[r]) /\ Others' = Others + 1
  PROVE  Blocks' /\ ByOne
<1>1. turn' \in Turn /\ ~Running(Free) /\ Free \in RequestRecord
  BY FreeType DEF RestOK, SessionOK, Running, Stopped, Free
<1>2. /\ PostedIn(req', main', turn') /\ IsFiniteSet(LiveOf(req')) /\ Count(req) \in Nat
      /\ ~Running(req[r]) => Count(req') = Count(req)
      /\ Running(req[r]) => Count(req') = Count(req) - 1
  BY <1>1, Changed
<1>3. Blocks'
  BY <1>2 DEF Blocks
<1>4. Others \in Nat /\ Others' \in Nat
      /\ (UNCHANGED <<retries, waiting>> => Others' = Others)
  BY OthersSame, OthersType
<1>5. CASE ~Running(req[r]) /\ UNCHANGED <<retries, waiting>>
  BY <1>2, <1>3, <1>4, <1>5, Counted
<1>6. CASE Running(req[r]) /\ Ended /\ UNCHANGED <<retries, waiting>>
  <2> HIDE DEF Ended
  <2> QED
    BY <1>2, <1>3, <1>4, <1>6, Counted
<1>7. CASE Running(req[r]) /\ Others' = Others + 1
  BY <1>2, <1>3, <1>4, <1>7, Counted
<1> QED
  BY <1>5, <1>6, <1>7

\* A request is replaced by another.
LEMMA Replacing ==
  ASSUME LoopOK, RestOK, RestOK', Blocks, NEW r \in Request, Running(req[r]),
         NEW m \in Seq(Block), NEW long \in BOOLEAN, NEW init \in BOOLEAN,
         ServerSync(eventStreamRequest, [req EXCEPT ![r] = Free], m, long, init),
         PostedIn(req, m, turn'), Unposted(r, m, turn'),
         UNCHANGED <<closed, retries, waiting, starting>>
  PROVE  Blocks' /\ ByOne
<1> DEFINE q == [req EXCEPT ![r] = Free]
<1>1. /\ req \in [Request -> RequestRecord] /\ IsFiniteSet(LiveOf(req))
      /\ turn' \in Turn /\ Free \in RequestRecord /\ ~Running(Free)
  BY FreeType DEF LoopOK, Blocks, RestOK, SessionOK, Running, Stopped, Free
<1>2. /\ q \in [Request -> RequestRecord] /\ PostedIn(q, m, turn')
      /\ IsFiniteSet(LiveOf(q)) /\ Count(req) \in Nat /\ Count(q) = Count(req) - 1
  BY <1>1, PostedChange, Recount
<1>3. ServerSync(eventStreamRequest, q, m, long, init)
  OBVIOUS
<1>4. Others' = Others /\ Others \in Nat
  BY OthersSame, OthersType
<1> HIDE DEF q
<1>5. Count(q) + 1 + Others' <= Count(req) + Others
      /\ Count(q) + Others' <= Count(req) + Others
  BY <1>2, <1>4
<1> QED
  BY <1>2, <1>3, <1>5, OneMore

LEMMA ResponseStepBlocks ==
  ASSUME LoopOK, RestOK, RestOK', Blocks, NEW r \in Request,
         \/ ReceiveAnswer(r) \/ Notify(r) \/ Apply(r) \/ LastMessagesFixed(r)
         \/ EndSync(r)
  PROVE  Blocks' /\ ByOne
<1>0. /\ main \in Seq(Block) /\ PostedIn(req, main, turn)
      /\ req \in [Request -> RequestRecord]
  BY DEF LoopOK, Blocks
<1>1. CASE ReceiveAnswer(r)
  <2>1. /\ Tail(main) \in Seq(Block) /\ turn = Idle
        /\ PostedIn(req, Tail(main), turn) /\ Unposted(r, Tail(main), turn)
        /\ req[r].stage = "answered"
        /\ UNCHANGED <<turn, retries, waiting, starting>>
    BY <1>1, HeadTaken DEF ReceiveAnswer, Fits, startVars, retryVars
  <2>2. Running(req[r])
    BY <2>1 DEF Running, Stopped
  <2>3. CASE eventStreamRequest = None
    BY <1>1, <2>1, <2>2, <2>3, Freed DEF ReceiveAnswer, Ended
  <2>4. CASE eventStreamRequest # None
    <3> DEFINE x == [req[r] EXCEPT !.stage = "received"]
    <3>1. x \in RequestRecord /\ x.stage = "received" /\ req' = [req EXCEPT ![r] = x]
      BY <1>0, <1>1, <2>4 DEF ReceiveAnswer, RequestRecord, Stage
    <3>2. main' = Append(Tail(main), [kind |-> "notify", of |-> r])
      BY <1>1, <2>4 DEF ReceiveAnswer
    <3>3. Running(x) /\ Fits("notify", x.stage)
      BY <3>1 DEF Running, Stopped, Fits
    <3> HIDE DEF x
    <3> QED
      BY <2>1, <2>2, <3>1, <3>2, <3>3, GoesOn
  <2> QED
    BY <2>3, <2>4
<1>2. CASE Notify(r)
  <2>1. /\ Tail(main) \in Seq(Block) /\ turn = Idle
        /\ PostedIn(req, Tail(main), turn) /\ Unposted(r, Tail(main), turn)
        /\ req[r].stage = "received" /\ main' = Tail(main)
        /\ UNCHANGED <<turn, retries, waiting, starting>>
    BY <1>2, HeadTaken DEF Notify, Fits, startVars, retryVars
  <2> DEFINE x == [req[r] EXCEPT !.stage = "applying", !.first = (token = 0),
                                 !.more = @ /\ catchingUp]
  <2>2. x \in RequestRecord /\ x.stage = "applying"
    BY <1>0 DEF RequestRecord, Stage
  <2>4. req' = [req EXCEPT ![r] = x]
    BY <1>2 DEF Notify
  <2>3. Running(req[r]) /\ Running(x)
    BY <2>1, <2>2 DEF Running, Stopped
  <2> HIDE DEF x
  <2> QED
    BY <2>1, <2>2, <2>3, <2>4, GoesOn
<1>3. CASE Apply(r) \/ LastMessagesFixed(r)
  <2>1. /\ req[r].stage \in {"applying", "applied"}
        /\ UNCHANGED <<turn, retries, waiting, starting>>
    BY <1>3 DEF Apply, LastMessagesFixed, startVars, retryVars
  <2>2. PICK stage \in {"applied", "ending"} :
          /\ req' = [req EXCEPT ![r].stage = stage]
          /\ \/ main' = main
             \/ stage = "ending" /\ main' = Append(main, [kind |-> "end", of |-> r])
    BY <1>3 DEF Apply, LastMessagesFixed, Post
  <2> DEFINE x == [req[r] EXCEPT !.stage = stage]
  <2>3. x \in RequestRecord /\ x.stage = stage /\ req' = [req EXCEPT ![r] = x]
    BY <1>0, <2>2 DEF RequestRecord, Stage
  <2>4. Running(req[r]) /\ Running(x)
    BY <2>1, <2>3 DEF Running, Stopped
  <2>5. Unposted(r, main, turn)
    <3>1. turn \in Turn
      BY DEF RestOK, SessionOK
    <3> QED
      BY <1>0, <2>1, <3>1, NoBlock
  <2>6. \/ main' = main
        \/ \E kind : Fits(kind, x.stage) /\ main' = Append(main, [kind |-> kind, of |-> r])
    BY <2>2, <2>3 DEF Fits
  <2> HIDE DEF x
  <2> QED
    BY <1>0, <2>1, <2>3, <2>4, <2>5, <2>6, GoesOn
<1>4. CASE EndSync(r)
  <2>1. /\ Tail(main) \in Seq(Block) /\ turn = Idle
        /\ PostedIn(req, Tail(main), Idle) /\ Unposted(r, Tail(main), Idle)
        /\ req[r].stage = "ending"
        /\ UNCHANGED <<closed, retries, waiting, starting>>
    BY <1>4, HeadTaken DEF EndSync, Fits, startVars, retryVars
  <2>2. Running(req[r])
    BY <2>1 DEF Running, Stopped
  <2>3. CASE req[r].more /\ state \notin {"PauseRequested", "Paused"}
    <3>1. /\ ServerSync(eventStreamRequest, [req EXCEPT ![r] = Free], Tail(main),
                        FALSE, req[r].init)
          /\ turn' = Idle
      BY <1>4, <2>1, <2>3 DEF EndSync
    <3>2. req[r].init \in BOOLEAN
      BY <1>0 DEF RequestRecord
    <3> QED
      BY <2>1, <2>2, <3>1, <3>2, Replacing
  <2>4. CASE ~(req[r].more /\ state \notin {"PauseRequested", "Paused"})
    <3>1. /\ turn' = [at |-> AtEnd, of |-> r] /\ main' = Tail(main) /\ req' = req
          /\ AtEnd \in {"background", "resume", "run"}
      BY <1>4, <2>4 DEF EndSync, AtEnd, AfterBackground
    <3>2. PostedIn(req, Tail(main), [at |-> AtEnd, of |-> r])
      <4>1. \A i \in DOMAIN Tail(main) : Tail(main)[i].of # r
        BY <2>1 DEF Unposted
      <4>2. Idle \in Turn
        BY DEF Turn
      <4> QED
        BY <1>0, <2>1, <3>1, <4>1, <4>2, PostedTurn
    <3>3. Blocks' /\ Count(req') = Count(req) /\ Count(req) \in Nat
      BY <3>1, <3>2, FS_CardinalityType DEF Blocks, Count
    <3>4. Others' = Others /\ Others \in Nat
      BY <2>1, OthersSame, OthersType
    <3> QED
      BY <3>3, <3>4, Counted
  <2> QED
    BY <2>3, <2>4
<1> QED
  BY <1>1, <1>2, <1>3, <1>4

\* The turn goes on about the same request.
AtEnding == {"background", "resume", "run", "notified"}
AtError == {"fail", "error"}
LEMMA TurnGoes ==
  ASSUME LoopOK, RestOK, RestOK', Blocks, turn # Idle, NEW at,
         turn' = [at |-> at, of |-> turn.of],
         \/ at \in AtEnding /\ turn.at \in AtEnding
         \/ at \in AtError /\ turn.at \in AtError,
         UNCHANGED <<req, main, retries, waiting, starting>>
  PROVE  Blocks' /\ ByOne
<1>1. PostedIn(req, main, [at |-> at, of |-> turn.of])
  BY TurnOver DEF AtEnding, AtError
<1>2. Blocks' /\ Count(req') = Count(req) /\ Count(req) \in Nat
  BY <1>1, FS_CardinalityType DEF Blocks, Count
<1>3. Others' = Others /\ Others \in Nat
  BY OthersSame, OthersType
<1> QED
  BY <1>2, <1>3, Counted

\* The turn ends with its request.
LEMMA TurnEnds ==
  ASSUME LoopOK, RestOK, RestOK', Blocks, turn # Idle, Return(turn.of),
         UNCHANGED <<main, starting>>,
         \/ ~Running(req[turn.of]) /\ UNCHANGED <<retries, waiting>>
         \/ Running(req[turn.of]) /\ Ended /\ UNCHANGED <<retries, waiting>>
         \/ Running(req[turn.of]) /\ Others' = Others + 1
  PROVE  Blocks' /\ ByOne
<1>1. /\ turn.of \in Request /\ main \in Seq(Block)
      /\ PostedIn(req, main, turn') /\ Unposted(turn.of, main, turn')
      /\ req' = [req EXCEPT ![turn.of] = Free]
  BY TurnOver DEF Return, LoopOK
<1> HIDE DEF Ended
<1> QED
  BY <1>1, Freed

\* The block of a background sync has run.
LEMMA PauseAgainBlocks ==
  ASSUME LoopOK, RestOK, RestOK', Blocks, turn # Idle, NEW goOn,
         PauseAgain(turn.of, goOn),
         \/ goOn \in AtEnding /\ turn.at \in AtEnding
         \/ goOn \in AtError /\ turn.at \in AtError
  PROVE  Blocks' /\ ByOne
<1>1. UNCHANGED <<main, retries, waiting, starting>>
  BY DEF PauseAgain, retryVars, startVars
<1>2. CASE turn' = [at |-> goOn, of |-> turn.of] /\ UNCHANGED req
  BY <1>1, <1>2, TurnGoes
<1>3. CASE Return(turn.of) /\ state' = "Paused"
  <2>1. Ended
    BY <1>3 DEF Ended
  <2> HIDE DEF Ended
  <2>2. \/ ~Running(req[turn.of]) /\ UNCHANGED <<retries, waiting>>
        \/ Running(req[turn.of]) /\ Ended /\ UNCHANGED <<retries, waiting>>
    BY <1>1, <2>1
  <2> QED
    BY <1>1, <1>3, <2>2, TurnEnds
<1> QED
  BY <1>2, <1>3 DEF PauseAgain

LEMMA EndStepBlocks ==
  ASSUME LoopOK, RestOK, RestOK', Blocks,
         BackgroundSyncDone \/ ResumeDone \/ Run \/ Pursue \/ BackgroundSyncFailed
  PROVE  Blocks' /\ ByOne
<1>0. turn # Idle
  <2>1. turn.at # "idle"
    BY DEF BackgroundSyncDone, ResumeDone, Run, Pursue, BackgroundSyncFailed
  <2> QED
    BY <2>1 DEF Idle
<1>1. turn.at \in AtEnding => Running(req[turn.of])
  BY <1>0, TurnOver DEF AtEnding, Running, Stopped
<1>2. CASE BackgroundSyncDone
  <2>1. /\ PauseAgain(turn.of, AfterBackground)
        /\ AfterBackground \in AtEnding /\ turn.at \in AtEnding
    BY <1>2 DEF BackgroundSyncDone, AfterBackground, AtEnding
  <2> QED
    BY <1>0, <2>1, PauseAgainBlocks
<1>3. CASE BackgroundSyncFailed
  <2>1. PauseAgain(turn.of, "error") /\ turn.at \in AtError /\ "error" \in AtError
    BY <1>3 DEF BackgroundSyncFailed, AtError
  <2> QED
    BY <1>0, <2>1, PauseAgainBlocks
<1>4. CASE ResumeDone
  <2>1. turn.at \in AtEnding /\ UNCHANGED <<main, retries, waiting, starting>>
    BY <1>4 DEF ResumeDone, AtEnding, retryVars, startVars
  <2>2. CASE closed \/ state = "Paused"
    <3>1. Return(turn.of) /\ Ended
      BY <1>4, <2>2 DEF ResumeDone, Ended
    <3> HIDE DEF Ended
    <3> QED
      BY <1>0, <1>1, <2>1, <3>1, TurnEnds
  <2>3. CASE ~(closed \/ state = "Paused")
    <3>1. turn' = [turn EXCEPT !.at = "run"] /\ UNCHANGED req
      BY <1>4, <2>3 DEF ResumeDone
    <3>2. turn' = [at |-> "run", of |-> turn.of] /\ "run" \in AtEnding
      BY <1>0, <3>1 DEF RestOK, SessionOK, Turn, AtEnding
    <3> QED
      BY <1>0, <2>1, <3>1, <3>2, TurnGoes
  <2> QED
    BY <2>2, <2>3
<1>5. CASE Run
  <2>1. /\ turn.at \in AtEnding /\ UNCHANGED <<req, main, retries, waiting, starting>>
        /\ turn' = [turn EXCEPT !.at = "notified"]
    BY <1>5 DEF Run, AtEnding, loopVars, retryVars, startVars
  <2>2. turn' = [at |-> "notified", of |-> turn.of] /\ "notified" \in AtEnding
    BY <1>0, <2>1 DEF RestOK, SessionOK, Turn, AtEnding
  <2> QED
    BY <1>0, <2>1, <2>2, TurnGoes
<1>6. CASE Pursue
  <2>1. /\ turn.at \in AtEnding /\ UNCHANGED <<closed, retries, waiting, starting>>
    BY <1>6 DEF Pursue, AtEnding, retryVars, startVars
  <2>2. CASE closed \/ state = "Paused"
    <3>1. Return(turn.of) /\ main' = main /\ Ended
      BY <1>6, <2>2 DEF Pursue, Ended
    <3> HIDE DEF Ended
    <3> QED
      BY <1>0, <1>1, <2>1, <3>1, TurnEnds
  <2>3. CASE ~(closed \/ state = "Paused")
    <3>1. /\ ServerSync(eventStreamRequest, [req EXCEPT ![turn.of] = Free], main,
                        ~req[turn.of].more, FALSE)
          /\ turn' = Idle
      BY <1>6, <2>3 DEF Pursue
    <3>2. /\ turn.of \in Request /\ main \in Seq(Block)
          /\ PostedIn(req, main, turn') /\ Unposted(turn.of, main, turn')
          /\ (~req[turn.of].more) \in BOOLEAN
      BY <1>0, <3>1, TurnOver DEF LoopOK
    <3> QED
      BY <1>1, <2>1, <3>1, <3>2, Replacing
  <2> QED
    BY <2>2, <2>3
<1> QED
  BY <1>2, <1>3, <1>4, <1>5, <1>6

LEMMA ErrorStepBlocks ==
  ASSUME LoopOK, RestOK, RestOK', Blocks, NEW r \in Request,
         \/ ReceiveFailure(r) \/ InitialSyncFails(r) \/ IgnoreCancellation(r)
         \/ CatchUpTimedOut(r) \/ RetryAfterNodeError(r) \/ RetryWhenReachable(r)
  PROVE  Blocks' /\ ByOne
<1>0. /\ main \in Seq(Block) /\ PostedIn(req, main, turn)
      /\ req \in [Request -> RequestRecord] /\ IsFiniteSet(LiveOf(req))
      /\ Count(req) \in Nat
  BY FS_CardinalityType DEF LoopOK, Blocks, Count
<1>1. CASE ReceiveFailure(r)
  <2>1. /\ Tail(main) \in Seq(Block) /\ turn = Idle
        /\ PostedIn(req, Tail(main), Idle) /\ Unposted(r, Tail(main), Idle)
        /\ req[r].stage = "failed" /\ main' = Tail(main)
        /\ UNCHANGED <<retries, waiting, starting>>
    BY <1>1, HeadTaken DEF ReceiveFailure, Fits, startVars, retryVars
  <2>2. CASE eventStreamRequest = None
    <3>1. req' = [req EXCEPT ![r] = Free] /\ turn' = Idle /\ Ended
      BY <1>1, <2>1, <2>2 DEF ReceiveFailure, Ended
    <3> HIDE DEF Ended
    <3>2. \/ ~Running(req[r]) /\ UNCHANGED <<retries, waiting>>
          \/ Running(req[r]) /\ Ended /\ UNCHANGED <<retries, waiting>>
      BY <2>1, <3>1
    <3> QED
      BY <2>1, <3>1, <3>2, Freed
  <2>3. CASE eventStreamRequest # None
    <3>1. PICK at \in AtError : turn' = [at |-> at, of |-> r] /\ req' = req
      BY <1>1, <2>3 DEF ReceiveFailure, AtError
    <3>2. PostedIn(req, Tail(main), [at |-> at, of |-> r])
      <4>1. \A i \in DOMAIN Tail(main) : Tail(main)[i].of # r
        BY <2>1 DEF Unposted
      <4>2. Idle \in Turn
        BY DEF Turn
      <4> QED
        BY <1>0, <2>1, <3>1, <4>1, <4>2, PostedTurn DEF AtError
    <3>3. Blocks' /\ Count(req') = Count(req)
      BY <1>0, <2>1, <3>1, <3>2 DEF Blocks
    <3>4. Others' = Others /\ Others \in Nat
      BY <2>1, OthersSame, OthersType
    <3> QED
      BY <1>0, <3>3, <3>4, Counted
  <2> QED
    BY <2>2, <2>3
<1>2. ASSUME InError(r)
      PROVE  /\ turn # Idle /\ turn.of = r /\ req[r].stage = "failed"
             /\ PostedIn(req, main, Idle) /\ Unposted(r, main, Idle)
             /\ Running(req[r]) <=> req[r].error # "cancelled"
  <2>1. turn # Idle /\ turn.of = r /\ turn.at = "error"
    BY <1>2 DEF InError, Idle
  <2>2. req[r].stage = "failed" /\ PostedIn(req, main, Idle) /\ Unposted(r, main, Idle)
    BY <2>1, TurnOver
  <2> QED
    BY <2>1, <2>2 DEF Running, Stopped
<1>3. CASE InitialSyncFails(r)
  <2>1. /\ InError(r) /\ Return(r) /\ Ended
        /\ UNCHANGED <<main, starting, retries, waiting>>
    BY <1>3 DEF InitialSyncFails, Ended, retryVars, startVars
  <2> HIDE DEF Ended
  <2>2. \/ ~Running(req[r]) /\ UNCHANGED <<retries, waiting>>
        \/ Running(req[r]) /\ Ended /\ UNCHANGED <<retries, waiting>>
    BY <2>1
  <2> QED
    BY <1>2, <2>1, <2>2, TurnEnds
<1>4. CASE IgnoreCancellation(r)
  <2>1. /\ InError(r) /\ Return(r) /\ req[r].error = "cancelled"
        /\ UNCHANGED <<main, starting, retries, waiting>>
    BY <1>4 DEF IgnoreCancellation, retryVars, startVars
  <2> QED
    BY <1>2, <2>1, TurnEnds
<1>5. CASE RetryAfterNodeError(r) \/ RetryWhenReachable(r)
  <2>1. /\ InError(r) /\ Return(r) /\ req[r].error # "cancelled"
        /\ UNCHANGED <<main, starting>>
        /\ \/ retries' = [retries EXCEPT !["node"] = @ + 1] /\ UNCHANGED waiting
           \/ retries' = [retries EXCEPT !["network"] = @ + 1] /\ UNCHANGED waiting
           \/ waiting' = waiting + 1 /\ UNCHANGED retries
    BY <1>5 DEF RetryAfterNodeError, RetryWhenReachable, startVars
  <2>2. Others' = Others + 1
    BY <2>1 DEF Others, RestOK, RetryOK, RetryKind
  <2> QED
    BY <1>2, <2>1, <2>2, TurnEnds
<1>6. CASE CatchUpTimedOut(r)
  <2> DEFINE c == Cancel(req, eventStreamRequest)
             q == [c EXCEPT ![r] = Free]
  <2>1. /\ InError(r) /\ req[r].error # "cancelled" /\ turn' = Idle
        /\ UNCHANGED <<closed, retries, waiting, starting>>
        /\ ServerSync(None, q, main, TRUE, FALSE)
    BY <1>6 DEF CatchUpTimedOut, startVars, retryVars
  <2>2. Idle \in Turn /\ eventStreamRequest \in Request \cup {None}
        /\ Free \in RequestRecord /\ ~Running(Free)
    BY FreeType DEF Turn, LoopOK, Running, Stopped, Free
  <2>3. /\ c \in [Request -> RequestRecord] /\ PostedIn(c, main, Idle)
        /\ IsFiniteSet(LiveOf(c)) /\ Count(c) \in Nat /\ Count(c) <= Count(req)
    BY <1>0, <1>2, <2>1, <2>2, CancelType, CancelCount, PostedCancel
  <2>4. c[r] = req[r]
    <3>1. req[r].stage # "sent"
      BY <1>2, <2>1
    <3> QED
      BY <1>0, <3>1 DEF Cancel
  <2> HIDE DEF c
  <2>5. /\ q \in [Request -> RequestRecord] /\ PostedIn(q, main, Idle)
        /\ IsFiniteSet(LiveOf(q)) /\ Count(q) = Count(c) - 1
    BY <1>0, <1>2, <2>1, <2>2, <2>3, <2>4, PostedChange, Recount
  <2>6. Others' = Others /\ Others \in Nat
    BY <2>1, OthersSame, OthersType
  <2> HIDE DEF q
  <2>7. Count(q) + 1 + Others' <= Count(req) + Others
        /\ Count(q) + Others' <= Count(req) + Others
    BY <1>0, <2>3, <2>5, <2>6
  <2> QED
    BY <1>0, <2>1, <2>5, <2>7, OneMore
<1> QED
  BY <1>1, <1>3, <1>4, <1>5, <1>6

LEMMA RetryStepBlocks ==
  ASSUME LoopOK, RestOK, RestOK', Blocks, RetryReachable \/ \E k \in RetryKind : Retry(k)
  PROVE  Blocks' /\ ByOne
<1>0. /\ main \in Seq(Block) /\ PostedIn(req, main, turn)
      /\ req \in [Request -> RequestRecord] /\ IsFiniteSet(LiveOf(req))
      /\ Count(req) \in Nat
  BY FS_CardinalityType DEF LoopOK, Blocks, Count
<1>1. CASE RetryReachable
  <2>1. /\ Tail(main) \in Seq(Block) /\ PostedIn(req, Tail(main), Idle) /\ turn = Idle
        /\ UNCHANGED <<turn, closed, retries, starting>>
    BY <1>1, HeadTaken DEF RetryReachable, startVars
  <2>2. CASE /\ waiting > 0 /\ waiting' = waiting - 1
             /\ ServerSync(eventStreamRequest, req, Tail(main), FALSE, FALSE)
    <3>1. Others = Others' + 1 /\ Others' \in Nat
      BY <2>1, <2>2, OthersType DEF Others, RestOK, RetryOK, RetryKind
    <3>2. Count(req) + 1 + Others' <= Count(req) + Others
          /\ Count(req) + Others' <= Count(req) + Others
      BY <1>0, <3>1
    <3>3. PostedIn(req, Tail(main), turn')
      BY <2>1
    <3> QED
      BY <1>0, <2>1, <2>2, <3>2, <3>3, OneMore
  <2>3. CASE main' = Tail(main) /\ UNCHANGED <<waiting, req>>
    <3>1. Blocks' /\ Count(req') = Count(req)
      BY <1>0, <2>1, <2>3 DEF Blocks
    <3>2. Others' = Others /\ Others \in Nat
      BY <2>1, <2>3, OthersSame, OthersType
    <3> QED
      BY <1>0, <3>1, <3>2, Counted
  <2> QED
    BY <1>1, <2>2, <2>3 DEF RetryReachable
<1>2. ASSUME NEW k \in RetryKind, Retry(k)
      PROVE  Blocks' /\ ByOne
  <2>1. /\ retries[k] > 0 /\ retries' = [retries EXCEPT ![k] = @ - 1]
        /\ UNCHANGED <<turn, closed, waiting, starting>>
    BY <1>2 DEF Retry, startVars
  <2>2. Others = Others' + 1 /\ Others' \in Nat
    BY <2>1, OthersType DEF Others, RestOK, RetryOK, RetryKind
  <2>3. CASE eventStreamRequest = None
    <3>1. Blocks' /\ Count(req') = Count(req) /\ Ended
      BY <1>2, <2>1, <2>3 DEF Retry, loopVars, Blocks, Ended
    <3> HIDE DEF Ended
    <3> QED
      BY <1>0, <2>2, <3>1, Counted
  <2>4. CASE eventStreamRequest # None
    <3>1. ServerSync(eventStreamRequest, req, main, FALSE, FALSE)
      BY <1>2, <2>4 DEF Retry
    <3>2. Count(req) + 1 + Others' <= Count(req) + Others
          /\ Count(req) + Others' <= Count(req) + Others
      BY <1>0, <2>2
    <3>3. PostedIn(req, main, turn')
      BY <1>0, <2>1
    <3> QED
      BY <1>0, <2>1, <3>1, <3>2, <3>3, OneMore
  <2> QED
    BY <2>3, <2>4
<1> QED
  BY <1>1, <1>2

LEMMA MainThreadBlocks ==
  ASSUME LoopOK, RestOK, RestOK', Blocks, MainThread
  PROVE  Blocks' /\ ByOne
  BY StartStepBlocks, ResponseStepBlocks, EndStepBlocks, ErrorStepBlocks,
     RetryStepBlocks DEF MainThread
-----------------------------------------------------------------------------
LEMMA InitBlocks == Init => Blocks
<1> SUFFICES ASSUME Init PROVE Blocks
  OBVIOUS
<1>1. main = <<>> /\ turn = Idle /\ req = [r \in Request |-> Free]
  BY DEF Init
<1>2. PostedIn(req, main, turn)
  BY <1>1 DEF PostedIn, Idle
<1>3. LiveOf(req) = {}
  BY <1>1 DEF LiveOf, Running, Stopped, Free
<1> QED
  BY <1>2, <1>3, FS_EmptySet DEF Blocks

LEMMA NextBlocks ==
  ASSUME LoopOK, RestOK, RestOK', Blocks, [Next]_vars
  PROVE  Blocks' /\ (ByOne \/ UNCHANGED vars)
<1>1. CASE Next
  BY <1>1, AppCallBlocks, FromOutsideBlocks, MainThreadBlocks DEF Next
<1>2. CASE UNCHANGED vars
  <2>1. UNCHANGED <<req, main, turn>>
    BY <1>2 DEF vars, loopVars
  <2>2. Blocks'
    BY <2>1 DEF Blocks
  <2> QED
    BY <1>2, <2>2
<1> QED
  BY <1>1, <1>2

LEMMA Invariant == Spec => [](LoopOK /\ RestOK /\ Blocks)
<1>1. Init => Blocks
  BY InitBlocks
<1>2. TypeOK /\ TypeOK' /\ Blocks /\ [Next]_vars => Blocks'
  <2>1. TypeOK' => RestOK'
    BY DEF TypeOK, RestOK, SessionOK, DataOK, StartOK, RetryOK, BlockOK, PauseOK, BoundOK
  <2> QED
    BY <2>1, TypeParts, NextBlocks
<1>3. TypeOK => LoopOK /\ RestOK
  BY TypeParts
<1> QED
  BY <1>1, <1>2, <1>3, TypesKept, PTL DEF Spec

\* Whatever is under way is followed by one thing, whatever the application does:
\* the loop only forks in a call, and only stops in a session that is paused,
\* closed or failed to start, or that has no request any more.
THEOREM OnlyCallsFork == Spec => OneForOne
<1>1. (LoopOK /\ RestOK /\ Blocks) /\ (LoopOK /\ RestOK /\ Blocks)' /\ [Next]_vars
      => [/\ Loops' > Loops => calls' # calls \/ cacheTask' # cacheTask
          /\ Loops' = 0 /\ Loops > 0 =>
                 \/ closed' \/ state' \in {"Paused", "InitialSyncFailed"}
                 \/ eventStreamRequest = None]_vars
  <2> SUFFICES ASSUME LoopOK, RestOK, Blocks, RestOK', [Next]_vars
               PROVE  ByOne \/ UNCHANGED vars
    BY DEF ByOne, Asked, Ended
  <2> QED
    BY NextBlocks
<1> QED
  BY <1>1, Invariant, PTL DEF Spec, OneForOne
-----------------------------------------------------------------------------
(***************************************************************************)
(* A session at rest.                                                      *)
(***************************************************************************)
InHand == {"received", "applying", "applied", "ending"}

\* Nothing but the requests changes, and these not to be handled.
LEMMA StillQuiet ==
  ASSUME Quiet, UNCHANGED <<state, eventStreamRequest, turn, starting, cacheTask>>,
         \A r \in Request : req'[r] = req[r] \/ req'[r].stage \notin InHand
  PROVE  Quiet' /\ state' = state
  BY DEF Quiet, NothingHandled, InHand

LEMMA OutsideQuiet ==
  ASSUME LoopOK, RestOK, Quiet, FromOutside
  PROVE  Quiet' /\ state' = state
<1>0. /\ starting = "no" /\ cacheTask = NoTask /\ state \in {"Paused", "Closed"}
      /\ req \in [Request -> RequestRecord]
  BY DEF Quiet, NothingHandled, LoopOK
<1>1. CASE NodeEvent \/ NetworkLost \/ NetworkBack \/ ExtensionSync
  BY <1>1, StillQuiet
     DEF NodeEvent, NetworkLost, NetworkBack, ExtensionSync, loopVars, startVars
<1>2. CASE ExpireBackgroundTask
  <2>1. UNCHANGED <<state, loopVars, startVars, turn>>
    BY <1>0, <1>2 DEF ExpireBackgroundTask, LetPause, Pauseable
  <2> QED
    BY <2>1, StillQuiet DEF loopVars, startVars
<1>3. ~StartFails
  BY <1>0 DEF StartFails
<1>4. ASSUME NEW r \in Request,
             Answer(r) \/ RequestCancelled(r) \/ \E e \in Error \ {"cancelled"} : RequestFails(r, e)
      PROVE  Quiet' /\ state' = state
  <2>1. UNCHANGED <<state, eventStreamRequest, turn, starting, cacheTask>>
    BY <1>4 DEF Answer, RequestCancelled, RequestFails, startVars
  <2>2. \E x : req' = [req EXCEPT ![r] = x] /\ x.stage \in {"answered", "failed"}
    <3>1. CASE Answer(r)
      <4>1. PICK next \in Position, more \in BOOLEAN :
              req' = [req EXCEPT ![r].stage = "answered", ![r].next = next,
                                 ![r].more = more]
        BY <3>1 DEF Answer
      <4> DEFINE x == [req[r] EXCEPT !.stage = "answered", !.next = next, !.more = more]
      <4>2. x.stage = "answered" /\ req' = [req EXCEPT ![r] = x]
        BY <1>0, <4>1 DEF RequestRecord
      <4> HIDE DEF x
      <4> QED
        BY <4>2
    <3>2. ASSUME NEW e, req' = [req EXCEPT ![r].stage = "failed", ![r].error = e]
          PROVE  \E x : req' = [req EXCEPT ![r] = x] /\ x.stage \in {"answered", "failed"}
      <4> DEFINE x == [req[r] EXCEPT !.stage = "failed", !.error = e]
      <4>1. x.stage = "failed" /\ req' = [req EXCEPT ![r] = x]
        BY <1>0, <3>2 DEF RequestRecord
      <4> HIDE DEF x
      <4> QED
        BY <4>1
    <3> QED
      BY <1>4, <3>1, <3>2 DEF RequestCancelled, RequestFails
  <2>3. \A s \in Request : req'[s] = req[s] \/ req'[s].stage \notin InHand
    BY <1>0, <2>2 DEF InHand
  <2> QED
    BY <2>1, <2>3, StillQuiet
<1> QED
  BY <1>1, <1>2, <1>3, <1>4 DEF FromOutside

\* Answers, failures, timers and observers find no request.
LEMMA MainQuiet ==
  ASSUME LoopOK, RestOK, Blocks, Quiet, MainThread
  PROVE  Quiet' /\ state' = state
<1>0. /\ eventStreamRequest = None /\ starting = "no" /\ cacheTask = NoTask
      /\ turn = Idle /\ turn.at = "idle" /\ req \in [Request -> RequestRecord]
      /\ \A r \in Request : req[r].stage \notin InHand
  BY DEF Quiet, NothingHandled, LoopOK, InHand, Idle
<1>1. ~(GotProfile \/ StartedCrypto \/ ApplyCache \/ CacheDone)
  BY <1>0 DEF GotProfile, StartedCrypto, ApplyCache, CacheDone, NoTask
<1>2. ~(BackgroundSyncDone \/ ResumeDone \/ Run \/ Pursue \/ BackgroundSyncFailed)
  BY <1>0 DEF BackgroundSyncDone, ResumeDone, Run, Pursue, BackgroundSyncFailed
<1>3. CASE RetryReachable \/ \E k \in RetryKind : Retry(k)
  <2>1. UNCHANGED <<state, eventStreamRequest, turn, starting, cacheTask, req>>
    BY <1>0, <1>3 DEF RetryReachable, Retry, loopVars, startVars
  <2> QED
    BY <2>1, StillQuiet
<1>4. ASSUME NEW r \in Request
      PROVE  /\ ~(Notify(r) \/ Apply(r) \/ LastMessagesFixed(r) \/ EndSync(r))
             /\ ~(InitialSyncFails(r) \/ IgnoreCancellation(r) \/ CatchUpTimedOut(r)
                  \/ RetryAfterNodeError(r) \/ RetryWhenReachable(r))
  <2>1. ~(Notify(r) \/ EndSync(r))
    <3>1. ASSUME NEW kind \in {"notify", "end"}, HeadIs(kind), Head(main).of = r
          PROVE  FALSE
      <4>1. Fits(kind, req[r].stage)
        BY <3>1, HeadTaken
      <4> QED
        BY <1>0, <4>1 DEF Fits, InHand
    <3> QED
      BY <3>1 DEF Notify, EndSync
  <2>2. ~(Apply(r) \/ LastMessagesFixed(r))
    BY <1>0 DEF Apply, LastMessagesFixed, InHand
  <2>3. ~InError(r)
    BY <1>0 DEF InError
  <2> QED
    BY <2>1, <2>2, <2>3 DEF InitialSyncFails, IgnoreCancellation, CatchUpTimedOut,
       RetryAfterNodeError, RetryWhenReachable
<1>5. ASSUME NEW r \in Request, ReceiveAnswer(r) \/ ReceiveFailure(r)
      PROVE  Quiet' /\ state' = state
  <2>1. /\ UNCHANGED <<state, eventStreamRequest, turn, starting, cacheTask>>
        /\ req' = [req EXCEPT ![r] = Free]
    BY <1>0, <1>5 DEF ReceiveAnswer, ReceiveFailure, startVars
  <2>2. \A s \in Request : req'[s] = req[s] \/ req'[s].stage \notin InHand
    BY <1>0, <2>1 DEF InHand, Free
  <2> QED
    BY <2>1, <2>2, StillQuiet
<1> QED
  BY <1>1, <1>2, <1>3, <1>4, <1>5 DEF MainThread

LEMMA CallsCount == ASSUME RestOK, AppCall PROVE calls' # calls
<1>1. calls' = calls + 1
  BY DEF AppCall, Start, Pause, Resume, Reconnect, Close, BackgroundSync,
     RetainPreventPause, ReleasePreventPause, ChangeActive, Call
<1> QED
  BY <1>1 DEF RestOK, BoundOK

\* A session that was paused or closed with nothing in hand stays as it is until
\* the application calls it, however many answers, failures, timers and observers
\* are still to come, and however they came to be.
THEOREM QuietStays == Spec => StaysQuiet
<1>1. (LoopOK /\ RestOK /\ Blocks) /\ [Next]_vars
      => [Quiet => (Quiet' /\ state' = state) \/ calls' # calls]_vars
  <2> SUFFICES ASSUME LoopOK, RestOK, Blocks, Next, Quiet
               PROVE  (Quiet' /\ state' = state) \/ calls' # calls
    OBVIOUS
  <2> QED
    BY OutsideQuiet, MainQuiet, CallsCount DEF Next
<1> QED
  BY <1>1, Invariant, PTL DEF Spec, StaysQuiet
=============================================================================
