----------------------------- MODULE SessionSync -----------------------------
(***************************************************************************)
(* The sync loop of MXSession: its state, the request of the event stream, *)
(* the retry timers and the reachability observer, the blocks it owes to   *)
(* the application, the counter that delays a pause, and the cache that    *)
(* the notification extension fills.                                       *)
(*                                                                         *)
(* The session runs on the main thread.  Blocks posted to it from elsewhere*)
(* are the queue main.  One turn of the main thread is one action, except  *)
(* where it calls a block of the application: turn says which block is     *)
(* running, and the application may call the session from there.           *)
(*                                                                         *)
(* A token is a position of the node's event stream, 0 for none.           *)
(***************************************************************************)
EXTENDS Integers, Sequences, FiniteSets

CONSTANTS
    Request,    \* identifiers of /sync requests
    None,       \* nil
    Careful,    \* does the application keep to the calls that are safe?
    Calls,      \* the calls that the application makes
    MaxStream,  \* bound on the node's event stream
    MaxCalls,   \* bound on the calls of the application
    MaxErrors   \* bound on the failures of requests and of the network

ASSUME RequestAssumption == None \notin Request
ASSUME ModeAssumption ==
    /\ Careful \in BOOLEAN
    /\ Calls \subseteq {"start", "pause", "resume", "backgroundSync", "reconnect",
                       "close", "preventPause", "active"}
ASSUME BoundAssumption == MaxStream \in Nat \ {0} /\ MaxCalls \in Nat
                          /\ MaxErrors \in Nat

Position == 0..MaxStream
RetryKind == {"node", "network"}
State == {"StoreDataReady", "ProcessingBackgroundSyncCache", "SyncInProgress",
          "BackgroundSyncInProgress", "Running", "NodeNotReachable",
          "SyncError", "Paused", "PauseRequested", "InitialSyncFailed", "Closed"}

\* A request is sent, then its answer or failure goes through main; cancel only
\* stops a request that is sent.  A received response waits in main for the
\* notify block, is applied room by room, and waits in main again for its end.
Stage == {"free", "sent", "cancelled", "answered", "failed", "received",
          "applying", "applied", "ending"}
Error == {"cancelled", "timeout", "node", "network"}

RequestRecord ==
    [stage : Stage,
     since : Position,   \* the token it was made with
     next : Position,    \* nextBatch of its response
     long : BOOLEAN,     \* is serverTimeout the long poll's?
     init : BOOLEAN,     \* was it made with success and failure blocks?
     more : BOOLEAN,     \* to-device events, then "next server timeout is 0"
     first : BOOLEAN,    \* isInitialSync when it was handled
     error : Error]
Free == [stage |-> "free", since |-> 0, next |-> 0, long |-> FALSE,
         init |-> FALSE, more |-> FALSE, first |-> FALSE, error |-> "cancelled"]

Block == [kind : {"answer", "failure", "notify", "end"}, of : Request]
         \cup [kind : {"reachable"}, of : {None}]

VARIABLES
    state,
    closed,                 \* myUser and sdnRestClient are nil
    turn,                   \* the block of the application that is running
    \* the loop
    eventStreamRequest,     \* the last request made, None if nil
    req,                    \* every request and response under way
    main,                   \* blocks posted to the main thread
    catchingUp,
    token,                  \* store.eventStreamToken
    initialCache,           \* the initialSyncResponseCache, 0 if empty
    \* start and the background sync cache
    starting,               \* how far an initial start is
    cacheTask,              \* the background cache being processed
    bgCache,                \* what the extension cached
    \* retries
    retries,                \* dispatch_after blocks, by kind
    waiting,                \* reachability observers
    reachable,
    \* blocks owed to the application
    onResumeDone, onBackgroundSyncDone, onBackgroundSyncFail,
    \* pause prevention
    preventPauseCount, backgroundTask,
    active,                 \* applicationState is active
    \* the node, and what bounds the model
    stream, calls, errors

loopVars == <<eventStreamRequest, req, main, catchingUp>>
dataVars == <<token, initialCache>>
startVars == <<starting, cacheTask, bgCache>>
retryVars == <<retries, waiting, reachable>>
blockVars == <<onResumeDone, onBackgroundSyncDone, onBackgroundSyncFail>>
pauseVars == <<preventPauseCount, backgroundTask, active>>
boundVars == <<stream, calls, errors>>
vars == <<state, closed, turn, loopVars, dataVars, startVars, retryVars,
          blockVars, pauseVars, boundVars>>

\* Where a turn of the main thread can be: "background", "resume" and "fail"
\* are blocks of the application, "notified" the listeners of the Running
\* state; the others come between two of them.
Idle == [at |-> "idle", of |-> None]
Turn == [at : {"background", "resume", "notified", "fail", "run", "error"},
         of : Request] \cup {Idle}

Cached == [since : Position, next : Position]
NoCache == [since |-> 0, next |-> 0]
NoTask == [then |-> "none", old |-> "Paused", read |-> NoCache, next |-> 0,
           stage |-> "none"]
CacheTask == [then : {"start", "resume"}, old : {"StoreDataReady", "Paused"},
              read : Cached, next : Position, stage : {"reading", "applied"}]

TypeOK ==
    /\ state \in State /\ closed \in BOOLEAN /\ turn \in Turn
    /\ eventStreamRequest \in Request \cup {None}
    /\ req \in [Request -> RequestRecord]
    /\ main \in Seq(Block)
    /\ catchingUp \in BOOLEAN
    /\ token \in Position /\ initialCache \in Position
    /\ starting \in {"no", "profile", "crypto"}
    /\ cacheTask \in CacheTask \cup {NoTask}
    /\ bgCache \in Cached
    /\ retries \in [RetryKind -> Nat] /\ waiting \in Nat
    /\ reachable \in BOOLEAN
    /\ onResumeDone \in BOOLEAN /\ onBackgroundSyncDone \in BOOLEAN
    /\ onBackgroundSyncFail \in BOOLEAN
    /\ preventPauseCount \in Nat /\ backgroundTask \in BOOLEAN
    /\ active \in BOOLEAN
    /\ stream \in Position /\ calls \in Nat /\ errors \in Nat

\* The store has been loaded; it may be new, or cut short after an initial
\* sync whose response was cached.
Init ==
    /\ state = "StoreDataReady" /\ closed = FALSE /\ turn = Idle
    /\ eventStreamRequest = None /\ req = [r \in Request |-> Free] /\ main = <<>>
    /\ catchingUp = FALSE
    /\ token \in {0, 1} /\ initialCache \in {0, 1}
    /\ token # 0 => initialCache = 0
    /\ starting = "no" /\ cacheTask = NoTask /\ bgCache = NoCache
    /\ retries = [k \in RetryKind |-> 0] /\ waiting = 0
    /\ reachable = TRUE
    /\ onResumeDone = FALSE /\ onBackgroundSyncDone = FALSE
    /\ onBackgroundSyncFail = FALSE
    /\ preventPauseCount = 0 /\ backgroundTask = FALSE /\ active = TRUE
    /\ stream = 1 /\ calls = 0 /\ errors = 0
-----------------------------------------------------------------------------
(***************************************************************************)
(* serverSync: one request, or the cached response of an initial sync.     *)
(***************************************************************************)
\* A request that takes nothing further: none, or one whose cancellation is all
\* that is to come.
Stopped(x) ==
    \/ x.stage \in {"free", "cancelled"}
    \/ x.stage = "failed" /\ x.error = "cancelled"

\* Whatever a pause or an error has left behind has been dealt with, but for the
\* cancellation of a request of the loop.
NothingLeft ==
    /\ \A r \in Request : Stopped(req[r]) /\ (req[r].stage # "free" => ~req[r].init)
    /\ starting = "no" /\ cacheTask = NoTask
    /\ waiting = 0 /\ \A k \in RetryKind : retries[k] = 0

\* cancel has no effect on a request whose answer is already on its way.
Cancel(q, r) ==
    IF r # None /\ q[r].stage = "sent"
    THEN [q EXCEPT ![r].stage = "cancelled"] ELSE q

NewRequest(q) == CHOOSE r \in Request : q[r].stage = "free"

\* serverSyncWithServerTimeout: given the request that the session has, the
\* requests q and the posted blocks m.
ServerSync(current, q, m, long, init) ==
    IF closed
    THEN /\ eventStreamRequest' = None /\ req' = q /\ main' = m
         /\ catchingUp' = ~long
    ELSE /\ \E r \in Request : q[r].stage = "free"
         /\ LET r == NewRequest(q)
                new == [Free EXCEPT !.since = token, !.long = long, !.init = init]
            IN IF token = 0 /\ initialCache # 0
               THEN /\ req' = [q EXCEPT ![r] =
                                [new EXCEPT !.stage = "received", !.next = initialCache]]
                    /\ main' = Append(m, [kind |-> "notify", of |-> r])
                    /\ eventStreamRequest' = current /\ UNCHANGED catchingUp
               ELSE /\ req' = [q EXCEPT ![r] = [new EXCEPT !.stage = "sent"]]
                    /\ main' = m
                    /\ eventStreamRequest' = r /\ catchingUp' = ~long
-----------------------------------------------------------------------------
(***************************************************************************)
(* Calls of the application, from outside or from one of its blocks.       *)
(***************************************************************************)
Call(name) ==
    /\ name \in Calls /\ calls < MaxCalls /\ ~closed
    /\ turn.at \in {"idle", "background", "resume", "notified", "fail"}
    /\ calls' = calls + 1
    /\ UNCHANGED <<closed, turn, stream, errors>>

Pauseable == {"SyncInProgress", "Running", "BackgroundSyncInProgress",
              "PauseRequested", "SyncError", "NodeNotReachable"}

PauseNow ==
    /\ state' = "Paused"
    /\ onResumeDone' = FALSE
    /\ onBackgroundSyncDone' = FALSE /\ onBackgroundSyncFail' = FALSE
    /\ req' = Cancel(req, eventStreamRequest) /\ eventStreamRequest' = None
    /\ UNCHANGED <<main, catchingUp>>

PauseLater ==
    /\ state' = "PauseRequested" /\ backgroundTask' = TRUE
    /\ UNCHANGED <<loopVars, blockVars>>

\* pause, from outside or from a block of the application.
Pause ==
    /\ Call("pause")
    /\ Careful => starting = "no" /\ turn.at # "fail"
    /\ state \in Pauseable
    /\ IF preventPauseCount > 0 THEN PauseLater
       ELSE PauseNow /\ UNCHANGED backgroundTask
    /\ UNCHANGED <<dataVars, startVars, retryVars, preventPauseCount, active>>

\* Mutant of DoResume: a new request, whatever is under way.
ResumeRelaunches(st) ==
    /\ backgroundTask' = FALSE
    /\ state' = "SyncInProgress" /\ onResumeDone' = TRUE
    /\ ServerSync(eventStreamRequest, req, main, FALSE, FALSE)
    /\ UNCHANGED <<onBackgroundSyncDone, onBackgroundSyncFail,
                   preventPauseCount, active>>

\* _resume, in the state st.  The block is kept if the session can resume, and
\* called at once if none is kept.
DoResume(st) ==
    /\ backgroundTask' = FALSE
    /\ IF \/ eventStreamRequest = None
          \/ st \in {"BackgroundSyncInProgress", "PauseRequested", "Paused"}
       THEN /\ state' = "SyncInProgress" /\ onResumeDone' = TRUE
            /\ IF eventStreamRequest = None
               THEN ServerSync(eventStreamRequest, req, main, FALSE, FALSE)
               ELSE UNCHANGED loopVars
       ELSE /\ state' = st
            /\ UNCHANGED <<onResumeDone, loopVars>>
    /\ UNCHANGED <<onBackgroundSyncDone, onBackgroundSyncFail,
                   preventPauseCount, active>>

\* Mutant of ReadCache: the responses are applied whatever the token.
ReadOutdated(cache, then, old) ==
    /\ state' = "ProcessingBackgroundSyncCache"
    /\ cacheTask' = [then |-> then, old |-> old, read |-> cache, stage |-> "reading",
                     next |-> cache.next]
    /\ bgCache' = cache

\* handleBackgroundSyncCacheIfRequired: the responses of cache are to be applied,
\* but those that do not continue the stored token are outdated.
ReadCache(cache, then, old) ==
    /\ state' = "ProcessingBackgroundSyncCache"
    /\ cacheTask' = [then |-> then, old |-> old, read |-> cache, stage |-> "reading",
                     next |-> IF cache.since = token THEN cache.next ELSE 0]
    /\ bgCache' = cache

MustReadCache(st) == st \in {"StoreDataReady", "Paused"} /\ bgCache # NoCache

\* resume, in any state: the code only reads whether the session isResumable.
Resume ==
    /\ Call("resume")
    /\ Careful => eventStreamRequest # None \/ NothingLeft
    /\ IF MustReadCache(state)
       THEN ReadCache(bgCache, "resume", state) /\ UNCHANGED <<loopVars, blockVars, pauseVars>>
       ELSE DoResume(state) /\ UNCHANGED <<cacheTask, bgCache>>
    /\ UNCHANGED <<dataVars, starting, retryVars>>

\* _startWithSyncFilterId: resume from a permanent store, which has rooms if it
\* has a token, or get the profile first.
DoStart ==
    IF token # 0
    THEN DoResume("SyncInProgress") /\ UNCHANGED starting
    ELSE /\ state' = "SyncInProgress" /\ starting' = "profile"
         /\ UNCHANGED <<loopVars, blockVars, pauseVars>>

Start ==
    /\ Call("start") /\ turn = Idle
    /\ state \in {"StoreDataReady", "InitialSyncFailed"} /\ starting = "no"
    /\ Careful => token = 0 \/ eventStreamRequest = None
    /\ IF MustReadCache(state)
       THEN /\ ReadCache(bgCache, "start", state)
            /\ UNCHANGED <<loopVars, blockVars, pauseVars, starting>>
       ELSE DoStart /\ UNCHANGED <<cacheTask, bgCache>>
    /\ UNCHANGED <<dataVars, retryVars>>

\* backgroundSync: it fails at once, and changes nothing, in any other state.
BackgroundSync(ignoreSessionState) ==
    /\ Call("backgroundSync")
    /\ Careful => NothingLeft /\ \A r \in Request : req[r].stage = "free"
    /\ eventStreamRequest = None
    /\ ignoreSessionState \/ state = "Paused"
    /\ state' = "BackgroundSyncInProgress"
    /\ onBackgroundSyncDone' = TRUE /\ onBackgroundSyncFail' = TRUE
    /\ ServerSync(eventStreamRequest, req, main, FALSE, FALSE)
    /\ UNCHANGED <<onResumeDone, dataVars, startVars, retryVars, pauseVars>>

\* reconnect: it does nothing without a request.
Reconnect ==
    /\ Call("reconnect")
    /\ eventStreamRequest # None
    /\ Careful => /\ req[eventStreamRequest].stage = "sent"
                  /\ ~req[eventStreamRequest].init /\ ~onBackgroundSyncFail
    /\ ServerSync(None, Cancel(req, eventStreamRequest), main, FALSE, FALSE)
    /\ UNCHANGED <<state, dataVars, startVars, retryVars, blockVars, pauseVars>>

\* close does not forget the blocks it owes, nor what is being handled.
Close ==
    /\ "close" \in Calls /\ calls < MaxCalls /\ ~closed /\ calls' = calls + 1
    /\ turn.at \in {"idle", "background", "resume", "notified", "fail"}
    /\ closed' = TRUE /\ state' = "Closed"
    /\ req' = Cancel(req, eventStreamRequest) /\ eventStreamRequest' = None
    /\ backgroundTask' = FALSE /\ initialCache' = 0
    /\ UNCHANGED <<turn, main, catchingUp, token, startVars, retryVars,
                   blockVars, preventPauseCount, active, stream, errors>>

\* Mutant of LetPause: only a session in the background is paused.
ForgetRequestedPause(count) ==
    /\ preventPauseCount' = count
    /\ IF count = 0
       THEN /\ backgroundTask' = FALSE
            /\ IF ~active /\ state \in Pauseable
               THEN PauseNow
               ELSE UNCHANGED <<state, loopVars, blockVars>>
       ELSE UNCHANGED <<backgroundTask, state, loopVars, blockVars>>
    /\ UNCHANGED <<dataVars, startVars, retryVars, active>>

\* setPreventPauseCount: the session is paused if that was requested, or if
\* the application is in the background.
LetPause(count) ==
    /\ preventPauseCount' = count
    /\ IF count = 0
       THEN /\ backgroundTask' = FALSE
            /\ IF \/ state = "PauseRequested"
                  \/ ~active /\ state \in Pauseable
               THEN PauseNow
               ELSE UNCHANGED <<state, loopVars, blockVars>>
       ELSE UNCHANGED <<backgroundTask, state, loopVars, blockVars>>
    /\ UNCHANGED <<dataVars, startVars, retryVars, active>>

RetainPreventPause == Call("preventPause") /\ LetPause(preventPauseCount + 1)
\* Mutant of ReleasePreventPause: the count is not checked.
ReleaseUnchecked ==
    /\ Call("preventPause")
    /\ Careful => starting = "no" /\ turn.at # "fail"
    /\ LetPause(preventPauseCount - 1)

ReleasePreventPause ==
    /\ Call("preventPause") /\ preventPauseCount > 0
    /\ Careful => starting = "no" /\ turn.at # "fail"
    /\ LetPause(preventPauseCount - 1)

\* iOS ends the background task that pause has started.
ExpireBackgroundTask ==
    /\ backgroundTask /\ turn = Idle
    /\ Careful => starting = "no"
    /\ LetPause(0)
    /\ UNCHANGED <<closed, turn, boundVars>>

\* The application becomes active or inactive.
ChangeActive ==
    /\ Call("active") /\ turn = Idle
    /\ active' = ~active
    /\ UNCHANGED <<state, loopVars, dataVars, startVars, retryVars, blockVars,
                   preventPauseCount, backgroundTask>>
-----------------------------------------------------------------------------
(***************************************************************************)
(* The initial start, and the background sync cache.                       *)
(***************************************************************************)
Fails == errors < MaxErrors /\ errors' = errors + 1 /\ UNCHANGED <<stream, calls>>

\* The profile is retrieved, then crypto starts, then the initial sync.
GotProfile ==
    /\ turn = Idle /\ starting = "profile"
    /\ starting' = IF closed THEN "no" ELSE "crypto"
    /\ UNCHANGED <<state, closed, turn, loopVars, dataVars, cacheTask, bgCache,
                   retryVars, blockVars, pauseVars, boundVars>>

StartedCrypto ==
    /\ turn = Idle /\ starting = "crypto"
    /\ starting' = "no"
    /\ ServerSync(eventStreamRequest, req, main, FALSE, TRUE)
    /\ UNCHANGED <<state, closed, turn, dataVars, cacheTask, bgCache, retryVars,
                   blockVars, pauseVars, boundVars>>

StartFails ==
    /\ turn = Idle /\ starting # "no"
    /\ Fails
    /\ starting' = "no"
    /\ state' = "InitialSyncFailed"
    /\ UNCHANGED <<closed, turn, loopVars, dataVars, cacheTask, bgCache,
                   retryVars, blockVars, pauseVars>>

\* The cached responses are applied.
ApplyCache ==
    /\ turn = Idle /\ cacheTask.stage = "reading"
    /\ cacheTask' = [cacheTask EXCEPT !.stage = "applied"]
    /\ token' = IF cacheTask.next = 0 THEN token ELSE cacheTask.next
    /\ UNCHANGED <<state, closed, turn, loopVars, initialCache, starting, bgCache,
                   retryVars, blockVars, pauseVars, boundVars>>

\* What the extension has cached since is left after the responses that were
\* read are deleted, unless it merged it into the last of them.
CacheLeft ==
    IF bgCache = cacheTask.read THEN {NoCache}
    ELSE IF bgCache.since = cacheTask.read.since
         THEN {NoCache, [since |-> cacheTask.read.next, next |-> bgCache.next]}
         ELSE {bgCache}

\* The responses are deleted, the state restored, and the start or the resume
\* that waited goes on.
CacheDone ==
    /\ turn = Idle /\ cacheTask.stage = "applied"
    /\ \E left \in CacheLeft :
         IF left # NoCache
         THEN /\ ReadCache(left, cacheTask.then, cacheTask.old)
              /\ UNCHANGED <<loopVars, blockVars, pauseVars, starting>>
         ELSE /\ cacheTask' = NoTask /\ bgCache' = NoCache
              /\ IF cacheTask.then = "start" THEN DoStart
                 ELSE DoResume(cacheTask.old) /\ UNCHANGED starting
    /\ UNCHANGED <<closed, turn, dataVars, retryVars, boundVars>>

\* The notification extension, another process, syncs from where its cache
\* ends, or from the stored token if the session has moved on.
ExtensionSync ==
    LET goesOn == bgCache # NoCache /\ bgCache.since = token
    IN /\ token # 0
       /\ (IF goesOn THEN bgCache.next ELSE token) < stream
       /\ bgCache' = [since |-> token, next |-> stream]
       /\ UNCHANGED <<state, closed, turn, loopVars, dataVars, starting, cacheTask,
                      retryVars, blockVars, pauseVars, boundVars>>
-----------------------------------------------------------------------------
(***************************************************************************)
(* The node and the network.                                               *)
(***************************************************************************)
NodeEvent ==
    /\ stream < MaxStream
    /\ stream' = stream + 1
    /\ UNCHANGED <<state, closed, turn, loopVars, dataVars, startVars, retryVars,
                   blockVars, pauseVars, calls, errors>>

Post(kind, r) == main' = Append(main, [kind |-> kind, of |-> r])

\* The HTTP answer goes through the processing queue to the main thread.  A
\* response may hold to-device events, and be cut short.
Answer(r) ==
    /\ req[r].stage = "sent"
    /\ \E next \in Position, more \in BOOLEAN :
         /\ next \in 1..stream /\ req[r].since <= next
         /\ more => req[r].since < next
         /\ req' = [req EXCEPT ![r].stage = "answered", ![r].next = next,
                               ![r].more = more]
    /\ Post("answer", r)
    /\ UNCHANGED <<state, closed, turn, eventStreamRequest, catchingUp, dataVars,
                   startVars, retryVars, blockVars, pauseVars, boundVars>>

\* Another failure than a cancellation: only these are bounded.
RequestFails(r, error) ==
    /\ req[r].stage = "sent"
    /\ Fails
    /\ req' = [req EXCEPT ![r].stage = "failed", ![r].error = error]
    /\ Post("failure", r)
    /\ UNCHANGED <<state, closed, turn, eventStreamRequest, catchingUp, dataVars,
                   startVars, retryVars, blockVars, pauseVars>>

RequestCancelled(r) ==
    /\ req[r].stage = "cancelled"
    /\ req' = [req EXCEPT ![r].stage = "failed", ![r].error = "cancelled"]
    /\ Post("failure", r)
    /\ UNCHANGED <<state, closed, turn, eventStreamRequest, catchingUp, dataVars,
                   startVars, retryVars, blockVars, pauseVars, boundVars>>

NetworkLost ==
    /\ reachable /\ Fails
    /\ reachable' = FALSE
    /\ UNCHANGED <<state, closed, turn, loopVars, dataVars, startVars, retries,
                   waiting, blockVars, pauseVars>>

\* Every observer is notified, on the queue of the main thread.
NetworkBack ==
    /\ ~reachable
    /\ reachable' = TRUE
    /\ main' = main \o [i \in 1..waiting |-> [kind |-> "reachable", of |-> None]]
    /\ UNCHANGED <<state, closed, turn, eventStreamRequest, req, catchingUp,
                   dataVars, startVars, retries, waiting, blockVars, pauseVars,
                   boundVars>>
-----------------------------------------------------------------------------
(***************************************************************************)
(* A response: received if the session has a request, handled from the     *)
(* notify block on, and at its end the loop goes on.                       *)
(***************************************************************************)
HeadIs(kind) == turn = Idle /\ main # <<>> /\ Head(main).kind = kind

ReceiveAnswer(r) ==
    /\ HeadIs("answer") /\ Head(main).of = r
    /\ IF eventStreamRequest = None
       THEN req' = [req EXCEPT ![r] = Free] /\ main' = Tail(main)
       ELSE /\ req' = [req EXCEPT ![r].stage = "received"]
            /\ main' = Append(Tail(main), [kind |-> "notify", of |-> r])
    /\ UNCHANGED <<state, closed, turn, eventStreamRequest, catchingUp, dataVars,
                   startVars, retryVars, blockVars, pauseVars, boundVars>>

\* The timeout of the next sync is decided now, from the latest request made.
Notify(r) ==
    /\ HeadIs("notify") /\ Head(main).of = r
    /\ main' = Tail(main)
    /\ req' = [req EXCEPT ![r].stage = "applying", ![r].first = (token = 0),
                          ![r].more = @ /\ catchingUp]
    /\ initialCache' = IF token = 0 THEN req[r].next ELSE initialCache
    /\ UNCHANGED <<state, closed, turn, eventStreamRequest, catchingUp, token,
                   startVars, retryVars, blockVars, pauseVars, boundVars>>

\* handleSyncResponse: every room is done, then the token is stored.  The store
\* commits, which empties the initial cache.  The last messages are fixed
\* before an initial sync ends.
Apply(r) ==
    /\ turn = Idle /\ req[r].stage = "applying"
    /\ token' = req[r].next /\ initialCache' = 0
    /\ IF req[r].first
       THEN req' = [req EXCEPT ![r].stage = "applied"] /\ UNCHANGED main
       ELSE req' = [req EXCEPT ![r].stage = "ending"] /\ Post("end", r)
    /\ UNCHANGED <<state, closed, turn, eventStreamRequest, catchingUp, startVars,
                   retryVars, blockVars, pauseVars, boundVars>>

LastMessagesFixed(r) ==
    /\ turn = Idle /\ req[r].stage = "applied"
    /\ req' = [req EXCEPT ![r].stage = "ending"] /\ Post("end", r)
    /\ UNCHANGED <<state, closed, turn, eventStreamRequest, catchingUp, dataVars,
                   startVars, retryVars, blockVars, pauseVars, boundVars>>

\* Which block of the application comes next in the end of a response.
AfterBackground == IF onResumeDone THEN "resume" ELSE "run"
\* Mutant of AtEnd: the block of resume only follows that of a background sync.
AtEndNoResume == IF onBackgroundSyncDone THEN "background" ELSE "run"

AtEnd == IF onBackgroundSyncDone THEN "background" ELSE AfterBackground

\* Mutant of EndSync: the catch-up does not return.
EndSyncGoesOn(r) ==
    /\ HeadIs("end") /\ Head(main).of = r
    /\ IF req[r].more /\ state \notin {"PauseRequested", "Paused"}
       THEN ServerSync(eventStreamRequest, req, Tail(main), FALSE, req[r].init)
       ELSE main' = Tail(main) /\ UNCHANGED <<eventStreamRequest, req, catchingUp>>
    /\ turn' = [at |-> AtEnd, of |-> r]
    /\ UNCHANGED <<state, closed, dataVars, startVars, retryVars, onResumeDone,
                   onBackgroundSyncDone, onBackgroundSyncFail, pauseVars, boundVars>>

EndSync(r) ==
    /\ HeadIs("end") /\ Head(main).of = r
    /\ IF req[r].more /\ state \notin {"PauseRequested", "Paused"}
       THEN /\ ServerSync(eventStreamRequest, [req EXCEPT ![r] = Free], Tail(main), FALSE, req[r].init)
            /\ UNCHANGED turn
       ELSE /\ turn' = [at |-> AtEnd, of |-> r] /\ main' = Tail(main)
            /\ UNCHANGED <<eventStreamRequest, req, catchingUp>>
    /\ UNCHANGED <<state, closed, dataVars, startVars, retryVars, onResumeDone,
                   onBackgroundSyncDone, onBackgroundSyncFail, pauseVars, boundVars>>

Return(r) == turn' = Idle /\ req' = [req EXCEPT ![r] = Free]

\* Mutant of PauseAgain: the request is not forgotten.
PauseAgainKeepsRequest(r, goOn) ==
    /\ IF state # "BackgroundSyncInProgress"
       THEN /\ turn' = [at |-> goOn, of |-> r]
            /\ UNCHANGED <<state, req, backgroundTask>>
       ELSE IF preventPauseCount > 0
       THEN /\ turn' = [at |-> goOn, of |-> r]
            /\ state' = "PauseRequested" /\ backgroundTask' = TRUE
            /\ UNCHANGED req
       ELSE Return(r) /\ state' = "Paused" /\ UNCHANGED backgroundTask
    /\ UNCHANGED <<closed, eventStreamRequest, main, catchingUp, dataVars,
                   startVars, retryVars, onResumeDone,
                   preventPauseCount, active, boundVars>>

\* What follows the block of a background sync, done or failed: pause again,
\* unless the application resumed; goOn is what comes next in this turn.
PauseAgain(r, goOn) ==
    /\ IF state # "BackgroundSyncInProgress"
       THEN /\ turn' = [at |-> goOn, of |-> r]
            /\ UNCHANGED <<state, eventStreamRequest, req, backgroundTask>>
       ELSE IF preventPauseCount > 0
       THEN /\ turn' = [at |-> goOn, of |-> r]
            /\ state' = "PauseRequested" /\ backgroundTask' = TRUE
            /\ UNCHANGED <<eventStreamRequest, req>>
       ELSE /\ Return(r) /\ eventStreamRequest' = None /\ state' = "Paused"
            /\ UNCHANGED backgroundTask
    /\ UNCHANGED <<closed, main, catchingUp, dataVars, startVars, retryVars,
                   onResumeDone, preventPauseCount, active, boundVars>>

BackgroundSyncDone ==
    /\ turn.at = "background"
    /\ onBackgroundSyncDone' = FALSE
    /\ PauseAgain(turn.of, AfterBackground)
    /\ UNCHANGED onBackgroundSyncFail

\* After the resume block: return if it closed or paused the session.
ResumeDone ==
    /\ turn.at = "resume"
    /\ onResumeDone' = FALSE
    /\ IF closed \/ state = "Paused"
       THEN Return(turn.of)
       ELSE turn' = [turn EXCEPT !.at = "run"] /\ UNCHANGED req
    /\ UNCHANGED <<state, closed, eventStreamRequest, main, catchingUp, dataVars,
                   startVars, retryVars, onBackgroundSyncDone,
                   onBackgroundSyncFail, pauseVars, boundVars>>

Run ==
    /\ turn.at = "run"
    /\ state' = IF state \in {"PauseRequested", "Paused"} THEN state ELSE "Running"
    /\ turn' = [turn EXCEPT !.at = "notified"]
    /\ UNCHANGED <<closed, loopVars, dataVars, startVars, retryVars, blockVars,
                   pauseVars, boundVars>>

\* After the listeners of the Running state: pursue live events listening.
Pursue ==
    /\ turn.at = "notified"
    /\ IF closed \/ state = "Paused"
       THEN /\ Return(turn.of)
            /\ UNCHANGED <<eventStreamRequest, main, catchingUp>>
       ELSE /\ turn' = Idle
            /\ ServerSync(eventStreamRequest, [req EXCEPT ![turn.of] = Free], main, ~req[turn.of].more, FALSE)
    /\ UNCHANGED <<state, closed, dataVars, startVars, retryVars, blockVars,
                   pauseVars, boundVars>>
-----------------------------------------------------------------------------
(***************************************************************************)
(* handleServerSyncError.                                                  *)
(***************************************************************************)
ReceiveFailure(r) ==
    /\ HeadIs("failure") /\ Head(main).of = r
    /\ main' = Tail(main)
    /\ IF eventStreamRequest = None
       THEN req' = [req EXCEPT ![r] = Free] /\ UNCHANGED turn
       ELSE /\ turn' = [at |-> IF onBackgroundSyncFail THEN "fail" ELSE "error", of |-> r]
            /\ UNCHANGED req
    /\ UNCHANGED <<state, closed, eventStreamRequest, catchingUp, dataVars,
                   startVars, retryVars, onResumeDone, onBackgroundSyncDone,
                   onBackgroundSyncFail, pauseVars, boundVars>>

BackgroundSyncFailed ==
    /\ turn.at = "fail"
    /\ onBackgroundSyncFail' = FALSE
    /\ PauseAgain(turn.of, "error")
    /\ UNCHANGED onBackgroundSyncDone

InError(r) == turn = [at |-> "error", of |-> r]

\* An initial sync has a failure block of its own.
InitialSyncFails(r) ==
    /\ InError(r) /\ req[r].init
    /\ state' = "InitialSyncFailed"
    /\ Return(r)
    /\ UNCHANGED <<closed, eventStreamRequest, main, catchingUp, dataVars,
                   startVars, retryVars, blockVars, pauseVars, boundVars>>

IgnoreCancellation(r) ==
    /\ InError(r) /\ ~req[r].init /\ req[r].error = "cancelled"
    /\ Return(r)
    /\ UNCHANGED <<state, closed, eventStreamRequest, main, catchingUp, dataVars,
                   startVars, retryVars, blockVars, pauseVars, boundVars>>

\* Mutant of CatchUpTimedOut: the request is forgotten, and not replaced.
CatchUpAbandoned(r) ==
    /\ InError(r) /\ ~req[r].init /\ req[r].error = "timeout" /\ ~req[r].long
    /\ Return(r)
    /\ eventStreamRequest' = None
    /\ UNCHANGED <<state, closed, main, catchingUp, dataVars, startVars,
                   retryVars, blockVars, pauseVars, boundVars>>

\* A catch-up that timed out goes back to the long poll.
CatchUpTimedOut(r) ==
    /\ InError(r) /\ ~req[r].init /\ req[r].error = "timeout" /\ ~req[r].long
    /\ turn' = Idle
    /\ ServerSync(None, [Cancel(req, eventStreamRequest) EXCEPT ![r] = Free], main, TRUE, FALSE)
    /\ UNCHANGED <<state, closed, dataVars, startVars, retryVars, blockVars,
                   pauseVars, boundVars>>

RetryAfterNodeError(r) ==
    /\ InError(r) /\ ~req[r].init /\ req[r].error = "node"
    /\ state' = "SyncError"
    /\ retries' = [retries EXCEPT !["node"] = @ + 1]
    /\ Return(r)
    /\ UNCHANGED <<closed, eventStreamRequest, main, catchingUp, dataVars,
                   startVars, waiting, reachable, blockVars, pauseVars, boundVars>>

RetryWhenReachable(r) ==
    /\ InError(r) /\ ~req[r].init
    /\ req[r].error = "network" \/ (req[r].error = "timeout" /\ req[r].long)
    /\ state' = "NodeNotReachable"
    /\ IF reachable
       THEN retries' = [retries EXCEPT !["network"] = @ + 1] /\ UNCHANGED waiting
       ELSE waiting' = waiting + 1 /\ UNCHANGED retries
    /\ Return(r)
    /\ UNCHANGED <<closed, eventStreamRequest, main, catchingUp, dataVars,
                   startVars, reachable, blockVars, pauseVars, boundVars>>

\* Mutant of Retry: it waits for the session to leave its error.
RetryLater(kind) ==
    /\ turn = Idle /\ retries[kind] > 0 /\ state # "SyncError"
    /\ retries' = [retries EXCEPT ![kind] = @ - 1]
    /\ IF eventStreamRequest = None
       THEN UNCHANGED <<state, loopVars>>
       ELSE /\ state' = IF kind = "network" THEN "SyncInProgress" ELSE state
            /\ ServerSync(eventStreamRequest, req, main, FALSE, FALSE)
    /\ UNCHANGED <<closed, turn, dataVars, startVars, waiting, reachable,
                   blockVars, pauseVars, boundVars>>

\* Mutant of Retry: a retry whose request was given up goes on.
RetryAnyway(kind) ==
    /\ turn = Idle /\ retries[kind] > 0
    /\ retries' = [retries EXCEPT ![kind] = @ - 1]
    /\ state' = IF kind = "network" THEN "SyncInProgress" ELSE state
    /\ ServerSync(eventStreamRequest, req, main, FALSE, FALSE)
    /\ UNCHANGED <<closed, turn, dataVars, startVars, waiting, reachable,
                   blockVars, pauseVars, boundVars>>

\* The dispatch_after blocks only check that the session has a request.
Retry(kind) ==
    /\ turn = Idle /\ retries[kind] > 0
    /\ retries' = [retries EXCEPT ![kind] = @ - 1]
    /\ IF eventStreamRequest = None
       THEN UNCHANGED <<state, loopVars>>
       ELSE /\ state' = IF kind = "network" THEN "SyncInProgress" ELSE state
            /\ ServerSync(eventStreamRequest, req, main, FALSE, FALSE)
    /\ UNCHANGED <<closed, turn, dataVars, startVars, waiting, reachable,
                   blockVars, pauseVars, boundVars>>

\* An observer that finds no request stays registered.
RetryReachable ==
    /\ HeadIs("reachable")
    /\ IF reachable /\ eventStreamRequest # None /\ waiting > 0
       THEN /\ waiting' = waiting - 1
            /\ state' = "SyncInProgress"
            /\ ServerSync(eventStreamRequest, req, Tail(main), FALSE, FALSE)
       ELSE /\ main' = Tail(main)
            /\ UNCHANGED <<waiting, state, eventStreamRequest, req, catchingUp>>
    /\ UNCHANGED <<closed, turn, dataVars, startVars, retries, reachable,
                   blockVars, pauseVars, boundVars>>
-----------------------------------------------------------------------------
AppCall ==
    \/ Start \/ Pause \/ Resume \/ Reconnect \/ Close
    \/ \E ignore \in BOOLEAN : BackgroundSync(ignore)
    \/ RetainPreventPause \/ ReleasePreventPause \/ ChangeActive

FromOutside ==
    \/ NodeEvent \/ NetworkLost \/ NetworkBack \/ ExtensionSync
    \/ ExpireBackgroundTask \/ StartFails
    \/ \E r \in Request : \/ Answer(r) \/ RequestCancelled(r)
                          \/ \E e \in Error \ {"cancelled"} : RequestFails(r, e)

\* What the main thread does by itself.
MainThread ==
    \/ GotProfile \/ StartedCrypto \/ ApplyCache \/ CacheDone
    \/ BackgroundSyncDone \/ ResumeDone \/ Run \/ Pursue \/ BackgroundSyncFailed
    \/ RetryReachable \/ \E k \in RetryKind : Retry(k)
    \/ \E r \in Request :
         \/ ReceiveAnswer(r) \/ Notify(r) \/ Apply(r) \/ LastMessagesFixed(r)
         \/ EndSync(r) \/ ReceiveFailure(r) \/ InitialSyncFails(r)
         \/ IgnoreCancellation(r) \/ CatchUpTimedOut(r)
         \/ RetryAfterNodeError(r) \/ RetryWhenReachable(r)

Next == AppCall \/ FromOutside \/ MainThread

Spec == Init /\ [][Next]_vars

\* The main run loop runs what is posted to it, a request ends before its client
\* timeout, the network comes back, an initial start and its callbacks end.
FairSpec ==
    /\ Spec
    /\ WF_vars(MainThread)
    /\ \A r \in Request : /\ WF_vars(Answer(r) \/ RequestCancelled(r))
                          /\ WF_vars(Apply(r)) /\ WF_vars(LastMessagesFixed(r))
    /\ \A k \in RetryKind : WF_vars(Retry(k))
    /\ WF_vars(NetworkBack) /\ WF_vars(GotProfile) /\ WF_vars(StartedCrypto)
    /\ WF_vars(ApplyCache) /\ WF_vars(CacheDone)
-----------------------------------------------------------------------------
\* Whatever keeps the loop going: requests not cancelled, and retries to come.
Live == {r \in Request : ~Stopped(req[r])}
Chains == Cardinality(Live) + retries["node"] + retries["network"] + waiting

\* The session has one long polling connection: never two syncs, nor a sync and
\* a retry, under way (serverSyncWithServerTimeout and handleServerSyncError).
OneLoop == Chains <= 1

\* A response is applied to the token that its request was made with, and those
\* that the extension cached to the token where its cache begins, so that no part
\* of the stream is applied twice, or skipped (handleSyncResponse).
InOrder ==
    [][/\ \A r \in Request :
            req[r].stage = "applying" /\ req'[r].stage \in {"applied", "ending"}
            => req[r].since = token
       /\ cacheTask.stage = "reading" /\ cacheTask'.stage = "applied"
          /\ cacheTask.next # 0
          => cacheTask.read.since = token]_vars

\* A paused session has no request, so that resume can make one.
PausedIdle == state = "Paused" => eventStreamRequest = None

\* A session that says it syncs, runs, or will retry has something under way
\* that takes it further; a session waiting for ever would never sync again.
Driven ==
    /\ state \in {"SyncInProgress", "BackgroundSyncInProgress", "Running",
                 "NodeNotReachable", "SyncError", "PauseRequested"}
    /\ ~closed
    => Chains > 0 \/ starting # "no" \/ cacheTask # NoTask

\* A delayed pause, and the background task that pays for the delay, last no
\* longer than what prevents the pause (setPreventPauseCount).
PauseHonoured == state = "PauseRequested" \/ backgroundTask => preventPauseCount > 0

\* Everything that can make the next request: what is under way, and a start.
Loops == Chains + IF starting = "no" THEN 0 ELSE 1

\* Whatever the application does, an answer, a failure, a timer, an observer or a
\* start is followed by one thing: only a call, or the cache that a call made the
\* session read, adds to them, and the last one ends in a session that is paused,
\* closed or that could not start, or because it finds that the session has no
\* request any more (handleServerSyncResponse, handleServerSyncError).
OneForOne ==
    [][/\ Loops' > Loops => calls' # calls \/ cacheTask' # cacheTask
       /\ Loops' = 0 /\ Loops > 0 =>
              \/ closed' \/ state' \in {"Paused", "InitialSyncFailed"}
              \/ eventStreamRequest = None]_vars

\* No response, cache or start is being handled, and no block is running.
NothingHandled ==
    /\ turn = Idle /\ starting = "no" /\ cacheTask = NoTask
    /\ \A r \in Request :
         req[r].stage \notin {"received", "applying", "applied", "ending"}

\* A session that was paused or closed while nothing was being handled stays as it
\* is until the application calls it: answers, failures, timers and observers that
\* were under way, however many, find no request and do nothing (pause, close).
Quiet ==
    eventStreamRequest = None /\ NothingHandled /\ state \in {"Paused", "Closed"}
StaysQuiet == [][Quiet => (Quiet' /\ state' = state) \/ calls' # calls]_vars

\* The block of resume is called, unless the session is paused or closed first,
\* or an initial sync fails.
ResumeAnswered ==
    onResumeDone ~> (~onResumeDone \/ closed \/ state = "InitialSyncFailed")

\* A session that lost the node, or met an error of the node, runs again unless
\* the application pauses or closes it (handleServerSyncError).
Recovers ==
    state \in {"NodeNotReachable", "SyncError"}
    ~> \/ state \in {"Running", "Paused", "PauseRequested", "InitialSyncFailed",
                     "BackgroundSyncInProgress"}
       \/ closed
=============================================================================
