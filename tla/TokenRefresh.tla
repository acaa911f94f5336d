----------------------------- MODULE TokenRefresh -----------------------------
(***************************************************************************)
(* The access token of MXRestClient: the token provider its requests ask,  *)
(* and the refresh of tokens that expire, in several processes (the        *)
(* application, its extensions) that share one account.                    *)
(*                                                                         *)
(* In a process, the provider's blocks run one by one on refreshQueue and  *)
(* wait while refreshDispatchGroup is entered.  Between processes, the     *)
(* persisted credentials are handed to one refresh at a time, until it     *)
(* calls shouldPersistCompletion (the application's                        *)
(* persistTokenDataHandler, external).                                     *)
(*                                                                         *)
(* The node's pairs of access and refresh token are numbered from 0 in the *)
(* order it issues and expires them.  Every request has a client of its    *)
(* own, whose account has a refresh token.                                 *)
(***************************************************************************)
EXTENDS Naturals, Sequences

CONSTANTS
    Process,
    Request,
    ProcessOf,      \* the process of each request
    NoRequest,
    Careful,        \* is no client closed while it refreshes the token?
    MaxAged,        \* bound: pairs that come near their expiry
    MaxFaults       \* bound: clients that are closed while they are used, and
                    \* processes that are killed and started again

ASSUME Sharing == /\ ProcessOf \in [Request -> Process]
                  /\ NoRequest \notin Request
                  /\ Careful \in BOOLEAN
                  /\ MaxAged \in Nat /\ MaxFaults \in Nat

VARIABLES
    issued,         \* the last pair the node issued
    seen,           \* the last pair a token of which came back to the node
    aged, dead,     \* pairs below are near their expiry, or expired
    disk,           \* the pair of the persisted credentials
    lock,           \* the refresh the persisted credentials are handed to
    mem,            \* the pair of each process's credentials
    queue,          \* refreshQueue of each process
    group,          \* how often its refreshDispatchGroup is entered
    stage,
    refused,        \* has the node refused the token of the request before?
    carried,        \* the access token a request was last sent with
    got,            \* the pair the answer to a refresh carries
    closed,         \* the requests whose client is closed
    faults

node == <<issued, seen>>
clock == <<aged, dead>>
saved == <<disk, lock>>
process == <<mem, queue, group>>
request == <<stage, refused, carried, got>>
app == <<closed, faults>>
vars == <<node, clock, saved, process, request, app>>

\* A request asks for a token (queued), perhaps has it refreshed (refreshing:
\* it waits for the persisted credentials; then the refresh is asked,
\* granted, denied or lost; unauthenticated: for the application), is given
\* one, is sent, and is done, or failed, or forgotten without a word.
Asking == {"asked", "granted", "denied", "lost"}
InGroup == {"refreshing", "unauthenticated"} \cup Asking
Ended == {"done", "failed", "forgotten"}
Stage == {"new", "queued", "given", "sent"} \cup InGroup \cup Ended

Later(a, b) == IF a > b THEN a ELSE b

Init == /\ issued = 0 /\ seen = 0 /\ aged = 0 /\ dead = 0
        /\ disk = 0 /\ lock = NoRequest
        /\ mem = [p \in Process |-> 0]
        /\ queue = [p \in Process |-> <<>>]
        /\ group = [p \in Process |-> 0]
        /\ stage = [r \in Request |-> "new"]
        /\ refused = [r \in Request |-> FALSE]
        /\ carried = [r \in Request |-> 0]
        /\ got = [r \in Request |-> 0]
        /\ closed = {} /\ faults = 0

-----------------------------------------------------------------------------
(* The token provider.                                                     *)

Becomes(r, s) == stage' = [stage EXCEPT ![r] = s]
Ask(r) == /\ Becomes(r, "queued")
          /\ queue' = [queue EXCEPT ![ProcessOf[r]] = Append(@, r)]
Leave(r) == group' = [group EXCEPT ![ProcessOf[r]] = @ - 1]

Make(r) == /\ stage[r] = "new"
           /\ r \notin closed
           /\ Ask(r)
           /\ UNCHANGED <<node, clock, saved, mem, group, refused, carried, got, app>>

\* Mutant of Provide: it does not wait for the group.
Provided(p, r, needed) ==
    /\ queue[p] # <<>> /\ r = Head(queue[p])
    /\ queue' = [queue EXCEPT ![p] = Tail(@)]
    /\ \/ /\ r \in closed
          /\ Becomes(r, "forgotten")
          /\ UNCHANGED group
       \/ /\ r \notin closed /\ ~needed
          /\ Becomes(r, "given")
          /\ UNCHANGED group
       \/ /\ r \notin closed /\ needed
          /\ Becomes(r, "refreshing")
          /\ group' = [group EXCEPT ![p] = @ + 1]
    /\ UNCHANGED <<node, clock, saved, mem, refused, carried, got, app>>
ProvideAtOnce(p) == \E r \in Request : Provided(p, r, refused[r] \/ mem[p] < aged)

\* The first block of refreshQueue, once no refresh is under way.
Provide(p) ==
    /\ group[p] = 0
    /\ \E r \in Request : Provided(p, r, refused[r] \/ mem[p] < aged)

\* success, on the completion queue
Given(r) == /\ stage[r] = "given"
            /\ \/ /\ r \in closed
                  /\ Becomes(r, "forgotten")
                  /\ UNCHANGED carried
               \/ /\ r \notin closed
                  /\ Becomes(r, "sent")
                  /\ carried' = [carried EXCEPT ![r] = mem[ProcessOf[r]]]
            /\ UNCHANGED <<node, clock, saved, process, refused, got, app>>

-----------------------------------------------------------------------------
(* startTokenRefresh.                                                      *)

\* Mutants of Persisted: the persisted pair is not looked at; a closed client
\* leaves without leaving the group; the credentials are not told.
HandedOut(r) == /\ r \notin closed /\ disk < aged
                /\ Becomes(r, "asked") /\ lock' = r
                /\ UNCHANGED <<mem, group>>
TakesPersisted(r) == /\ r \notin closed /\ disk >= aged
                     /\ mem' = [mem EXCEPT ![ProcessOf[r]] = disk]
                     /\ Leave(r) /\ Becomes(r, "given")
                     /\ UNCHANGED lock
ClosedBefore(r) == /\ r \in closed
                   /\ Leave(r) /\ Becomes(r, "forgotten")
                   /\ UNCHANGED <<lock, mem>>
PersistedUnread(r) ==
    /\ stage[r] = "refreshing" /\ lock = NoRequest
    /\ Becomes(r, "asked") /\ lock' = r
    /\ UNCHANGED <<node, clock, disk, process, refused, carried, got, app>>
PersistedStays(r) ==
    /\ stage[r] = "refreshing" /\ lock = NoRequest
    /\ \/ TakesPersisted(r) \/ HandedOut(r)
       \/ r \in closed /\ Becomes(r, "forgotten") /\ UNCHANGED <<lock, mem, group>>
    /\ UNCHANGED <<node, clock, disk, queue, refused, carried, got, app>>
PersistedUntold(r) ==
    /\ stage[r] = "refreshing" /\ lock = NoRequest
    /\ \/ ClosedBefore(r) \/ HandedOut(r)
       \/ /\ r \notin closed /\ disk >= aged
          /\ Leave(r) /\ Becomes(r, "given")
          /\ UNCHANGED <<lock, mem>>
    /\ UNCHANGED <<node, clock, disk, queue, refused, carried, got, app>>

\* The refresh is handed the persisted credentials: it takes their pair if
\* that has time left, which tells all credentials of the process.
Persisted(r) ==
    /\ stage[r] = "refreshing" /\ lock = NoRequest
    /\ ClosedBefore(r) \/ TakesPersisted(r) \/ HandedOut(r)
    /\ UNCHANGED <<node, clock, disk, queue, refused, carried, got, app>>

\* The node is asked with the refresh token of the credentials of the client.
\* It issues a pair as long as it has not seen a later one (external), and
\* its answer may be lost.
NodeRefresh(r) ==
    LET pair == mem[ProcessOf[r]]
    IN /\ stage[r] = "asked"
       /\ \/ /\ pair >= seen
             /\ issued' = issued + 1 /\ seen' = pair
             /\ got' = [got EXCEPT ![r] = issued + 1]
             /\ Becomes(r, "granted") \/ Becomes(r, "lost")
          \/ /\ pair < seen
             /\ Becomes(r, "denied")
             /\ UNCHANGED <<node, got>>
          \/ /\ Becomes(r, "lost")
             /\ UNCHANGED <<node, got>>
       /\ UNCHANGED <<clock, saved, process, refused, carried, app>>

\* Mutant of Granted: the new pair is not persisted.
GrantedUnsaved(r) ==
    /\ stage[r] = "granted" /\ r \notin closed
    /\ mem' = [mem EXCEPT ![ProcessOf[r]] = got[r]]
    /\ lock' = NoRequest
    /\ Leave(r) /\ Becomes(r, "given")
    /\ UNCHANGED <<node, clock, disk, queue, refused, carried, got, app>>

\* The blocks of the request that refreshes.  Those of a client that was
\* closed are not called: its HTTP client is gone.
Granted(r) ==
    /\ stage[r] = "granted" /\ r \notin closed
    /\ mem' = [mem EXCEPT ![ProcessOf[r]] = got[r]]
    /\ disk' = got[r] /\ lock' = NoRequest
    /\ Leave(r) /\ Becomes(r, "given")
    /\ UNCHANGED <<node, clock, queue, refused, carried, got, app>>

Denied(r) ==
    /\ stage[r] = "denied" /\ r \notin closed
    /\ lock' = NoRequest
    /\ Becomes(r, "unauthenticated")
    /\ UNCHANGED <<node, clock, disk, process, refused, carried, got, app>>

\* Mutant of Lost: the persisted credentials are not given back.
LostKeeps(r) ==
    /\ stage[r] = "lost" /\ r \notin closed
    /\ Leave(r) /\ Becomes(r, "failed")
    /\ UNCHANGED <<node, clock, saved, mem, queue, refused, carried, got, app>>

Lost(r) ==
    /\ stage[r] = "lost" /\ r \notin closed
    /\ lock' = NoRequest
    /\ Leave(r) /\ Becomes(r, "failed")
    /\ UNCHANGED <<node, clock, disk, mem, queue, refused, carried, got, app>>

\* The application calls the completion of the unauthenticatedHandler.
Unauthenticated(r) ==
    /\ stage[r] = "unauthenticated"
    /\ Leave(r)
    /\ Becomes(r, IF r \in closed THEN "forgotten" ELSE "failed")
    /\ UNCHANGED <<node, clock, saved, mem, queue, refused, carried, got, app>>

-----------------------------------------------------------------------------
(* The request and its answer.                                             *)

Accepts(pair) == pair >= dead /\ pair >= seen

\* A request whose client is closed is not told; a refused token is asked for
\* again, once.
Answered(r) ==
    /\ stage[r] = "sent"
    /\ \/ /\ r \in closed
          /\ Becomes(r, "forgotten")
          /\ UNCHANGED <<seen, queue, refused>>
       \/ /\ r \notin closed /\ Accepts(carried[r])
          /\ seen' = carried[r]
          /\ Becomes(r, "done")
          /\ UNCHANGED <<queue, refused>>
       \/ /\ r \notin closed /\ ~Accepts(carried[r]) /\ ~refused[r]
          /\ refused' = [refused EXCEPT ![r] = TRUE]
          /\ Ask(r)
          /\ UNCHANGED seen
       \/ /\ r \notin closed /\ ~Accepts(carried[r]) /\ refused[r]
          /\ Becomes(r, "failed")
          /\ UNCHANGED <<seen, queue, refused>>
    /\ UNCHANGED <<issued, clock, saved, mem, group, carried, got, app>>

-----------------------------------------------------------------------------
(* Time, and the application.                                              *)

Age == \/ /\ aged <= issued /\ aged < MaxAged
          /\ aged' = aged + 1
          /\ UNCHANGED dead
       \/ /\ dead < aged
          /\ dead' = dead + 1
          /\ UNCHANGED aged
Time == Age /\ UNCHANGED <<node, saved, process, request, app>>

Close(r) == /\ r \notin closed
            /\ stage[r] \notin {"new"} \cup Ended
            /\ Careful => stage[r] \notin Asking
            /\ faults < MaxFaults
            /\ closed' = closed \cup {r} /\ faults' = faults + 1
            /\ UNCHANGED <<node, clock, saved, process, request>>

Crash(p) ==
    /\ faults < MaxFaults
    /\ faults' = faults + 1
    /\ mem' = [mem EXCEPT ![p] = disk]
    /\ queue' = [queue EXCEPT ![p] = <<>>]
    /\ group' = [group EXCEPT ![p] = 0]
    /\ lock' = IF lock # NoRequest /\ ProcessOf[lock] = p THEN NoRequest ELSE lock
    /\ stage' = [r \in Request |-> IF ProcessOf[r] = p /\ stage[r] \notin {"new"} \cup Ended
                                   THEN "forgotten" ELSE stage[r]]
    /\ UNCHANGED <<node, clock, disk, refused, carried, got, closed>>

-----------------------------------------------------------------------------
Refresh(r) == \/ Persisted(r) \/ NodeRefresh(r)
              \/ Granted(r) \/ Denied(r) \/ Lost(r) \/ Unauthenticated(r)

Next == \/ \E r \in Request : \/ Make(r) \/ Given(r) \/ Answered(r)
                              \/ Refresh(r) \/ Close(r)
        \/ \E p \in Process : Provide(p) \/ Crash(p)
        \/ Time

\* The queues run, the node or the time-out ends every request, and the
\* application calls what it is to call.
Fairness == /\ \A p \in Process : WF_vars(Provide(p))
            /\ \A r \in Request : WF_vars(Given(r)) /\ WF_vars(Answered(r)) /\ WF_vars(Refresh(r))

Spec == Init /\ [][Next]_vars
FairSpec == Spec /\ Fairness

-----------------------------------------------------------------------------
TypeOK == /\ issued \in Nat /\ seen \in Nat /\ aged \in Nat /\ dead \in Nat /\ disk \in Nat
          /\ lock \in Request \cup {NoRequest}
          /\ mem \in [Process -> Nat]
          /\ queue \in [Process -> Seq(Request)]
          /\ group \in [Process -> {0, 1}]
          /\ stage \in [Request -> Stage]
          /\ refused \in [Request -> BOOLEAN]
          /\ carried \in [Request -> Nat] /\ got \in [Request -> Nat]
          /\ closed \in SUBSET Request
          /\ faults \in 0..MaxFaults

\* The node has not seen a token that is not persisted: wherever a process is
\* killed, what it leaves on disk is good for a refresh.
SavedBeforeUsed == seen <= disk

\* The comment of the token provider: "If refreshDispatchGroup is unmatched(a
\* request for a new access token is in-flight) wait."  The group is entered
\* only while a refresh is under way that will leave it.
GroupMatched ==
    \A p \in Process :
        group[p] > 0 <=> \E r \in Request : /\ ProcessOf[r] = p /\ stage[r] \in InGroup
                                            /\ r \in closed => stage[r] \notin Asking

\* A new pair is asked for only if the persisted one is near its expiry: the
\* requests that were refused together, in one process or in two, make one
\* refresh.
OneRefresh == [][issued' > issued => disk < aged]_vars

\* The comment of requestWithMethod: "If was an invalid token response verify
\* we can get a new one and retry the original request with new token".
RetriedWithNew ==
    [][\A r \in Request : refused[r] /\ stage[r] = "given" /\ stage'[r] = "sent"
                              => carried'[r] # carried[r]]_vars

\* Every request comes to an end.
AllEnd == \A r \in Request : stage[r] = "queued" ~> stage[r] \in Ended
=============================================================================
