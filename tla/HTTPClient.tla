------------------------------ MODULE HTTPClient ------------------------------
(***************************************************************************)
(* MXHTTPClient: what happens to a request between the call that makes it  *)
(* and its success or failure block: the access token it needs, the tries, *)
(* the waits before a retry, the requests that wait for the network, which *)
(* are woken one by one when it is back, and cancellation.                 *)
(*                                                                         *)
(* The blocks of the client run on the main queue, one after another.      *)
(***************************************************************************)
EXTENDS Naturals, Sequences

CONSTANTS
    Request,
    MaxTries,           \* maxNumberOfTries of an operation
    MaxSends            \* bound: sends after which the node limits no more

ASSUME Bounds == /\ MaxTries \in Nat \ {0}
                 /\ MaxSends \in Nat
                 /\ MaxSends >= MaxTries

VARIABLES
    stage,                  \* what each request waits for
    numberOfTries,
    canceled,
    plain,                  \* a token error is final for the request
    wrapped,                \* how often the network woke it: as often, its
                            \* completion wakes the next one
    completed,              \* calls of its success and failure blocks
    reachabilityObservers,  \* the requests that wait for the network
    reachable,              \* isReachable
    owed                    \* calls of wakeUpNextReachabilityServer under way

request == <<stage, numberOfTries, canceled, plain, wrapped, completed>>
network == <<reachabilityObservers, reachable, owed>>
vars == <<request, network>>

Stage == {"new", "token", "sent", "delayed", "waiting", "done", "dropped"}

Init == /\ stage = [r \in Request |-> "new"]
        /\ numberOfTries = [r \in Request |-> 0]
        /\ canceled = [r \in Request |-> FALSE]
        /\ plain = [r \in Request |-> FALSE]
        /\ wrapped = [r \in Request |-> 0]
        /\ completed = [r \in Request |-> 0]
        /\ reachabilityObservers = <<>>
        /\ reachable \in BOOLEAN
        /\ owed = 0

-----------------------------------------------------------------------------
\* tryRequest
Send(r) == /\ stage' = [stage EXCEPT ![r] = "sent"]
           /\ numberOfTries' = [numberOfTries EXCEPT ![r] = @ + 1]

\* One of its blocks is called; then, for each time it was woken, the next
\* request that waits for the network is.
Complete(r) == /\ stage' = [stage EXCEPT ![r] = "done"]
               /\ completed' = [completed EXCEPT ![r] = @ + 1]
               /\ wrapped' = [wrapped EXCEPT ![r] = 0]
               /\ owed' = wrapped[r]

\* requestWithMethod, with a token or without
Make(r) == /\ owed = 0
           /\ stage[r] = "new"
           /\ \/ /\ stage' = [stage EXCEPT ![r] = "token"]
                 /\ UNCHANGED <<numberOfTries, plain>>
              \/ /\ Send(r)
                 /\ plain' = [plain EXCEPT ![r] = TRUE]
           /\ UNCHANGED <<canceled, wrapped, completed, network>>

TokenGiven(r) == /\ owed = 0
                 /\ stage[r] = "token"
                 /\ Send(r)
                 /\ UNCHANGED <<canceled, plain, wrapped, completed, network>>

TokenRefused(r) == /\ owed = 0
                   /\ stage[r] = "token"
                   /\ Complete(r)
                   /\ UNCHANGED <<numberOfTries, canceled, plain,
                                  reachabilityObservers, reachable>>

\* MXHTTPOperation cancel: no block of the client runs, whatever the request
\* waits for.  The task of a request that is sent will fail.
Cancel(r) == /\ stage[r] \notin {"new", "done", "dropped"}
             /\ ~canceled[r]
             /\ canceled' = [canceled EXCEPT ![r] = TRUE]
             /\ UNCHANGED <<stage, numberOfTries, plain, wrapped, completed, network>>

-----------------------------------------------------------------------------
(* The end of a try.                                                       *)

\* Success, or an error that is not worth a retry or comes too late for one.
Ends(r) == /\ owed = 0
           /\ stage[r] = "sent"
           /\ Complete(r)
           /\ UNCHANGED <<numberOfTries, canceled, plain, reachabilityObservers, reachable>>

\* The node does not know the token: a new one is asked for, once.
TokenUnknown(r) == /\ owed = 0
                   /\ stage[r] = "sent"
                   /\ ~plain[r]
                   /\ plain' = [plain EXCEPT ![r] = TRUE]
                   /\ stage' = [stage EXCEPT ![r] = "token"]
                   /\ wrapped' = [wrapped EXCEPT ![r] = 0]
                   /\ owed' = wrapped[r]
                   /\ UNCHANGED <<numberOfTries, canceled, completed,
                                  reachabilityObservers, reachable>>

\* The node limits the rate: the only condition of a retry is the time spent.
Limited(r) == /\ owed = 0
              /\ stage[r] = "sent"
              /\ numberOfTries[r] < MaxSends
              /\ stage' = [stage EXCEPT ![r] = "delayed"]
              /\ UNCHANGED <<numberOfTries, canceled, plain, wrapped, completed, network>>

\* Mutant of MayRetry: tries are not counted.
RetriesForEver(r) == ~canceled[r]

MayRetry(r) == numberOfTries[r] < IF canceled[r] THEN 0 ELSE MaxTries

\* The request did not get through, and may be retried: after a delay if the
\* network is up, else when it is back.
NoResponse(r) ==
    /\ owed = 0
    /\ stage[r] = "sent"
    /\ MayRetry(r)
    /\ \/ /\ reachable
          /\ stage' = [stage EXCEPT ![r] = "delayed"]
          /\ UNCHANGED reachabilityObservers
       \/ /\ ~reachable
          /\ stage' = [stage EXCEPT ![r] = "waiting"]
          /\ reachabilityObservers' = Append(reachabilityObservers, r)
    /\ UNCHANGED <<numberOfTries, canceled, plain, wrapped, completed, reachable, owed>>

Retry(r) == /\ owed = 0
            /\ stage[r] = "delayed"
            /\ Send(r)
            /\ UNCHANGED <<canceled, plain, wrapped, completed, network>>

-----------------------------------------------------------------------------
(* Waiting for the network.                                                *)

\* Any change is told, also one from a network that is up to another.
NetworkChanges(up) ==
    /\ owed = 0
    /\ up \/ reachable
    /\ reachable' = up
    /\ owed' = IF up /\ reachabilityObservers # <<>> THEN 1 ELSE 0
    /\ UNCHANGED <<request, reachabilityObservers>>

First == Head(reachabilityObservers)
MayWake == owed > 0 /\ reachable /\ reachabilityObservers # <<>>

\* Mutants of WakeNext: the block stays; a canceled request ends the chain.
WakeNextAgain ==
    \/ /\ MayWake
       /\ Send(First)
       /\ wrapped' = [wrapped EXCEPT ![First] = @ + 1]
       /\ owed' = owed - 1
       /\ UNCHANGED <<canceled, plain, completed, reachabilityObservers, reachable>>
    \/ /\ owed > 0
       /\ ~MayWake
       /\ owed' = 0
       /\ UNCHANGED <<request, reachabilityObservers, reachable>>
WakeNextStops ==
    \/ /\ MayWake
       /\ reachabilityObservers' = Tail(reachabilityObservers)
       /\ owed' = owed - 1
       /\ IF canceled[First]
          THEN /\ stage' = [stage EXCEPT ![First] = "dropped"]
               /\ UNCHANGED <<numberOfTries, wrapped>>
          ELSE /\ Send(First)
               /\ wrapped' = [wrapped EXCEPT ![First] = @ + 1]
       /\ UNCHANGED <<canceled, plain, completed, reachable>>
    \/ /\ owed > 0
       /\ ~MayWake
       /\ owed' = 0
       /\ UNCHANGED <<request, reachabilityObservers, reachable>>
\* wakeUpNextReachabilityServer: the first request is sent, and will wake the
\* next one; a canceled one is forgotten, and the next one woken at once.
WakeNext ==
    \/ /\ MayWake
       /\ ~canceled[First]
       /\ reachabilityObservers' = Tail(reachabilityObservers)
       /\ Send(First)
       /\ wrapped' = [wrapped EXCEPT ![First] = @ + 1]
       /\ owed' = owed - 1
       /\ UNCHANGED <<canceled, plain, completed, reachable>>
    \/ /\ MayWake
       /\ canceled[First]
       /\ reachabilityObservers' = Tail(reachabilityObservers)
       /\ stage' = [stage EXCEPT ![First] = "dropped"]
       /\ UNCHANGED <<numberOfTries, canceled, plain, wrapped, completed, reachable, owed>>
    \/ /\ owed > 0
       /\ ~MayWake
       /\ owed' = 0
       /\ UNCHANGED <<request, reachabilityObservers, reachable>>

\* Mutant of GiveUp: nothing is owed to a request that was canceled.
Without(i) == SubSeq(reachabilityObservers, 1, i - 1)
              \o SubSeq(reachabilityObservers, i + 1, Len(reachabilityObservers))
GiveUpIfNotCanceled(r) ==
    /\ owed = 0
    /\ ~canceled[r]
    /\ \E i \in DOMAIN reachabilityObservers :
          /\ reachabilityObservers[i] = r
          /\ reachabilityObservers' = Without(i)
    /\ Complete(r)
    /\ UNCHANGED <<numberOfTries, canceled, plain, reachable>>

\* The time for retries is over, and the network has not been back.
GiveUp(r) == /\ owed = 0
             /\ \E i \in DOMAIN reachabilityObservers :
                   /\ reachabilityObservers[i] = r
                   /\ reachabilityObservers' = Without(i)
             /\ Complete(r)
             /\ UNCHANGED <<numberOfTries, canceled, plain, reachable>>

-----------------------------------------------------------------------------
TokenAnswered(r) == TokenGiven(r) \/ TokenRefused(r)
Answered(r) == Ends(r) \/ TokenUnknown(r) \/ Limited(r) \/ NoResponse(r)

Next == \/ \E r \in Request : \/ Make(r) \/ Cancel(r)
                              \/ TokenAnswered(r) \/ Answered(r)
                              \/ Retry(r) \/ GiveUp(r)
        \/ \E up \in BOOLEAN : NetworkChanges(up)
        \/ WakeNext

\* The node or the time-out of the URL session ends every try, the token
\* provider answers, and the blocks that are dispatched run.
Fairness == /\ \A r \in Request : /\ WF_vars(TokenAnswered(r)) /\ WF_vars(Answered(r))
                                  /\ WF_vars(Retry(r)) /\ WF_vars(GiveUp(r))
            /\ WF_vars(WakeNext)

Spec == Init /\ [][Next]_vars
FairSpec == Spec /\ Fairness

-----------------------------------------------------------------------------
TypeOK == /\ stage \in [Request -> Stage]
          /\ numberOfTries \in [Request -> 0..(MaxSends + 1)]
          /\ canceled \in [Request -> BOOLEAN]
          /\ plain \in [Request -> BOOLEAN]
          /\ wrapped \in [Request -> Nat]
          /\ completed \in [Request -> Nat]
          /\ reachabilityObservers \in Seq(Request)
          /\ reachable \in BOOLEAN
          /\ owed \in Nat

\* A request completes once, through whichever of its blocks, timers and
\* observers comes first, unless it was canceled; it waits for the network in
\* one place at most, and nothing of it is left there once it completed.
Once == \A r \in Request :
            /\ completed[r] = IF stage[r] = "done" THEN 1 ELSE 0
            /\ stage[r] = "dropped" => canceled[r]
            /\ \A i, j \in DOMAIN reachabilityObservers :
                  reachabilityObservers[i] = r /\ reachabilityObservers[j] = r => i = j
            /\ stage[r] = "waiting" <=>
                  \E i \in DOMAIN reachabilityObservers : reachabilityObservers[i] = r

\* Requests do not wait for a network that is there: one that was woken is
\* still out, and its completion will wake the next.
NoneStranded == reachable /\ reachabilityObservers # <<>> /\ owed = 0 =>
                    \E r \in Request : stage[r] \in {"sent", "delayed"} /\ wrapped[r] > 0

\* A request that was canceled while it waited for the network is not sent.
CanceledNotWoken ==
    [][\A r \in Request : stage[r] = "waiting" /\ canceled[r]
                              => stage'[r] \in {"waiting", "done", "dropped"}]_vars

\* Every request that is made comes to an end.
Ended == \A r \in Request : stage[r] # "new" ~> stage[r] \in {"done", "dropped"}

=============================================================================
