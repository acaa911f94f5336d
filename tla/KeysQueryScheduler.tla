-------------------------- MODULE KeysQueryScheduler --------------------------
(***************************************************************************)
(* MXKeysQueryScheduler: an actor that keeps one keys/query request in     *)
(* flight and puts the users of all later calls into the next one.         *)
(*                                                                         *)
(* A call of query(users:) awaits a Swift task: the current one, the next  *)
(* one, or one that it creates.  A task is named after the call that       *)
(* created it.  The actor runs one step at a time and is free while a task *)
(* awaits the one before it or the answer of the node.                     *)
(***************************************************************************)
EXTENDS FiniteSets

CONSTANTS
    Call,               \* the calls of query(users:), each made once
    User,
    None                \* nil

ASSUME NoneIsNoCall == None \notin Call

VARIABLES
    asked,              \* the users each call asks for
    joined,             \* the task each call awaits
    stage,              \* where each task is
    awaited,            \* the task that each next task awaits first
    queried,            \* the users of the request of each task
    result,             \* what each call returned with
    current,            \* the task of currentQuery, or None
    currentUsers,       \* the users of currentQuery
    nextTask,
    nextUsers

vars == <<asked, joined, stage, awaited, queried, result,
          current, currentUsers, nextTask, nextUsers>>

Stage == {"none", "first", "next", "querying", "answered", "threw"}
Result == {"none", "response", "error"}

Init == /\ asked = [c \in Call |-> {}]
        /\ joined = [c \in Call |-> None]
        /\ stage = [c \in Call |-> "none"]
        /\ awaited = [c \in Call |-> None]
        /\ queried = [c \in Call |-> {}]
        /\ result = [c \in Call |-> "none"]
        /\ current = None
        /\ currentUsers = {}
        /\ nextTask = None
        /\ nextUsers = {}

-----------------------------------------------------------------------------
(* currentOrNextQuery(users:), one step of the actor.                      *)

Ended(t) == stage[t] \in {"answered", "threw"}

AwaitTask(c, users, t) == /\ joined[c] = None
                          /\ asked' = [asked EXCEPT ![c] = users]
                          /\ joined' = [joined EXCEPT ![c] = t]
                          /\ UNCHANGED <<queried, result>>

\* Nothing is ongoing: the call's own task is the current query.
StartQuery(c, users) ==
    /\ current = None
    /\ AwaitTask(c, users, c)
    /\ stage' = [stage EXCEPT ![c] = "first"]
    /\ current' = c
    /\ currentUsers' = users
    /\ UNCHANGED <<awaited, nextTask, nextUsers>>

\* The current query has all the users: its task is shared.
ShareCurrent(c, users) ==
    /\ current # None
    /\ users \subseteq currentUsers
    /\ AwaitTask(c, users, current)
    /\ UNCHANGED <<stage, awaited, current, currentUsers, nextTask, nextUsers>>

\* Mutants of WithNext: the users replace the others; they are added as one.
OnlyLast(users) == users
Nested(users) == nextUsers \cup {users}

\* The users of the next query with those of one more call.
WithNext(users) == nextUsers \cup users

\* The users join those of the next query, whose task the first of its calls
\* creates.
AwaitNext(c, users) ==
    /\ current # None
    /\ ~(users \subseteq currentUsers)
    /\ nextUsers' = WithNext(users)
    /\ \/ /\ nextTask = None
          /\ nextTask' = c
          /\ stage' = [stage EXCEPT ![c] = "next"]
          /\ awaited' = [awaited EXCEPT ![c] = current]
       \/ /\ nextTask # None
          /\ UNCHANGED <<nextTask, stage, awaited>>
    /\ AwaitTask(c, users, nextTask')
    /\ UNCHANGED <<current, currentUsers>>

Query(c, users) == \/ StartQuery(c, users)
                   \/ ShareCurrent(c, users)
                   \/ AwaitNext(c, users)

-----------------------------------------------------------------------------
(* The tasks.                                                              *)

\* The task created when nothing was ongoing queries its call's users.
RunFirst(t) == /\ stage[t] = "first"
               /\ stage' = [stage EXCEPT ![t] = "querying"]
               /\ queried' = [queried EXCEPT ![t] = asked[t]]
               /\ UNCHANGED <<asked, joined, awaited, result, current, currentUsers,
                              nextTask, nextUsers>>

\* Mutants of Awaited: the task does not await, or awaits only a success.
AwaitsNothing(t) == TRUE
AwaitsAnswer(t) == stage[awaited[t]] = "answered"

\* `await currentQuery.task.result` resumes, whatever the result.
Awaited(t) == Ended(awaited[t])

\* A next task has awaited the task that was current when it was created, and
\* takes the users of whatever query is current by now.
RunNext(t) == /\ stage[t] = "next"
              /\ Awaited(t)
              /\ stage' = [stage EXCEPT ![t] = "querying"]
              /\ queried' = [queried EXCEPT ![t] = currentUsers]
              /\ UNCHANGED <<asked, joined, awaited, result, current, currentUsers,
                             nextTask, nextUsers>>

\* Mutant: the users of the next query are not reset.
AnswerKeepsUsers(t, outcome) ==
    /\ stage[t] = "querying"
    /\ stage' = [stage EXCEPT ![t] = outcome]
    /\ current' = nextTask
    /\ currentUsers' = IF nextTask = None THEN {} ELSE nextUsers
    /\ nextTask' = None
    /\ nextUsers' = nextUsers
    /\ UNCHANGED <<asked, joined, awaited, queried, result>>

\* executeQuery(users:) resumes with the node's answer, or its failure, and
\* its deferred block promotes the next query.
Answer(t, outcome) ==
    /\ stage[t] = "querying"
    /\ stage' = [stage EXCEPT ![t] = outcome]
    /\ current' = nextTask
    /\ currentUsers' = IF nextTask = None THEN {} ELSE nextUsers
    /\ nextTask' = None
    /\ nextUsers' = {}
    /\ UNCHANGED <<asked, joined, awaited, queried, result>>

Respond(t) == \E outcome \in {"answered", "threw"} : Answer(t, outcome)

\* `task.value` resumes a call.
Return(c) == /\ result[c] = "none"
             /\ joined[c] # None
             /\ Ended(joined[c])
             /\ result' = [result EXCEPT ![c] =
                     IF stage[joined[c]] = "answered" THEN "response" ELSE "error"]
             /\ UNCHANGED <<asked, joined, stage, awaited, queried,
                            current, currentUsers, nextTask, nextUsers>>

Next == \/ \E c \in Call, users \in SUBSET User : Query(c, users)
        \/ \E t \in Call : RunFirst(t) \/ RunNext(t)
        \/ \E t \in Call : Respond(t)
        \/ \E c \in Call : Return(c)

Spec == Init /\ [][Next]_vars

\* Swift runs the tasks that are ready, and the HTTP client answers or fails.
FairSpec == Spec /\ \A c \in Call : /\ WF_vars(RunFirst(c))
                                   /\ WF_vars(RunNext(c))
                                   /\ WF_vars(Respond(c))
                                   /\ WF_vars(Return(c))

-----------------------------------------------------------------------------
TypeOK == /\ asked \in [Call -> SUBSET User]
          /\ joined \in [Call -> Call \cup {None}]
          /\ stage \in [Call -> Stage]
          /\ awaited \in [Call -> Call \cup {None}]
          /\ queried \in [Call -> SUBSET User]
          /\ result \in [Call -> Result]
          /\ current \in Call \cup {None}
          /\ currentUsers \in SUBSET User
          /\ nextTask \in Call \cup {None}
          /\ nextUsers \in SUBSET User

\* One request is in flight at any point in time.
OneInFlight == \A s, t \in Call :
                   stage[s] = "querying" /\ stage[t] = "querying" => s = t

\* The request whose answer a call gets asked for all the users of the call:
\* a next task finds its own users although it looks them up only once it
\* runs, with more calls in between.
Covered == \A c \in Call :
               /\ joined[c] # None
               /\ stage[joined[c]] = "querying" \/ Ended(joined[c])
               => asked[c] \subseteq queried[joined[c]]

\* Every call returns, whatever the requests before its own came to.
Returned == \A c \in Call : joined[c] # None ~> result[c] # "none"

-----------------------------------------------------------------------------
(* The scheduler implements KeysQuery.                                     *)

Phase(c) == CASE joined[c] = None -> "idle"
              [] joined[c] # None /\ Ended(joined[c]) -> "over"
              [] joined[c] # None /\ stage[joined[c]] = "querying" -> "carried"
              [] joined[c] # None /\ stage[joined[c]] \in {"first", "next"} ->
                     IF joined[c] = current THEN "due" ELSE "waiting"

Busy == current # None /\ stage[current] = "querying"

Promise == INSTANCE KeysQuery
               WITH phase <- [c \in Call |-> Phase(c)],
                    batch <- IF Busy THEN queried[current] ELSE {},
                    busy <- Busy

\* A request asks for exactly the users of its calls, and a call waits for at
\* most the request under way and the one after it.
Promised == Promise!Spec
=============================================================================
