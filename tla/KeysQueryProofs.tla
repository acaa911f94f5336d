---------------------------- MODULE KeysQueryProofs ----------------------------
(***************************************************************************)
(* What holds of MXKeysQueryScheduler for every set of calls and users:    *)
(* its types, one request in flight, answers that cover their calls, and   *)
(* that it implements the promise of KeysQuery (safety).                   *)
(***************************************************************************)
EXTENDS KeysQueryScheduler, TLAPS

(***************************************************************************)
(* The inductive invariant.  The actor names at most two live tasks, the   *)
(* current and the next one; the users it keeps for each are those of the  *)
(* calls that await it.                                                    *)
(***************************************************************************)
Live(t) == stage[t] \in {"first", "next", "querying"}
Awaiting(t) == {c \in Call : joined[c] = t}
UsersAwaiting(t) == UNION {asked[c] : c \in Awaiting(t)}

\* Only the current task runs or may run; the next one awaits it.
Tasks == /\ \A t \in Call : stage[t] \in {"first", "querying"} => t = current
         /\ \A t \in Call : stage[t] = "next" => t \in {current, nextTask}
         /\ current # None => Live(current)
         /\ nextTask # None => /\ current # None
                               /\ nextTask # current
                               /\ stage[nextTask] = "next"
                               /\ awaited[nextTask] = current

\* A task was created by its own call, and calls await tasks that exist.
Joins == /\ \A t \in Call : stage[t] # "none" => joined[t] = t
         /\ \A c \in Call : joined[c] # None => stage[joined[c]] # "none"

\* The users kept for a task are those of its calls.
Users == /\ nextTask = None => nextUsers = {}
         /\ nextTask # None => nextUsers = UsersAwaiting(nextTask)
         /\ current # None => currentUsers = UsersAwaiting(current)
         /\ \A t \in Call : stage[t] = "first" => asked[t] = currentUsers
         /\ current # None /\ stage[current] = "querying" =>
                queried[current] = currentUsers

\* A request that has ended asked for all the users of its calls.
Past == \A c \in Call : joined[c] # None /\ Ended(joined[c]) =>
                            asked[c] \subseteq queried[joined[c]]

IInv == TypeOK /\ Tasks /\ Joins /\ Users /\ Past

-----------------------------------------------------------------------------
LEMMA InitIInv == Init => IInv
BY NoneIsNoCall DEF Init, IInv, TypeOK, Tasks, Joins, Users, Past, Live, Ended,
      Awaiting, UsersAwaiting, Stage, Result

\* A call joins a task: its users and its task are set, nothing else it has.
LEMMA StartKeeps ==
    ASSUME IInv, NEW c \in Call, NEW users \in SUBSET User, StartQuery(c, users)
    PROVE  IInv'
<1> USE NoneIsNoCall DEF StartQuery, AwaitTask, IInv
<1>1. TypeOK'
  BY DEF TypeOK, Stage
<1>2. Tasks'
  BY DEF TypeOK, Tasks, Live, Stage
<1>3. Joins'
  BY DEF TypeOK, Joins, Stage
<1>4. Users'
  <2>1. stage[c] = "none" /\ nextTask = None
    BY DEF TypeOK, Joins, Tasks
  <2>2. \A d \in Call : joined[d] # c
    BY <2>1 DEF Joins, TypeOK
  <2>3. Awaiting(c)' = {c}
    BY <2>2 DEF TypeOK, Awaiting
  <2>4. UsersAwaiting(c)' = users
    BY <2>3 DEF TypeOK, UsersAwaiting
  <2>5. \A t \in Call : stage[t] = "first" => FALSE
    BY DEF Tasks
  <2> QED
    BY <2>1, <2>4, <2>5 DEF TypeOK, Users, Stage
<1>5. Past'
  <2>1. stage[c] = "none"
    BY DEF TypeOK, Joins
  <2> QED
    BY <2>1 DEF TypeOK, Past, Joins, Ended
<1> QED
  BY <1>1, <1>2, <1>3, <1>4, <1>5

LEMMA ShareKeeps ==
    ASSUME IInv, NEW c \in Call, NEW users \in SUBSET User, ShareCurrent(c, users)
    PROVE  IInv'
<1> USE NoneIsNoCall DEF ShareCurrent, AwaitTask, IInv
<1>1. TypeOK'
  BY DEF TypeOK, Stage
<1>2. Tasks'
  BY DEF TypeOK, Tasks, Live, Stage
<1>3. stage[c] = "none" /\ Live(current)
  BY DEF TypeOK, Joins, Tasks
<1>4. Joins'
  BY <1>3 DEF TypeOK, Joins, Live
<1>5. Users'
  <2>1. Awaiting(current)' = Awaiting(current) \cup {c}
    BY DEF TypeOK, Awaiting
  <2>2. UsersAwaiting(current)' = UsersAwaiting(current) \cup users
    <3>1. \A d \in Awaiting(current) : d # c /\ asked'[d] = asked[d]
      BY DEF Awaiting, TypeOK
    <3> QED
      BY <2>1, <3>1 DEF TypeOK, UsersAwaiting
  <2>3. nextTask # None => UsersAwaiting(nextTask)' = UsersAwaiting(nextTask)
    <3> SUFFICES ASSUME nextTask # None
                 PROVE  UsersAwaiting(nextTask)' = UsersAwaiting(nextTask)
      OBVIOUS
    <3>1. Awaiting(nextTask)' = Awaiting(nextTask) /\ c \notin Awaiting(nextTask)
      BY DEF TypeOK, Awaiting, Tasks
    <3>2. \A d \in Awaiting(nextTask) : asked'[d] = asked[d]
      BY <3>1 DEF TypeOK, Awaiting
    <3> QED
      BY <3>1, <3>2 DEF UsersAwaiting
  <2>4. \A t \in Call : stage[t] = "first" => asked'[t] = asked[t]
    BY <1>3 DEF TypeOK
  <2> QED
    BY <1>3, <2>2, <2>3, <2>4 DEF TypeOK, Users
<1>6. Past'
  BY <1>3 DEF TypeOK, Past, Live, Ended
<1> QED
  BY <1>1, <1>2, <1>4, <1>5, <1>6

LEMMA AwaitNextKeeps ==
    ASSUME IInv, NEW c \in Call, NEW users \in SUBSET User, AwaitNext(c, users)
    PROVE  IInv'
<1> USE NoneIsNoCall DEF AwaitNext, AwaitTask, WithNext, IInv
<1>1. /\ stage[c] = "none"
      /\ \A d \in Call : joined[d] # c
      /\ Live(current)
      /\ c # current
  BY DEF TypeOK, Joins, Tasks, Live
<1>2. nextTask' \in Call /\ nextTask' # current /\ stage'[nextTask'] = "next"
  BY <1>1 DEF TypeOK, Tasks
<1>3. TypeOK'
  BY DEF TypeOK, Stage
<1>4. Tasks'
  BY <1>1, <1>2 DEF TypeOK, Tasks, Live, Stage
<1>5. Joins'
  BY <1>1, <1>2 DEF TypeOK, Joins
<1>6. Users'
  <2>1. UsersAwaiting(nextTask)' = WithNext(users)
    <3>1. CASE nextTask = None
      <4>1. Awaiting(nextTask)' = {c}
        BY <1>1, <3>1 DEF TypeOK, Awaiting
      <4> QED
        BY <4>1, <3>1 DEF TypeOK, UsersAwaiting, Users
    <3>2. CASE nextTask # None
      <4>1. Awaiting(nextTask)' = Awaiting(nextTask) \cup {c}
        BY <3>2 DEF TypeOK, Awaiting
      <4>2. \A d \in Awaiting(nextTask) : d # c /\ asked'[d] = asked[d]
        BY <3>2 DEF Awaiting, TypeOK
      <4> QED
        BY <3>2, <4>1, <4>2 DEF TypeOK, UsersAwaiting, Users
    <3> QED
      BY <3>1, <3>2
  <2>2. UsersAwaiting(current)' = UsersAwaiting(current)
    <3>1. Awaiting(current)' = Awaiting(current) /\ c \notin Awaiting(current)
      BY <1>2 DEF TypeOK, Awaiting
    <3>2. \A d \in Awaiting(current) : asked'[d] = asked[d]
      BY <3>1 DEF TypeOK, Awaiting
    <3> QED
      BY <3>1, <3>2 DEF UsersAwaiting
  <2>3. \A t \in Call : stage'[t] = "first" => stage[t] = "first" /\ t # c
    BY <1>1 DEF TypeOK
  <2>4. stage'[current] = stage[current]
    BY <1>1 DEF TypeOK
  <2> QED
    BY <1>2, <2>1, <2>2, <2>3, <2>4 DEF TypeOK, Users
<1>7. Past'
  BY <1>1, <1>2 DEF TypeOK, Past, Ended
<1> QED
  BY <1>3, <1>4, <1>5, <1>6, <1>7

\* A task begins its request: it is the current one.
LEMMA RunKeeps ==
    ASSUME IInv, NEW t \in Call, RunFirst(t) \/ RunNext(t)
    PROVE  IInv' /\ t = current /\ queried'[t] = currentUsers
<1> USE NoneIsNoCall DEF RunFirst, RunNext, Awaited, IInv
<1>1. t = current
  BY DEF TypeOK, Tasks, Live, Ended
<1>2. queried'[t] = currentUsers
  BY DEF TypeOK, Users
<1>3. TypeOK'
  BY DEF TypeOK, Stage
<1>4. Tasks'
  BY <1>1 DEF TypeOK, Tasks, Live, Stage
<1>5. Joins'
  BY DEF TypeOK, Joins
<1>6. Users'
  <2>1. \A u : UsersAwaiting(u)' = UsersAwaiting(u)
    BY DEF UsersAwaiting, Awaiting
  <2>2. \A u \in Call : stage'[u] # "first"
    BY <1>1 DEF TypeOK, Tasks
  <2> QED
    BY <1>1, <1>2, <2>1, <2>2 DEF TypeOK, Users
<1>7. Past'
  BY DEF TypeOK, Past, Ended
<1> QED
  BY <1>1, <1>2, <1>3, <1>4, <1>5, <1>6, <1>7

LEMMA AnswerKeeps ==
    ASSUME IInv, NEW t \in Call, NEW outcome \in {"answered", "threw"},
           Answer(t, outcome)
    PROVE  IInv'
<1> USE NoneIsNoCall DEF Answer, IInv
<1>1. t = current
  BY DEF Tasks
<1>2. TypeOK'
  BY DEF TypeOK, Stage
<1>3. Tasks'
  BY <1>1 DEF TypeOK, Tasks, Live, Stage
<1>4. Joins'
  BY DEF TypeOK, Joins
<1>5. Users'
  <2>1. \A u : UsersAwaiting(u)' = UsersAwaiting(u)
    BY DEF UsersAwaiting, Awaiting
  <2>2. \A u \in Call : stage'[u] \notin {"first", "querying"}
    BY <1>1 DEF TypeOK, Tasks
  <2> QED
    BY <2>1, <2>2 DEF TypeOK, Users
<1>6. Past'
  <2> SUFFICES ASSUME NEW c \in Call, joined[c] = t
               PROVE  asked[c] \subseteq queried[t]
    BY DEF TypeOK, Past, Ended
  <2>1. queried[t] = UsersAwaiting(t)
    BY <1>1 DEF Users
  <2> QED
    BY <2>1 DEF UsersAwaiting, Awaiting
<1> QED
  BY <1>2, <1>3, <1>4, <1>5, <1>6

LEMMA UnchangedKeeps ==
    ASSUME IInv, UNCHANGED <<asked, joined, stage, awaited, queried,
                             current, currentUsers, nextTask, nextUsers>>,
           result' \in [Call -> Result]
    PROVE  IInv'
BY DEF IInv, TypeOK, Tasks, Live, Joins, Users, UsersAwaiting, Awaiting, Past, Ended

LEMMA NextIInv == IInv /\ [Next]_vars => IInv'
<1> SUFFICES ASSUME IInv, [Next]_vars PROVE IInv'
  OBVIOUS
<1>1. ASSUME NEW c \in Call, NEW users \in SUBSET User, Query(c, users)
      PROVE  IInv'
  BY <1>1, StartKeeps, ShareKeeps, AwaitNextKeeps DEF Query
<1>2. ASSUME NEW t \in Call, RunFirst(t) \/ RunNext(t) PROVE IInv'
  BY <1>2, RunKeeps
<1>3. ASSUME NEW t \in Call, Respond(t) PROVE IInv'
  BY <1>3, AnswerKeeps DEF Respond
<1>4. ASSUME NEW c \in Call, Return(c) PROVE IInv'
  <2>1. result' \in [Call -> Result]
    BY <1>4 DEF Return, IInv, TypeOK, Result
  <2> QED
    BY <1>4, <2>1, UnchangedKeeps DEF Return
<1>5. CASE UNCHANGED vars
  BY <1>5, UnchangedKeeps DEF vars, IInv, TypeOK
<1> QED
  BY <1>1, <1>2, <1>3, <1>4, <1>5 DEF Next

LEMMA Inductive == Spec => []IInv
BY InitIInv, NextIInv, PTL DEF Spec

\* The types of the scheduler's state, for any set of calls and users.
THEOREM SchedulerTyped == Spec => []TypeOK
BY Inductive, PTL DEF IInv

\* The actor never has two keys/query requests in flight.
THEOREM OneRequest == Spec => []OneInFlight
<1>1. IInv => OneInFlight
  BY DEF IInv, Tasks, OneInFlight
<1> QED
  BY <1>1, Inductive, PTL

\* The answer a call gets is that of a request for all its users.
THEOREM AnswersCover == Spec => []Covered
<1>1. IInv => Covered
  <2> SUFFICES ASSUME IInv, NEW c \in Call, joined[c] # None,
                      stage[joined[c]] = "querying"
               PROVE  asked[c] \subseteq queried[joined[c]]
    BY DEF IInv, Past, Covered
  <2>1. joined[c] \in Call /\ joined[c] = current
    BY DEF IInv, TypeOK, Tasks
  <2>2. queried[joined[c]] = UsersAwaiting(joined[c])
    BY <2>1 DEF IInv, Users
  <2> QED
    BY <2>2 DEF UsersAwaiting, Awaiting
<1> QED
  BY <1>1, Inductive, PTL

-----------------------------------------------------------------------------
(* The steps of the scheduler are steps of KeysQuery, or change nothing of *)
(* it: joining is Ask, starting a request Launch, the answer Finish.       *)

LEMMA PhaseCases ==
    ASSUME IInv, NEW c \in Call
    PROVE  /\ joined[c] = None => Phase(c) = "idle"
           /\ joined[c] # None =>
                /\ Ended(joined[c]) => Phase(c) = "over"
                /\ stage[joined[c]] = "querying" => Phase(c) = "carried"
                /\ stage[joined[c]] \in {"first", "next"} =>
                      Phase(c) = IF joined[c] = current THEN "due" ELSE "waiting"
                /\ stage[joined[c]] \in {"first", "next", "querying", "answered", "threw"}
BY DEF IInv, TypeOK, Joins, Stage, Phase, Ended

LEMMA QueryAsks ==
    ASSUME IInv, NEW c \in Call, NEW users \in SUBSET User, Query(c, users)
    PROVE  Promise!Ask(c, users)
<1>1. IInv'
  BY StartKeeps, ShareKeeps, AwaitNextKeeps DEF Query
<1>2. /\ joined[c] = None /\ asked' = [asked EXCEPT ![c] = users]
      /\ joined' \in [Call -> Call \cup {None}]
      /\ \A d \in Call : d # c => joined'[d] = joined[d]
  BY NoneIsNoCall DEF Query, StartQuery, ShareCurrent, AwaitNext, AwaitTask, IInv, TypeOK
<1>3. /\ Phase(c) = "idle"
      /\ stage[c] = "none"
      /\ \A d \in Call : joined[d] # c
  BY <1>2, PhaseCases, NoneIsNoCall DEF IInv, Joins, TypeOK
<1>4. ASSUME NEW d \in Call, d # c PROVE Phase(d)' = Phase(d)
  <2>1. joined'[d] = joined[d]
    BY <1>2, <1>4
  <2>2. CASE joined[d] = None
    BY <2>1, <2>2, <1>1, PhaseCases DEF Phase
  <2>3. CASE joined[d] # None
    <3>1. joined[d] \in Call /\ joined[d] # c
      BY <1>3, <2>3 DEF IInv, TypeOK
    <3>2. stage'[joined[d]] = stage[joined[d]]
      BY <3>1 DEF Query, StartQuery, ShareCurrent, AwaitNext, IInv, TypeOK
    <3>3. stage[joined[d]] \in {"first", "next"} => current' = current
      BY <3>1, NoneIsNoCall DEF Query, StartQuery, ShareCurrent, AwaitNext, IInv, Tasks
    <3> QED
      BY <2>1, <2>3, <3>2, <3>3 DEF Phase, Ended
  <2> QED
    BY <2>2, <2>3
<1>5. Busy' = Busy /\ (Busy => queried'[current'] = queried[current] /\ queried[current] = currentUsers)
  BY <1>3, NoneIsNoCall DEF Busy, Query, StartQuery, ShareCurrent, AwaitNext, AwaitTask,
       IInv, TypeOK, Tasks, Users
<1>6. /\ Phase(c)' \in {"waiting", "due", "carried"}
      /\ Phase(c)' = "carried" => Busy /\ users \subseteq currentUsers
      /\ Phase(c)' = "due" => ~Busy
      /\ Phase(c)' = "waiting" => current # None
  <2>1. CASE StartQuery(c, users)
    <3>1. joined'[c] = c /\ current' = c /\ stage'[c] = "first" /\ current = None
      BY <2>1 DEF StartQuery, AwaitTask, IInv, TypeOK
    <3> QED
      BY <3>1, NoneIsNoCall DEF Phase, Ended, Busy
  <2>2. CASE ShareCurrent(c, users)
    <3>1. /\ joined'[c] = current /\ current' = current /\ current # None
          /\ stage' = stage /\ users \subseteq currentUsers /\ Live(current)
      BY <2>2 DEF ShareCurrent, AwaitTask, IInv, TypeOK, Tasks
    <3> QED
      BY <3>1 DEF Phase, Ended, Busy, Live
  <2>3. CASE AwaitNext(c, users)
    <3>1. /\ joined'[c] = nextTask' /\ current' = current /\ current # None
          /\ nextTask' # None /\ nextTask' # current' /\ stage'[nextTask'] = "next"
      BY <2>3, <1>1, NoneIsNoCall DEF AwaitNext, AwaitTask, IInv, TypeOK, Tasks
    <3> QED
      BY <3>1 DEF Phase, Ended
  <2> QED
    BY <2>1, <2>2, <2>3 DEF Query
<1>7. ASSUME current # None, ~Busy
      PROVE  \E d \in Call : Phase(d) = "due"
  <2>1. current \in Call /\ stage[current] \in {"first", "next"}
    BY <1>7 DEF Busy, IInv, TypeOK, Tasks, Live
  <2>2. joined[current] = current
    BY <2>1 DEF IInv, Joins
  <2> QED
    BY <2>1, <2>2, <1>7, PhaseCases
<1>8. [d \in Call |-> Phase(d)]' = [[d \in Call |-> Phase(d)] EXCEPT ![c] = Phase(c)']
  BY <1>4
<1>9. (IF Busy THEN queried[current] ELSE {})' = IF Busy THEN queried[current] ELSE {}
  BY <1>5
<1>10. Promise!In("due") = {d \in Call : Phase(d) = "due"}
  BY DEF Promise!In
<1> QED
  BY <1>2, <1>3, <1>5, <1>6, <1>7, <1>8, <1>9, <1>10 DEF Promise!Ask

LEMMA RunLaunches ==
    ASSUME IInv, NEW t \in Call, RunFirst(t) \/ RunNext(t)
    PROVE  Promise!Launch
<1>1. IInv' /\ t = current /\ queried'[t] = currentUsers
  BY RunKeeps
<1>2. /\ stage[t] \in {"first", "next"} /\ stage' = [stage EXCEPT ![t] = "querying"]
      /\ UNCHANGED <<asked, joined, current>>
  BY DEF RunFirst, RunNext
<1>3. ~Busy /\ Busy'
  BY <1>1, <1>2, NoneIsNoCall DEF Busy, IInv, TypeOK
<1>4. ASSUME NEW d \in Call
      PROVE  /\ Phase(d) = "due" <=> joined[d] = t
             /\ Phase(d)' = IF Phase(d) = "due" THEN "carried" ELSE Phase(d)
  <2>1. CASE joined[d] = None
    BY <2>1, <1>1, <1>2, NoneIsNoCall, PhaseCases DEF Phase
  <2>2. CASE joined[d] = t
    <3>1. joined'[d] = t /\ stage'[t] = "querying" /\ t # None
      BY <1>2, <2>2, NoneIsNoCall DEF IInv, TypeOK
    <3> QED
      BY <1>1, <1>2, <2>2, <3>1, PhaseCases DEF Phase, Ended
  <2>3. CASE joined[d] \notin {None, t}
    <3>1. joined[d] \in Call /\ stage'[joined[d]] = stage[joined[d]]
      BY <1>2, <2>3 DEF IInv, TypeOK
    <3>2. Phase(d)' = Phase(d)
      BY <1>2, <3>1 DEF Phase, Ended
    <3> QED
      BY <1>1, <2>3, <3>2, PhaseCases DEF Ended
  <2> QED
    BY <2>1, <2>2, <2>3
<1>5. Promise!In("due") = Awaiting(t)
  BY <1>4 DEF Promise!In, Awaiting
<1>6. t \in Awaiting(t)
  BY <1>2 DEF IInv, Joins, Awaiting
<1>7. Promise!UsersOf(Awaiting(t)) = currentUsers
  BY <1>1, NoneIsNoCall DEF Promise!UsersOf, UsersAwaiting, IInv, Users
<1>8. (IF Busy THEN queried[current] ELSE {})' = currentUsers
  BY <1>1, <1>2, <1>3
<1> QED
  BY <1>2, <1>3, <1>4, <1>5, <1>6, <1>7, <1>8 DEF Promise!Launch

LEMMA AnswerFinishes ==
    ASSUME IInv, NEW t \in Call, Respond(t)
    PROVE  Promise!Finish
<1> PICK outcome \in {"answered", "threw"} : Answer(t, outcome)
  BY DEF Respond
<1>1. /\ t = current /\ t # None /\ stage[t] = "querying"
      /\ UNCHANGED <<asked, joined>>
      /\ current' = nextTask
      /\ stage' = [stage EXCEPT ![t] = outcome]
  BY NoneIsNoCall DEF Answer, IInv, Tasks
<1>2. Busy /\ ~Busy'
  BY <1>1 DEF Busy, IInv, TypeOK, Tasks
<1>3. ASSUME NEW d \in Call
      PROVE  Phase(d)' = CASE Phase(d) = "carried" -> "over"
                           [] Phase(d) = "waiting" -> "due"
                           [] OTHER -> Phase(d)
  <2>1. CASE joined[d] = None
    BY <2>1, <1>1 DEF Phase
  <2>2. CASE joined[d] = t
    <3>1. Phase(d) = "carried"
      BY <1>1, <2>2, PhaseCases
    <3>2. joined'[d] = t /\ stage'[t] = outcome
      BY <1>1, <2>2 DEF IInv, TypeOK
    <3>3. Phase(d)' = "over"
      BY <1>1, <3>2 DEF Phase, Ended
    <3> QED
      BY <3>1, <3>3
  <2>3. CASE joined[d] \notin {None, t}
    <3>1. /\ joined[d] \in Call /\ stage'[joined[d]] = stage[joined[d]]
          /\ joined'[d] = joined[d]
      BY <1>1, <2>3 DEF IInv, TypeOK
    <3>2. CASE Ended(joined[d])
      <4>1. Phase(d) = "over" /\ Phase(d)' = "over"
        BY <2>3, <3>1, <3>2 DEF Phase, Ended
      <4> QED
        BY <4>1
    <3>3. CASE ~Ended(joined[d])
      <4>1. stage[joined[d]] = "next" /\ joined[d] = nextTask
        BY <1>1, <2>3, <3>1, <3>3, PhaseCases DEF IInv, Tasks, Ended
      <4>2. Phase(d) = "waiting" /\ Phase(d)' = "due"
        BY <1>1, <2>3, <3>1, <4>1 DEF Phase, Ended
      <4> QED
        BY <4>2
    <3> QED
      BY <3>2, <3>3
  <2> QED
    BY <2>1, <2>2, <2>3
<1> QED
  BY <1>1, <1>2, <1>3 DEF Promise!Finish

\* The scheduler implements KeysQuery: a request asks for exactly the users of
\* its calls, and a call waits for at most two requests.
THEOREM Implements == Spec => Promise!Init /\ [][Promise!Next]_(Promise!vars)
<1>1. Init => Promise!Init
  BY DEF Init, Promise!Init, Phase, Busy
<1>2. IInv /\ [Next]_vars => [Promise!Next]_(Promise!vars)
  <2> SUFFICES ASSUME IInv, [Next]_vars PROVE [Promise!Next]_(Promise!vars)
    OBVIOUS
  <2>1. ASSUME NEW c \in Call, NEW users \in SUBSET User, Query(c, users)
        PROVE  Promise!Next
    BY <2>1, QueryAsks DEF Promise!Next
  <2>2. ASSUME NEW t \in Call, RunFirst(t) \/ RunNext(t) PROVE Promise!Next
    BY <2>2, RunLaunches DEF Promise!Next
  <2>3. ASSUME NEW t \in Call, Respond(t) PROVE Promise!Next
    BY <2>3, AnswerFinishes DEF Promise!Next
  <2>4. ASSUME UNCHANGED <<asked, joined, stage, queried, current>>
        PROVE  UNCHANGED Promise!vars
    BY <2>4 DEF Promise!vars, Phase, Busy, Ended
  <2> QED
    BY <2>1, <2>2, <2>3, <2>4 DEF Next, Return, vars
<1> QED
  BY <1>1, <1>2, Inductive, PTL DEF Spec
=============================================================================
