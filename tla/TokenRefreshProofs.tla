-------------------------- MODULE TokenRefreshProofs --------------------------
(***************************************************************************)
(* What holds of the token refresh for all processes, requests, expiries   *)
(* and crashes: no token is used that is not persisted, a token is         *)
(* refreshed once, a refused request is sent again with another token, and *)
(* the refresh group is left, if no client is closed while it refreshes.   *)
(***************************************************************************)
EXTENDS TokenRefresh, SequenceTheorems, TLAPS

\* The types, without what the group's count needs.
Typed == /\ issued \in Nat /\ seen \in Nat /\ aged \in Nat /\ dead \in Nat /\ disk \in Nat
         /\ lock \in Request \cup {NoRequest}
         /\ mem \in [Process -> Nat]
         /\ queue \in [Process -> Seq(Request)]
         /\ group \in [Process -> {0, 1}]
         /\ stage \in [Request -> Stage]
         /\ refused \in [Request -> BOOLEAN]
         /\ carried \in [Request -> Nat] /\ got \in [Request -> Nat]
         /\ closed \in SUBSET Request
         /\ faults \in 0..MaxFaults

\* The group of a process is entered for one request.
Grouped == /\ \A r \in Request : stage[r] \in InGroup => group[ProcessOf[r]] = 1
           /\ \A p \in Process : group[p] = 1 =>
                  \E r \in Request : ProcessOf[r] = p /\ stage[r] \in InGroup
           /\ \A r, s \in Request :
                  stage[r] \in InGroup /\ stage[s] \in InGroup /\ ProcessOf[r] = ProcessOf[s]
                      => r = s

\* A refresh has the persisted credentials from the request to its answer.
Locked == \A r \in Request :
             /\ stage[r] \in Asking => lock = r
             /\ stage[r] = "asked" => disk < aged
             /\ stage[r] = "granted" => disk < got[r]

\* What is in memory, what was sent, and what the node has seen, is not newer
\* than what is persisted.
Ordered == /\ seen <= disk /\ disk <= issued /\ dead <= aged
           /\ \A p \in Process : mem[p] <= disk
           /\ \A r \in Request : carried[r] <= disk /\ got[r] <= issued

\* The token of a refused request is of no more use, and it gets another one.
Replaced == \A r \in Request : refused[r] =>
               /\ stage[r] # "new"
               /\ stage[r] \in {"queued"} \cup InGroup => carried[r] < dead \/ carried[r] < seen
               /\ stage[r] = "given" => carried[r] < mem[ProcessOf[r]]

ClosedLate == Careful => \A r \in closed : stage[r] \notin Asking

\* The refresh queue of a process holds the requests that ask it, once each.
Lined == \A p \in Process : \A i, j \in DOMAIN queue[p] :
             /\ stage[queue[p][i]] = "queued" /\ ProcessOf[queue[p][i]] = p
             /\ queue[p][i] = queue[p][j] => i = j

IInv == Typed /\ Lined /\ Grouped /\ Locked /\ Ordered /\ Replaced /\ ClosedLate

-----------------------------------------------------------------------------

LEMMA Popped ==
    ASSUME NEW s \in Seq(Request), s # <<>>
    PROVE  /\ Tail(s) \in Seq(Request) /\ Head(s) = s[1] /\ Head(s) \in Request
           /\ 1 \in DOMAIN s
           /\ \A i \in DOMAIN Tail(s) : /\ i \in Nat \ {0} /\ i + 1 \in DOMAIN s
                                       /\ Tail(s)[i] = s[i + 1]
<1>1. Len(s) \in Nat \ {0} /\ DOMAIN s = 1..Len(s)
  OBVIOUS
<1>2. /\ Tail(s) \in Seq(Request) /\ Head(s) \in Request /\ Head(s) = s[1]
      /\ Len(Tail(s)) = Len(s) - 1
      /\ \A i \in 1..Len(Tail(s)) : Tail(s)[i] = s[i + 1]
  BY HeadTailProperties
<1>3. DOMAIN Tail(s) = 1..(Len(s) - 1)
  BY <1>2
<1> QED
  BY <1>1, <1>2, <1>3

LEMMA Pushed ==
    ASSUME NEW s \in Seq(Request), NEW r \in Request
    PROVE  /\ Append(s, r) \in Seq(Request)
           /\ DOMAIN Append(s, r) = DOMAIN s \cup {Len(s) + 1}
           /\ Len(s) + 1 \notin DOMAIN s
           /\ Append(s, r)[Len(s) + 1] = r
           /\ \A i \in DOMAIN s : Append(s, r)[i] = s[i]
BY AppendProperties

\* A request that leaves the group, and one that enters it.
LEMMA LeaveGroup ==
    ASSUME Typed, Grouped, NEW r \in Request, stage[r] \in InGroup,
           NEW s \in Stage \ InGroup, Leave(r), Becomes(r, s)
    PROVE  Grouped' /\ group' \in [Process -> {0, 1}] /\ stage' \in [Request -> Stage]
<1>1. ProcessOf[r] \in Process /\ group[ProcessOf[r]] = 1
  BY Sharing DEF Grouped
<1>2. group' = [group EXCEPT ![ProcessOf[r]] = 0]
  BY <1>1 DEF Leave, Typed
<1>3. group' \in [Process -> {0, 1}] /\ stage' \in [Request -> Stage]
  BY <1>2 DEF Typed, Becomes
<1>4. /\ stage'[r] = s
      /\ \A q \in Request : q # r => stage'[q] = stage[q]
  BY DEF Typed, Becomes
<1>5. ASSUME NEW q \in Request, stage'[q] \in InGroup
      PROVE  stage[q] \in InGroup /\ q # r /\ ProcessOf[q] # ProcessOf[r]
  BY <1>4, <1>5 DEF Grouped
<1>6. \A q \in Request : stage'[q] \in InGroup => group'[ProcessOf[q]] = 1
  BY <1>2, <1>5, Sharing DEF Grouped, Typed
<1>7. ASSUME NEW p \in Process, group'[p] = 1
      PROVE  \E q \in Request : ProcessOf[q] = p /\ stage'[q] \in InGroup
  <2>1. p # ProcessOf[r] /\ group[p] = 1
    BY <1>1, <1>2, <1>7 DEF Typed
  <2> QED
    BY <1>4, <2>1 DEF Grouped
<1>8. ASSUME NEW q \in Request, NEW t \in Request, stage'[q] \in InGroup,
             stage'[t] \in InGroup, ProcessOf[q] = ProcessOf[t]
      PROVE  q = t
  BY <1>5, <1>8 DEF Grouped
<1> QED
  BY <1>3, <1>6, <1>7, <1>8 DEF Grouped

LEMMA StayOut ==
    ASSUME Typed, Grouped, UNCHANGED group,
           \A q \in Request : stage'[q] \in InGroup <=> stage[q] \in InGroup
    PROVE  Grouped'
BY DEF Grouped

\* A step that only moves one request, outside or inside the group.
LEMMA Moves ==
    ASSUME Typed, Grouped, UNCHANGED group, NEW r \in Request, NEW s \in Stage, Becomes(r, s),
           stage[r] \in InGroup <=> s \in InGroup
    PROVE  /\ Grouped' /\ stage' \in [Request -> Stage] /\ stage'[r] = s
           /\ \A q \in Request : q # r => stage'[q] = stage[q]
<1>1. /\ stage' \in [Request -> Stage] /\ stage'[r] = s
      /\ \A q \in Request : q # r => stage'[q] = stage[q]
  BY DEF Typed, Becomes
<1> QED
  BY <1>1, StayOut

LEMMA EnterGroup ==
    ASSUME Typed, Grouped, NEW r \in Request, stage[r] \notin InGroup, group[ProcessOf[r]] = 0,
           group' = [group EXCEPT ![ProcessOf[r]] = 1], Becomes(r, "refreshing")
    PROVE  Grouped' /\ group' \in [Process -> {0, 1}] /\ stage' \in [Request -> Stage]
<1>1. ProcessOf[r] \in Process
  BY Sharing
<1>2. group' \in [Process -> {0, 1}] /\ stage' \in [Request -> Stage]
  BY DEF Typed, Becomes, Stage, InGroup
<1>3. /\ stage'[r] = "refreshing" /\ "refreshing" \in InGroup
      /\ \A q \in Request : q # r => stage'[q] = stage[q]
  BY DEF Typed, Becomes, InGroup
<1>4. ASSUME NEW q \in Request, stage'[q] \in InGroup, q # r
      PROVE  stage[q] \in InGroup /\ ProcessOf[q] # ProcessOf[r]
  BY <1>3, <1>4 DEF Grouped
<1>5. \A q \in Request : stage'[q] \in InGroup => group'[ProcessOf[q]] = 1
  BY <1>1, <1>4, Sharing DEF Grouped, Typed
<1>6. ASSUME NEW p \in Process, group'[p] = 1
      PROVE  \E q \in Request : ProcessOf[q] = p /\ stage'[q] \in InGroup
  <2>1. CASE p = ProcessOf[r]
    BY <1>3, <2>1
  <2>2. CASE p # ProcessOf[r]
    <3>1. group[p] = 1
      BY <1>6, <2>2 DEF Typed
    <3> QED
      BY <1>3, <2>2, <3>1 DEF Grouped
  <2> QED
    BY <2>1, <2>2
<1>7. ASSUME NEW q \in Request, NEW t \in Request, stage'[q] \in InGroup,
             stage'[t] \in InGroup, ProcessOf[q] = ProcessOf[t]
      PROVE  q = t
  BY <1>4, <1>7 DEF Grouped
<1> QED
  BY <1>2, <1>5, <1>6, <1>7 DEF Grouped

-----------------------------------------------------------------------------
\* The stages are different strings.
LEMMA Stages ==
    /\ InGroup \subseteq Stage /\ Asking \subseteq InGroup
    /\ {"new", "queued", "given", "sent", "done", "failed", "forgotten"} \subseteq Stage \ InGroup
    /\ "refreshing" \in InGroup \ Asking /\ "unauthenticated" \in InGroup \ Asking
    /\ Asking = {"asked", "granted", "denied", "lost"}
BY DEF Stage, InGroup, Asking, Ended

LEMMA InitInv == Init => IInv
<1> SUFFICES ASSUME Init PROVE IInv
  OBVIOUS
<1> USE DEF Init
<1>1. Typed
  <2>1. <<>> \in Seq(Request)
    OBVIOUS
  <2> QED
    BY <2>1, Sharing, Stages DEF Typed
<1>2. Grouped /\ Locked
  <2>1. \A r \in Request : stage[r] \notin InGroup
    BY Stages
  <2>2. ASSUME NEW p \in Process PROVE group[p] = 0
    OBVIOUS
  <2> QED
    BY <2>1, <2>2, Stages DEF Grouped, Locked
<1>3. Ordered /\ Replaced /\ ClosedLate
  BY Stages DEF Ordered, Replaced, ClosedLate
<1>4. Lined
  BY DEF Lined
<1> QED
  BY <1>1, <1>2, <1>3, <1>4 DEF IInv

LEMMA Queued ==
    ASSUME Typed, Lined, NEW r \in Request, Ask(r), stage[r] # "queued"
    PROVE  queue' \in [Process -> Seq(Request)] /\ Lined'
<1> DEFINE q == queue[ProcessOf[r]]
           n == Len(q) + 1
<1>1. ProcessOf[r] \in Process
  BY Sharing
<1>2. q \in Seq(Request)
  BY <1>1 DEF Typed
<1>3. /\ Append(q, r) \in Seq(Request) /\ DOMAIN Append(q, r) = DOMAIN q \cup {n}
      /\ n \notin DOMAIN q /\ Append(q, r)[n] = r
      /\ \A i \in DOMAIN q : Append(q, r)[i] = q[i]
  BY <1>2, Pushed
<1>4. /\ queue' \in [Process -> Seq(Request)] /\ queue'[ProcessOf[r]] = Append(q, r)
      /\ \A p \in Process : p # ProcessOf[r] => queue'[p] = queue[p]
  BY <1>1, <1>3 DEF Typed, Ask
<1>5. /\ stage'[r] = "queued"
      /\ \A x \in Request : x # r => stage'[x] = stage[x]
  BY DEF Ask, Becomes, Typed
<1>6. \A p \in Process : \A i \in DOMAIN queue[p] : queue[p][i] \in Request /\ queue[p][i] # r
  BY DEF Lined, Typed
<1> HIDE DEF q, n
<1>7. ASSUME NEW p \in Process, NEW i \in DOMAIN queue'[p], NEW j \in DOMAIN queue'[p]
      PROVE  /\ stage'[queue'[p][i]] = "queued" /\ ProcessOf[queue'[p][i]] = p
             /\ queue'[p][i] = queue'[p][j] => i = j
  <2>1. CASE p # ProcessOf[r]
    BY <1>4, <1>5, <1>6, <1>7, <2>1 DEF Lined
  <2>2. CASE p = ProcessOf[r]
    <3>1. /\ i \in DOMAIN q \cup {n} /\ j \in DOMAIN q \cup {n}
          /\ queue'[p][i] = IF i = n THEN r ELSE q[i]
          /\ queue'[p][j] = IF j = n THEN r ELSE q[j]
      BY <1>3, <1>4, <1>7, <2>2
    <3>2. \A k \in DOMAIN q : stage'[q[k]] = "queued" /\ ProcessOf[q[k]] = p /\ q[k] # r
      BY <1>1, <1>5, <1>6, <2>2 DEF Lined, q
    <3>3. \A k, l \in DOMAIN q : q[k] = q[l] => k = l
      BY <1>1 DEF Lined, q
    <3> QED
      BY <1>5, <2>2, <3>1, <3>2, <3>3
  <2> QED
    BY <2>1, <2>2
<1> QED
  BY <1>4, <1>7 DEF Lined

\* Requests that do not ask stay in line.
LEMMA InLine ==
    ASSUME Typed, Lined, UNCHANGED queue,
           \A r \in Request : stage[r] = "queued" => stage'[r] = "queued"
    PROVE  Lined'
<1>1. \A p \in Process : \A i \in DOMAIN queue[p] : queue[p][i] \in Request
  BY DEF Typed
<1> QED
  BY <1>1 DEF Lined

\* A request is made.
LEMMA MakeInv == ASSUME IInv, NEW r \in Request, Make(r) PROVE IInv'
<1> USE DEF IInv
<1>1. /\ stage[r] = "new" /\ Becomes(r, "queued")
      /\ queue' = [queue EXCEPT ![ProcessOf[r]] = Append(@, r)]
      /\ UNCHANGED <<issued, seen, aged, dead, disk, lock, mem, group, refused, carried, got,
                     closed, faults>>
  BY DEF Make, Ask, node, clock, saved, app
<1>2. /\ Grouped' /\ stage' \in [Request -> Stage] /\ stage'[r] = "queued"
      /\ \A q \in Request : q # r => stage'[q] = stage[q]
  BY <1>1, Moves, Stages
<1>3. queue' \in [Process -> Seq(Request)] /\ Lined'
  BY <1>1, Queued DEF Ask
<1>4. Typed'
  BY <1>1, <1>2, <1>3 DEF Typed
<1>5. Locked' /\ Ordered'
  BY <1>1, <1>2, Stages DEF Locked, Ordered
<1>6. Replaced'
  BY <1>1, <1>2, Stages DEF Replaced
<1>7. ClosedLate'
  BY <1>1, <1>2, Stages DEF ClosedLate, Typed
<1> QED
  BY <1>2, <1>3, <1>4, <1>5, <1>6, <1>7

\* The provider answers, or has the token refreshed.
LEMMA ProvideInv == ASSUME IInv, NEW p \in Process, Provide(p) PROVE IInv'
<1> USE DEF IInv
<1>1. PICK r \in Request : group[p] = 0 /\ Provided(p, r, refused[r] \/ mem[p] < aged)
  BY DEF Provide
<1>2. /\ queue[p] # <<>> /\ r = Head(queue[p])
      /\ queue' = [queue EXCEPT ![p] = Tail(@)]
      /\ UNCHANGED <<issued, seen, aged, dead, disk, lock, mem, refused, carried, got,
                     closed, faults>>
  BY <1>1 DEF Provided, node, clock, saved, app
<1>3. \/ /\ Becomes(r, "forgotten") \/ (Becomes(r, "given") /\ ~refused[r])
         /\ UNCHANGED group
      \/ Becomes(r, "refreshing") /\ group' = [group EXCEPT ![p] = @ + 1] /\ r \notin closed
  BY <1>1 DEF Provided
<1>4. /\ Tail(queue[p]) \in Seq(Request) /\ r = queue[p][1] /\ 1 \in DOMAIN queue[p]
      /\ \A i \in DOMAIN Tail(queue[p]) : /\ i \in Nat \ {0} /\ i + 1 \in DOMAIN queue[p]
                                          /\ Tail(queue[p])[i] = queue[p][i + 1]
  BY <1>2, Popped DEF Typed
<1>5. stage[r] = "queued" /\ ProcessOf[r] = p
  BY <1>4 DEF Lined
<1>6. /\ Grouped' /\ group' \in [Process -> {0, 1}] /\ stage' \in [Request -> Stage]
      /\ stage'[r] \in {"forgotten", "given", "refreshing"}
      /\ stage'[r] = "given" => ~refused[r]
      /\ \A q \in Request : q # r => stage'[q] = stage[q]
  <2>1. CASE Becomes(r, "refreshing") /\ group' = [group EXCEPT ![p] = @ + 1]
    <3>1. group' = [group EXCEPT ![ProcessOf[r]] = 1]
      BY <1>1, <1>5, <2>1 DEF Typed
    <3>2. stage[r] \notin InGroup
      BY <1>5, Stages
    <3>3. Typed /\ Grouped /\ group[ProcessOf[r]] = 0 /\ Becomes(r, "refreshing")
      BY <1>1, <1>5, <2>1
    <3>4. Grouped' /\ group' \in [Process -> {0, 1}] /\ stage' \in [Request -> Stage]
      BY <3>1, <3>2, <3>3, EnterGroup
    <3>5. /\ stage'[r] = "refreshing"
          /\ \A q \in Request : q # r => stage'[q] = stage[q]
      BY <2>1 DEF Becomes, Typed
    <3> QED
      BY <3>4, <3>5
  <2>2. CASE Becomes(r, "given") /\ ~refused[r] /\ UNCHANGED group
    BY <1>5, <2>2, Moves, Stages DEF Typed
  <2>3. CASE Becomes(r, "forgotten") /\ UNCHANGED group
    BY <1>5, <2>3, Moves, Stages DEF Typed
  <2> QED
    BY <1>3, <2>1, <2>2, <2>3
<1>7. /\ queue' \in [Process -> Seq(Request)] /\ queue'[p] = Tail(queue[p])
      /\ \A q \in Process : q # p => queue'[q] = queue[q]
  BY <1>2, <1>4 DEF Typed
<1>8. Typed'
  BY <1>2, <1>6, <1>7 DEF Typed
<1>9. Lined'
  <2>1. ASSUME NEW q \in Process, NEW i \in DOMAIN queue'[q], NEW j \in DOMAIN queue'[q]
        PROVE  /\ stage'[queue'[q][i]] = "queued" /\ ProcessOf[queue'[q][i]] = q
               /\ queue'[q][i] = queue'[q][j] => i = j
    <3>0. \A k \in DOMAIN queue[q] : queue[q][k] \in Request
      BY DEF Typed
    <3>1. CASE q = p
      <4>1. /\ i \in Nat \ {0} /\ i + 1 \in DOMAIN queue[p] /\ queue'[p][i] = queue[p][i + 1]
            /\ j \in Nat \ {0} /\ j + 1 \in DOMAIN queue[p] /\ queue'[p][j] = queue[p][j + 1]
        BY <1>4, <1>7, <2>1, <3>1
      <4>2. queue[p][i + 1] # r
        BY <1>4, <4>1 DEF Lined
      <4>3. queue[p][i + 1] = queue[p][j + 1] => i + 1 = j + 1
        BY <4>1 DEF Lined
      <4>4. stage[queue[p][i + 1]] = "queued" /\ ProcessOf[queue[p][i + 1]] = p
        BY <4>1 DEF Lined
      <4> QED
        BY <1>6, <3>0, <3>1, <4>1, <4>2, <4>3, <4>4
    <3>2. CASE q # p
      <4>1. i \in DOMAIN queue[q] /\ j \in DOMAIN queue[q] /\ queue'[q] = queue[q]
        BY <1>7, <2>1, <3>2
      <4>2. queue[q][i] # r /\ stage[queue[q][i]] = "queued" /\ ProcessOf[queue[q][i]] = q
        BY <1>5, <3>2, <4>1 DEF Lined
      <4> QED
        BY <1>6, <3>0, <4>1, <4>2 DEF Lined
    <3> QED
      BY <3>1, <3>2
  <2> QED
    BY <2>1 DEF Lined
<1>10. Locked' /\ Ordered'
  BY <1>2, <1>6, Stages DEF Locked, Ordered
<1>11. Replaced'
  BY <1>2, <1>5, <1>6, Stages DEF Replaced
<1>12. ClosedLate'
  BY <1>2, <1>6, Stages DEF ClosedLate, Typed
<1> QED
  BY <1>6, <1>8, <1>9, <1>10, <1>11, <1>12

\* A token is given, and the request sent with it.
LEMMA GivenInv == ASSUME IInv, NEW r \in Request, Given(r) PROVE IInv'
<1> USE DEF IInv
<1>1. /\ stage[r] = "given"
      /\ UNCHANGED <<issued, seen, aged, dead, disk, lock, mem, queue, group, refused, got,
                     closed, faults>>
      /\ \/ Becomes(r, "forgotten") /\ UNCHANGED carried
         \/ Becomes(r, "sent") /\ carried' = [carried EXCEPT ![r] = mem[ProcessOf[r]]]
  BY DEF Given, node, clock, saved, process, app
<1>2. /\ Grouped' /\ stage' \in [Request -> Stage] /\ stage'[r] \in {"sent", "forgotten"}
      /\ \A q \in Request : q # r => stage'[q] = stage[q]
  BY <1>1, Moves, Stages
<1>3. Lined'
  BY <1>1, <1>2, InLine
<1>4. /\ carried' \in [Request -> Nat]
      /\ \A q \in Request : q # r => carried'[q] = carried[q]
      /\ \A q \in Request : carried'[q] <= disk
  BY <1>1, Sharing DEF Typed, Ordered
<1>5. Typed'
  BY <1>1, <1>2, <1>4 DEF Typed
<1>6. Locked' /\ Ordered'
  BY <1>1, <1>2, <1>4, Stages DEF Locked, Ordered
<1>7. Replaced'
  BY <1>1, <1>2, <1>4, Stages DEF Replaced
<1>8. ClosedLate'
  BY <1>1, <1>2, Stages DEF ClosedLate, Typed
<1> QED
  BY <1>2, <1>3, <1>5, <1>6, <1>7, <1>8

-----------------------------------------------------------------------------
\* The persisted pair is taken, or the credentials are handed to the refresh.
LEMMA PersistedInv == ASSUME IInv, NEW r \in Request, Persisted(r) PROVE IInv'
<1> USE DEF IInv
<1>1. /\ stage[r] = "refreshing" /\ lock = NoRequest
      /\ UNCHANGED <<issued, seen, aged, dead, disk, queue, refused, carried, got, closed, faults>>
  BY DEF Persisted, node, clock, app
<1>2. ProcessOf[r] \in Process
  BY Sharing
<1>3. \A q \in Request : stage[q] \notin Asking
  BY <1>1, Sharing DEF Locked
<1>4. CASE ClosedBefore(r) \/ TakesPersisted(r)
  <2>1. /\ Leave(r) /\ UNCHANGED lock
        /\ \/ Becomes(r, "forgotten") /\ UNCHANGED mem
           \/ /\ Becomes(r, "given") /\ disk >= aged
              /\ mem' = [mem EXCEPT ![ProcessOf[r]] = disk]
    BY <1>4 DEF ClosedBefore, TakesPersisted
  <2>2. Grouped' /\ group' \in [Process -> {0, 1}] /\ stage' \in [Request -> Stage]
    BY <1>1, <2>1, LeaveGroup, Stages
  <2>3. /\ stage'[r] \in {"given", "forgotten"}
        /\ \A q \in Request : q # r => stage'[q] = stage[q]
    BY <2>1 DEF Becomes, Typed
  <2>4. Lined'
    BY <1>1, <2>3, InLine
  <2>5. /\ mem' \in [Process -> Nat]
        /\ \A p \in Process : mem[p] <= mem'[p] /\ mem'[p] <= disk
        /\ stage'[r] = "given" => (mem'[ProcessOf[r]] = disk /\ aged <= disk)
    <3>1. CASE Becomes(r, "forgotten") /\ UNCHANGED mem
      <4>1. stage'[r] = "forgotten"
        BY <3>1 DEF Becomes, Typed
      <4>2. \A p \in Process : mem'[p] = mem[p] /\ mem[p] \in Nat /\ mem[p] <= disk
        BY <3>1 DEF Typed, Ordered
      <4> QED
        BY <3>1, <4>1, <4>2 DEF Typed
    <3>2. CASE disk >= aged /\ mem' = [mem EXCEPT ![ProcessOf[r]] = disk]
      <4>1. mem' \in [Process -> Nat] /\ mem'[ProcessOf[r]] = disk
        BY <1>2, <3>2 DEF Typed
      <4>2. ASSUME NEW p \in Process PROVE mem[p] <= mem'[p] /\ mem'[p] <= disk
        <5>1. mem[p] \in Nat /\ disk \in Nat /\ mem[p] <= disk /\ (mem'[p] = disk \/ mem'[p] = mem[p])
          BY <3>2 DEF Typed, Ordered
        <5> QED
          BY <5>1
      <4>3. aged <= disk
        BY <3>2 DEF Typed
      <4> QED
        BY <4>1, <4>2, <4>3
    <3> QED
      BY <2>1, <3>1, <3>2
  <2>6. Typed'
    BY <1>1, <2>1, <2>2, <2>5 DEF Typed
  <2>7. Locked' /\ Ordered'
    BY <1>1, <1>3, <2>1, <2>3, <2>5, Stages DEF Locked, Ordered
  <2>8. Replaced'
    <3>1. ASSUME refused[r], stage'[r] = "given" PROVE carried[r] < mem'[ProcessOf[r]]
      <4>1. carried[r] < dead \/ carried[r] < seen
        BY <1>1, <3>1, Stages DEF Replaced
      <4>2. /\ carried[r] \in Nat /\ dead \in Nat /\ seen \in Nat /\ aged \in Nat /\ disk \in Nat
            /\ dead <= aged /\ seen <= disk
        BY DEF Typed, Ordered
      <4>3. mem'[ProcessOf[r]] = disk /\ aged <= disk
        BY <2>5, <3>1
      <4> QED
        BY <4>1, <4>2, <4>3
    <3>2. ASSUME NEW q \in Request, q # r, refused[q], stage[q] = "given"
          PROVE  carried[q] < mem'[ProcessOf[q]]
      <4>1. carried[q] < mem[ProcessOf[q]] /\ ProcessOf[q] \in Process
        BY <3>2, Sharing DEF Replaced
      <4>2. mem[ProcessOf[q]] <= mem'[ProcessOf[q]]
        BY <2>5, <4>1
      <4>3. carried[q] \in Nat /\ mem[ProcessOf[q]] \in Nat /\ mem'[ProcessOf[q]] \in Nat
        BY <2>5, <4>1 DEF Typed
      <4> QED
        BY <4>1, <4>2, <4>3
    <3> QED
      BY <1>1, <2>3, <3>1, <3>2, Stages DEF Replaced
  <2>9. ClosedLate'
    BY <1>1, <2>3, Stages DEF ClosedLate, Typed
  <2> QED
    BY <2>2, <2>4, <2>6, <2>7, <2>8, <2>9
<1>5. CASE HandedOut(r)
  <2>1. /\ r \notin closed /\ disk < aged /\ Becomes(r, "asked") /\ lock' = r
        /\ UNCHANGED <<mem, group>>
    BY <1>5 DEF HandedOut
  <2>2. /\ Grouped' /\ stage' \in [Request -> Stage] /\ stage'[r] = "asked"
        /\ \A q \in Request : q # r => stage'[q] = stage[q]
    BY <1>1, <2>1, Moves, Stages
  <2>3. Lined'
    BY <1>1, <2>2, InLine
  <2>4. Typed'
    BY <1>1, <2>1, <2>2 DEF Typed
  <2>5. Locked' /\ Ordered'
    BY <1>1, <1>3, <2>1, <2>2, Stages DEF Locked, Ordered
  <2>6. Replaced'
    BY <1>1, <2>1, <2>2, Stages DEF Replaced
  <2>7. ClosedLate'
    BY <1>1, <2>1, <2>2, Stages DEF ClosedLate, Typed
  <2> QED
    BY <2>2, <2>3, <2>4, <2>5, <2>6, <2>7
<1> QED
  BY <1>4, <1>5 DEF Persisted

\* The node issues a pair, or not.
LEMMA NodeInv == ASSUME IInv, NEW r \in Request, NodeRefresh(r) PROVE IInv'
<1> USE DEF IInv
<1>1. /\ stage[r] = "asked"
      /\ UNCHANGED <<aged, dead, disk, lock, mem, queue, group, refused, carried, closed, faults>>
      /\ Becomes(r, "granted") \/ Becomes(r, "lost") \/ Becomes(r, "denied")
  BY DEF NodeRefresh, clock, saved, process, app
<1>2. \/ /\ mem[ProcessOf[r]] >= seen
         /\ issued' = issued + 1 /\ seen' = mem[ProcessOf[r]]
         /\ got' = [got EXCEPT ![r] = issued + 1]
      \/ UNCHANGED <<issued, seen, got>> /\ ~Becomes(r, "granted")
  <2>1. Becomes(r, "lost") => ~Becomes(r, "granted")
    BY DEF Becomes, Typed
  <2>2. Becomes(r, "denied") => ~Becomes(r, "granted")
    BY DEF Becomes, Typed
  <2> QED
    BY <2>1, <2>2 DEF NodeRefresh, node
<1>3. /\ Grouped' /\ stage' \in [Request -> Stage] /\ stage'[r] \in {"granted", "lost", "denied"}
      /\ \A q \in Request : q # r => stage'[q] = stage[q]
  BY <1>1, Moves, Stages
<1>4. Lined'
  BY <1>1, <1>3, InLine
<1>5. /\ issued' \in Nat /\ seen' \in Nat /\ got' \in [Request -> Nat]
      /\ seen <= seen' /\ seen' <= disk /\ issued <= issued'
      /\ \A q \in Request : got'[q] <= issued'
      /\ \A q \in Request : q # r => got'[q] = got[q]
  <2>0. /\ ProcessOf[r] \in Process /\ mem[ProcessOf[r]] \in Nat /\ mem[ProcessOf[r]] <= disk
        /\ issued \in Nat /\ seen \in Nat /\ disk \in Nat /\ got \in [Request -> Nat]
        /\ seen <= disk
        /\ \A q \in Request : got[q] \in Nat /\ got[q] <= issued
    BY Sharing DEF Typed, Ordered
  <2>1. CASE UNCHANGED <<issued, seen, got>>
    BY <2>0, <2>1
  <2>2. CASE /\ mem[ProcessOf[r]] >= seen
             /\ issued' = issued + 1 /\ seen' = mem[ProcessOf[r]]
             /\ got' = [got EXCEPT ![r] = issued + 1]
    <3>1. /\ issued' \in Nat /\ seen' \in Nat /\ seen <= seen' /\ seen' <= disk /\ issued <= issued'
      BY <2>0, <2>2
    <3>2. /\ got' \in [Request -> Nat] /\ got'[r] = issued'
          /\ \A q \in Request : q # r => got'[q] = got[q]
      BY <2>0, <2>2
    <3>3. ASSUME NEW q \in Request PROVE got'[q] <= issued'
      <4>1. got[q] \in Nat /\ got[q] <= issued /\ (got'[q] = issued' \/ got'[q] = got[q])
        BY <2>0, <3>2
      <4> QED
        BY <2>0, <3>1, <4>1
    <3> QED
      BY <3>1, <3>2, <3>3
  <2> QED
    BY <1>2, <2>1, <2>2
<1>6. stage'[r] = "granted" => disk < got'[r]
  <2>1. stage'[r] = "granted" => Becomes(r, "granted")
    BY <1>1 DEF Becomes, Typed
  <2> QED
    BY <1>2, <2>1 DEF Typed, Ordered
<1>7. Typed'
  BY <1>1, <1>3, <1>5 DEF Typed
<1>8. Locked'
  BY <1>1, <1>3, <1>5, <1>6, Stages DEF Locked
<1>9. Ordered'
  BY <1>1, <1>5 DEF Ordered, Typed
<1>10. Replaced'
  <2>1. ASSUME NEW q \in Request, carried[q] < dead \/ carried[q] < seen
        PROVE  carried[q] < dead \/ carried[q] < seen'
    BY <1>5, <2>1 DEF Typed
  <2> QED
    BY <1>1, <1>3, <2>1, Stages DEF Replaced
<1>11. ClosedLate'
  BY <1>1, <1>3, Stages DEF ClosedLate, Typed
<1> QED
  BY <1>3, <1>4, <1>7, <1>8, <1>9, <1>10, <1>11

\* The new pair is told to the process, and saved.
LEMMA GrantedInv == ASSUME IInv, NEW r \in Request, Granted(r) PROVE IInv'
<1> USE DEF IInv
<1>1. /\ stage[r] = "granted" /\ Leave(r) /\ Becomes(r, "given")
      /\ disk' = got[r] /\ lock' = NoRequest
      /\ mem' = [mem EXCEPT ![ProcessOf[r]] = got[r]]
      /\ UNCHANGED <<issued, seen, aged, dead, queue, refused, carried, got, closed, faults>>
  BY DEF Granted, node, clock, app
<1>2. /\ ProcessOf[r] \in Process /\ disk < got[r]
      /\ \A q \in Request : q # r => stage[q] \notin Asking
  BY <1>1, Sharing, Stages DEF Locked
<1>3. Grouped' /\ group' \in [Process -> {0, 1}] /\ stage' \in [Request -> Stage]
  BY <1>1, LeaveGroup, Stages
<1>4. /\ stage'[r] = "given"
      /\ \A q \in Request : q # r => stage'[q] = stage[q]
  BY <1>1 DEF Becomes, Typed
<1>5. Lined'
  BY <1>1, <1>4, InLine
<1>6. /\ mem' \in [Process -> Nat] /\ disk' \in Nat /\ mem'[ProcessOf[r]] = got[r]
      /\ \A p \in Process : mem[p] <= mem'[p] /\ mem'[p] <= disk'
  BY <1>1, <1>2 DEF Typed, Ordered
<1>7. Typed'
  BY <1>1, <1>3, <1>6 DEF Typed
<1>8. Locked'
  BY <1>1, <1>2, <1>4, Stages DEF Locked
<1>9. Ordered'
  BY <1>1, <1>2, <1>6 DEF Ordered, Typed
<1>10. Replaced'
  <2>1. refused[r] => carried[r] < mem'[ProcessOf[r]]
    BY <1>2, <1>6 DEF Ordered, Typed
  <2>2. ASSUME NEW q \in Request, q # r, refused[q], stage[q] = "given"
        PROVE  carried[q] < mem'[ProcessOf[q]]
    <3>1. carried[q] < mem[ProcessOf[q]] /\ ProcessOf[q] \in Process
      BY <2>2, Sharing DEF Replaced
    <3>2. mem[ProcessOf[q]] <= mem'[ProcessOf[q]]
      BY <1>6, <3>1
    <3>3. carried[q] \in Nat /\ mem[ProcessOf[q]] \in Nat /\ mem'[ProcessOf[q]] \in Nat
      BY <1>6, <3>1 DEF Typed
    <3> QED
      BY <3>1, <3>2, <3>3
  <2> QED
    BY <1>1, <1>4, <2>1, <2>2, Stages DEF Replaced
<1>11. ClosedLate'
  BY <1>1, <1>4, Stages DEF ClosedLate, Typed
<1> QED
  BY <1>3, <1>5, <1>7, <1>8, <1>9, <1>10, <1>11

\* A refresh without a pair ends.
LEMMA DeniedInv ==
    ASSUME IInv, NEW r \in Request, Denied(r) \/ Lost(r) \/ Unauthenticated(r)
    PROVE  IInv'
<1> USE DEF IInv
<1>1. /\ stage[r] \in {"denied", "lost", "unauthenticated"}
      /\ \/ lock' = NoRequest /\ stage[r] \in Asking
         \/ UNCHANGED lock /\ stage[r] = "unauthenticated"
      /\ UNCHANGED <<issued, seen, aged, dead, disk, mem, queue, refused, carried, got,
                     closed, faults>>
      /\ \/ Becomes(r, "unauthenticated") /\ UNCHANGED group
         \/ Becomes(r, "failed") /\ Leave(r)
         \/ Becomes(r, "forgotten") /\ Leave(r)
  <2>1. CASE Denied(r)
    BY <2>1, Stages DEF Denied, node, clock, process, app
  <2>2. CASE Lost(r)
    BY <2>2, Stages DEF Lost, node, clock, app
  <2>3. CASE Unauthenticated(r)
    BY <2>3 DEF Unauthenticated, node, clock, saved, app
  <2> QED
    BY <2>1, <2>2, <2>3
<1>2. /\ Grouped' /\ group' \in [Process -> {0, 1}] /\ stage' \in [Request -> Stage]
      /\ stage'[r] \in {"unauthenticated", "failed", "forgotten"}
      /\ \A q \in Request : q # r => stage'[q] = stage[q]
  <2>1. CASE Becomes(r, "unauthenticated") /\ UNCHANGED group
    BY <1>1, <2>1, Moves, Stages DEF Typed
  <2>2. CASE Becomes(r, "failed") /\ Leave(r)
    BY <1>1, <2>2, LeaveGroup, Stages DEF Becomes, Typed
  <2>3. CASE Becomes(r, "forgotten") /\ Leave(r)
    BY <1>1, <2>3, LeaveGroup, Stages DEF Becomes, Typed
  <2> QED
    BY <1>1, <2>1, <2>2, <2>3
<1>3. Lined'
  BY <1>1, <1>2, InLine
<1>4. Typed'
  BY <1>1, <1>2 DEF Typed
<1>5. Locked'
  <2>1. ASSUME NEW q \in Request, stage'[q] \in Asking
        PROVE  q # r /\ stage[q] \in Asking /\ stage[r] \notin Asking
    BY <1>2, <2>1, Stages DEF Locked
  <2> QED
    BY <1>1, <1>2, <2>1, Stages DEF Locked
<1>6. Ordered'
  BY <1>1 DEF Ordered
<1>7. Replaced'
  BY <1>1, <1>2, Stages DEF Replaced
<1>8. ClosedLate'
  BY <1>1, <1>2, Stages DEF ClosedLate, Typed
<1> QED
  BY <1>2, <1>3, <1>4, <1>5, <1>6, <1>7, <1>8

\* The node's answer to a request.
LEMMA AnsweredInv == ASSUME IInv, NEW r \in Request, Answered(r) PROVE IInv'
<1> USE DEF IInv
<1>1. /\ stage[r] = "sent"
      /\ UNCHANGED <<issued, aged, dead, disk, lock, mem, group, carried, got, closed, faults>>
  BY DEF Answered, clock, saved, app
<1>2. CASE /\ Becomes(r, "forgotten") \/ Becomes(r, "done") \/ Becomes(r, "failed")
           /\ UNCHANGED <<queue, refused>>
           /\ UNCHANGED seen \/ (seen' = carried[r] /\ carried[r] >= seen)
  <2>1. /\ Grouped' /\ stage' \in [Request -> Stage] /\ stage'[r] \in {"forgotten", "done", "failed"}
        /\ \A q \in Request : q # r => stage'[q] = stage[q]
    BY <1>1, <1>2, Moves, Stages
  <2>2. Lined'
    BY <1>1, <1>2, <2>1, InLine
  <2>3. seen' \in Nat /\ seen <= seen' /\ seen' <= disk
    BY <1>2 DEF Typed, Ordered
  <2>4. Typed'
    BY <1>1, <1>2, <2>1, <2>3 DEF Typed
  <2>5. Locked' /\ Ordered'
    BY <1>1, <2>1, <2>3, Stages DEF Locked, Ordered
  <2>6. Replaced'
    <3>1. ASSUME NEW q \in Request, carried[q] < dead \/ carried[q] < seen
          PROVE  carried[q] < dead \/ carried[q] < seen'
      BY <2>3, <3>1 DEF Typed
    <3> QED
      BY <1>1, <1>2, <2>1, <3>1, Stages DEF Replaced
  <2>7. ClosedLate'
    BY <1>1, <2>1, Stages DEF ClosedLate, Typed
  <2> QED
    BY <2>1, <2>2, <2>4, <2>5, <2>6, <2>7
<1>3. CASE /\ ~Accepts(carried[r]) /\ Ask(r) /\ UNCHANGED seen
           /\ refused' = [refused EXCEPT ![r] = TRUE]
  <2>1. /\ Grouped' /\ stage' \in [Request -> Stage] /\ stage'[r] = "queued"
        /\ \A q \in Request : q # r => stage'[q] = stage[q]
    BY <1>1, <1>3, Moves, Stages DEF Ask
  <2>2. queue' \in [Process -> Seq(Request)] /\ Lined'
    BY <1>1, <1>3, Queued
  <2>3. carried[r] < dead \/ carried[r] < seen
    BY <1>3 DEF Accepts, Typed
  <2>4. /\ refused' \in [Request -> BOOLEAN]
        /\ \A q \in Request : q # r => refused'[q] = refused[q]
    BY <1>3 DEF Typed
  <2>5. Typed'
    BY <1>1, <1>3, <2>1, <2>2, <2>4 DEF Typed
  <2>6. Locked' /\ Ordered'
    BY <1>1, <1>3, <2>1, Stages DEF Locked, Ordered
  <2>7. Replaced'
    BY <1>1, <1>3, <2>1, <2>3, <2>4, Stages DEF Replaced
  <2>8. ClosedLate'
    BY <1>1, <2>1, Stages DEF ClosedLate, Typed
  <2> QED
    BY <2>1, <2>2, <2>5, <2>6, <2>7, <2>8
<1> QED
  BY <1>2, <1>3 DEF Answered, Accepts

LEMMA TimeInv == ASSUME IInv, Time PROVE IInv'
<1> USE DEF IInv
<1>1. /\ UNCHANGED <<issued, seen, disk, lock, mem, queue, group, stage, refused, carried, got,
                     closed, faults>>
      /\ aged' \in Nat /\ dead' \in Nat /\ aged <= aged' /\ dead <= dead' /\ dead' <= aged'
  BY DEF Time, Age, node, saved, process, request, app, Typed, Ordered
<1>2. Typed' /\ Grouped' /\ Lined' /\ ClosedLate'
  BY <1>1 DEF Typed, Grouped, Lined, ClosedLate
<1>3. Ordered'
  BY <1>1 DEF Ordered
<1>4. Locked'
  <2>1. disk < aged => disk < aged'
    BY <1>1 DEF Typed
  <2> QED
    BY <1>1, <2>1 DEF Locked
<1>5. Replaced'
  <2>1. ASSUME NEW q \in Request, carried[q] < dead \/ carried[q] < seen
        PROVE  carried[q] < dead' \/ carried[q] < seen
    BY <1>1, <2>1 DEF Typed
  <2> QED
    BY <1>1, <2>1 DEF Replaced
<1> QED
  BY <1>2, <1>3, <1>4, <1>5

LEMMA CloseInv == ASSUME IInv, NEW r \in Request, Close(r) PROVE IInv'
<1> USE DEF IInv
<1>1. /\ UNCHANGED <<issued, seen, aged, dead, disk, lock, mem, queue, group, stage, refused,
                     carried, got>>
      /\ closed' = closed \cup {r} /\ (Careful => stage[r] \notin Asking)
      /\ faults' = faults + 1 /\ faults < MaxFaults
  BY DEF Close, node, clock, saved, process, request
<1>2. closed' \in SUBSET Request /\ faults' \in 0..MaxFaults
  BY <1>1, Sharing DEF Typed
<1>3. Typed'
  BY <1>1, <1>2 DEF Typed
<1>4. Grouped' /\ Lined' /\ Locked' /\ Ordered' /\ Replaced'
  BY <1>1 DEF Grouped, Lined, Locked, Ordered, Replaced
<1>5. ClosedLate'
  BY <1>1 DEF ClosedLate
<1> QED
  BY <1>3, <1>4, <1>5

\* What is left of a process that is killed is what it has saved.
LEMMA CrashInv == ASSUME IInv, NEW p \in Process, Crash(p) PROVE IInv'
<1> USE DEF IInv
<1>1. /\ UNCHANGED <<issued, seen, aged, dead, disk, refused, carried, got, closed>>
      /\ faults' = faults + 1 /\ faults < MaxFaults
      /\ mem' = [mem EXCEPT ![p] = disk] /\ queue' = [queue EXCEPT ![p] = <<>>]
      /\ group' = [group EXCEPT ![p] = 0]
      /\ lock' = IF lock # NoRequest /\ ProcessOf[lock] = p THEN NoRequest ELSE lock
  BY DEF Crash, node, clock
<1>2. \A r \in Request :
         /\ ProcessOf[r] # p => stage'[r] = stage[r]
         /\ ProcessOf[r] = p => /\ stage'[r] \in {"new", "done", "failed", "forgotten"}
                                /\ stage'[r] = "new" => stage[r] = "new"
  BY DEF Crash, Ended
<1>3. stage' \in [Request -> Stage]
  BY Stages DEF Crash, Typed
<1>4. /\ mem' \in [Process -> Nat]
      /\ \A q \in Process : mem'[q] <= disk /\ (q # p => mem'[q] = mem[q])
  BY <1>1 DEF Typed, Ordered
<1>5. /\ group' \in [Process -> {0, 1}] /\ group'[p] = 0
      /\ \A q \in Process : q # p => group'[q] = group[q]
  BY <1>1 DEF Typed
<1>6. /\ queue' \in [Process -> Seq(Request)] /\ queue'[p] = <<>>
      /\ \A q \in Process : q # p => queue'[q] = queue[q]
  <2>1. <<>> \in Seq(Request)
    OBVIOUS
  <2> QED
    BY <1>1, <2>1 DEF Typed
<1>7. Typed'
  <2>1. faults' \in 0..MaxFaults
    BY <1>1, Sharing DEF Typed
  <2>2. lock' \in Request \cup {NoRequest}
    BY <1>1 DEF Typed
  <2> QED
    BY <1>1, <1>3, <1>4, <1>5, <1>6, <2>1, <2>2 DEF Typed
<1>8. Lined'
  <2>1. \A q \in Process : \A i \in DOMAIN queue[q] : queue[q][i] \in Request
    BY DEF Typed
  <2>2. ASSUME NEW q \in Process, NEW i \in DOMAIN queue'[q], NEW j \in DOMAIN queue'[q]
        PROVE  /\ stage'[queue'[q][i]] = "queued" /\ ProcessOf[queue'[q][i]] = q
               /\ queue'[q][i] = queue'[q][j] => i = j
    <3>1. q # p
      BY <1>6, <2>2
    <3>2. queue'[q] = queue[q]
      BY <1>6, <3>1
    <3> QED
      BY <1>2, <2>1, <2>2, <3>1, <3>2 DEF Lined
  <2> QED
    BY <2>2 DEF Lined
<1>9. Grouped'
  <2>1. \A r \in Request : stage'[r] \in InGroup <=> stage[r] \in InGroup /\ ProcessOf[r] # p
    BY <1>2, Stages
  <2> QED
    BY <1>5, <2>1, Sharing DEF Grouped
<1>10. Locked'
  <2>1. \A r \in Request : stage'[r] \in Asking => stage'[r] = stage[r] /\ ProcessOf[r] # p
    BY <1>2, Stages
  <2>2. \A r \in Request : stage'[r] \in Asking => lock' = r
    BY <1>1, <2>1 DEF Locked
  <2> QED
    BY <1>1, <2>1, <2>2, Stages DEF Locked
<1>11. Ordered'
  BY <1>1, <1>4 DEF Ordered
<1>12. Replaced'
  BY <1>1, <1>2, <1>4, Sharing, Stages DEF Replaced
<1>13. ClosedLate'
  BY <1>1, <1>2, Stages DEF ClosedLate, Typed
<1> QED
  BY <1>7, <1>8, <1>9, <1>10, <1>11, <1>12, <1>13

LEMMA NextInv == IInv /\ [Next]_vars => IInv'
<1> SUFFICES ASSUME IInv, [Next]_vars PROVE IInv'
  OBVIOUS
<1>1. CASE UNCHANGED vars
  BY <1>1 DEF vars, node, clock, saved, process, request, app, IInv, Typed, Lined, Grouped,
              Locked, Ordered, Replaced, ClosedLate
<1> QED
  BY <1>1, MakeInv, ProvideInv, GivenInv, PersistedInv, NodeInv, GrantedInv, DeniedInv,
     AnsweredInv, TimeInv, CloseInv, CrashInv DEF Next, Refresh

-----------------------------------------------------------------------------
\* The types of the token refresh, for all processes and requests; a process
\* has one refresh at most under way.
THEOREM RefreshTyped == Spec => []TypeOK
<1>1. IInv => TypeOK
  BY DEF IInv, Typed, TypeOK
<1> QED
  BY <1>1, InitInv, NextInv, PTL DEF Spec

\* The node never sees a token that is not persisted, wherever processes are
\* killed.
THEOREM SavedFirst == Spec => []SavedBeforeUsed
<1>1. IInv => SavedBeforeUsed
  BY DEF IInv, Ordered, SavedBeforeUsed
<1> QED
  BY <1>1, InitInv, NextInv, PTL DEF Spec

\* If no client is closed while its refresh is out, the group of a process is
\* entered only while a refresh is under way that will leave it.
THEOREM GroupIsLeft == Careful /\ Spec => []GroupMatched
<1>1. Careful /\ IInv => GroupMatched
  <2> SUFFICES ASSUME Careful, IInv, NEW p \in Process
               PROVE  group[p] > 0 <=> \E r \in Request :
                          /\ ProcessOf[r] = p /\ stage[r] \in InGroup
                          /\ r \in closed => stage[r] \notin Asking
    BY DEF GroupMatched
  <2>1. group[p] > 0 <=> group[p] = 1
    BY DEF IInv, Typed
  <2> QED
    BY <2>1 DEF IInv, Grouped, ClosedLate
<1>2. IInv /\ [Next]_vars => IInv'
  BY NextInv
<1>3. Careful => Careful'
  OBVIOUS
<1> QED
  BY <1>1, <1>2, <1>3, InitInv, PTL DEF Spec

\* A pair is refreshed only when it is persisted and near its expiry.
THEOREM RefreshedOnce == Spec => OneRefresh
<1>1. IInv /\ [Next]_vars => [issued' > issued => disk < aged]_vars
  <2> SUFFICES ASSUME IInv, Next, issued' > issued PROVE disk < aged
    OBVIOUS
  <2>1. issued' # issued
    BY DEF IInv, Typed
  <2>2. PICK r \in Request : NodeRefresh(r)
    BY <2>1 DEF Next, Refresh, Make, Given, Answered, Persisted, Granted, Denied, Lost,
                Unauthenticated, Close, Provide, Provided, Crash, Time, node
  <2> QED
    BY <2>2 DEF NodeRefresh, IInv, Locked
<1> QED
  BY <1>1, InitInv, NextInv, PTL DEF Spec, OneRefresh

\* A request whose token was refused is sent again with another one.
THEOREM AnotherToken == Spec => RetriedWithNew
<1> DEFINE New == \A r \in Request : refused[r] /\ stage[r] = "given" /\ stage'[r] = "sent"
                                        => carried'[r] # carried[r]
<1>1. IInv /\ [Next]_vars => [New]_vars
  <2> SUFFICES ASSUME IInv, Next, NEW r \in Request,
                      refused[r], stage[r] = "given", stage'[r] = "sent"
               PROVE  carried'[r] # carried[r]
    OBVIOUS
  <2>1. carried[r] < mem[ProcessOf[r]] /\ carried[r] \in Nat /\ mem[ProcessOf[r]] \in Nat
    BY Sharing DEF IInv, Replaced, Typed
  <2>2. CASE Given(r)
    <3>1. stage' = [stage EXCEPT ![r] = "sent"] \/ stage' = [stage EXCEPT ![r] = "forgotten"]
      BY <2>2 DEF Given, Becomes
    <3>2. carried' = [carried EXCEPT ![r] = mem[ProcessOf[r]]]
      BY <2>2, <3>1 DEF Given, Becomes, IInv, Typed
    <3> QED
      BY <2>1, <3>2 DEF IInv, Typed
  <2>3. ASSUME ~Given(r) PROVE FALSE
    <3>1. ASSUME NEW q \in Request, NEW s, Becomes(q, s), q # r \/ s # "sent"
          PROVE  FALSE
      BY <3>1 DEF Becomes, IInv, Typed
    <3>2. ASSUME NEW q \in Request, Given(q) PROVE q = r
      BY <3>1, <3>2 DEF Given
    <3>3. ASSUME NEW q \in Request, Make(q) \/ Answered(q) PROVE FALSE
      BY <3>1, <3>3 DEF Make, Answered, Ask
    <3>4. ASSUME NEW q \in Request, Refresh(q) PROVE FALSE
      BY <3>1, <3>4 DEF Refresh, Persisted, ClosedBefore, TakesPersisted, HandedOut,
                        NodeRefresh, Granted, Denied, Lost, Unauthenticated
    <3>5. ASSUME NEW q \in Request, Close(q) PROVE FALSE
      BY <3>5 DEF Close, request
    <3>6. ASSUME Time PROVE FALSE
      BY <3>6 DEF Time, request
    <3>7. ASSUME NEW p \in Process, Provide(p) PROVE FALSE
      BY <3>1, <3>7 DEF Provide, Provided
    <3>8. ASSUME NEW p \in Process, Crash(p) PROVE FALSE
      BY <3>8 DEF Crash
    <3> QED
      BY <2>3, <3>2, <3>3, <3>4, <3>5, <3>6, <3>7, <3>8 DEF Next
  <2> QED
    BY <2>2, <2>3
<1> QED
  BY <1>1, InitInv, NextInv, PTL DEF Spec, RetriedWithNew
=============================================================================
