--------------------------- MODULE SyncMergeProofs ---------------------------
(***************************************************************************)
(* The merge of cached sync responses has the effect of the responses, one *)
(* after the other: for every log of a room, every choice of chunks and of *)
(* the lengths of timelines.                                               *)
(***************************************************************************)
EXTENDS SyncMerge, FiniteSetTheorems, TLAPS

Kinds == {"message", "state"} \cup Memberships
Sync == [join : Timeline \cup {None}, leave : Timeline \cup {None},
         invite : Invitation \cup {None}]
Room == [membership : {"unknown"} \cup Memberships, state : State,
         messages : SUBSET Nat, back : Nat]

TypeInv == /\ log \in Seq(Kinds) /\ Len(log) <= MaxLog
           /\ token \in 0..Len(log)
           /\ cache \in Seq(Sync)
           /\ session \in Room /\ reference \in Room

(***************************************************************************)
(* The room that the session would have if it took the cache now.          *)
(***************************************************************************)
Cached == MergedAll(cache)
Taken == HandleSync(session, Cached)

Joined(p) == \E i \in 1..p : log[i] = "join"
MemberOf(p) == IF Membership(p) = "leave" THEN "unknown" ELSE Membership(p)

\* A room that is left is in no other section.
Apart(r) == r.leave # None => r.join = None /\ r.invite = None

\* A section tells a membership of the log up to p, or none.
Tells(r, p) == /\ r.state.member \in 0..p
               /\ r.state.member # 0 => log[r.state.member] \in Memberships

\* What is merged, like the room that is to take it, is of the log up to p.
Upto(merged, room, p) ==
    /\ Apart(merged)
    /\ merged.join # None => merged.join.events \subseteq 1..p /\ Tells(merged.join, p)
    /\ merged.invite # None => /\ Tells(merged.invite, p)
                               /\ merged.invite.state.member # 0
                               /\ log[merged.invite.state.member] = "invite"
    /\ room.membership = "join" \/ merged.join # None => Joined(p)
    /\ room.membership # "leave"
    /\ room.messages \subseteq 1..p

\* A room is where one that handled every response up to p is, and has every
\* event from where pagination goes on.
Follows(room, other, p) ==
    /\ room.membership = other.membership
    /\ room.state = other.state
    /\ room.messages = other.messages
    /\ other.membership = MemberOf(p)
    /\ room.membership = "join" => room.back + 1 .. p \subseteq room.messages

Merging == Upto(Cached, session, token)
Following == Follows(Taken, reference, token)
MergeInv == Merging /\ Following

-----------------------------------------------------------------------------
(***************************************************************************)
(* All the chunks, from the first.                                         *)
(***************************************************************************)
\* A set of numbers has a least one, such as the first of a sequence at which
\* something fails.
LEMMA LeastOf ==
    ASSUME NEW N \in Nat, NEW S, S \subseteq 0..N, S # {}
    PROVE  \E x \in S : \A y \in S : x <= y
<1> DEFINE Until(x) == {y \in S : y <= x}
<1> DEFINE T == {Until(x) : x \in S}
<1> DEFINE O == StrictSubsetOrdering(0..N)
<1>1. IsFiniteSet(0..N)
  BY FS_Interval
<1>2. IsWellFoundedOn(O, FiniteSubsetsOf(0..N))
  BY <1>1, FS_StrictSubsetOrderingWellFounded
<1>3. T \subseteq FiniteSubsetsOf(0..N)
  <2>1. \A x \in S : Until(x) \subseteq 0..N
    OBVIOUS
  <2>2. \A x \in S : IsFiniteSet(Until(x))
    BY <1>1, <2>1, FS_Subset
  <2> QED
    BY <2>1, <2>2 DEF FiniteSubsetsOf
<1>4. T # {}
  OBVIOUS
<1>5. \E t \in T : \A u \in T : <<u, t>> \notin O
  <2> HIDE DEF T, O
  <2> QED
    BY <1>2, <1>3, <1>4, WFMin
<1>6. PICK x \in S : \A u \in T : <<u, Until(x)>> \notin O
  BY <1>5
<1>7. ASSUME NEW y \in S, ~(x <= y)
      PROVE  FALSE
  <2>1. x \in Int /\ y \in Int /\ y < x
    BY <1>7
  <2>2. Until(y) \subseteq Until(x) /\ x \in Until(x) /\ x \notin Until(y)
    <3>1. \A z \in S : z \in Int
      OBVIOUS
    <3>2. \A z \in S : z <= y => z <= x
      BY <2>1, <3>1
    <3>3. Until(y) \subseteq Until(x)
      BY <3>2
    <3>4. x <= x
      BY <2>1
    <3> QED
      BY <1>7, <3>3, <3>4
  <2>3. Until(y) \in T /\ Until(y) \subseteq 0..N /\ Until(x) \subseteq 0..N
    OBVIOUS
  <2>4. <<Until(y), Until(x)>> \in O
    <3> HIDE DEF Until
    <3> QED
      BY <2>2, <2>3 DEF StrictSubsetOrdering
  <2> QED
    BY <1>6, <2>3, <2>4
<1> QED
  BY <1>7

\* What merging the first n chunks one by one gives.
IsMerge(f, chunks, n) ==
    f = [i \in 1..n |-> IF i = 1 THEN chunks[1] ELSE Merged(chunks[i], f[i - 1])]

LEMMA MergeExists ==
    ASSUME NEW chunks, NEW n \in Nat
    PROVE  \E f : IsMerge(f, chunks, n)
<1> DEFINE S == {k \in 0..n : ~\E f : IsMerge(f, chunks, k)}
<1>1. SUFFICES ASSUME S # {} PROVE FALSE
  <2>1. n \in 0..n
    OBVIOUS
  <2> QED
    BY <2>1
<1>2. PICK k \in S : \A y \in S : k <= y
  <2>1. S \subseteq 0..n
    OBVIOUS
  <2> HIDE DEF S
  <2> QED
    BY <1>1, <2>1, LeastOf
<1>3. CASE k = 0
  <2> DEFINE f == [i \in 1..0 |-> chunks]
  <2>1. IsMerge(f, chunks, 0)
    BY DEF IsMerge
  <2> QED
    BY <1>2, <1>3, <2>1
<1>4. CASE k # 0
  <2>1. k \in 1..n /\ k - 1 \in 0..n /\ ~(k <= k - 1)
    BY <1>2, <1>4
  <2>2. PICK f : IsMerge(f, chunks, k - 1)
    BY <1>2, <2>1
  <2> DEFINE g == [i \in 1..k |-> IF i = 1 THEN chunks[1]
                                  ELSE IF i = k THEN Merged(chunks[k], f[k - 1]) ELSE f[i]]
  <2>3. IsMerge(g, chunks, k)
    <3>1. ASSUME NEW i \in 1..k
          PROVE  g[i] = IF i = 1 THEN chunks[1] ELSE Merged(chunks[i], g[i - 1])
      <4>1. CASE i = 1
        BY <4>1
      <4>2. CASE i # 1 /\ i # k
        <5>1. i \in 1..k - 1 /\ i - 1 \in 1..k - 1 /\ i - 1 # k
          BY <2>1, <4>2
        <5>2. f[i] = Merged(chunks[i], f[i - 1])
          BY <2>2, <4>2, <5>1 DEF IsMerge
        <5>3. g[i - 1] = f[i - 1]
          <6>1. CASE i - 1 = 1
            <7>1. f[1] = chunks[1]
              BY <2>2, <5>1, <6>1 DEF IsMerge
            <7> QED
              BY <5>1, <6>1, <7>1
          <6>2. CASE i - 1 # 1
            BY <5>1, <6>2
          <6> QED
            BY <6>1, <6>2
        <5> QED
          BY <4>2, <5>2, <5>3
      <4>3. CASE i # 1 /\ i = k
        <5>1. k - 1 \in 1..k - 1 /\ k - 1 # k /\ k - 1 \in 1..k
          BY <2>1, <4>3
        <5>2. g[k - 1] = f[k - 1]
          <6>1. CASE k - 1 = 1
            <7>1. f[1] = chunks[1]
              BY <2>2, <5>1, <6>1 DEF IsMerge
            <7> QED
              BY <5>1, <6>1, <7>1
          <6>2. CASE k - 1 # 1
            BY <5>1, <6>2
          <6> QED
            BY <6>1, <6>2
        <5> QED
          BY <4>3, <5>2
      <4> QED
        BY <4>1, <4>2, <4>3
    <3>2. g = [i \in 1..k |-> g[i]]
      OBVIOUS
    <3> HIDE DEF g
    <3> QED
      BY <3>1, <3>2 DEF IsMerge
  <2> QED
    BY <1>2, <2>3
<1> QED
  BY <1>3, <1>4

\* It is one function, whatever follows the first n.
Agree(c, d, k) == \A i \in 1..k : c[i] = d[i]

LEMMA MergeUnique ==
    ASSUME NEW c, NEW d, NEW n \in Nat, NEW m \in Nat, NEW k \in Nat,
           k # 0, k <= n, k <= m, Agree(c, d, k),
           NEW f, IsMerge(f, c, n), NEW g, IsMerge(g, d, m)
    PROVE  f[k] = g[k]
<1> DEFINE S == {i \in 0..k : i # 0 /\ f[i] # g[i]}
<1>1. SUFFICES ASSUME S # {} PROVE FALSE
  <2>1. k \in 0..k /\ k # 0
    OBVIOUS
  <2> QED
    BY <2>1
<1>2. PICK i \in S : \A y \in S : i <= y
  <2>1. S \subseteq 0..k /\ k \in Nat
    OBVIOUS
  <2> HIDE DEF S
  <2> QED
    BY <1>1, <2>1, LeastOf
<1>3. i \in 1..k /\ i \in 1..n /\ i \in 1..m /\ f[i] # g[i] /\ c[i] = d[i]
  BY <1>2 DEF Agree
<1>4. CASE i = 1
  BY <1>3, <1>4 DEF IsMerge
<1>5. CASE i # 1
  <2>1. i - 1 \in 0..k /\ i - 1 # 0 /\ ~(i <= i - 1)
    BY <1>3, <1>5
  <2>2. f[i - 1] = g[i - 1]
    BY <1>2, <2>1
  <2>3. f[i] = Merged(c[i], f[i - 1]) /\ g[i] = Merged(d[i], g[i - 1])
    BY <1>3, <1>5 DEF IsMerge
  <2> QED
    BY <1>3, <2>2, <2>3
<1> QED
  BY <1>4, <1>5

LEMMA MergedAllIs ==
    ASSUME NEW chunks \in Seq(Sync), chunks # <<>>
    PROVE  \E f : IsMerge(f, chunks, Len(chunks)) /\ MergedAll(chunks) = f[Len(chunks)]
<1> DEFINE upTo[i \in 1..Len(chunks)] ==
               IF i = 1 THEN chunks[1] ELSE Merged(chunks[i], upTo[i - 1])
<1>1. \E f : IsMerge(f, chunks, Len(chunks))
  BY MergeExists
<1>2. IsMerge(upTo, chunks, Len(chunks))
  BY <1>1 DEF IsMerge
<1>3. MergedAll(chunks) = upTo[Len(chunks)]
  BY DEF MergedAll
<1> HIDE DEF upTo
<1> QED
  BY <1>2, <1>3

-----------------------------------------------------------------------------
(***************************************************************************)
(* One merge.                                                              *)
(***************************************************************************)
LEMMA LaterIs ==
    /\ NoState \in State
    /\ \A x, y \in State : Later(x, y) \in State
    /\ \A x \in State : Later(NoState, x) = x /\ Later(x, NoState) = x
<1>1. NoState \in State /\ NoState.room = 0 /\ NoState.member = 0
  BY DEF NoState, State
<1>2. \A x, y \in State : Later(x, y) \in State
  BY DEF Later, State
<1>3. ASSUME NEW x \in State
      PROVE  Later(NoState, x) = x /\ Later(x, NoState) = x
  <2>1. x = [room |-> x.room, member |-> x.member]
    BY DEF State
  <2> QED
    BY <1>1, <2>1 DEF Later
<1> QED
  BY <1>1, <1>2, <1>3

LEMMA IsLimitedIs ==
    ASSUME NEW r \in Sync
    PROVE  /\ r.join # None => IsLimited(r) = r.join.limited
           /\ r.join = None => IsLimited(r) = (r.leave # None /\ r.leave.limited)
           /\ IsLimited(r) \in BOOLEAN
<1>1. CASE r.join # None
  <2>1. JoinedOrLeft(r) = "join" /\ r["join"] = r.join
    BY <1>1 DEF JoinedOrLeft
  <2>2. r.join \in Timeline
    BY <1>1 DEF Sync
  <2> QED
    BY <1>1, <2>1, <2>2 DEF IsLimited, Timeline
<1>2. CASE r.join = None
  <2>1. JoinedOrLeft(r) = "leave" /\ r["leave"] = r.leave
    BY <1>2 DEF JoinedOrLeft
  <2>2. r.leave \in Timeline \cup {None}
    BY DEF Sync
  <2> QED
    BY <1>2, <2>1, <2>2 DEF IsLimited, Timeline
<1> QED
  BY <1>1, <1>2

\* Timelines that are written in place.
LEMMA Flushed ==
    ASSUME NEW r \in Sync, r.join \in Timeline,
           NEW o, o = [r EXCEPT !.join.events = {}, !.join.limited = TRUE]
    PROVE  /\ o \in Sync /\ o.join \in Timeline
           /\ o.join.state = r.join.state /\ o.join.prev = r.join.prev
<1>1. o \in Sync
  BY DEF Sync, Timeline
<1>2. o.join \in Timeline
  BY DEF Sync, Timeline
<1>3. o.join.state = r.join.state
  BY DEF Sync, Timeline
<1>4. o.join.prev = r.join.prev
  BY DEF Sync, Timeline
<1> QED
  BY <1>1, <1>2, <1>3, <1>4

IsLeft(o, r, k, e) == o = [r EXCEPT !.leave.state = k, !.leave.events = e]

LEMMA LeftWith ==
    ASSUME NEW r \in Sync, r.leave \in Timeline, NEW k \in State, NEW e \in SUBSET Nat,
           NEW o, IsLeft(o, r, k, e)
    PROVE  o \in Sync /\ o.leave \in Timeline
<1>1. o \in Sync
  BY DEF Sync, Timeline, IsLeft
<1>2. o.leave \in Timeline
  BY DEF Sync, Timeline, IsLeft
<1> QED
  BY <1>1, <1>2

LEMMA NewLimitedIs ==
    ASSUME NEW new \in Sync, NEW old \in Sync,
           NEW o, o = NewLimited(new, old)
    PROVE  /\ o \in Sync
           /\ o.leave = old.leave /\ o.invite = old.invite
           /\ old.join = None => o.join = None
           /\ old.join # None =>
                /\ o.join # None
                /\ o.join.state = old.join.state
                /\ o.join.events = IF IsLimited(new) THEN {} ELSE old.join.events
                /\ o.join.limited = (IsLimited(new) \/ old.join.limited)
                /\ o.join.prev = old.join.prev
<1>1. CASE IsLimited(new) /\ old.join # None
  <2>1. o = [old EXCEPT !.join.events = {}, !.join.limited = TRUE]
    BY <1>1 DEF NewLimited
  <2>2. o \in Sync /\ o.join \in Timeline
    <3>1. old.join \in Timeline
      BY <1>1 DEF Sync
    <3> QED
      BY <2>1, <3>1, Flushed
  <2>3. o.leave = old.leave /\ o.invite = old.invite
    BY <1>1, <2>1 DEF Sync, Timeline
  <2>4. /\ o.join.events = {} /\ o.join.limited
        /\ o.join.state = old.join.state /\ o.join.prev = old.join.prev
    <3>1. old.join \in Timeline
      BY <1>1 DEF Sync
    <3>2. o.join.events = {} /\ o.join.limited
      BY <2>1, <3>1 DEF Sync, Timeline
    <3>3. o.join.state = old.join.state /\ o.join.prev = old.join.prev
      BY <2>1, <3>1, Flushed
    <3> QED
      BY <3>2, <3>3
  <2>5. o.join.limited \in BOOLEAN
    BY <2>2 DEF Timeline
  <2>6. o.join # None
    BY <2>2, NoneAssumption
  <2> QED
    BY <1>1, <2>2, <2>3, <2>4, <2>5, <2>6
<1>2. CASE ~(IsLimited(new) /\ old.join # None)
  <2>1. o = old
    BY <1>2 DEF NewLimited
  <2>2. IsLimited(new) \in BOOLEAN
    BY IsLimitedIs
  <2>3. old.join # None => old.join.limited \in BOOLEAN
    BY DEF Sync, Timeline
  <2> QED
    BY <1>2, <2>1, <2>2, <2>3
<1> QED
  BY <1>1, <1>2

LEMMA OldLimitedIs ==
    ASSUME NEW new \in Sync, NEW old \in Sync,
           NEW o, o = OldLimited(new, old)
    PROVE  /\ o \in Sync
           /\ o.leave = new.leave /\ o.invite = new.invite
           /\ new.join = None => o.join = None
           /\ new.join # None =>
                /\ o.join # None
                /\ o.join.state = new.join.state
                /\ o.join.events = new.join.events
                /\ o.join.limited = (IsLimited(old) \/ new.join.limited)
                /\ o.join.prev = new.join.prev
<1>1. CASE IsLimited(old) /\ new.join # None
  <2>1. o = [new EXCEPT !.join.limited = TRUE]
    BY <1>1 DEF OldLimited
  <2>2. o \in Sync /\ o.join \in Timeline
    <3>1. new.join \in Timeline
      BY <1>1 DEF Sync
    <3>2. o.join \in Timeline
      BY <2>1, <3>1 DEF Sync, Timeline
    <3>3. o \in Sync
      BY <2>1, <3>1 DEF Sync, Timeline
    <3> QED
      BY <3>2, <3>3
  <2>3. o.leave = new.leave /\ o.invite = new.invite
    BY <1>1, <2>1 DEF Sync, Timeline
  <2>4. /\ o.join.events = new.join.events /\ o.join.limited
        /\ o.join.state = new.join.state /\ o.join.prev = new.join.prev
    BY <1>1, <2>1 DEF Sync, Timeline
  <2>5. o.join.limited \in BOOLEAN
    BY <2>2 DEF Timeline
  <2>6. o.join # None
    BY <2>2, NoneAssumption
  <2> QED
    BY <1>1, <2>2, <2>3, <2>4, <2>5, <2>6
<1>2. CASE ~(IsLimited(old) /\ new.join # None)
  <2>1. o = new
    BY <1>2 DEF OldLimited
  <2>2. IsLimited(old) \in BOOLEAN
    BY IsLimitedIs
  <2>3. new.join # None => new.join.limited \in BOOLEAN
    BY DEF Sync, Timeline
  <2> QED
    BY <1>2, <2>1, <2>2, <2>3
<1> QED
  BY <1>1, <1>2

\* What a timeline has of one it follows: the state only.
SameButState(s, t) == /\ s.events = t.events
                      /\ s.limited = t.limited
                      /\ s.prev = t.prev

LEMMA AcceptedIs ==
    ASSUME NEW new \in Sync, NEW old \in Sync,
           NEW n, n = Accepted(new, old)[1], NEW o, o = Accepted(new, old)[2]
    PROVE  /\ n \in Sync /\ o \in Sync
           /\ n.invite = new.invite
           /\ n.join = None <=> new.join = None
           /\ n.leave = None <=> new.leave = None
           /\ o.join = old.join /\ o.leave = old.leave
           /\ o.invite = IF new.join # None \/ new.leave # None THEN None ELSE old.invite
           /\ new.join # None =>
                /\ SameButState(n.join, new.join)
                /\ n.join.state = IF old.invite = None THEN new.join.state
                                  ELSE Later(old.invite.state, new.join.state)
<1>1. CASE old.invite # None /\ new.join # None
  <2>1. JoinedOrLeft(new) = "join" /\ new["join"] # None
    BY <1>1 DEF JoinedOrLeft
  <2> DEFINE k == Later(old.invite.state, new.join.state)
  <2>2. n = [new EXCEPT !["join"].state = k] /\ o = [old EXCEPT !.invite = None]
    <3>1. Accepted(new, old) = <<[new EXCEPT !["join"].state = Later(old.invite.state, @)],
                                 [old EXCEPT !.invite = None]>>
      BY <1>1, <2>1 DEF Accepted
    <3> QED
      BY <3>1
  <2>3. k \in State
    BY <1>1, LaterIs DEF Sync, Timeline, Invitation
  <2> HIDE DEF k
  <2>4. o \in Sync /\ o.join = old.join /\ o.leave = old.leave /\ o.invite = None
    BY <2>2 DEF Sync
  <2>5. n \in Sync /\ n.join \in Timeline
    <3>1. new.join \in Timeline
      BY <1>1 DEF Sync
    <3>2. n.join \in Timeline
      BY <2>2, <2>3, <3>1 DEF Sync, Timeline
    <3>3. n \in Sync
      BY <2>2, <2>3, <3>1 DEF Sync, Timeline
    <3> QED
      BY <3>2, <3>3
  <2>6. n.invite = new.invite /\ n.leave = new.leave
    BY <1>1, <2>2 DEF Sync, Timeline
  <2>7. n.join.state = k /\ SameButState(n.join, new.join)
    BY <1>1, <2>2 DEF Sync, Timeline, SameButState
  <2>8. n.join # None
    BY <2>5, NoneAssumption
  <2> QED
    BY <1>1, <2>4, <2>5, <2>6, <2>7, <2>8 DEF k
<1>2. CASE old.invite # None /\ new.join = None /\ new.leave # None
  <2>1. JoinedOrLeft(new) = "leave" /\ new["leave"] # None
    BY <1>2 DEF JoinedOrLeft
  <2> DEFINE k == Later(old.invite.state, new.leave.state)
  <2>2. n = [new EXCEPT !["leave"].state = k] /\ o = [old EXCEPT !.invite = None]
    <3>1. Accepted(new, old) = <<[new EXCEPT !["leave"].state = Later(old.invite.state, @)],
                                 [old EXCEPT !.invite = None]>>
      BY <1>2, <2>1 DEF Accepted
    <3> QED
      BY <3>1
  <2>3. k \in State
    BY <1>2, LaterIs DEF Sync, Timeline, Invitation
  <2> HIDE DEF k
  <2>4. o \in Sync /\ o.join = old.join /\ o.leave = old.leave /\ o.invite = None
    BY <2>2 DEF Sync
  <2>5. n \in Sync /\ n.leave \in Timeline
    <3>1. new.leave \in Timeline
      BY <1>2 DEF Sync
    <3>2. n.leave \in Timeline
      BY <2>2, <2>3, <3>1 DEF Sync, Timeline
    <3>3. n \in Sync
      BY <2>2, <2>3, <3>1 DEF Sync, Timeline
    <3> QED
      BY <3>2, <3>3
  <2>6. n.invite = new.invite /\ n.join = new.join
    BY <1>2, <2>2 DEF Sync, Timeline
  <2>7. n.leave # None
    BY <2>5, NoneAssumption
  <2> QED
    BY <1>2, <2>4, <2>5, <2>6, <2>7
<1>3. CASE old.invite = None \/ (new.join = None /\ new.leave = None)
  <2>1. ~(old.invite # None /\ new[JoinedOrLeft(new)] # None)
    BY <1>3 DEF JoinedOrLeft
  <2>2. n = new /\ o = old
    BY <2>1 DEF Accepted
  <2> QED
    BY <1>3, <2>2 DEF SameButState
<1> QED
  BY <1>1, <1>2, <1>3

LeftAs(n, o, new, old) ==
    /\ n \in Sync /\ o \in Sync
    /\ n.join = new.join /\ n.invite = new.invite
    /\ n.leave = None <=> new.leave = None
    /\ o.leave = old.leave /\ o.invite = old.invite
    /\ o.join = IF new.leave # None THEN None ELSE old.join

LEMMA LeftIs ==
    ASSUME NEW new \in Sync, NEW old \in Sync,
           NEW n, n = Left(new, old)[1], NEW o, o = Left(new, old)[2]
    PROVE  LeftAs(n, o, new, old)
<1>1. CASE new.leave # None /\ old.join # None
  <2> DEFINE k == Later(old.join.state, new.leave.state)
  <2> DEFINE e == old.join.events \cup new.leave.events
  <2>1. n = [new EXCEPT !.leave.state = k, !.leave.events = e]
        /\ o = [old EXCEPT !.join = None]
    <3>1. Left(new, old) = <<[new EXCEPT !.leave.state = Later(old.join.state, @),
                                         !.leave.events = old.join.events \cup @],
                             [old EXCEPT !.join = None]>>
      BY <1>1 DEF Left
    <3>2. [new EXCEPT !.leave.state = Later(old.join.state, @),
                      !.leave.events = old.join.events \cup @]
            = [new EXCEPT !.leave.state = k, !.leave.events = e]
      BY <1>1 DEF Sync, Timeline
    <3> HIDE DEF k, e
    <3> QED
      BY <3>1, <3>2
  <2>2. k \in State /\ e \in SUBSET Nat
    BY <1>1, LaterIs DEF Sync, Timeline
  <2> HIDE DEF k, e
  <2>3. o \in Sync /\ o.join = None /\ o.leave = old.leave /\ o.invite = old.invite
    BY <2>1 DEF Sync
  <2>4. n \in Sync /\ n.leave \in Timeline
    <3>1. new.leave \in Timeline
      BY <1>1 DEF Sync
    <3>2. IsLeft(n, new, k, e)
      BY <2>1 DEF IsLeft
    <3> QED
      BY <2>2, <3>1, <3>2, LeftWith
  <2>5. n.invite = new.invite /\ n.join = new.join
    BY <1>1, <2>1 DEF Sync, Timeline
  <2>6. n.leave # None
    BY <2>4, NoneAssumption
  <2> QED
    BY <1>1, <2>3, <2>4, <2>5, <2>6 DEF LeftAs
<1>2. CASE ~(new.leave # None /\ old.join # None)
  <2>1. n = new /\ o = old
    BY <1>2 DEF Left
  <2> QED
    BY <1>2, <2>1 DEF LeftAs
<1> QED
  BY <1>1, <1>2

LEMMA SumIs ==
    ASSUME NEW old \in Timeline \cup {None}, NEW new \in Timeline \cup {None},
           NEW s, s = Sum(old, new)
    PROVE  /\ s \in Timeline \cup {None}
           /\ s = None <=> old = None /\ new = None
           /\ old = None => s = new
           /\ new = None => s = old
           /\ old # None /\ new # None =>
                /\ s.state = Later(old.state, new.state)
                /\ s.events = old.events \cup new.events
                /\ s.limited = new.limited
                /\ s.prev = new.prev
<1>1. CASE old # None /\ new # None
  <2> DEFINE k == Later(old.state, new.state)
  <2> DEFINE e == old.events \cup new.events
  <2>1. s = [new EXCEPT !.state = k, !.events = e]
    BY <1>1 DEF Sum, Timeline
  <2>2. k \in State /\ e \in SUBSET Nat
    BY <1>1, LaterIs DEF Timeline
  <2> HIDE DEF k, e
  <2>3. s \in Timeline
    BY <1>1, <2>1, <2>2 DEF Timeline
  <2>4. s.state = k /\ s.events = e /\ s.limited = new.limited /\ s.prev = new.prev
    BY <1>1, <2>1 DEF Timeline
  <2>5. s # None
    BY <2>3, NoneAssumption
  <2> QED
    BY <1>1, <2>3, <2>4, <2>5 DEF k, e
<1>2. CASE old = None \/ new = None
  BY <1>2 DEF Sum
<1> QED
  BY <1>1, <1>2

LEMMA SumInvitesIs ==
    ASSUME NEW old \in Invitation \cup {None}, NEW new \in Invitation \cup {None},
           NEW s, s = SumInvites(old, new)
    PROVE  /\ s \in Invitation \cup {None}
           /\ s = None <=> old = None /\ new = None
           /\ old = None => s = new
           /\ new = None => s = old
           /\ old # None /\ new # None => s.state = Later(old.state, new.state)
<1>1. CASE old # None /\ new # None
  <2> DEFINE k == Later(old.state, new.state)
  <2>1. s = [state |-> k]
    BY <1>1 DEF SumInvites
  <2>2. k \in State
    BY <1>1, LaterIs DEF Invitation
  <2> HIDE DEF k
  <2>3. s \in Invitation /\ s.state = k
    BY <2>1, <2>2 DEF Invitation
  <2>4. s # None
    BY <2>3, NoneAssumption
  <2> QED
    BY <1>1, <2>3, <2>4 DEF k
<1>2. CASE old = None \/ new = None
  BY <1>2 DEF SumInvites
<1> QED
  BY <1>1, <1>2

LEMMA InviteLeft ==
    ASSUME NEW old \in Invitation \cup {None}, NEW new \in Invitation \cup {None}
    PROVE  /\ SumInvites(old, new) = None <=> old = None /\ new = None
           /\ old = None => SumInvites(old, new) = new
           /\ new = None => SumInvites(old, new) = old
<1> DEFINE s == SumInvites(old, new)
<1>1. s = SumInvites(old, new)
  OBVIOUS
<1> HIDE DEF s
<1>2. (s = None <=> old = None /\ new = None) /\ (old = None => s = new) /\ (new = None => s = old)
  BY <1>1, SumInvitesIs
<1> QED
  BY <1>2 DEF s

\* What a section that may be missing has.
StateOf(s) == IF s = None THEN NoState ELSE s.state
EventsOf(s) == IF s = None THEN {} ELSE s.events
LimitedOf(s) == s # None /\ s.limited

LEMMA StateOfIs ==
    ASSUME NEW r \in Sync
    PROVE  /\ StateOf(r.join) \in State /\ StateOf(r.leave) \in State
           /\ StateOf(r.invite) \in State
BY LaterIs DEF StateOf, Sync, Timeline, Invitation

\* A room that is joined, after what came before.
Joining(j, new, old) ==
    /\ j # None
    /\ j.state = Later(StateOf(old.join), Later(StateOf(old.invite), new.join.state))
    /\ j.events = (IF new.join.limited THEN {} ELSE EventsOf(old.join))
                      \cup new.join.events
    /\ j.limited = (new.join.limited \/ LimitedOf(old.join))
    /\ j.prev = new.join.prev

LEMMA MergedIs ==
    ASSUME NEW new \in Sync, NEW old \in Sync, NEW m, m = Merged(new, old)
    PROVE  /\ m \in Sync
           /\ m.leave = None <=> old.leave = None /\ new.leave = None
           /\ new.join # None => m.join # None
           /\ new.invite # None => m.invite # None
           /\ new.leave # None /\ new.join = None /\ new.invite = None =>
                m.join = None /\ m.invite = None
           /\ new.leave = None /\ new.join = None =>
                m.join = old.join /\ m.invite = SumInvites(old.invite, new.invite)
           /\ new.leave = None /\ old.leave = None /\ new.join # None =>
                Joining(m.join, new, old) /\ m.invite = new.invite
<1> DEFINE F == NewLimited(new, old)
<1> DEFINE L == OldLimited(new, F)
<1> DEFINE A == Accepted(L, F)
<1> DEFINE B == Left(A[1], A[2])
<1>1. m = [join |-> Sum(B[2].join, B[1].join), leave |-> Sum(B[2].leave, B[1].leave),
           invite |-> SumInvites(B[2].invite, B[1].invite)]
  BY DEF Merged
<1> HIDE DEF F, L, A, B
<1>2. m.join = Sum(B[2].join, B[1].join) /\ m.leave = Sum(B[2].leave, B[1].leave)
      /\ m.invite = SumInvites(B[2].invite, B[1].invite)
  BY <1>1
<1>3. /\ F \in Sync
      /\ F.leave = old.leave /\ F.invite = old.invite
      /\ old.join = None => F.join = None
      /\ old.join # None =>
           /\ F.join # None
           /\ F.join.state = old.join.state
           /\ F.join.events = IF IsLimited(new) THEN {} ELSE old.join.events
           /\ F.join.limited = (IsLimited(new) \/ old.join.limited)
  BY NewLimitedIs DEF F
<1>4. /\ L \in Sync
      /\ L.leave = new.leave /\ L.invite = new.invite
      /\ new.join = None => L.join = None
      /\ new.join # None =>
           /\ L.join # None
           /\ L.join.state = new.join.state
           /\ L.join.events = new.join.events
           /\ L.join.limited = (IsLimited(F) \/ new.join.limited)
           /\ L.join.prev = new.join.prev
  BY <1>3, OldLimitedIs DEF L
<1>5. /\ A[1] \in Sync /\ A[2] \in Sync
      /\ A[1].invite = L.invite
      /\ A[1].join = None <=> L.join = None
      /\ A[1].leave = None <=> L.leave = None
      /\ A[2].join = F.join /\ A[2].leave = F.leave
      /\ A[2].invite = IF L.join # None \/ L.leave # None THEN None ELSE F.invite
      /\ L.join # None =>
           /\ SameButState(A[1].join, L.join)
           /\ A[1].join.state = IF F.invite = None THEN L.join.state
                                ELSE Later(F.invite.state, L.join.state)
  BY <1>3, <1>4, AcceptedIs DEF A
<1>6. /\ B[1] \in Sync /\ B[2] \in Sync
      /\ B[1].join = A[1].join /\ B[1].invite = A[1].invite
      /\ B[1].leave = None <=> A[1].leave = None
      /\ B[2].leave = A[2].leave /\ B[2].invite = A[2].invite
      /\ B[2].join = IF A[1].leave # None THEN None ELSE A[2].join
  <2>1. A[1] \in Sync /\ A[2] \in Sync
    BY <1>5
  <2> DEFINE n == B[1]
  <2> DEFINE o == B[2]
  <2>2. n = Left(A[1], A[2])[1] /\ o = Left(A[1], A[2])[2]
    BY DEF B
  <2> HIDE DEF n, o
  <2>3. LeftAs(n, o, A[1], A[2])
    BY <2>1, <2>2, LeftIs
  <2> QED
    BY <2>3 DEF n, o, LeftAs
<1>7. /\ B[1].join \in Timeline \cup {None} /\ B[2].join \in Timeline \cup {None}
      /\ B[1].leave \in Timeline \cup {None} /\ B[2].leave \in Timeline \cup {None}
      /\ B[1].invite \in Invitation \cup {None} /\ B[2].invite \in Invitation \cup {None}
  BY <1>6 DEF Sync
<1>8. /\ m.join \in Timeline \cup {None}
      /\ m.join = None <=> B[2].join = None /\ B[1].join = None
      /\ B[2].join = None => m.join = B[1].join
      /\ B[1].join = None => m.join = B[2].join
      /\ B[2].join # None /\ B[1].join # None =>
           /\ m.join.state = Later(B[2].join.state, B[1].join.state)
           /\ m.join.events = B[2].join.events \cup B[1].join.events
           /\ m.join.limited = B[1].join.limited
           /\ m.join.prev = B[1].join.prev
  BY <1>2, <1>7, SumIs
<1>9. /\ m.leave \in Timeline \cup {None}
      /\ m.leave = None <=> B[2].leave = None /\ B[1].leave = None
  BY <1>2, <1>7, SumIs
<1>10. /\ m.invite \in Invitation \cup {None}
       /\ m.invite = None <=> B[2].invite = None /\ B[1].invite = None
       /\ B[2].invite = None => m.invite = B[1].invite
  BY <1>2, <1>7, SumInvitesIs
<1>11. m \in Sync
  BY <1>1, <1>2, <1>8, <1>9, <1>10 DEF Sync
<1>12. m.leave = None <=> old.leave = None /\ new.leave = None
  BY <1>3, <1>4, <1>5, <1>6, <1>9
<1>13. new.join # None => m.join # None
  BY <1>4, <1>5, <1>6, <1>8
<1>14. new.invite # None => m.invite # None
  BY <1>4, <1>5, <1>6, <1>10
<1>15. new.leave # None /\ new.join = None /\ new.invite = None =>
         m.join = None /\ m.invite = None
  BY <1>4, <1>5, <1>6, <1>8, <1>10
<1>16. new.leave = None /\ new.join = None =>
         m.join = old.join /\ m.invite = SumInvites(old.invite, new.invite)
  <2>1. new.join = None /\ new.leave = None => ~IsLimited(new)
    BY IsLimitedIs
  <2>2. new.join = None /\ new.leave = None => F = old
    BY <2>1 DEF F, NewLimited
  <2> QED
    BY <1>2, <1>4, <1>5, <1>6, <1>8, <2>2
<1>17. ASSUME new.leave = None, old.leave = None, new.join # None
       PROVE  Joining(m.join, new, old) /\ m.invite = new.invite
  <2>1. m.invite = new.invite
    BY <1>4, <1>5, <1>6, <1>10, <1>17
  <2>2. IsLimited(new) = new.join.limited /\ new.join.limited \in BOOLEAN
    BY <1>17, IsLimitedIs DEF Sync, Timeline
  <2>3. new.join.state \in State
    BY <1>17 DEF Sync, Timeline
  <2>4. B[1].join # None /\ B[1].join = A[1].join /\ B[2].join = F.join
    BY <1>4, <1>5, <1>6, <1>17
  <2>5. B[1].join.state = Later(StateOf(old.invite), new.join.state)
    <3>1. Later(NoState, new.join.state) = new.join.state
      BY <2>3, LaterIs
    <3> QED
      BY <1>3, <1>4, <1>5, <1>17, <2>4, <3>1 DEF StateOf
  <2>6. /\ B[1].join.events = new.join.events
        /\ B[1].join.limited = (IsLimited(F) \/ new.join.limited)
        /\ B[1].join.prev = new.join.prev
    BY <1>4, <1>5, <1>17, <2>4 DEF SameButState
  <2>7. CASE old.join = None
    <3>1. F.join = None /\ F.leave = None
      BY <1>3, <1>17, <2>7
    <3>2. IsLimited(F) = FALSE
      BY <1>3, <3>1, IsLimitedIs
    <3>3. m.join = B[1].join
      BY <1>8, <2>4, <3>1
    <3>4. StateOf(old.join) = NoState /\ EventsOf(old.join) = {} /\ LimitedOf(old.join) = FALSE
      BY <2>7 DEF StateOf, EventsOf, LimitedOf
    <3>5. Later(NoState, B[1].join.state) = B[1].join.state
      <4>1. B[1].join.state \in State
        BY <1>7, <2>4 DEF Timeline
      <4> QED
        BY <4>1, LaterIs
    <3> QED
      BY <2>1, <2>2, <2>4, <2>5, <2>6, <3>2, <3>3, <3>4, <3>5 DEF Joining
  <2>8. CASE old.join # None
    <3>1. F.join # None /\ F.join.limited = (new.join.limited \/ old.join.limited)
      BY <1>3, <2>2, <2>8
    <3>2. IsLimited(F) = (new.join.limited \/ old.join.limited)
      BY <1>3, <3>1, IsLimitedIs
    <3>3. /\ m.join # None
          /\ m.join.state = Later(F.join.state, B[1].join.state)
          /\ m.join.events = F.join.events \cup B[1].join.events
          /\ m.join.limited = B[1].join.limited
          /\ m.join.prev = B[1].join.prev
      BY <1>8, <2>4, <3>1
    <3>4. /\ StateOf(old.join) = old.join.state /\ EventsOf(old.join) = old.join.events
          /\ LimitedOf(old.join) = old.join.limited
      BY <2>8 DEF StateOf, EventsOf, LimitedOf, Sync, Timeline
    <3>5. F.join.state = old.join.state
          /\ F.join.events = IF new.join.limited THEN {} ELSE old.join.events
      BY <1>3, <2>2, <2>8
    <3>6. old.join.limited \in BOOLEAN
      BY <2>8 DEF Sync, Timeline
    <3>7. m.join.limited = (new.join.limited \/ LimitedOf(old.join))
      BY <2>2, <2>6, <3>2, <3>3, <3>4, <3>6
    <3> QED
      BY <2>1, <2>4, <2>5, <2>6, <3>3, <3>4, <3>5, <3>7 DEF Joining
  <2> QED
    BY <2>7, <2>8
<1> QED
  BY <1>11, <1>12, <1>13, <1>14, <1>15, <1>16, <1>17

-----------------------------------------------------------------------------
(***************************************************************************)
(* Merging into the last chunk, or into what all of them make: it is the   *)
(* same to the session, which looks at what is joined and invited, and at  *)
(* whether the room was left.                                              *)
(***************************************************************************)
SameEffect(a, b) ==
    /\ a.leave = None <=> b.leave = None
    /\ a.join = None <=> b.join = None
    /\ a.join # None => a.join.state = b.join.state /\ SameButState(a.join, b.join)
    /\ a.invite = None <=> b.invite = None
    /\ a.invite # None => a.invite.state = b.invite.state

LEMMA LaterAssociates ==
    \A a, b, c : Later(a, Later(b, c)) = Later(Later(a, b), c)
BY DEF Later

LEMMA InvitesSum ==
    ASSUME NEW a \in Invitation \cup {None}, NEW b \in Invitation \cup {None}
    PROVE  StateOf(SumInvites(a, b)) = Later(StateOf(a), StateOf(b))
<1>1. CASE a # None /\ b # None
  BY <1>1, SumInvitesIs DEF StateOf
<1>2. CASE a = None
  <2>1. SumInvites(a, b) = b
    BY <1>2, SumInvitesIs
  <2> QED
    BY <1>2, <2>1, LaterIs DEF StateOf, Invitation
<1>3. CASE b = None
  <2>1. SumInvites(a, b) = a
    BY <1>3, SumInvitesIs
  <2> QED
    BY <1>3, <2>1, LaterIs DEF StateOf, Invitation
<1> QED
  BY <1>1, <1>2, <1>3

LEMMA MergeAssociates ==
    ASSUME NEW r \in Sync, NEW last \in Sync, NEW a \in Sync,
           NEW C, C = Merged(last, a), NEW M, M = Merged(r, last),
           Apart(r), Apart(C), C.leave # None => r.join = None /\ r.invite = None,
           NEW X, X = Merged(M, a), NEW Y, Y = Merged(r, C)
    PROVE  SameEffect(X, Y)
<1>1. C \in Sync /\ M \in Sync
  BY MergedIs
<1>2. /\ C.leave = None <=> a.leave = None /\ last.leave = None
      /\ last.join # None => C.join # None
      /\ last.invite # None => C.invite # None
      /\ last.leave = None /\ last.join = None =>
           C.join = a.join /\ C.invite = SumInvites(a.invite, last.invite)
      /\ last.leave = None /\ a.leave = None /\ last.join # None =>
           Joining(C.join, last, a) /\ C.invite = last.invite
  BY MergedIs
<1>3. /\ M.leave = None <=> last.leave = None /\ r.leave = None
      /\ r.leave # None /\ r.join = None /\ r.invite = None =>
           M.join = None /\ M.invite = None
      /\ r.leave = None /\ r.join = None =>
           M.join = last.join /\ M.invite = SumInvites(last.invite, r.invite)
      /\ r.leave = None /\ last.leave = None /\ r.join # None =>
           Joining(M.join, r, last) /\ M.invite = r.invite
  BY MergedIs
<1>4. /\ X.leave = None <=> a.leave = None /\ M.leave = None
      /\ M.leave # None /\ M.join = None /\ M.invite = None =>
           X.join = None /\ X.invite = None
      /\ M.leave = None /\ M.join = None =>
           X.join = a.join /\ X.invite = SumInvites(a.invite, M.invite)
      /\ M.leave = None /\ a.leave = None /\ M.join # None =>
           Joining(X.join, M, a) /\ X.invite = M.invite
  BY <1>1, MergedIs
<1>5. /\ Y.leave = None <=> C.leave = None /\ r.leave = None
      /\ r.leave # None /\ r.join = None /\ r.invite = None =>
           Y.join = None /\ Y.invite = None
      /\ r.leave = None /\ r.join = None =>
           Y.join = C.join /\ Y.invite = SumInvites(C.invite, r.invite)
      /\ r.leave = None /\ C.leave = None /\ r.join # None =>
           Joining(Y.join, r, C) /\ Y.invite = r.invite
  BY <1>1, MergedIs
<1>6. X.leave = None <=> Y.leave = None
  BY <1>2, <1>3, <1>4, <1>5
<1>7. /\ a.invite \in Invitation \cup {None} /\ last.invite \in Invitation \cup {None}
      /\ r.invite \in Invitation \cup {None} /\ C.invite \in Invitation \cup {None}
      /\ M.invite \in Invitation \cup {None}
  BY <1>1 DEF Sync
<1>8. SumInvites(None, None) = None
      /\ SumInvites(a.invite, None) = a.invite
      /\ SumInvites(last.invite, None) = last.invite
  BY <1>7, SumInvitesIs
<1>9. CASE r.leave # None
  <2>1. r.join = None /\ r.invite = None
    BY <1>9 DEF Apart
  <2>2. Y.join = None /\ Y.invite = None
    BY <1>5, <1>9, <2>1
  <2>3. M.leave # None /\ M.join = None /\ M.invite = None
    BY <1>3, <1>9, <2>1
  <2>4. X.join = None /\ X.invite = None
    BY <1>4, <2>3
  <2> QED
    BY <1>6, <2>2, <2>4 DEF SameEffect
<1>10. CASE r.leave = None /\ C.leave # None
  <2>1. r.join = None /\ r.invite = None /\ C.join = None /\ C.invite = None
    BY <1>10 DEF Apart
  <2>2. Y.join = None /\ Y.invite = None
    BY <1>5, <1>8, <1>10, <2>1
  <2>3. last.join = None /\ last.invite = None
    BY <1>2, <2>1
  <2>4. M.join = None /\ M.invite = None
    BY <1>3, <1>8, <1>10, <2>1, <2>3
  <2>5. CASE M.leave # None
    BY <1>4, <1>6, <2>2, <2>4, <2>5 DEF SameEffect
  <2>6. CASE M.leave = None
    <3>1. last.leave = None
      BY <1>3, <2>6
    <3>2. X.join = a.join /\ X.invite = a.invite
      BY <1>4, <1>8, <2>4, <2>6
    <3>3. C.join = a.join /\ C.invite = a.invite
      BY <1>2, <1>8, <2>3, <3>1
    <3> QED
      BY <1>6, <2>1, <2>2, <3>2, <3>3 DEF SameEffect
  <2> QED
    BY <2>5, <2>6
<1>11. CASE r.leave = None /\ C.leave = None
  <2>1. last.leave = None /\ a.leave = None /\ M.leave = None
    BY <1>2, <1>3, <1>11
  <2>2. CASE r.join = None /\ last.join = None
    <3>1. X.join = a.join /\ Y.join = a.join
      BY <1>2, <1>3, <1>4, <1>5, <1>11, <2>1, <2>2
    <3>2. M.invite = SumInvites(last.invite, r.invite)
          /\ C.invite = SumInvites(a.invite, last.invite)
          /\ X.invite = SumInvites(a.invite, M.invite)
          /\ Y.invite = SumInvites(C.invite, r.invite)
      BY <1>2, <1>3, <1>4, <1>5, <1>11, <2>1, <2>2
    <3>3. StateOf(X.invite) = Later(StateOf(a.invite), Later(StateOf(last.invite), StateOf(r.invite)))
      BY <1>7, <3>2, InvitesSum
    <3>4. StateOf(Y.invite) = Later(Later(StateOf(a.invite), StateOf(last.invite)), StateOf(r.invite))
      BY <1>7, <3>2, InvitesSum
    <3>5. StateOf(X.invite) = StateOf(Y.invite)
      BY <3>3, <3>4, LaterAssociates
    <3>6. X.invite = None <=> Y.invite = None
      <4>1. \A x, y \in Invitation \cup {None} :
              SumInvites(x, y) = None <=> x = None /\ y = None
        BY SumInvitesIs
      <4>2. M.invite = None <=> last.invite = None /\ r.invite = None
        BY <1>7, <3>2, <4>1
      <4>3. C.invite = None <=> a.invite = None /\ last.invite = None
        BY <1>7, <3>2, <4>1
      <4>4. X.invite = None <=> a.invite = None /\ M.invite = None
        BY <1>7, <3>2, <4>1
      <4>5. Y.invite = None <=> C.invite = None /\ r.invite = None
        BY <1>7, <3>2, <4>1
      <4> QED
        BY <4>2, <4>3, <4>4, <4>5
    <3> QED
      BY <1>6, <3>1, <3>5, <3>6 DEF SameEffect, SameButState, StateOf
  <2>3. CASE r.join = None /\ last.join # None
    <3>1. M.join = last.join /\ Joining(X.join, M, a) /\ X.invite = M.invite
      BY <1>3, <1>4, <1>11, <2>1, <2>3
    <3>2. Y.join = C.join /\ Joining(C.join, last, a) /\ C.invite = last.invite
      BY <1>2, <1>5, <1>11, <2>1, <2>3
    <3>3. X.invite = Y.invite
      BY <1>3, <1>5, <1>11, <2>3, <3>1, <3>2
    <3>4. /\ X.join # None /\ Y.join # None
          /\ X.join.state = Y.join.state
          /\ SameButState(X.join, Y.join)
      BY <3>1, <3>2 DEF Joining, SameButState
    <3> QED
      BY <1>6, <3>3, <3>4 DEF SameEffect
  <2>4. CASE r.join # None
    <3>1. Joining(M.join, r, last) /\ M.invite = r.invite
      BY <1>3, <1>11, <2>1, <2>4
    <3>2. Joining(X.join, M, a) /\ X.invite = M.invite
      BY <1>4, <2>1, <3>1 DEF Joining
    <3>3. Joining(Y.join, r, C) /\ Y.invite = r.invite
      BY <1>5, <1>11, <2>4
    <3>4. X.join # None /\ Y.join # None /\ X.join.prev = Y.join.prev
      BY <3>1, <3>2, <3>3 DEF Joining
    <3>5. /\ X.join.state = Later(StateOf(a.join), Later(StateOf(a.invite),
                              Later(StateOf(last.join), Later(StateOf(last.invite), r.join.state))))
          /\ Y.join.state = Later(StateOf(C.join), Later(StateOf(C.invite), r.join.state))
          /\ X.join.events = (IF M.join.limited THEN {} ELSE EventsOf(a.join))
                \cup ((IF r.join.limited THEN {} ELSE EventsOf(last.join)) \cup r.join.events)
          /\ Y.join.events = (IF r.join.limited THEN {} ELSE EventsOf(C.join))
                                \cup r.join.events
          /\ X.join.limited = (M.join.limited \/ LimitedOf(a.join))
          /\ Y.join.limited = (r.join.limited \/ LimitedOf(C.join))
          /\ M.join.limited = (r.join.limited \/ LimitedOf(last.join))
      BY <3>1, <3>2, <3>3 DEF Joining
    <3>6. r.join.limited \in BOOLEAN
      BY <2>4 DEF Sync, Timeline
    <3>7. CASE last.join = None
      <4>1. C.join = a.join /\ C.invite = SumInvites(a.invite, last.invite)
        BY <1>2, <2>1, <3>7
      <4>2. StateOf(C.invite) = Later(StateOf(a.invite), StateOf(last.invite))
        BY <1>7, <4>1, InvitesSum
      <4>3. StateOf(last.join) = NoState /\ EventsOf(last.join) = {} /\ LimitedOf(last.join) = FALSE
        BY <3>7 DEF StateOf, EventsOf, LimitedOf
      <4>4. \A x \in State : Later(NoState, x) = x
        BY LaterIs
      <4>5. X.join.state = Y.join.state
        <5> DEFINE x == Later(StateOf(last.invite), r.join.state)
        <5>1. Later(NoState, x) = x
          <6>1. x \in State
            BY <1>1, <2>4, LaterIs, StateOfIs DEF Sync, Timeline
          <6> HIDE DEF x
          <6> QED
            BY <6>1, <4>4
        <5>2. X.join.state = Later(StateOf(a.join), Later(StateOf(a.invite), x))
          BY <3>5, <4>3, <5>1
        <5> QED
          BY <3>5, <4>1, <4>2, <5>2, LaterAssociates
      <4>6. X.join.events = Y.join.events /\ X.join.limited = Y.join.limited
        BY <3>5, <3>6, <4>1, <4>3
      <4> QED
        BY <1>6, <3>2, <3>3, <3>4, <3>1, <4>5, <4>6 DEF SameEffect, SameButState
    <3>8. CASE last.join # None
      <4>1. Joining(C.join, last, a) /\ C.invite = last.invite
        BY <1>2, <2>1, <3>8
      <4>2. /\ StateOf(C.join) = Later(StateOf(a.join), Later(StateOf(a.invite), StateOf(last.join)))
            /\ EventsOf(C.join) = (IF last.join.limited THEN {} ELSE EventsOf(a.join))
                                     \cup EventsOf(last.join)
            /\ LimitedOf(C.join) = (last.join.limited \/ LimitedOf(a.join))
            /\ LimitedOf(last.join) = last.join.limited
            /\ last.join.limited \in BOOLEAN
        BY <3>8, <4>1 DEF Joining, StateOf, EventsOf, LimitedOf, Sync, Timeline
      <4>3. X.join.state = Y.join.state
        BY <3>5, <4>1, <4>2, LaterAssociates
      <4>4. X.join.events = Y.join.events
        BY <3>5, <3>6, <4>2
      <4>5. X.join.limited = Y.join.limited
        BY <3>5, <3>6, <4>2
      <4> QED
        BY <1>6, <3>1, <3>2, <3>3, <3>4, <4>3, <4>4, <4>5 DEF SameEffect, SameButState
    <3> QED
      BY <3>7, <3>8
  <2> QED
    BY <2>2, <2>3, <2>4
<1> QED
  BY <1>9, <1>10, <1>11

-----------------------------------------------------------------------------
(***************************************************************************)
(* What the cache makes, when a response comes to it.                      *)
(***************************************************************************)
LEMMA EmptyTyped == Empty \in Sync /\ Apart(Empty)
BY DEF Empty, Sync, Apart

LEMMA MergesTyped ==
    ASSUME NEW c \in Seq(Sync), NEW n \in 0..Len(c), NEW f, IsMerge(f, c, n),
           NEW k \in 1..n
    PROVE  f[k] \in Sync
<1> DEFINE S == {i \in 0..n : i # 0 /\ f[i] \notin Sync}
<1>1. SUFFICES ASSUME S # {} PROVE FALSE
  <2>1. k \in 0..n /\ k # 0
    OBVIOUS
  <2> QED
    BY <2>1
<1>2. PICK i \in S : \A y \in S : i <= y
  <2>1. S \subseteq 0..n /\ n \in Nat
    OBVIOUS
  <2> HIDE DEF S
  <2> QED
    BY <1>1, <2>1, LeastOf
<1>3. i \in 1..n /\ i \in 1..Len(c) /\ f[i] \notin Sync /\ c[i] \in Sync
  BY <1>2
<1>4. CASE i = 1
  BY <1>3, <1>4 DEF IsMerge
<1>5. CASE i # 1
  <2>1. i - 1 \in 0..n /\ i - 1 # 0 /\ ~(i <= i - 1)
    BY <1>3, <1>5
  <2>2. f[i - 1] \in Sync
    BY <1>2, <2>1
  <2>3. f[i] = Merged(c[i], f[i - 1])
    BY <1>3, <1>5 DEF IsMerge
  <2> QED
    BY <1>3, <2>2, <2>3, MergedIs
<1> QED
  BY <1>4, <1>5

LEMMA MergedAllTyped ==
    ASSUME NEW c \in Seq(Sync)
    PROVE  MergedAll(c) \in Sync
<1>1. CASE c = <<>>
  BY <1>1, EmptyTyped DEF MergedAll
<1>2. CASE c # <<>>
  <2>1. PICK f : IsMerge(f, c, Len(c)) /\ MergedAll(c) = f[Len(c)]
    BY <1>2, MergedAllIs
  <2>2. Len(c) \in 1..Len(c) /\ Len(c) \in 0..Len(c)
    BY <1>2
  <2> QED
    BY <2>1, <2>2, MergesTyped
<1> QED
  BY <1>1, <1>2

\* The last of several chunks is merged onto what the others make.
LEMMA LastMerged ==
    ASSUME NEW c \in Seq(Sync), NEW d \in Seq(Sync), NEW n \in Nat \ {0},
           Len(c) = n, Len(d) = n + 1, \A i \in 1..n : d[i] = c[i]
    PROVE  MergedAll(d) = Merged(d[n + 1], MergedAll(c))
<1>1. c # <<>> /\ d # <<>>
  OBVIOUS
<1>2. PICK f : IsMerge(f, c, n) /\ MergedAll(c) = f[n]
  BY <1>1, MergedAllIs
<1>3. PICK g : IsMerge(g, d, n + 1) /\ MergedAll(d) = g[n + 1]
  BY <1>1, MergedAllIs
<1>4. n + 1 \in 1..n + 1 /\ n + 1 # 1 /\ n + 1 - 1 = n /\ n \in 1..n /\ n <= n + 1
      /\ n \in Nat /\ n + 1 \in Nat
  OBVIOUS
<1>5. g[n + 1] = Merged(d[n + 1], g[n])
  BY <1>3, <1>4 DEF IsMerge
<1>6. Agree(c, d, n)
  BY DEF Agree
<1>7. f[n] = g[n]
  <2> DEFINE m == n + 1
  <2>1. m \in Nat /\ n <= m /\ IsMerge(g, d, m)
    BY <1>3, <1>4
  <2>2. IsMerge(f, c, n) /\ n \in Nat /\ n # 0 /\ n <= n
    BY <1>2
  <2> HIDE DEF m
  <2> QED
    BY <1>6, <2>1, <2>2, MergeUnique
<1> QED
  BY <1>2, <1>3, <1>5, <1>7

LEMMA OneMerged ==
    ASSUME NEW c \in Seq(Sync), Len(c) = 1
    PROVE  MergedAll(c) = c[1]
<1>1. PICK f : IsMerge(f, c, 1) /\ MergedAll(c) = f[1]
  <2>1. c # <<>>
    OBVIOUS
  <2> QED
    BY <2>1, MergedAllIs
<1> QED
  BY <1>1 DEF IsMerge

LEMMA MergedOntoEmpty ==
    ASSUME NEW r \in Sync, Apart(r)
    PROVE  SameEffect(r, Merged(r, Empty))
<1> DEFINE m == Merged(r, Empty)
<1>1. Empty.join = None /\ Empty.leave = None /\ Empty.invite = None
  BY DEF Empty
<1>2. /\ m.leave = None <=> Empty.leave = None /\ r.leave = None
      /\ r.leave # None /\ r.join = None /\ r.invite = None =>
           m.join = None /\ m.invite = None
      /\ r.leave = None /\ r.join = None =>
           m.join = Empty.join /\ m.invite = SumInvites(Empty.invite, r.invite)
      /\ r.leave = None /\ Empty.leave = None /\ r.join # None =>
           Joining(m.join, r, Empty) /\ m.invite = r.invite
  BY EmptyTyped, MergedIs
<1> HIDE DEF m
<1>3. SumInvites(None, r.invite) = r.invite
  BY SumInvitesIs DEF Sync
<1>4. ASSUME r.join # None, Joining(m.join, r, Empty)
      PROVE  m.join # None /\ r.join.state = m.join.state /\ SameButState(r.join, m.join)
  <2>1. StateOf(Empty.join) = NoState /\ StateOf(Empty.invite) = NoState
        /\ EventsOf(Empty.join) = {} /\ LimitedOf(Empty.join) = FALSE
    BY <1>1 DEF StateOf, EventsOf, LimitedOf
  <2>2. \A x \in State : Later(NoState, x) = x
    BY LaterIs
  <2>3. r.join.limited \in BOOLEAN
    BY <1>4 DEF Sync, Timeline
  <2> QED
    BY <1>4, <2>1, <2>2, <2>3 DEF Joining, SameButState
<1>5. SameEffect(r, m)
  BY <1>1, <1>2, <1>3, <1>4 DEF SameEffect, Apart
<1> QED
  BY <1>5 DEF m

LEMMA EffectReflexive == \A r : SameEffect(r, r)
BY DEF SameEffect, SameButState

LEMMA CacheGrows ==
    ASSUME NEW c \in Seq(Sync), NEW r \in Sync, NEW d,
           \/ d = Append(c, r)
           \/ c # <<>> /\ d = [c EXCEPT ![Len(c)] = Merged(r, @)],
           Apart(r), Apart(MergedAll(c)),
           MergedAll(c).leave # None => r.join = None /\ r.invite = None
    PROVE  d \in Seq(Sync) /\ SameEffect(MergedAll(d), Merged(r, MergedAll(c)))
<1> DEFINE n == Len(c)
<1>1. n \in Nat
  OBVIOUS
<1>2. CASE d = Append(c, r)
  <2>1. d \in Seq(Sync) /\ Len(d) = n + 1 /\ d[n + 1] = r /\ \A i \in 1..n : d[i] = c[i]
    BY <1>2
  <2>2. CASE c = <<>>
    <3>1. MergedAll(c) = Empty
      BY <2>2 DEF MergedAll
    <3>2. Len(d) = 1 /\ d[1] = r
      BY <2>1, <2>2
    <3>3. MergedAll(d) = r
      BY <2>1, <3>2, OneMerged
    <3> QED
      BY <2>1, <3>1, <3>3, MergedOntoEmpty
  <2>3. CASE c # <<>>
    <3>1. n \in Nat \ {0} /\ Len(c) = n
      BY <2>3
    <3> HIDE DEF n
    <3>2. MergedAll(d) = Merged(r, MergedAll(c))
      BY <2>1, <3>1, LastMerged
    <3> QED
      BY <2>1, <3>2, EffectReflexive
  <2> QED
    BY <2>2, <2>3
<1>3. CASE c # <<>> /\ d = [c EXCEPT ![Len(c)] = Merged(r, @)]
  <2>1. n \in 1..n /\ c[n] \in Sync
    BY <1>3
  <2>2. Merged(r, c[n]) \in Sync
    BY <2>1, MergedIs
  <2>3. d \in Seq(Sync) /\ Len(d) = n /\ d[n] = Merged(r, c[n])
        /\ \A i \in 1..n : i # n => d[i] = c[i]
    BY <1>3, <2>1, <2>2
  <2>4. CASE n = 1
    <3>1. MergedAll(c) = c[n] /\ MergedAll(d) = d[n]
      BY <2>3, <2>4, OneMerged
    <3> QED
      BY <2>3, <3>1, EffectReflexive
  <2>5. CASE n # 1
    <3> DEFINE e == [i \in 1..n - 1 |-> c[i]]
    <3>1. n - 1 \in Nat \ {0} /\ (n - 1) + 1 = n
      BY <2>1, <2>5
    <3>2. e \in Seq(Sync) /\ Len(e) = n - 1 /\ \A i \in 1..n - 1 : e[i] = c[i]
      <4>1. n - 1 \in Nat
        BY <2>1, <2>5
      <4>2. \A i \in 1..n - 1 : c[i] \in Sync
        BY <2>1
      <4>3. e \in Seq(Sync) /\ Len(e) = n - 1
        BY <4>1, <4>2
      <4> QED
        BY <4>3
    <3>3. \A i \in 1..n - 1 : d[i] = e[i]
      BY <2>3, <3>2
    <3>4. MergedAll(e) \in Sync
      BY <3>2, MergedAllTyped
    <3>5. MergedAll(c) = Merged(c[n], MergedAll(e))
      <4>1. Len(c) = (n - 1) + 1 /\ \A i \in 1..n - 1 : c[i] = e[i]
        BY <3>1, <3>2
      <4> HIDE DEF e, n
      <4> QED
        BY <3>1, <3>2, <4>1, LastMerged
    <3>6. MergedAll(d) = Merged(Merged(r, c[n]), MergedAll(e))
      <4>1. Len(d) = (n - 1) + 1 /\ d[(n - 1) + 1] = Merged(r, c[n]) /\ d \in Seq(Sync)
        BY <2>3, <3>1
      <4>2. MergedAll(d) = Merged(d[(n - 1) + 1], MergedAll(e))
        <5> DEFINE k == n - 1
        <5>1. /\ k \in Nat \ {0} /\ Len(e) = k /\ Len(d) = k + 1 /\ e \in Seq(Sync)
              /\ \A i \in 1..k : d[i] = e[i]
          BY <3>1, <3>2, <3>3, <4>1
        <5> HIDE DEF e, n, k
        <5>2. MergedAll(d) = Merged(d[k + 1], MergedAll(e))
          BY <4>1, <5>1, LastMerged
        <5> QED
          BY <5>2 DEF k
      <4> QED
        BY <4>1, <4>2
    <3> HIDE DEF e, n
    <3> QED
      BY <2>1, <2>3, <3>4, <3>5, <3>6, MergeAssociates
  <2> QED
    BY <2>4, <2>5
<1> QED
  BY <1>2, <1>3

-----------------------------------------------------------------------------
(***************************************************************************)
(* The node: the last of some events, and what a response has.             *)
(***************************************************************************)
LEMMA MaxIs ==
    ASSUME NEW N \in Nat, NEW S, S \subseteq 0..N, S # {}
    PROVE  /\ Max(S) \in S
           /\ \A y \in S : y <= Max(S)
           /\ \A x \in S : (\A y \in S : y <= x) => x = Max(S)
<1> DEFINE T == {N - x : x \in S}
<1>1. T \subseteq 0..N /\ T # {}
  <2>1. \A x \in S : x \in 0..N
    OBVIOUS
  <2>2. \A x \in S : N - x \in 0..N
    BY <2>1
  <2>3. PICK x \in S : TRUE
    OBVIOUS
  <2>4. N - x \in T
    BY <2>3
  <2> QED
    BY <2>2, <2>4
<1>2. PICK t \in T : \A u \in T : t <= u
  <2> HIDE DEF T
  <2> QED
    BY <1>1, LeastOf
<1>3. PICK x \in S : t = N - x
  BY <1>2
<1>4. \A y \in S : x >= y
  <2> SUFFICES ASSUME NEW y \in S PROVE x >= y
    OBVIOUS
  <2>1. N - y \in T
    OBVIOUS
  <2>2. N - x <= N - y
    BY <1>2, <1>3, <2>1
  <2> QED
    BY <2>2
<1>5. Max(S) \in S /\ \A y \in S : Max(S) >= y
  BY <1>3, <1>4 DEF Max
<1>6. \A y \in S : y \in Int
  <2>1. \A y \in 0..N : y \in Int
    OBVIOUS
  <2> QED
    BY <2>1
<1> HIDE DEF T
<1>7. \A y \in S : y <= Max(S)
  BY <1>5, <1>6
<1>8. ASSUME NEW z \in S, \A y \in S : y <= z
      PROVE  z = Max(S)
  <2>1. Max(S) <= z /\ z <= Max(S) /\ z \in Int /\ Max(S) \in Int
    BY <1>5, <1>6, <1>7, <1>8
  <2> QED
    BY <2>1
<1> QED
  BY <1>5, <1>7, <1>8

LEMMA LastOfIs ==
    ASSUME NEW p \in Nat, NEW kinds
    PROVE  /\ LastOf(kinds, p) \in 0..p
           /\ LastOf(kinds, p) # 0 => log[LastOf(kinds, p)] \in kinds
           /\ \A i \in 1..p : log[i] \in kinds => i <= LastOf(kinds, p)
<1> DEFINE S == {0} \cup {i \in 1..p : log[i] \in kinds}
<1>1. S \subseteq 0..p /\ S # {} /\ LastOf(kinds, p) = Max(S)
  BY DEF LastOf
<1>2. \A i \in S : i = 0 \/ (i \in 1..p /\ log[i] \in kinds)
  OBVIOUS
<1>3. \A i \in 1..p : log[i] \in kinds => i \in S
  OBVIOUS
<1> HIDE DEF S
<1>4. Max(S) \in S /\ \A y \in S : y <= Max(S)
  BY <1>1, MaxIs
<1> QED
  BY <1>1, <1>2, <1>3, <1>4

\* The last is still the last when no other came.
LEMMA LastOfStays ==
    ASSUME NEW q \in Nat, NEW p \in Nat, q <= p, NEW kinds, LastOf(kinds, p) <= q
    PROVE  LastOf(kinds, q) = LastOf(kinds, p)
<1> DEFINE a == LastOf(kinds, q)
<1> DEFINE b == LastOf(kinds, p)
<1>1. /\ a \in 0..q /\ a # 0 => log[a] \in kinds
  BY LastOfIs
<1>2. \A i \in 1..q : log[i] \in kinds => i <= a
  BY LastOfIs
<1>3. /\ b \in 0..p /\ b # 0 => log[b] \in kinds
  BY LastOfIs
<1>4. \A i \in 1..p : log[i] \in kinds => i <= b
  BY LastOfIs
<1>5. b <= q
  OBVIOUS
<1>6. a \in 0..q /\ b \in 0..p
  BY LastOfIs
<1> HIDE DEF a, b
<1>7. a <= b
  BY <1>1, <1>4, <1>6
<1>8. b <= a
  BY <1>2, <1>3, <1>5, <1>6
<1> QED
  BY <1>6, <1>7, <1>8 DEF a, b

LEMMA MembershipIs ==
    ASSUME NEW p \in Nat
    PROVE  /\ Membership(p) \in Memberships
           /\ Membership(p) = "join" => Joined(p) /\ LastOf({"join"}, p) # 0
           /\ Joined(p) => LastOf({"join"}, p) # 0
           /\ LastOf({"join"}, p) # 0 => Joined(p)
<1> DEFINE i == LastOf(Memberships, p)
<1> DEFINE j == LastOf({"join"}, p)
<1>1. i \in 0..p /\ (i # 0 => log[i] \in Memberships)
  BY LastOfIs
<1>2. Membership(p) = IF i = 0 THEN "leave" ELSE log[i]
  BY DEF Membership
<1>3. j \in 0..p /\ (j # 0 => log[j] = "join")
  BY LastOfIs
<1>4. \A k \in 1..p : log[k] = "join" => k <= j
  <2>1. \A k \in 1..p : log[k] \in {"join"} => k <= j
    BY LastOfIs
  <2> HIDE DEF j
  <2> QED
    BY <2>1
<1> HIDE DEF i, j
<1>5. Membership(p) = "join" => Joined(p)
  BY <1>1, <1>2 DEF Joined
<1>6. Joined(p) => j # 0
  BY <1>4, <1>3 DEF Joined
<1>7. j # 0 => Joined(p)
  BY <1>3 DEF Joined
<1>8. Membership(p) \in Memberships
  BY <1>1, <1>2 DEF Memberships
<1> QED
  BY <1>5, <1>6, <1>7, <1>8 DEF j

\* A section is of what is new up to p, or limited.
LEMMA SectionIs ==
    ASSUME NEW since \in Nat, NEW p \in Nat, since < p, NEW n \in Nat \ {0},
           NEW s, s = Section(since, p, n)
    PROVE  /\ s \in Timeline /\ Tells(s, p)
           /\ s.prev \in 0..p /\ s.events = s.prev + 1 .. p
           /\ ~s.limited => s.state = NoState
           /\ ~s.limited /\ Membership(since) = "join" => s.prev = since
           /\ ~s.limited /\ Membership(since) # "join" => s.prev = 0
           /\ Membership(since) # "join" /\ Joined(since) => s.limited
           /\ LastOf(Memberships, p) \in 1..s.prev =>
                \/ s.limited /\ s.state.member = LastOf(Memberships, p)
                \/ Membership(since) = "join" /\ s.state.member = 0
<1> DEFINE isNew == \E i \in since..p : Membership(i) # "join" /\ i < p
<1> DEFINE base == IF isNew THEN 0 ELSE since
<1> DEFINE start == IF p > base + n THEN p - n ELSE base
<1> DEFINE state == StateAt(start)
<1> DEFINE a == After(base, state.room)
<1> DEFINE b == After(base, state.member)
<1>1. s = [state |-> [room |-> a, member |-> b], events |-> start + 1 .. p,
           limited |-> start > base \/ (isNew /\ LastOf({"join"}, since) # 0),
           prev |-> start]
  BY DEF Section
<1>2. /\ state.room = LastOf({"state"}, start) /\ state.member = LastOf(Memberships, start)
      /\ a = IF state.room > base THEN state.room ELSE 0
      /\ b = IF state.member > base THEN state.member ELSE 0
  BY DEF StateAt, After
<1>3. Membership(since) # "join" => isNew
  OBVIOUS
<1>4. base \in 0..p
  OBVIOUS
<1> HIDE DEF isNew
<1>5. base \in Nat /\ (isNew => base = 0) /\ (~isNew => base = since)
  OBVIOUS
<1> HIDE DEF base
<1>6. start \in 0..p /\ start >= base
  BY <1>4
<1> HIDE DEF start
<1>7. /\ state.room \in 0..start /\ state.member \in 0..start
      /\ state.member # 0 => log[state.member] \in Memberships
  BY <1>2, <1>6, LastOfIs
<1> HIDE DEF state, a, b
<1>8. /\ s.state = [room |-> a, member |-> b] /\ s.state.member = b
      /\ s.events = start + 1 .. p /\ s.prev = start
      /\ s.limited = (start > base \/ (isNew /\ LastOf({"join"}, since) # 0))
  BY <1>1
<1>9. a \in 0..p /\ b \in 0..p /\ (b # 0 => log[b] \in Memberships)
  BY <1>2, <1>6, <1>7
<1>10. s \in Timeline
  <2>1. [room |-> a, member |-> b] \in State
    BY <1>9 DEF State
  <2>2. start + 1 .. p \subseteq Nat
    BY <1>6
  <2>3. (start > base \/ (isNew /\ LastOf({"join"}, since) # 0)) \in BOOLEAN
    OBVIOUS
  <2>4. start \in Nat
    BY <1>6
  <2> QED
    BY <1>1, <2>1, <2>2, <2>3, <2>4 DEF Timeline
<1>11. Tells(s, p)
  BY <1>8, <1>9 DEF Tells
<1>12. ~s.limited => start = base
  <2>1. start > base => s.limited
    BY <1>8
  <2>2. start > base \/ start = base
    BY <1>5, <1>6
  <2> QED
    BY <2>1, <2>2
<1>13. ~s.limited => s.state = NoState
  <2>1. start = base => a = 0 /\ b = 0
    BY <1>2, <1>5, <1>6, <1>7
  <2> QED
    BY <1>8, <1>12, <2>1 DEF NoState
<1>14. Membership(since) # "join" /\ Joined(since) => s.limited
  BY <1>3, <1>8, MembershipIs
<1>15. ~s.limited /\ Membership(since) # "join" => s.prev = 0
  BY <1>3, <1>5, <1>8, <1>12
<1>16. ~s.limited /\ Membership(since) = "join" => s.prev = since
  <2>1. Membership(since) = "join" => LastOf({"join"}, since) # 0
    BY MembershipIs
  <2> QED
    BY <1>5, <1>8, <1>12, <2>1
<1>17. ASSUME LastOf(Memberships, p) \in 1..s.prev
       PROVE  \/ s.limited /\ s.state.member = LastOf(Memberships, p)
              \/ Membership(since) = "join" /\ s.state.member = 0
  <2>1. state.member = LastOf(Memberships, p)
    <3>1. start \in Nat /\ start <= p /\ LastOf(Memberships, p) <= start
      BY <1>6, <1>8, <1>17
    <3>2. LastOf(Memberships, start) = LastOf(Memberships, p)
      BY <3>1, LastOfStays
    <3> QED
      BY <1>2, <3>2
  <2>2. state.member \in 1..start
    BY <1>8, <1>17, <2>1
  <2>3. CASE state.member > base
    <3>1. b = state.member /\ start > base
      BY <1>2, <1>5, <1>6, <2>2, <2>3
    <3> QED
      BY <1>8, <2>1, <3>1
  <2>4. CASE ~(state.member > base)
    <3>1. b = 0 /\ base # 0
      BY <1>2, <1>5, <2>2, <2>4
    <3>2. ~isNew
      BY <1>5, <3>1
    <3> QED
      BY <1>3, <1>8, <3>1, <3>2
  <2> QED
    BY <2>3, <2>4
<1> QED
  BY <1>6, <1>8, <1>10, <1>11, <1>13, <1>14, <1>15, <1>16, <1>17

LEMMA ResponseIs ==
    ASSUME NEW since \in Nat, log \in Seq(Kinds), since < Len(log),
           NEW n \in Nat \ {0}, NEW r, r = Response(since, n)
    PROVE  /\ r \in Sync /\ Apart(r)
           /\ r.join # None => r.leave = None /\ r.invite = None
           /\ r.join # None => Membership(Len(log)) = "join"
           /\ r.join # None => r.join = Section(since, Len(log), n)
           /\ r.leave # None => Membership(Len(log)) = "leave"
           /\ r.invite # None =>
                /\ Membership(Len(log)) = "invite"
                /\ Tells(r.invite, Len(log)) /\ r.invite.state.member # 0
                /\ log[r.invite.state.member] = "invite"
           /\ r.join = None /\ r.leave = None /\ r.invite = None =>
                /\ Membership(Len(log)) = Membership(since)
                /\ Membership(since) # "join"
<1> DEFINE p == Len(log)
<1> DEFINE changed == LastOf(Memberships, p)
<1>1. p \in Nat /\ since < p
  OBVIOUS
<1>2. changed \in 0..p
  BY <1>1, LastOfIs
<1>3. Membership(p) \in {"join", "leave", "invite"}
  BY <1>1, MembershipIs DEF Memberships
<1>4. Empty.join = None /\ Empty.leave = None /\ Empty.invite = None
  BY DEF Empty
<1>5. CASE Membership(p) = "join"
  <2>1. r = [Empty EXCEPT !.join = Section(since, p, n)]
    BY <1>1, <1>5 DEF Response
  <2> HIDE DEF p
  <2>2. Section(since, p, n) \in Timeline
    BY <1>1, SectionIs
  <2>3. r.join = Section(since, p, n) /\ r.leave = None /\ r.invite = None /\ r \in Sync
    BY <2>1, <2>2 DEF Empty, Sync
  <2>4. r.join # None
    BY <2>2, <2>3, NoneAssumption
  <2> QED
    BY <1>5, <2>3, <2>4 DEF Apart, p
<1>6. CASE Membership(p) = "leave" /\ changed > since
  <2>1. r = [Empty EXCEPT !.leave = LeftSection(since, changed, n)]
    BY <1>1, <1>6 DEF Response
  <2> HIDE DEF p, changed
  <2>2. LeftSection(since, changed, n) \in Timeline
    <3>1. changed \in Nat /\ since < changed
      BY <1>1, <1>2, <1>6
    <3>2. Section(since, changed, n) \in Timeline
      BY <3>1, SectionIs
    <3>3. [state |-> NoState, events |-> {changed}, limited |-> FALSE,
           prev |-> changed - 1] \in Timeline
      BY <3>1, LaterIs DEF Timeline
    <3> QED
      BY <3>2, <3>3 DEF LeftSection
  <2>3. r.leave = LeftSection(since, changed, n) /\ r.join = None /\ r.invite = None
        /\ r \in Sync
    BY <2>1, <2>2 DEF Empty, Sync
  <2>4. r.leave # None
    BY <2>2, <2>3, NoneAssumption
  <2> QED
    BY <1>6, <2>3, <2>4 DEF Apart, p
<1>7. CASE Membership(p) = "invite" /\ changed > since
  <2> DEFINE k == StateAt(changed)
  <2>1. r = [Empty EXCEPT !.invite = [state |-> k]]
    BY <1>1, <1>7 DEF Response
  <2>2. LastOf(Memberships, changed) = changed /\ log[changed] = "invite"
    <3>1. changed # 0 => Membership(p) = log[changed]
      BY DEF Membership
    <3>2. changed \in Nat /\ changed <= p /\ changed # 0
      BY <1>1, <1>2, <1>7
    <3>3. LastOf(Memberships, changed) = LastOf(Memberships, p)
      <4> HIDE DEF p
      <4>1. LastOf(Memberships, p) <= changed
        BY <3>2
      <4> QED
        BY <1>1, <3>2, <4>1, LastOfStays
    <3> QED
      BY <1>7, <3>1, <3>2, <3>3
  <2>3. k \in State /\ k.member = changed
    <3>1. k = [room |-> LastOf({"state"}, changed), member |-> LastOf(Memberships, changed)]
      BY DEF StateAt
    <3>2. LastOf({"state"}, changed) \in Nat /\ changed \in Nat
      <4> HIDE DEF changed
      <4> QED
        BY <1>2, LastOfIs
    <3> HIDE DEF k, changed
    <3> QED
      BY <2>2, <3>1, <3>2 DEF State
  <2>4. changed \in 1..p
    BY <1>1, <1>2, <1>7
  <2> HIDE DEF p, changed, k
  <2>5. [state |-> k] \in Invitation
    BY <2>3 DEF Invitation
  <2>6. r.invite = [state |-> k] /\ r.join = None /\ r.leave = None /\ r \in Sync
    BY <2>1, <2>5 DEF Empty, Sync
  <2>7. r.invite # None
    BY <2>5, <2>6, NoneAssumption
  <2>8. r.invite.state.member = changed
    BY <2>3, <2>6
  <2>9. Tells(r.invite, p) /\ r.invite.state.member # 0
    BY <2>2, <2>4, <2>8 DEF Tells, Memberships
  <2> QED
    BY <1>7, <2>2, <2>6, <2>7, <2>8, <2>9 DEF Apart, p
<1>8. CASE Membership(p) # "join" /\ ~(changed > since)
  <2>1. r = Empty
    BY <1>1, <1>3, <1>8 DEF Response
  <2>2. changed <= since
    BY <1>1, <1>2, <1>8
  <2>3. LastOf(Memberships, since) = changed
    <3> HIDE DEF p
    <3> QED
      BY <1>1, <2>2, LastOfStays
  <2>4. Membership(since) = Membership(p)
    <3>1. changed = 0 \/ changed # 0
      OBVIOUS
    <3> QED
      BY <2>3 DEF Membership
  <2> QED
    BY <1>4, <1>8, <2>1, <2>4, EmptyTyped
<1> QED
  BY <1>3, <1>5, <1>6, <1>7, <1>8

-----------------------------------------------------------------------------
(***************************************************************************)
(* The session.                                                            *)
(***************************************************************************)
\* What events tell: the last of a kind.
LEMMA LatestIs ==
    ASSUME NEW N \in Nat, NEW E \in SUBSET (1..N), NEW kinds
    PROVE  /\ LatestOf(kinds, E) \in 0..N
           /\ LatestOf(kinds, E) # 0 =>
                LatestOf(kinds, E) \in E /\ log[LatestOf(kinds, E)] \in kinds
           /\ \A i \in E : log[i] \in kinds => i <= LatestOf(kinds, E)
<1> DEFINE S == {0} \cup {i \in E : log[i] \in kinds}
<1>1. S \subseteq 0..N /\ S # {} /\ LatestOf(kinds, E) = Max(S)
  <2>1. S \subseteq 0..N /\ S # {}
    <3>1. 1..N \subseteq 0..N /\ 0 \in 0..N
      OBVIOUS
    <3>2. \A i \in E : i \in 1..N
      OBVIOUS
    <3> QED
      BY <3>1, <3>2
  <2>2. LatestOf(kinds, E) = Max(S)
    BY DEF LatestOf
  <2> QED
    BY <2>1, <2>2
<1>2. \A i \in S : i = 0 \/ (i \in E /\ log[i] \in kinds)
  OBVIOUS
<1>3. \A i \in E : log[i] \in kinds => i \in S
  OBVIOUS
<1> HIDE DEF S
<1>4. Max(S) \in S /\ \A y \in S : y <= Max(S)
  BY <1>1, MaxIs
<1> QED
  BY <1>1, <1>2, <1>3, <1>4

LEMMA ToldIs ==
    ASSUME NEW N \in Nat, NEW E \in SUBSET (1..N)
    PROVE  /\ Told(E) \in State
           /\ Told(E).member \in 0..N
           /\ Told(E).member # 0 =>
                Told(E).member \in E /\ log[Told(E).member] \in Memberships
           /\ \A i \in E : log[i] \in Memberships => i <= Told(E).member
<1> DEFINE a == LatestOf({"state"}, E)
<1> DEFINE b == LatestOf(Memberships, E)
<1>1. Told(E) = [room |-> a, member |-> b]
  BY DEF Told
<1>2. a \in 0..N /\ b \in 0..N
  BY LatestIs
<1>3. /\ b # 0 => b \in E /\ log[b] \in Memberships
      /\ \A i \in E : log[i] \in Memberships => i <= b
  BY LatestIs
<1> HIDE DEF a, b
<1> QED
  BY <1>1, <1>2, <1>3 DEF State

\* The last of two timelines, one after the other.
Precede(E, F, t, p) == E \subseteq 1..t /\ F \subseteq t + 1 .. p
LEMMA LatestBoth ==
    ASSUME NEW t \in Nat, NEW p \in Nat, t <= p, NEW E, NEW F, Precede(E, F, t, p),
           NEW kinds
    PROVE  LatestOf(kinds, E \cup F)
             = IF LatestOf(kinds, F) = 0 THEN LatestOf(kinds, E) ELSE LatestOf(kinds, F)
<1> DEFINE e == LatestOf(kinds, E)
<1> DEFINE f == LatestOf(kinds, F)
<1> DEFINE g == LatestOf(kinds, E \cup F)
<1>1. E \in SUBSET (1..p) /\ F \in SUBSET (1..p) /\ E \cup F \in SUBSET (1..p)
  BY DEF Precede
<1>2. /\ e \in 0..p /\ f \in 0..p /\ g \in 0..p
      /\ e # 0 => e \in E /\ log[e] \in kinds
      /\ f # 0 => f \in F /\ log[f] \in kinds
      /\ g # 0 => g \in E \cup F /\ log[g] \in kinds
  BY <1>1, LatestIs
<1>3. /\ \A i \in E : log[i] \in kinds => i <= e
      /\ \A i \in F : log[i] \in kinds => i <= f
      /\ \A i \in E \cup F : log[i] \in kinds => i <= g
  BY <1>1, LatestIs
<1>4. \A i \in E, k \in F : i < k
  BY DEF Precede
<1> HIDE DEF e, f, g
<1>5. CASE f = 0
  <2>1. g # 0 => g \in E
    <3>1. g \in F /\ log[g] \in kinds => g <= f
      BY <1>3
    <3> QED
      BY <1>2, <1>5, <3>1
  <2>2. g # 0 => g <= e
    BY <1>2, <1>3, <2>1
  <2>3. e # 0 => e <= g
    BY <1>2, <1>3
  <2>4. g = e
    BY <1>2, <2>2, <2>3
  <2> QED
    BY <1>5, <2>4 DEF e, f, g
<1>6. CASE f # 0
  <2>1. f <= g
    BY <1>2, <1>3, <1>6
  <2>2. g \in E => FALSE
    BY <1>2, <1>4, <1>6, <2>1
  <2>3. g <= f
    BY <1>2, <1>3, <1>6, <2>1, <2>2
  <2>4. g = f
    BY <1>2, <2>1, <2>3
  <2> QED
    BY <1>6, <2>4 DEF e, f, g
<1> QED
  BY <1>5, <1>6

LEMMA ToldBoth ==
    ASSUME NEW t \in Nat, NEW p \in Nat, t <= p, NEW E, NEW F, Precede(E, F, t, p)
    PROVE  Told(E \cup F) = Later(Told(E), Told(F))
BY LatestBoth DEF Told, Later

\* Events that are left out tell nothing new.
LEMMA ToldLess ==
    ASSUME NEW N \in Nat, NEW E \in SUBSET (1..N), NEW K
    PROVE  /\ Told(E).room = 0 => Told(E \ K).room = 0
           /\ Told(E).member = 0 => Told(E \ K).member = 0
<1>1. ASSUME NEW kinds
      PROVE  LatestOf(kinds, E) = 0 => LatestOf(kinds, E \ K) = 0
  <2> DEFINE a == LatestOf(kinds, E \ K)
  <2>1. a \in 0..N /\ (a # 0 => a \in E /\ log[a] \in kinds)
    <3>1. E \ K \in SUBSET (1..N)
      OBVIOUS
    <3> QED
      BY <3>1, LatestIs
  <2>2. \A i \in E : log[i] \in kinds => i <= LatestOf(kinds, E)
    BY LatestIs
  <2> HIDE DEF a
  <2>3. LatestOf(kinds, E) = 0 => a = 0
    BY <2>1, <2>2
  <2> QED
    BY <2>3 DEF a
<1> QED
  BY <1>1 DEF Told

IsInitial(room) == room.membership \in {"unknown", "invite"}
Kept(room, s) == IF IsInitial(room) \/ s.limited THEN {} ELSE room.messages

\* What a section tells a room, and the membership that this leaves it.
Tidings(room, s) == Later(s.state, Told(s.events \ Kept(room, s)))
EnteredAs(room, membership) == IF lazyLoading THEN membership ELSE room.membership
Standing(membership, tidings) ==
    IF tidings.member = 0 THEN membership ELSE log[tidings.member]

JoinedAs(h, room, s) ==
    /\ h.membership = Standing(EnteredAs(room, "join"), Tidings(room, s))
    /\ h.state = Later(room.state, Tidings(room, s))
    /\ h.messages = Kept(room, s) \cup s.events
    /\ h.back = IF s.limited THEN s.prev ELSE IF IsInitial(room) THEN 0 ELSE room.back
    /\ h = [membership |-> h.membership, state |-> h.state, messages |-> h.messages,
            back |-> h.back]

Made(m, x, y, z) == [membership |-> m, state |-> x, messages |-> y, back |-> z]
LEMMA StatedIs ==
    ASSUME NEW m, NEW x, NEW y, NEW z, NEW d
    PROVE  Stated(Made(m, x, y, z), d) = Made(Standing(m, d), Later(x, d), y, z)
<1> DEFINE r == Made(m, x, y, z)
<1>1. r.state = x /\ r.membership = m
  BY DEF Made
<1>2. Stated(r, d) = [r EXCEPT !.state = Later(x, d), !.membership = Standing(m, d)]
  <2> HIDE DEF r
  <2>1. (IF d.member = 0 THEN r.membership ELSE log[d.member]) = Standing(m, d)
    BY <1>1 DEF Standing
  <2> QED
    BY <1>1, <2>1 DEF Stated
<1> DEFINE k == Later(x, d)
<1> DEFINE l == Standing(m, d)
<1>3. Stated(r, d) = [r EXCEPT !.state = k, !.membership = l]
  BY <1>2
<1> HIDE DEF k, l
<1>4. Stated(r, d) = Made(l, k, y, z)
  <2> DEFINE h == Stated(r, d)
  <2>1. h = [Made(m, x, y, z) EXCEPT !.state = k, !.membership = l]
    BY <1>3
  <2> HIDE DEF h
  <2>2. h = Made(l, k, y, z)
    BY <2>1 DEF Made
  <2> QED
    BY <2>2 DEF h
<1> QED
  BY <1>4 DEF k, l

LEMMA JoinedIs ==
    ASSUME NEW room \in Room, NEW s
    PROVE  JoinedAs(HandleJoined(room, s), room, s)
<1> DEFINE h == HandleJoined(room, s)
<1> DEFINE m == EnteredAs(room, "join")
<1> DEFINE x == room.state
<1> DEFINE y == Kept(room, s)
<1> DEFINE z == IF s.limited THEN s.prev ELSE IF IsInitial(room) THEN 0 ELSE room.back
<1> DEFINE e == Told(s.events \ y)
<1> DEFINE ready == [Entered(room, "join") EXCEPT
                        !.messages = IF IsInitial(room) \/ s.limited THEN {} ELSE @,
                        !.back = IF s.limited THEN s.prev ELSE IF IsInitial(room) THEN 0 ELSE @]
<1>1. h = AddEvents(Stated(ready, s.state), s.events)
  BY DEF HandleJoined, IsInitial
<1>2. ready = Made(m, x, y, z)
  <2>1. room = [membership |-> room.membership, state |-> room.state,
                messages |-> room.messages, back |-> room.back]
    BY DEF Room
  <2>2. Entered(room, "join") = Made(m, room.state, room.messages, room.back)
    BY <2>1 DEF Entered, EnteredAs, Made
  <2> DEFINE q == Made(m, room.state, room.messages, room.back)
  <2>3. q.messages = room.messages /\ q.back = room.back
    BY DEF Made
  <2>4. ready = [q EXCEPT !.messages = y, !.back = z]
    <3> HIDE DEF q, m
    <3>1. ready = [q EXCEPT
                     !.messages = IF IsInitial(room) \/ s.limited THEN {} ELSE q.messages,
                     !.back = IF s.limited THEN s.prev ELSE IF IsInitial(room) THEN 0 ELSE q.back]
      BY <2>2 DEF q
    <3> QED
      BY <2>3, <3>1 DEF Kept
  <2> HIDE DEF y, z, m
  <2>5. ready = [Made(m, room.state, room.messages, room.back)
                   EXCEPT !.messages = y, !.back = z]
    BY <2>4
  <2> HIDE DEF ready
  <2> QED
    BY <2>5 DEF Made, x
<1> HIDE DEF h, ready, m, x, z
<1>3. Stated(ready, s.state) = Made(Standing(m, s.state), Later(x, s.state), y, z)
  BY <1>2, StatedIs
<1>4. h = [Stated(Made(Standing(m, s.state), Later(x, s.state), y, z), e)
             EXCEPT !.messages = @ \cup s.events]
  BY <1>1, <1>3 DEF AddEvents, Made
<1>5. Stated(Made(Standing(m, s.state), Later(x, s.state), y, z), e)
        = Made(Standing(Standing(m, s.state), e), Later(Later(x, s.state), e), y, z)
  BY StatedIs
<1>6. Later(Later(x, s.state), e) = Later(x, Later(s.state, e))
  BY LaterAssociates
<1>7. Standing(Standing(m, s.state), e) = Standing(m, Later(s.state, e))
  BY DEF Standing, Later
<1>8. h = Made(Standing(m, Later(s.state, e)), Later(x, Later(s.state, e)),
               y \cup s.events, z)
  <2> HIDE DEF e, y
  <2> QED
    BY <1>4, <1>5, <1>6, <1>7 DEF Made
<1>9. Later(s.state, e) = Tidings(room, s)
  BY DEF Tidings
<1> HIDE DEF e, y
<1>10. /\ h.membership = Standing(m, Tidings(room, s))
       /\ h.state = Later(x, Tidings(room, s))
       /\ h.messages = y \cup s.events /\ h.back = z
       /\ h = [membership |-> h.membership, state |-> h.state, messages |-> h.messages,
               back |-> h.back]
  BY <1>8, <1>9 DEF Made
<1>11. JoinedAs(h, room, s)
  BY <1>10 DEF m, x, y, z, JoinedAs
<1> QED
  BY <1>11 DEF h

LEMMA InvitedIs ==
    ASSUME NEW room \in Room, NEW s, NEW h, h = HandleInvited(room, s)
    PROVE  /\ s.state.member # 0 => h.membership = log[s.state.member]
           /\ h.state = Later(room.state, s.state)
           /\ h.messages = room.messages
           /\ h.back = room.back
<1>1. room = [membership |-> room.membership, state |-> room.state,
              messages |-> room.messages, back |-> room.back]
  BY DEF Room
<1>2. Entered(room, "invite")
        = Made(EnteredAs(room, "invite"), room.state, room.messages, room.back)
  BY <1>1 DEF Entered, EnteredAs, Made
<1>3. h = Made(Standing(EnteredAs(room, "invite"), s.state), Later(room.state, s.state),
               room.messages, room.back)
  BY <1>2, StatedIs DEF HandleInvited
<1> QED
  BY <1>3 DEF Made, Standing

LEMMA HandledIs ==
    ASSUME NEW room, NEW r
    PROVE  /\ r.leave # None => HandleSync(room, r) = NoRoom
           /\ r.leave = None /\ r.join = None /\ r.invite = None =>
                HandleSync(room, r) = room
           /\ r.leave = None /\ r.join # None /\ r.invite = None =>
                HandleSync(room, r) = HandleJoined(room, r.join)
           /\ r.leave = None /\ r.join = None /\ r.invite # None =>
                HandleSync(room, r) = HandleInvited(room, r.invite)
           /\ r.leave = None /\ r.join # None /\ r.invite # None =>
                HandleSync(room, r) = HandleInvited(HandleJoined(room, r.join), r.invite)
BY DEF HandleSync

\* Only the effect of a response matters.
LEMMA EffectHandled ==
    ASSUME NEW room, NEW a, NEW b, SameEffect(a, b)
    PROVE  HandleSync(room, a) = HandleSync(room, b)
<1>1. ASSUME a.join # None
      PROVE  HandleJoined(room, a.join) = HandleJoined(room, b.join)
  <2>1. /\ a.join.state = b.join.state /\ a.join.events = b.join.events
        /\ a.join.limited = b.join.limited /\ a.join.prev = b.join.prev
    BY <1>1 DEF SameEffect, SameButState
  <2> QED
    BY <2>1 DEF HandleJoined
<1>2. ASSUME NEW room1, a.invite # None
      PROVE  HandleInvited(room1, a.invite) = HandleInvited(room1, b.invite)
  BY <1>2 DEF HandleInvited, SameEffect
<1> QED
  BY <1>1, <1>2, HandledIs DEF SameEffect

LEMMA JoinedTyped ==
    ASSUME NEW room \in Room, NEW s \in Timeline, NEW N \in Nat,
           s.events \subseteq 1..N, Tells(s, N)
    PROVE  HandleJoined(room, s) \in Room
<1> DEFINE h == HandleJoined(room, s)
<1> DEFINE K == Kept(room, s)
<1> DEFINE d == Tidings(room, s)
<1> DEFINE e == Told(s.events \ K)
<1>1. JoinedAs(h, room, s)
  BY JoinedIs
<1>2. s.state \in State /\ s.prev \in Nat /\ s.events \subseteq Nat
  BY DEF Timeline
<1>3. /\ room.state \in State /\ room.messages \subseteq Nat /\ room.back \in Nat
      /\ room.membership \in {"unknown"} \cup Memberships
  BY DEF Room
<1>4. K \subseteq Nat
  BY <1>3 DEF Kept
<1>5. e \in State /\ (e.member # 0 => log[e.member] \in Memberships)
  <2>1. s.events \ K \in SUBSET (1..N)
    OBVIOUS
  <2> QED
    BY <2>1, ToldIs
<1>6. d = Later(s.state, e)
  BY DEF Tidings
<1> HIDE DEF h, K, d, e
<1>7. d \in State /\ Later(room.state, d) \in State
  BY <1>2, <1>3, <1>5, <1>6, LaterIs
<1>8. d.member # 0 => log[d.member] \in Memberships
  <2>1. d.member = IF e.member = 0 THEN s.state.member ELSE e.member
    BY <1>6 DEF Later
  <2> QED
    BY <1>5, <2>1 DEF Tells
<1>9. EnteredAs(room, "join") \in {"unknown"} \cup Memberships
  BY <1>3 DEF EnteredAs, Memberships
<1>10. h.membership \in {"unknown"} \cup Memberships
  <2>1. h.membership = Standing(EnteredAs(room, "join"), d)
    BY <1>1 DEF JoinedAs, d
  <2> QED
    BY <1>8, <1>9, <2>1 DEF Standing
<1>11. h.state \in State
  BY <1>1, <1>7 DEF JoinedAs, d
<1>12. h.messages \in SUBSET Nat
  BY <1>1, <1>2, <1>4 DEF JoinedAs, K
<1>13. h.back \in Nat
  BY <1>1, <1>2, <1>3 DEF JoinedAs
<1>14. h = [membership |-> h.membership, state |-> h.state, messages |-> h.messages,
            back |-> h.back]
  BY <1>1 DEF JoinedAs
<1>15. h \in Room
  BY <1>10, <1>11, <1>12, <1>13, <1>14 DEF Room
<1> QED
  BY <1>15 DEF h

LEMMA InvitedTyped ==
    ASSUME NEW room \in Room, NEW s \in Invitation, NEW N \in Nat, Tells(s, N)
    PROVE  HandleInvited(room, s) \in Room
<1>1. room.membership \in {"unknown"} \cup Memberships /\ room.state \in State
  BY DEF Room
<1>2. s.state \in State /\ (s.state.member # 0 => log[s.state.member] \in Memberships)
  BY DEF Invitation, Tells
<1>3. EnteredAs(room, "invite") \in {"unknown"} \cup Memberships
  BY <1>1 DEF EnteredAs, Memberships
<1> DEFINE m == Standing(EnteredAs(room, "invite"), s.state)
<1>4. m \in {"unknown"} \cup Memberships
  BY <1>2, <1>3 DEF Standing
<1>5. Later(room.state, s.state) \in State
  BY <1>1, <1>2, LaterIs
<1>6. HandleInvited(room, s) = Made(m, Later(room.state, s.state), room.messages, room.back)
  <2>1. room = [membership |-> room.membership, state |-> room.state,
                messages |-> room.messages, back |-> room.back]
    BY DEF Room
  <2>2. Entered(room, "invite")
          = Made(EnteredAs(room, "invite"), room.state, room.messages, room.back)
    BY <2>1 DEF Entered, EnteredAs, Made
  <2> QED
    BY <2>2, StatedIs DEF HandleInvited
<1> HIDE DEF m
<1> QED
  BY <1>4, <1>5, <1>6 DEF Made, Room

LEMMA HandledTyped ==
    ASSUME NEW room \in Room, NEW r \in Sync, NEW N \in Nat,
           r.join # None => r.join.events \subseteq 1..N /\ Tells(r.join, N),
           r.invite # None => Tells(r.invite, N)
    PROVE  HandleSync(room, r) \in Room
<1>1. NoRoom \in Room
  BY LaterIs DEF NoRoom, Room
<1>2. ASSUME r.join # None
      PROVE  HandleJoined(room, r.join) \in Room
  <2>1. r.join \in Timeline
    BY <1>2 DEF Sync
  <2> QED
    BY <1>2, <2>1, JoinedTyped
<1>3. ASSUME NEW room1 \in Room, r.invite # None
      PROVE  HandleInvited(room1, r.invite) \in Room
  <2>1. r.invite \in Invitation
    BY <1>3 DEF Sync
  <2> QED
    BY <1>3, <2>1, InvitedTyped
<1> QED
  BY <1>1, <1>2, <1>3, HandledIs

-----------------------------------------------------------------------------
(***************************************************************************)
(* A response more.                                                        *)
(***************************************************************************)
LEMMA JoinedStays ==
    ASSUME NEW t \in Nat, NEW p \in Nat, t <= p, Joined(t)
    PROVE  Joined(p)
BY DEF Joined

LEMMA TellsMore ==
    ASSUME NEW r, NEW t \in Nat, NEW p \in Nat, t <= p, Tells(r, t)
    PROVE  Tells(r, p)
BY DEF Tells

\* The state of the room that takes what is merged.
Rest(room, s) == IF s = None THEN NoState ELSE Told(s.events \ Kept(room, s))

LEMMA TakenState ==
    ASSUME NEW room \in Room, NEW c \in Sync, c.leave = None, NEW t \in Nat,
           c.join # None => c.join.events \subseteq 1..t /\ Tells(c.join, t)
    PROVE  HandleSync(room, c).state
             = Later(Later(Later(room.state, StateOf(c.join)), Rest(room, c.join)),
                     StateOf(c.invite))
<1> DEFINE x == Later(Later(room.state, StateOf(c.join)), Rest(room, c.join))
<1>1. ASSUME c.join # None
      PROVE  HandleJoined(room, c.join) \in Room /\ HandleJoined(room, c.join).state = x
  <2>1. c.join \in Timeline
    BY <1>1 DEF Sync
  <2>2. JoinedAs(HandleJoined(room, c.join), room, c.join)
    BY JoinedIs
  <2>3. HandleJoined(room, c.join).state
          = Later(room.state, Later(c.join.state, Told(c.join.events \ Kept(room, c.join))))
    BY <2>2 DEF JoinedAs, Tidings
  <2>4. StateOf(c.join) = c.join.state
        /\ Rest(room, c.join) = Told(c.join.events \ Kept(room, c.join))
    BY <1>1 DEF StateOf, Rest
  <2> QED
    BY <1>1, <2>1, <2>3, <2>4, JoinedTyped, LaterAssociates
<1>2. ASSUME c.join = None
      PROVE  room.state = x
  <2>1. StateOf(c.join) = NoState /\ Rest(room, c.join) = NoState
    BY <1>2 DEF StateOf, Rest
  <2> QED
    BY <2>1, LaterIs DEF Room
<1>3. ASSUME NEW y \in Room, c.invite # None
      PROVE  HandleInvited(y, c.invite).state = Later(y.state, StateOf(c.invite))
  BY <1>3, InvitedIs DEF StateOf
<1>4. x \in State
  <2>1. c.join # None => Rest(room, c.join) \in State
    <3>1. c.join # None => c.join.events \ Kept(room, c.join) \in SUBSET (1..t)
      OBVIOUS
    <3> QED
      BY <3>1, ToldIs DEF Rest
  <2>2. Rest(room, c.join) \in State
    BY <2>1, LaterIs DEF Rest
  <2> QED
    BY <2>2, LaterIs, StateOfIs DEF Room
<1>5. c.invite = None => Later(x, StateOf(c.invite)) = x
  BY <1>4, LaterIs DEF StateOf
<1> HIDE DEF x
<1>6. HandleSync(room, c).state = Later(x, StateOf(c.invite))
  <2>1. CASE c.join = None /\ c.invite = None
    BY <1>2, <1>5, <2>1, HandledIs
  <2>2. CASE c.join # None /\ c.invite = None
    BY <1>1, <1>5, <2>2, HandledIs
  <2>3. CASE c.join = None /\ c.invite # None
    BY <1>2, <1>3, <2>3, HandledIs
  <2>4. CASE c.join # None /\ c.invite # None
    BY <1>1, <1>3, <2>4, HandledIs
  <2> QED
    BY <2>1, <2>2, <2>3, <2>4
<1> QED
  BY <1>6 DEF x

\* The membership of a room that takes an invitation.
LEMMA TakenMembership ==
    ASSUME NEW room \in Room, NEW c \in Sync, c.leave = None, NEW t \in Nat,
           c.join # None => c.join.events \subseteq 1..t /\ Tells(c.join, t),
           c.invite # None, c.invite.state.member # 0,
           log[c.invite.state.member] = "invite"
    PROVE  HandleSync(room, c).membership = "invite"
<1>1. c.join # None => HandleJoined(room, c.join) \in Room
  BY JoinedTyped DEF Sync
<1> QED
  BY <1>1, HandledIs, InvitedIs

\* The room, before a response comes.
Ready(room, other, c, t) ==
    /\ room \in Room /\ other \in Room /\ c \in Sync
    /\ Upto(c, room, t)
    /\ Follows(HandleSync(room, c), other, t)

\* A section tells what some events do.
Covers(s, events) ==
    /\ Told(events).room # 0 => Later(s.state, Told(s.events)).room # 0
    /\ Told(events).member # 0 => Later(s.state, Told(s.events)).member # 0

\* The user's membership in a room that is joined.
LEMMA JoinMembership ==
    ASSUME NEW t \in Nat, NEW p \in Nat, t < p, NEW n \in Nat \ {0},
           NEW S, NEW R, NEW C, Ready(S, R, C, t), C.leave = None,
           NEW s, s = Section(t, p, n), Membership(p) = "join",
           s.limited /\ C.join # None => Covers(s, C.join.events),
           NEW j,
           j.state = Later(StateOf(C.join), Later(StateOf(C.invite), s.state)),
           j.events = (IF s.limited THEN {} ELSE EventsOf(C.join)) \cup s.events,
           j.limited = (s.limited \/ LimitedOf(C.join))
    PROVE  /\ HandleJoined(R, s).membership = "join"
           /\ HandleJoined(S, j).membership = "join"
<1> DEFINE k == LastOf(Memberships, p)
<1> DEFINE T == HandleSync(S, C)
<1>1. /\ s \in Timeline /\ Tells(s, p)
      /\ s.prev \in 0..p /\ s.events = s.prev + 1 .. p
      /\ ~s.limited => s.state = NoState
      /\ ~s.limited /\ Membership(t) = "join" => s.prev = t
      /\ ~s.limited /\ Membership(t) # "join" => s.prev = 0
      /\ Membership(t) # "join" /\ Joined(t) => s.limited
      /\ k \in 1..s.prev => \/ s.limited /\ s.state.member = k
                            \/ Membership(t) = "join" /\ s.state.member = 0
  BY SectionIs
<1>2. k \in 1..p /\ log[k] = "join"
  <2>1. k \in 0..p
    BY LastOfIs
  <2>2. Membership(p) = IF k = 0 THEN "leave" ELSE log[k]
    BY DEF Membership
  <2> HIDE DEF k
  <2> QED
    BY <2>1, <2>2
<1>3. \A i \in 1..p : log[i] \in Memberships => i <= k
  BY LastOfIs
<1>4. log[k] \in Memberships
  BY <1>2 DEF Memberships
<1>5. /\ S \in Room /\ R \in Room /\ C \in Sync
      /\ C.join # None => C.join.events \subseteq 1..t /\ Tells(C.join, t)
      /\ C.invite # None => /\ C.invite.state.member # 0
                            /\ log[C.invite.state.member] = "invite"
      /\ S.membership = "join" \/ C.join # None => Joined(t)
      /\ S.messages \subseteq 1..t
      /\ T.membership = R.membership /\ T.messages = R.messages
      /\ R.membership = MemberOf(t)
  BY DEF Ready, Upto, Follows
<1>6. s.limited \in BOOLEAN
  BY <1>1 DEF Timeline
<1>7. T \in Room /\ R.messages \subseteq 1..t
  <2>1. C.join # None => HandleJoined(S, C.join) \in Room
    BY <1>5, JoinedTyped DEF Sync
  <2>2. C.join # None => HandleJoined(S, C.join).messages \subseteq 1..t
    <3>1. JoinedAs(HandleJoined(S, C.join), S, C.join)
      BY <1>5, JoinedIs
    <3> QED
      BY <1>5, <3>1 DEF JoinedAs, Kept
  <2>3. T \in Room
    BY <1>5, HandledTyped DEF Ready, Upto
  <2>4. \A x \in Room : HandleInvited(x, C.invite).messages = x.messages
    BY InvitedIs
  <2> QED
    BY <1>5, <2>1, <2>2, <2>3, <2>4, HandledIs
<1>8. Membership(t) = "join" => R.membership = "join" /\ C.invite = None
  <2>1. Membership(t) = "join" => R.membership = "join"
    BY <1>5 DEF MemberOf
  <2>2. C.invite # None => T.membership = "invite"
    BY <1>5, TakenMembership
  <2> QED
    BY <1>5, <2>1, <2>2
<1>9. Membership(t) # "join" => IsInitial(R) /\ (~s.limited => IsInitial(S) /\ C.join = None)
  <2>1. Membership(t) \in {"join", "leave", "invite"}
    BY MembershipIs DEF Memberships
  <2>2. Membership(t) # "join" => IsInitial(R)
    BY <1>5, <2>1 DEF MemberOf, IsInitial
  <2>3. S.membership \in {"unknown", "join", "invite"}
    BY <1>5 DEF Ready, Upto, Room, Memberships
  <2> QED
    BY <1>1, <1>5, <2>2, <2>3 DEF IsInitial
<1>10. C.join # None => C.join.events \in SUBSET (1..t)
  BY <1>5
<1>11. C.join # None => C.join.limited \in BOOLEAN
  BY <1>5 DEF Sync, Timeline
<1> DEFINE f == s.events \ Kept(R, s)
<1> DEFINE g == j.events \ Kept(S, j)
<1> DEFINE D == Tidings(R, s)
<1> DEFINE E == Tidings(S, j)
<1>12. /\ HandleJoined(R, s).membership = Standing(EnteredAs(R, "join"), D)
       /\ HandleJoined(S, j).membership = Standing(EnteredAs(S, "join"), E)
  BY <1>5, JoinedIs DEF JoinedAs
<1>13. /\ D.member = IF Told(f).member = 0 THEN s.state.member ELSE Told(f).member
       /\ E.member = IF Told(g).member = 0 THEN j.state.member ELSE Told(g).member
  BY DEF Tidings, Later
<1>14. j.state.member = IF s.state.member # 0 THEN s.state.member
                        ELSE Later(StateOf(C.join), StateOf(C.invite)).member
  BY DEF Later
<1>15. EventsOf(C.join) \subseteq 1..t
  BY <1>10 DEF EventsOf
<1>16. f \in SUBSET (1..p) /\ g \in SUBSET (1..p)
  BY <1>1, <1>15
<1>17. /\ Told(f).member \in 0..p
       /\ Told(f).member # 0 => Told(f).member \in f /\ log[Told(f).member] \in Memberships
       /\ \A i \in f : log[i] \in Memberships => i <= Told(f).member
  BY <1>16, ToldIs
<1>18. /\ Told(g).member \in 0..p
       /\ Told(g).member # 0 => Told(g).member \in g /\ log[Told(g).member] \in Memberships
       /\ \A i \in g : log[i] \in Memberships => i <= Told(g).member
  BY <1>16, ToldIs
<1>19. Kept(R, s) \subseteq 1..t /\ Kept(S, j) \subseteq 1..t
  BY <1>5, <1>7 DEF Kept
<1>20. /\ s.limited => Kept(R, s) = {} /\ Kept(S, j) = {}
       /\ ~s.limited /\ Membership(t) # "join" => Kept(R, s) = {} /\ Kept(S, j) = {}
  BY <1>6, <1>9 DEF Kept
<1>21. CASE k \in s.events
  <2>1. k \notin Kept(R, s) /\ k \notin Kept(S, j)
    BY <1>1, <1>19, <1>20, <1>21
  <2>2. k \in f /\ k \in g
    BY <1>21, <2>1
  <2> HIDE DEF f, g, k, D, E
  <2>3. Told(f).member = k
    BY <1>2, <1>3, <1>4, <1>16, <1>17, <2>2
  <2>4. Told(g).member = k
    BY <1>2, <1>3, <1>4, <1>16, <1>18, <2>2
  <2> QED
    BY <1>2, <1>12, <1>13, <2>3, <2>4 DEF Standing
<1>22. CASE k \notin s.events
  <2> HIDE DEF k
  <2>1. k \in 1..s.prev
    BY <1>1, <1>2, <1>22
  <2>2. \A i \in s.events : log[i] \notin Memberships
    <3>1. \A i \in s.events : i \in 1..p /\ ~(i <= k)
      BY <1>1, <1>2, <2>1
    <3> QED
      BY <1>3, <3>1
  <2>3. Told(f).member = 0
    BY <1>17, <2>2
  <2>4. CASE s.limited /\ s.state.member = k
    <3>1. g = s.events
      BY <1>20, <2>4
    <3>2. Told(g).member = 0
      BY <1>18, <2>2, <3>1
    <3>3. D.member = k /\ E.member = k /\ k # 0
      BY <1>2, <1>13, <1>14, <2>3, <2>4, <3>2
    <3> QED
      BY <1>2, <1>12, <3>3 DEF Standing
  <2>5. CASE Membership(t) = "join" /\ s.state.member = 0
    <3>1. D.member = 0 /\ EnteredAs(R, "join") = "join"
      BY <1>8, <1>13, <2>3, <2>5 DEF EnteredAs
    <3>2. HandleJoined(R, s).membership = "join"
      BY <1>12, <3>1 DEF Standing
    <3>3. C.invite = None /\ T.membership = "join"
      BY <1>5, <1>8, <2>5
    <3>4. j.state.member = StateOf(C.join).member
      <4>1. StateOf(C.invite) = NoState
        BY <3>3 DEF StateOf
      <4>2. Later(StateOf(C.join), NoState) = StateOf(C.join)
        BY <1>5, LaterIs, StateOfIs
      <4> QED
        BY <1>14, <2>5, <4>1, <4>2
    <3>5. CASE C.join = None
      <4>1. g \subseteq s.events
        BY <3>5 DEF EventsOf
      <4>2. Told(g).member = 0
        BY <1>18, <2>2, <4>1
      <4>3. StateOf(C.join).member = 0
        BY <3>5 DEF StateOf, NoState
      <4>4. E.member = 0
        BY <1>13, <3>4, <4>2, <4>3
      <4>5. T = S
        BY <3>3, <3>5, HandledIs
      <4>6. EnteredAs(S, "join") = "join"
        BY <3>3, <4>5 DEF EnteredAs
      <4>7. HandleJoined(S, j).membership = "join"
        BY <1>12, <4>4, <4>6 DEF Standing
      <4> QED
        BY <3>2, <4>7
    <3>6. CASE C.join # None
      <4> DEFINE c == C.join
      <4> DEFINE h == c.events \ Kept(S, c)
      <4>1. T = HandleJoined(S, c)
        BY <3>3, <3>6, HandledIs
      <4>2. T.membership = Standing(EnteredAs(S, "join"), Tidings(S, c))
        BY <1>5, <4>1, JoinedIs DEF JoinedAs
      <4>3. Tidings(S, c).member = IF Told(h).member = 0 THEN c.state.member
                                   ELSE Told(h).member
        BY DEF Tidings, Later
      <4>4. j.state.member = c.state.member
        BY <3>4, <3>6 DEF StateOf
      <4>5. Told(g).member = Told(h).member
        <5>1. CASE s.limited
          <6>1. g = s.events
            BY <1>20, <5>1
          <6>2. Told(g).member = 0
            BY <1>18, <2>2, <6>1
          <6>3. Kept(R, s) = {} /\ f = s.events
            BY <1>20, <5>1
          <6>4. Later(s.state, Told(s.events)).member = 0
            BY <2>3, <2>5, <6>3 DEF Later
          <6>5. Told(c.events).member = 0
            BY <3>6, <5>1, <6>4 DEF Covers
          <6>6. Told(h).member = 0
            BY <1>10, <3>6, <6>5, ToldLess
          <6> QED
            BY <6>2, <6>6
        <5>2. CASE ~s.limited
          <6>1. j.limited = c.limited /\ j.events = c.events \cup s.events
            BY <1>6, <1>11, <3>6, <5>2 DEF LimitedOf, EventsOf
          <6>2. Kept(S, j) = Kept(S, c)
            BY <6>1 DEF Kept
          <6>3. h \subseteq g /\ g \subseteq h \cup s.events
            BY <6>1, <6>2
          <6>4. h \in SUBSET (1..p)
            BY <1>16, <6>3
          <6>5. /\ Told(h).member \in 0..p
                /\ Told(h).member # 0 => Told(h).member \in h
                                         /\ log[Told(h).member] \in Memberships
                /\ \A i \in h : log[i] \in Memberships => i <= Told(h).member
            BY <6>4, ToldIs
          <6> HIDE DEF g, h
          <6>6. Told(h).member # 0 => Told(h).member <= Told(g).member
            BY <1>18, <6>3, <6>5
          <6>7. Told(g).member # 0 => Told(g).member <= Told(h).member
            BY <1>18, <2>2, <6>3, <6>5
          <6> QED
            BY <1>18, <6>5, <6>6, <6>7
        <5> QED
          BY <1>6, <5>1, <5>2
      <4>6. E.member = Tidings(S, c).member
        BY <1>13, <4>3, <4>4, <4>5
      <4>7. HandleJoined(S, j).membership = T.membership
        <5> HIDE DEF E, T, c
        <5> QED
          BY <1>12, <4>2, <4>6 DEF Standing
      <4> QED
        BY <3>2, <3>3, <4>7
    <3> QED
      BY <3>5, <3>6
  <2> QED
    BY <1>1, <2>1, <2>4, <2>5
<1> QED
  BY <1>21, <1>22

LEMMA JoinMore ==
    ASSUME NEW t \in Nat, NEW p \in Nat, t < p, NEW n \in Nat \ {0},
           NEW S, NEW R, NEW C, Ready(S, R, C, t), C.leave = None,
           NEW r \in Sync, r.leave = None, r.invite = None, r.join # None,
           Membership(p) = "join", r.join = Section(t, p, n),
           r.join.limited /\ C.join # None => Covers(r.join, C.join.events),
           NEW m \in Sync, m.leave = None, m.invite = None, Joining(m.join, r, C)
    PROVE  Follows(HandleSync(S, m), HandleSync(R, r), p)
<1> DEFINE s == r.join
<1> DEFINE j == m.join
<1> DEFINE T == HandleSync(S, C)
<1> DEFINE U == HandleJoined(S, j)
<1> DEFINE V == HandleJoined(R, s)
<1>1. HandleSync(S, m) = U /\ HandleSync(R, r) = V
  BY HandledIs DEF Joining
<1>2. JoinedAs(U, S, j) /\ JoinedAs(V, R, s)
  BY JoinedIs DEF Ready
<1>3. /\ s \in Timeline
      /\ s.prev \in 0..p /\ s.events = s.prev + 1 .. p
      /\ ~s.limited => s.state = NoState
      /\ ~s.limited /\ Membership(t) = "join" => s.prev = t
      /\ ~s.limited /\ Membership(t) # "join" => s.prev = 0
      /\ Membership(t) # "join" /\ Joined(t) => s.limited
  BY SectionIs
<1>4. /\ j.state = Later(StateOf(C.join), Later(StateOf(C.invite), s.state))
      /\ j.events = (IF s.limited THEN {} ELSE EventsOf(C.join)) \cup s.events
      /\ j.limited = (s.limited \/ LimitedOf(C.join))
      /\ j.prev = s.prev
  BY DEF Joining
<1>5. /\ S \in Room /\ R \in Room /\ C \in Sync
      /\ C.join # None => C.join.events \subseteq 1..t /\ Tells(C.join, t)
      /\ C.invite # None => /\ C.invite.state.member # 0
                            /\ log[C.invite.state.member] = "invite"
      /\ S.membership = "join" \/ C.join # None => Joined(t)
      /\ S.membership # "leave"
      /\ S.messages \subseteq 1..t
      /\ T.membership = R.membership /\ T.state = R.state /\ T.messages = R.messages
      /\ R.membership = MemberOf(t)
      /\ T.membership = "join" => T.back + 1 .. t \subseteq T.messages
  BY DEF Ready, Upto, Follows
<1>6. MemberOf(p) = "join"
  BY DEF MemberOf
<1>7. (Membership(t) = "join" => ~IsInitial(R)) /\ (Membership(t) # "join" => IsInitial(R))
      /\ (Membership(t) = "join" => R.membership = "join")
  <2>1. Membership(t) \in {"join", "leave", "invite"}
    BY MembershipIs DEF Memberships
  <2> QED
    BY <1>5, <2>1 DEF MemberOf, IsInitial
<1>8. U.membership = "join" /\ V.membership = "join"
  <2>1. s.limited /\ C.join # None => Covers(s, C.join.events)
    OBVIOUS
  <2>2. s = Section(t, p, n)
    OBVIOUS
  <2> HIDE DEF s, j
  <2> QED
    BY <1>4, <2>1, <2>2, JoinMembership
<1>9. s.limited \in BOOLEAN /\ s.state \in State
  BY <1>3 DEF Timeline
<1> DEFINE c == StateOf(C.join)
<1> DEFINE i == StateOf(C.invite)
<1> DEFINE F == Rest(S, C.join)
<1>10. T.state = Later(Later(Later(S.state, c), F), i)
  BY <1>5, TakenState
<1>11. /\ U.state = Later(S.state, Tidings(S, j))
       /\ V.state = Later(R.state, Tidings(R, s))
       /\ U.messages = Kept(S, j) \cup j.events /\ V.messages = Kept(R, s) \cup s.events
       /\ U.back = IF j.limited THEN j.prev ELSE IF IsInitial(S) THEN 0 ELSE S.back
  BY <1>2 DEF JoinedAs
<1>12. SUFFICES /\ U.state = V.state
                /\ U.messages = V.messages
                /\ U.back + 1 .. p \subseteq U.messages
  BY <1>1, <1>6, <1>8 DEF Follows
<1>13. C.join # None => Covers(s, C.join.events) \/ ~s.limited
  OBVIOUS
<1>14. c \in State /\ i \in State /\ S.state \in State /\ R.state \in State
  BY <1>5, StateOfIs DEF Room
<1>15. /\ F \in State
       /\ C.join # None => /\ Told(C.join.events).room = 0 => F.room = 0
                           /\ Told(C.join.events).member = 0 => F.member = 0
  <2>1. CASE C.join = None
    BY <2>1, LaterIs DEF Rest
  <2>2. CASE C.join # None
    <3>1. F = Told(C.join.events \ Kept(S, C.join))
      BY <2>2 DEF Rest
    <3>2. C.join.events \in SUBSET (1..t) /\ C.join.events \ Kept(S, C.join) \in SUBSET (1..t)
      BY <1>5, <2>2
    <3>3. t \in Nat
      OBVIOUS
    <3> DEFINE E == C.join.events
    <3> DEFINE K == Kept(S, C.join)
    <3>4. F = Told(E \ K) /\ E \in SUBSET (1..t) /\ E \ K \in SUBSET (1..t)
      BY <3>1, <3>2
    <3> HIDE DEF E, K, F
    <3>5. F \in State
      BY <3>3, <3>4, ToldIs
    <3>6. Told(E).room = 0 => F.room = 0
      BY <3>3, <3>4, ToldLess
    <3>7. Told(E).member = 0 => F.member = 0
      BY <3>3, <3>4, ToldLess
    <3> QED
      BY <3>5, <3>6, <3>7 DEF E
  <2> QED
    BY <2>1, <2>2
<1> HIDE DEF s, j, T, U, V, c, i, F
<1>16. CASE s.limited
  <2>1. j.limited /\ j.events = s.events
    BY <1>4, <1>9, <1>16
  <2>2. Kept(S, j) = {} /\ Kept(R, s) = {}
    BY <1>16, <2>1 DEF Kept
  <2> DEFINE D == Later(s.state, Told(s.events))
  <2>3. Tidings(R, s) = D
    BY <2>2 DEF Tidings
  <2>4. Tidings(S, j) = Later(c, Later(i, D))
    <3>1. Tidings(S, j) = Later(j.state, Told(s.events))
      BY <2>1, <2>2 DEF Tidings
    <3>2. j.state = Later(c, Later(i, s.state))
      BY <1>4 DEF c, i
    <3> QED
      BY <3>1, <3>2, LaterAssociates
  <2>5. (D.room # 0 \/ F.room = 0) /\ (D.member # 0 \/ F.member = 0)
    <3>1. CASE C.join = None
      BY <3>1 DEF F, Rest, NoState
    <3>2. CASE C.join # None
      <4>1. Covers(s, C.join.events)
        BY <1>13, <1>16, <3>2
      <4>2. /\ Told(C.join.events).room # 0 => D.room # 0
            /\ Told(C.join.events).member # 0 => D.member # 0
        BY <4>1 DEF Covers
      <4> HIDE DEF D
      <4> QED
        BY <1>15, <3>2, <4>2
    <3> QED
      BY <3>1, <3>2
  <2> HIDE DEF D
  <2>6. U.state = V.state
    <3>1. U.state = Later(S.state, Later(c, Later(i, D)))
      BY <1>11, <2>4
    <3>2. V.state = Later(Later(Later(Later(S.state, c), F), i), D)
      BY <1>5, <1>10, <1>11, <2>3
    <3>3. Later(S.state, Later(c, Later(i, D)))
            = Later(Later(Later(Later(S.state, c), F), i), D)
      BY <2>5 DEF Later
    <3> QED
      BY <3>1, <3>2, <3>3
  <2>7. U.messages = s.events /\ V.messages = s.events /\ U.back = s.prev
    BY <1>4, <1>11, <2>1, <2>2
  <2> QED
    BY <1>3, <2>6, <2>7
<1>17. CASE ~s.limited /\ Membership(t) # "join"
  <2>1. ~Joined(t) /\ C.join = None /\ S.membership # "join"
    BY <1>3, <1>5, <1>17
  <2>2. IsInitial(S) /\ IsInitial(R)
    BY <1>5, <1>7, <1>17, <2>1 DEF IsInitial, Room, Memberships
  <2>3. Kept(S, j) = {} /\ Kept(R, s) = {}
    BY <2>2 DEF Kept
  <2>4. c = NoState /\ F = NoState /\ EventsOf(C.join) = {} /\ LimitedOf(C.join) = FALSE
    BY <2>1 DEF c, F, Rest, StateOf, EventsOf, LimitedOf
  <2>5. j.events = s.events /\ j.limited = FALSE /\ s.state = NoState /\ j.state = i
    <3>1. Later(NoState, i) = i /\ Later(i, NoState) = i
      BY <1>14, LaterIs
    <3> QED
      BY <1>3, <1>4, <1>9, <1>17, <2>4, <3>1 DEF c, i
  <2> DEFINE e == Told(s.events)
  <2>6. e \in State
    <3>1. s.events \in SUBSET (1..p)
      BY <1>3
    <3> QED
      BY <3>1, ToldIs
  <2>7. Tidings(R, s) = e /\ Tidings(S, j) = Later(i, e)
    <3>1. Tidings(R, s) = Later(NoState, e) /\ Tidings(S, j) = Later(i, e)
      BY <2>3, <2>5 DEF Tidings
    <3> QED
      BY <2>6, <3>1, LaterIs
  <2> HIDE DEF e
  <2>8. R.state = Later(S.state, i)
    <3>1. Later(S.state, NoState) = S.state
      BY <1>14, LaterIs
    <3> QED
      BY <1>5, <1>10, <2>4, <3>1
  <2>9. U.state = V.state
    BY <1>11, <2>7, <2>8, LaterAssociates
  <2>10. U.messages = s.events /\ V.messages = s.events /\ U.back = 0
    BY <1>11, <2>2, <2>3, <2>5
  <2>11. s.events = 1..p
    BY <1>3, <1>17
  <2> QED
    BY <2>9, <2>10, <2>11
<1>18. CASE ~s.limited /\ Membership(t) = "join"
  <2>1. R.membership = "join" /\ ~IsInitial(R)
    BY <1>7, <1>18
  <2>2. C.invite = None
    <3>1. C.invite # None => T.membership = "invite"
      BY <1>5, TakenMembership DEF T
    <3> QED
      BY <1>5, <2>1, <3>1
  <2>3. s.events = t + 1 .. p /\ s.state = NoState /\ s.prev = t
    BY <1>3, <1>18
  <2>4. Kept(R, s) = R.messages
    BY <1>18, <2>1 DEF Kept
  <2>5. \A E : E \subseteq 1..t => s.events \ E = s.events
    BY <2>3
  <2>6. T.messages \subseteq 1..t
    <3>1. C.join # None => HandleJoined(S, C.join).messages \subseteq 1..t
      <4>1. JoinedAs(HandleJoined(S, C.join), S, C.join)
        BY <1>5, JoinedIs
      <4> QED
        BY <1>5, <4>1 DEF JoinedAs, Kept
    <3>2. CASE C.join = None
      BY <1>5, <2>2, <3>2, HandledIs DEF T
    <3>3. CASE C.join # None
      BY <2>2, <3>1, <3>3, HandledIs DEF T
    <3> QED
      BY <3>2, <3>3
  <2> DEFINE e == Told(s.events)
  <2>7. e \in State
    <3>1. s.events \in SUBSET (1..p)
      BY <1>3
    <3> QED
      BY <3>1, ToldIs
  <2>8. Tidings(R, s) = e
    <3>1. s.events \ Kept(R, s) = s.events
      BY <1>5, <2>4, <2>5, <2>6
    <3>2. Tidings(R, s) = Later(NoState, e)
      BY <2>3, <3>1 DEF Tidings
    <3> QED
      BY <2>7, <3>2, LaterIs
  <2>9. V.messages = T.messages \cup s.events /\ V.state = Later(T.state, e)
    BY <1>5, <1>11, <2>4, <2>8
  <2>10. i = NoState /\ j.state = c
    <3>1. i = NoState
      BY <2>2 DEF i, StateOf
    <3>2. Later(NoState, NoState) = NoState /\ Later(c, NoState) = c
      BY <1>14, LaterIs
    <3> QED
      BY <1>4, <2>3, <3>1, <3>2 DEF c, i
  <2>11. CASE C.join = None
    <3>1. T = S
      BY <2>2, <2>11, HandledIs DEF T
    <3>2. j.events = s.events /\ j.limited = FALSE /\ j.state = NoState
      BY <1>4, <1>9, <1>18, <2>10, <2>11 DEF c, StateOf, EventsOf, LimitedOf
    <3>3. ~IsInitial(S)
      BY <1>5, <2>1, <3>1 DEF IsInitial
    <3>4. Kept(S, j) = S.messages
      BY <3>2, <3>3 DEF Kept
    <3>5. Tidings(S, j) = e
      <4>1. s.events \ Kept(S, j) = s.events
        BY <1>5, <2>5, <3>4
      <4>2. Tidings(S, j) = Later(NoState, e)
        BY <3>2, <4>1 DEF Tidings
      <4> QED
        BY <2>7, <4>2, LaterIs
    <3>6. U.state = V.state
      BY <1>11, <2>9, <3>1, <3>5
    <3>7. U.messages = S.messages \cup s.events /\ U.back = S.back
      BY <1>11, <3>2, <3>3, <3>4
    <3>8. S.back + 1 .. t \subseteq S.messages /\ S.back \in Nat
      BY <1>5, <2>1, <3>1 DEF Room
    <3>9. S.back + 1 .. p \subseteq S.messages \cup s.events
      BY <2>3, <3>8
    <3> QED
      BY <2>9, <3>1, <3>6, <3>7, <3>9
  <2>12. CASE C.join # None
    <3> DEFINE b == C.join
    <3>1. T = HandleJoined(S, b)
      BY <2>2, <2>12, HandledIs DEF T
    <3>2. JoinedAs(T, S, b)
      BY <1>5, <3>1, JoinedIs
    <3>3. b \in Timeline /\ b.events \subseteq 1..t /\ b.limited \in BOOLEAN
      BY <1>5, <2>12 DEF Sync, Timeline
    <3>4. c = b.state /\ EventsOf(C.join) = b.events /\ LimitedOf(C.join) = b.limited
      BY <2>12, <3>3 DEF c, StateOf, EventsOf, LimitedOf
    <3> HIDE DEF b
    <3>5. j.events = b.events \cup s.events /\ j.limited = b.limited
          /\ j.state = b.state /\ j.prev = t
      BY <1>4, <1>9, <1>18, <2>3, <2>10, <3>3, <3>4
    <3> DEFINE K == Kept(S, b)
    <3>6. Kept(S, j) = K /\ K \subseteq 1..t
      BY <1>5, <3>5 DEF Kept
    <3> HIDE DEF K
    <3> DEFINE x == Told(b.events \ K)
    <3>7. /\ T.messages = K \cup b.events
          /\ T.state = Later(S.state, Later(b.state, x))
          /\ T.back = IF b.limited THEN b.prev ELSE IF IsInitial(S) THEN 0 ELSE S.back
      BY <3>2 DEF JoinedAs, Tidings, K
    <3>8. /\ U.messages = K \cup (b.events \cup s.events)
          /\ U.back = IF b.limited THEN t ELSE IF IsInitial(S) THEN 0 ELSE S.back
      BY <1>11, <3>5, <3>6
    <3>9. U.messages = V.messages
      BY <2>9, <3>7, <3>8
    <3>10. U.state = V.state
      <4>1. (b.events \cup s.events) \ K = (b.events \ K) \cup s.events
        BY <2>5, <3>6
      <4>2. b.events \ K \in SUBSET (1..t) /\ s.events \in SUBSET (t + 1 .. p) /\ t <= p
        BY <2>3, <3>3
      <4>3. Told((b.events \ K) \cup s.events) = Later(x, e)
        <5> DEFINE E == b.events \ K
        <5> DEFINE G == s.events
        <5>1. Precede(E, G, t, p) /\ t \in Nat /\ p \in Nat /\ t <= p
          BY <4>2 DEF Precede
        <5>2. x = Told(E) /\ e = Told(G)
          OBVIOUS
        <5> HIDE DEF E, G, x, e
        <5>3. Told(E \cup G) = Later(Told(E), Told(G))
          BY <5>1, ToldBoth
        <5> QED
          BY <5>2, <5>3 DEF E, G
      <4>4. Tidings(S, j) = Later(b.state, Later(x, e))
        BY <3>5, <3>6, <4>1, <4>3 DEF Tidings
      <4> HIDE DEF x, e
      <4>5. U.state = Later(S.state, Later(b.state, Later(x, e)))
        BY <1>11, <4>4
      <4>6. V.state = Later(Later(S.state, Later(b.state, x)), e)
        BY <2>9, <3>7
      <4> QED
        BY <4>5, <4>6, LaterAssociates
    <3>11. U.back + 1 .. p \subseteq U.messages
      <4>1. T.back + 1 .. t \subseteq T.messages
        BY <1>5, <2>1
      <4>2. U.messages = T.messages \cup (t + 1 .. p)
        BY <2>3, <3>7, <3>8
      <4>3. CASE b.limited
        BY <3>8, <4>2, <4>3
      <4>4. CASE ~b.limited
        <5>1. U.back = T.back /\ U.back \in Nat
          BY <1>5, <3>7, <3>8, <4>4 DEF Room
        <5> QED
          BY <4>1, <4>2, <5>1
      <4> QED
        BY <4>3, <4>4
    <3> QED
      BY <3>9, <3>10, <3>11
  <2> QED
    BY <2>11, <2>12
<1> QED
  BY <1>9, <1>16, <1>17, <1>18

LEMMA InviteMore ==
    ASSUME NEW t \in Nat, NEW p \in Nat, t < p,
           NEW S, NEW R, NEW C, Ready(S, R, C, t), C.leave = None,
           NEW r \in Sync, r.leave = None, r.join = None, r.invite # None,
           Membership(p) = "invite",
           r.invite.state.member # 0, log[r.invite.state.member] = "invite",
           NEW m \in Sync, m.leave = None, m.join = C.join,
           m.invite = SumInvites(C.invite, r.invite)
    PROVE  Follows(HandleSync(S, m), HandleSync(R, r), p)
<1> DEFINE J == IF C.join = None THEN S ELSE HandleJoined(S, C.join)
<1> DEFINE T == HandleSync(S, C)
<1> DEFINE U == HandleSync(S, m)
<1> DEFINE V == HandleSync(R, r)
<1>1. /\ S \in Room /\ R \in Room /\ C \in Sync
      /\ C.join # None => C.join.events \subseteq 1..t /\ Tells(C.join, t)
      /\ T.state = R.state /\ T.messages = R.messages
  BY DEF Ready, Upto, Follows
<1>2. J \in Room
  <2>1. C.join # None => C.join \in Timeline
    BY <1>1 DEF Sync
  <2> QED
    BY <1>1, <2>1, JoinedTyped
<1>3. /\ C.invite \in Invitation \cup {None} /\ r.invite \in Invitation \cup {None}
  BY <1>1 DEF Sync
<1>4. /\ m.invite # None /\ m.invite.state = Later(StateOf(C.invite), r.invite.state)
      /\ m.invite.state.member = r.invite.state.member
  <2>1. m.invite # None
    BY <1>3, InviteLeft
  <2>2. StateOf(m.invite) = Later(StateOf(C.invite), StateOf(r.invite))
    BY <1>3, InvitesSum
  <2>3. m.invite.state = Later(StateOf(C.invite), r.invite.state)
    BY <2>1, <2>2 DEF StateOf
  <2> QED
    BY <2>1, <2>3 DEF Later
<1>5. U = HandleInvited(J, m.invite) /\ V = HandleInvited(R, r.invite)
  BY <1>4, HandledIs
<1>6. /\ C.invite = None => T = J
      /\ C.invite # None => T = HandleInvited(J, C.invite)
  BY HandledIs
<1> HIDE DEF J, T, U, V
<1>7. /\ U.membership = "invite" /\ U.messages = J.messages
      /\ U.state = Later(J.state, m.invite.state)
  BY <1>2, <1>4, <1>5, InvitedIs
<1>8. /\ V.membership = "invite" /\ V.messages = R.messages
      /\ V.state = Later(R.state, r.invite.state)
  BY <1>1, <1>5, InvitedIs
<1>9. T.messages = J.messages /\ T.state = Later(J.state, StateOf(C.invite))
  <2>1. CASE C.invite = None
    <3>1. J.state \in State
      BY <1>2 DEF Room
    <3> QED
      BY <1>6, <2>1, <3>1, LaterIs DEF StateOf
  <2>2. CASE C.invite # None
    BY <1>2, <1>6, <2>2, InvitedIs DEF StateOf
  <2> QED
    BY <2>1, <2>2
<1>10. U.state = V.state
  BY <1>1, <1>4, <1>7, <1>8, <1>9, LaterAssociates
<1>11. MemberOf(p) = "invite"
  BY DEF MemberOf
<1>12. Follows(U, V, p)
  BY <1>1, <1>7, <1>8, <1>9, <1>10, <1>11 DEF Follows
<1> QED
  BY <1>12 DEF U, V

LEMMA NothingMore ==
    ASSUME NEW t \in Nat, NEW p \in Nat, t < p,
           NEW S, NEW R, NEW C, Ready(S, R, C, t),
           NEW r \in Sync, r.leave = None, r.join = None, r.invite = None,
           Membership(p) = Membership(t), Membership(t) # "join",
           NEW m \in Sync, m.leave = None <=> C.leave = None, m.join = C.join,
           m.invite = SumInvites(C.invite, r.invite)
    PROVE  Follows(HandleSync(S, m), HandleSync(R, r), p)
<1>1. m.invite = C.invite
  BY SumInvitesIs DEF Ready, Sync
<1>2. SameEffect(m, C)
  BY <1>1 DEF SameEffect, SameButState
<1>3. HandleSync(S, m) = HandleSync(S, C) /\ HandleSync(R, r) = R
  BY <1>2, EffectHandled, HandledIs
<1>4. MemberOf(p) = MemberOf(t) /\ MemberOf(t) # "join"
  BY DEF MemberOf
<1> QED
  BY <1>3, <1>4 DEF Ready, Follows

LEMMA LeaveMore ==
    ASSUME NEW p, Membership(p) = "leave", NEW S, NEW R,
           NEW r, r.leave # None, NEW m, m.leave # None
    PROVE  Follows(HandleSync(S, m), HandleSync(R, r), p)
<1>1. HandleSync(S, m) = NoRoom /\ HandleSync(R, r) = NoRoom
  BY HandledIs
<1> QED
  BY <1>1 DEF Follows, NoRoom, MemberOf

\* A response that fits, merged into all that is cached, has the effect that it
\* has by itself.
LEMMA ResponseMerged ==
    ASSUME NEW t \in Nat, log \in Seq(Kinds), t < Len(log), NEW n \in Nat \ {0},
           NEW S, NEW R, NEW C, Ready(S, R, C, t),
           NEW r, r = Response(t, n), Fits(C, r),
           NEW m, m = Merged(r, C)
    PROVE  /\ r \in Sync /\ Apart(r)
           /\ r.join # None => r.join.events \subseteq 1..Len(log) /\ Tells(r.join, Len(log))
           /\ r.invite # None => Tells(r.invite, Len(log))
           /\ m \in Sync /\ Upto(m, S, Len(log))
           /\ Follows(HandleSync(S, m), HandleSync(R, r), Len(log))
<1> DEFINE p == Len(log)
<1>1. p \in Nat /\ t < p /\ t <= p
  OBVIOUS
<1>2. /\ r \in Sync /\ Apart(r)
      /\ r.join # None => r.leave = None /\ r.invite = None
      /\ r.join # None => Membership(p) = "join"
      /\ r.join # None => r.join = Section(t, p, n)
      /\ r.leave # None => Membership(p) = "leave"
      /\ r.invite # None =>
           /\ Membership(p) = "invite"
           /\ Tells(r.invite, p) /\ r.invite.state.member # 0
           /\ log[r.invite.state.member] = "invite"
      /\ r.join = None /\ r.leave = None /\ r.invite = None =>
           /\ Membership(p) = Membership(t)
           /\ Membership(t) # "join"
  BY ResponseIs
<1>3. /\ S \in Room /\ R \in Room /\ C \in Sync
      /\ Apart(C)
      /\ C.join # None => C.join.events \subseteq 1..t /\ Tells(C.join, t)
      /\ C.invite # None => /\ Tells(C.invite, t)
                            /\ C.invite.state.member # 0
                            /\ log[C.invite.state.member] = "invite"
      /\ S.membership = "join" \/ C.join # None => Joined(t)
      /\ S.membership # "leave"
      /\ S.messages \subseteq 1..t
  BY DEF Ready, Upto
<1>4. /\ m \in Sync
      /\ m.leave = None <=> C.leave = None /\ r.leave = None
      /\ r.leave # None /\ r.join = None /\ r.invite = None =>
           m.join = None /\ m.invite = None
      /\ r.leave = None /\ r.join = None =>
           m.join = C.join /\ m.invite = SumInvites(C.invite, r.invite)
      /\ r.leave = None /\ C.leave = None /\ r.join # None =>
           Joining(m.join, r, C) /\ m.invite = r.invite
  BY <1>2, <1>3, MergedIs
<1>5. /\ C.leave # None => r.join = None /\ r.invite = None
      /\ r.join # None /\ r.join.limited /\ C.join # None =>
           Covers(r.join, C.join.events)
  BY DEF Fits, Covers
<1> HIDE DEF p
<1>6. r.join # None => r.join.events \subseteq 1..p /\ Tells(r.join, p)
  <2> SUFFICES ASSUME r.join # None
               PROVE  r.join.events \subseteq 1..p /\ Tells(r.join, p)
    OBVIOUS
  <2>1. /\ r.join.prev \in 0..p /\ r.join.events = r.join.prev + 1 .. p
        /\ Tells(r.join, p)
    BY <1>1, <1>2, SectionIs
  <2> QED
    BY <1>1, <2>1
<1>7. /\ 1..t \subseteq 1..p /\ (Joined(t) => Joined(p))
      /\ \A x : Tells(x, t) => Tells(x, p)
  BY <1>1, JoinedStays, TellsMore
<1>8. CASE r.leave # None
  <2>1. r.join = None /\ r.invite = None
    BY <1>2, <1>8 DEF Apart
  <2>2. m.leave # None /\ m.join = None /\ m.invite = None
    BY <1>4, <1>8, <2>1
  <2>3. Upto(m, S, p)
    BY <1>3, <1>7, <2>2 DEF Upto, Apart
  <2>4. Follows(HandleSync(S, m), HandleSync(R, r), p)
    BY <1>2, <1>8, <2>2, LeaveMore
  <2> QED
    BY <1>2, <1>4, <1>6, <2>3, <2>4 DEF p
<1>9. CASE r.leave = None /\ r.join # None
  <2>1. C.leave = None /\ r.invite = None
    BY <1>2, <1>5, <1>9
  <2>2. Joining(m.join, r, C) /\ m.invite = None /\ m.leave = None
    BY <1>4, <1>9, <2>1
  <2>3. Joined(p)
    BY <1>1, <1>2, <1>9, MembershipIs
  <2>4. m.join.events \subseteq 1..p
    BY <1>3, <1>6, <1>7, <1>9, <2>2 DEF Joining, EventsOf
  <2>5. Tells(m.join, p)
    <3>1. /\ C.join # None => Tells(C.join, p)
          /\ C.invite # None => Tells(C.invite, p)
          /\ Tells(r.join, p)
      BY <1>3, <1>6, <1>7, <1>9
    <3>2. m.join.state = Later(StateOf(C.join), Later(StateOf(C.invite), r.join.state))
      BY <2>2 DEF Joining
    <3>3. m.join.state.member
            = IF r.join.state.member # 0 THEN r.join.state.member
              ELSE IF StateOf(C.invite).member # 0 THEN StateOf(C.invite).member
              ELSE StateOf(C.join).member
      BY <3>2 DEF Later
    <3>4. /\ StateOf(C.join).member \in 0..p /\ StateOf(C.invite).member \in 0..p
          /\ StateOf(C.join).member # 0 => log[StateOf(C.join).member] \in Memberships
          /\ StateOf(C.invite).member # 0 => log[StateOf(C.invite).member] \in Memberships
      BY <1>1, <3>1 DEF Tells, StateOf, NoState
    <3> QED
      BY <3>1, <3>3, <3>4 DEF Tells
  <2>7. Upto(m, S, p)
    BY <1>3, <1>7, <2>2, <2>3, <2>4, <2>5 DEF Upto, Apart
  <2>6. Follows(HandleSync(S, m), HandleSync(R, r), p)
    BY <1>1, <1>2, <1>4, <1>5, <1>9, <2>1, <2>2, JoinMore
  <2> QED
    BY <1>2, <1>4, <1>6, <2>1, <2>6, <2>7 DEF p
<1>10. CASE r.leave = None /\ r.join = None
  <2>1. /\ m.leave = None <=> C.leave = None
        /\ m.join = C.join /\ m.invite = SumInvites(C.invite, r.invite)
    BY <1>4, <1>10
  <2>2. Upto(m, S, p)
    <3>1. SumInvites(None, None) = None
      BY SumInvitesIs
    <3>2. Apart(m)
      BY <1>3, <1>5, <2>1, <3>1 DEF Apart
    <3>3. m.join # None => m.join.events \subseteq 1..p /\ Tells(m.join, p)
      BY <1>3, <1>7, <2>1
    <3>4. m.invite # None => /\ Tells(m.invite, p)
                             /\ m.invite.state.member # 0
                             /\ log[m.invite.state.member] = "invite"
      <4>1. /\ C.invite \in Invitation \cup {None} /\ r.invite \in Invitation \cup {None}
        BY <1>2, <1>3 DEF Sync
      <4>2. C.invite # None => Tells(C.invite, p)
        BY <1>3, <1>7
      <4>3. CASE r.invite = None
        <5>1. m.invite = C.invite
          BY <2>1, <4>1, <4>3, InviteLeft
        <5> QED
          BY <1>3, <4>2, <5>1
      <4>4. CASE r.invite # None /\ C.invite = None
        <5>1. m.invite = r.invite
          BY <2>1, <4>1, <4>4, InviteLeft
        <5> QED
          BY <1>2, <4>4, <5>1
      <4>5. CASE r.invite # None /\ C.invite # None
        <5>1. m.invite.state = Later(C.invite.state, r.invite.state)
          BY <2>1, <4>1, <4>5, SumInvitesIs
        <5>2. m.invite.state.member = r.invite.state.member
          BY <1>2, <4>5, <5>1 DEF Later
        <5> QED
          BY <1>2, <4>5, <5>2 DEF Tells
      <4> QED
        BY <4>3, <4>4, <4>5
    <3> QED
      BY <1>3, <1>7, <2>1, <3>2, <3>3, <3>4 DEF Upto
  <2>3. CASE r.invite # None
    <3>1. C.leave = None /\ m.leave = None
      BY <1>5, <2>1, <2>3
    <3>2. Follows(HandleSync(S, m), HandleSync(R, r), p)
      BY <1>1, <1>2, <1>4, <1>10, <2>1, <2>3, <3>1, InviteMore
    <3> QED
      BY <1>2, <1>4, <1>6, <2>2, <3>2 DEF p
  <2>4. CASE r.invite = None
    <3>1. Follows(HandleSync(S, m), HandleSync(R, r), p)
      BY <1>1, <1>2, <1>4, <1>10, <2>1, <2>4, NothingMore
    <3> QED
      BY <1>2, <1>4, <1>6, <2>2, <3>1 DEF p
  <2> QED
    BY <2>3, <2>4
<1> QED
  BY <1>8, <1>9, <1>10

LEMMA TakenUpto ==
    ASSUME NEW t \in Nat, NEW S, NEW R, NEW C, Ready(S, R, C, t)
    PROVE  /\ HandleSync(S, C) \in Room
           /\ Upto(Empty, HandleSync(S, C), t)
<1> DEFINE T == HandleSync(S, C)
<1>1. /\ S \in Room /\ C \in Sync /\ S.messages \subseteq 1..t
      /\ C.join # None => C.join.events \subseteq 1..t /\ Tells(C.join, t)
      /\ C.invite # None => Tells(C.invite, t)
      /\ T.membership = R.membership /\ R.membership = MemberOf(t)
  BY DEF Ready, Upto, Follows
<1>2. T \in Room
  BY <1>1, HandledTyped
<1>3. C.join # None => HandleJoined(S, C.join) \in Room
  BY <1>1, JoinedTyped DEF Sync
<1>4. C.join # None => HandleJoined(S, C.join).messages \subseteq 1..t
  <2>1. JoinedAs(HandleJoined(S, C.join), S, C.join)
    BY <1>1, JoinedIs
  <2> QED
    BY <1>1, <2>1 DEF JoinedAs, Kept
<1>5. \A x \in Room : HandleInvited(x, C.invite).messages = x.messages
  BY InvitedIs
<1>6. NoRoom.messages = {}
  BY DEF NoRoom
<1>7. T.messages \subseteq 1..t
  BY <1>1, <1>3, <1>4, <1>5, <1>6, HandledIs
<1>8. T.membership = "join" => Joined(t)
  <2>1. MemberOf(t) = "join" => Membership(t) = "join"
    BY DEF MemberOf
  <2> QED
    BY <1>1, <2>1, MembershipIs
<1>10. T.membership # "leave"
  <2>1. MemberOf(t) # "leave"
    BY DEF MemberOf
  <2> QED
    BY <1>1, <2>1
<1> HIDE DEF T
<1>9. Upto(Empty, T, t)
  BY <1>7, <1>8, <1>10, EmptyTyped DEF Upto, Empty
<1> QED
  BY <1>2, <1>9 DEF T

-----------------------------------------------------------------------------
(***************************************************************************)
(* The invariant.                                                          *)
(***************************************************************************)
LEMMA TypedIsReady ==
    ASSUME TypeInv, MergeInv
    PROVE  Ready(session, reference, Cached, token)
BY MergedAllTyped DEF TypeInv, MergeInv, Merging, Following, Ready, Cached, Taken

LEMMA EmptyTaken ==
    ASSUME NEW room
    PROVE  HandleSync(room, Empty) = room
BY HandledIs DEF Empty

LEMMA InitInv == Init => TypeInv /\ MergeInv
<1> SUFFICES ASSUME Init PROVE TypeInv /\ MergeInv
  OBVIOUS
<1>1. NoRoom \in Room
  BY LaterIs DEF NoRoom, Room
<1>2. TypeInv
  BY <1>1, Bounds DEF Init, TypeInv
<1>3. Cached = Empty /\ Taken = NoRoom
  BY EmptyTaken DEF Init, Cached, MergedAll, Taken
<1>4. Membership(0) = "leave"
  <2>1. LastOf(Memberships, 0) = 0
    BY LastOfIs
  <2> QED
    BY <2>1 DEF Membership
<1>5. Upto(Empty, NoRoom, 0)
  BY EmptyTyped DEF Upto, Empty, NoRoom
<1>6. Follows(NoRoom, NoRoom, 0)
  BY <1>4 DEF Follows, NoRoom, MemberOf
<1> QED
  BY <1>2, <1>3, <1>5, <1>6 DEF Init, MergeInv, Merging, Following

LEMMA RoomEventKeeps ==
    ASSUME TypeInv, MergeInv, RoomEvent
    PROVE  TypeInv' /\ MergeInv'
<1>1. PICK kind \in NextKinds(Membership(Len(log))) : log' = Append(log, kind)
  BY DEF RoomEvent
<1>2. /\ Len(log) < MaxLog
      /\ token' = token /\ cache' = cache /\ session' = session /\ reference' = reference
      /\ lazyLoading' = lazyLoading
  BY DEF RoomEvent
<1>3. log \in Seq(Kinds) /\ token \in 0..Len(log)
  BY DEF TypeInv
<1>4. kind \in Kinds
  <2> DEFINE M == Membership(Len(log))
  <2>1. M = "join" \/ M = "leave" \/ M = "invite"
    BY <1>3, MembershipIs DEF Memberships
  <2> HIDE DEF M
  <2>2. CASE M = "join"
    BY <1>1, <2>2 DEF M, NextKinds, Kinds, Memberships
  <2>3. CASE M = "leave"
    BY <1>1, <2>3 DEF M, NextKinds, Kinds, Memberships
  <2>4. CASE M = "invite"
    BY <1>1, <2>4 DEF M, NextKinds, Kinds, Memberships
  <2> QED
    BY <2>1, <2>2, <2>3, <2>4
<1>5. /\ log' \in Seq(Kinds) /\ Len(log') = Len(log) + 1
      /\ \A i \in 1..Len(log) : log'[i] = log[i]
  BY <1>1, <1>3, <1>4
<1>6. \A i \in 1..token : log'[i] = log[i]
  BY <1>3, <1>5
<1>7. TypeInv'
  BY <1>2, <1>3, <1>5, Bounds DEF TypeInv
<1>8. Joined(token)' <=> Joined(token)
  BY <1>2, <1>6 DEF Joined
<1>9. Membership(token)' = Membership(token)
  <2>1. {i \in 1..token : log'[i] \in Memberships} = {i \in 1..token : log[i] \in Memberships}
    BY <1>6
  <2>2. LastOf(Memberships, token)' = LastOf(Memberships, token)
    BY <1>2, <2>1 DEF LastOf
  <2>3. LastOf(Memberships, token) \in 0..token
    BY <1>3, LastOfIs
  <2> QED
    BY <1>3, <1>6, <2>2, <2>3 DEF Membership
<1>10. MemberOf(token)' = MemberOf(token)
  BY <1>9 DEF MemberOf
<1>11. Cached' = Cached
  BY <1>2 DEF Cached
<1>12. /\ Cached.join # None => /\ Cached.join.events \subseteq 1..token
                                 /\ Tells(Cached.join, token)
       /\ Cached.invite # None => Tells(Cached.invite, token)
  BY DEF MergeInv, Merging, Upto
<1>13. Taken' = Taken
  <2>1. ASSUME NEW E, E \subseteq 1..token
        PROVE  Told(E)' = Told(E) /\ Told(E).member \in 0..token
    <3>1. \A kinds : {i \in E : log'[i] \in kinds} = {i \in E : log[i] \in kinds}
      BY <1>6, <2>1
    <3>2. \A kinds : LatestOf(kinds, E)' = LatestOf(kinds, E)
      BY <3>1 DEF LatestOf
    <3>3. Told(E)' = Told(E)
      BY <3>2 DEF Told, Memberships
    <3>4. E \in SUBSET (1..token) /\ token \in Nat
      BY <1>3, <2>1
    <3> QED
      BY <3>3, <3>4, ToldIs
  <2>2. ASSUME NEW x, NEW d, d.member \in 0..token
        PROVE  Stated(x, d)' = Stated(x, d)
    <3>1. d.member # 0 => log'[d.member] = log[d.member]
      BY <1>6, <2>2
    <3>2. (IF d.member = 0 THEN x.membership ELSE log'[d.member])
            = IF d.member = 0 THEN x.membership ELSE log[d.member]
      BY <3>1
    <3> DEFINE old == IF d.member = 0 THEN x.membership ELSE log[d.member]
    <3> DEFINE new == IF d.member = 0 THEN x.membership ELSE log'[d.member]
    <3> DEFINE st == Later(x.state, d)
    <3>3. Later(x.state, d)' = st
      BY DEF Later
    <3>4. Stated(x, d) = [x EXCEPT !.state = st, !.membership = old]
      BY DEF Stated
    <3>5. Stated(x, d)' = [x EXCEPT !.state = st, !.membership = new]
      BY <3>3 DEF Stated
    <3> HIDE DEF old, new, st
    <3>6. new = old
      BY <3>2 DEF old, new
    <3> QED
      BY <3>4, <3>5, <3>6
  <2>3. ASSUME NEW x, NEW m
        PROVE  Entered(x, m)' = Entered(x, m)
    <3> DEFINE old == IF lazyLoading THEN m ELSE x.membership
    <3> DEFINE new == IF lazyLoading' THEN m ELSE x.membership
    <3>1. new = old
      BY <1>2
    <3>2. Entered(x, m) = [x EXCEPT !.membership = old]
      BY DEF Entered
    <3>3. Entered(x, m)' = [x EXCEPT !.membership = new]
      BY DEF Entered
    <3> HIDE DEF old, new
    <3> QED
      BY <3>1, <3>2, <3>3
  <2>4. Cached.join # None =>
          HandleJoined(session, Cached.join)' = HandleJoined(session, Cached.join)
    <3> SUFFICES ASSUME Cached.join # None
                 PROVE  HandleJoined(session, Cached.join)'
                          = HandleJoined(session, Cached.join)
      OBVIOUS
    <3> DEFINE s == Cached.join
    <3>1. s' = s
      BY <1>11
    <3>2. s.events \subseteq 1..token /\ s.state.member \in 0..token
      BY <1>12 DEF Tells
    <3> HIDE DEF s
    <3>3. HandleJoined(session, s)' = HandleJoined(session, s)
      <4>1. ASSUME NEW x
            PROVE  AddEvents(x, s.events)' = AddEvents(x, s.events)
        <5> DEFINE e == Told(s.events \ x.messages)
        <5>1. e' = e /\ e.member \in 0..token
          <6>1. s.events \ x.messages \subseteq 1..token
            BY <3>2
          <6>2. Told(s.events \ x.messages)' = Told(s.events \ x.messages)
            <7> DEFINE E == s.events \ x.messages
            <7>1. E' = E
              BY <3>1
            <7> QED
              BY <2>1, <3>1, <6>1 DEF Told, LatestOf
          <6> QED
            BY <2>1, <6>1, <6>2
        <5> QED
          BY <2>2, <3>1, <5>1 DEF AddEvents
      <4>2. \A x : Stated(x, s.state)' = Stated(x, s.state)
        BY <2>2, <3>1, <3>2
      <4> QED
        BY <1>2, <2>3, <3>1, <4>1, <4>2 DEF HandleJoined
    <3> QED
      BY <3>3 DEF s
  <2>5. Cached.invite # None =>
          \A x : HandleInvited(x, Cached.invite)' = HandleInvited(x, Cached.invite)
    <3>1. Cached.invite # None => Cached.invite.state.member \in 0..token
      BY <1>12 DEF Tells
    <3> QED
      BY <1>11, <2>2, <2>3, <3>1 DEF HandleInvited
  <2> QED
    BY <1>2, <1>11, <2>4, <2>5 DEF Taken, HandleSync
<1>14. Merging'
  <2>1. /\ Cached.join # None => Tells(Cached.join, token)'
        /\ Cached.invite # None => /\ Tells(Cached.invite, token)'
                                   /\ Cached.invite.state.member # 0
                                   /\ log'[Cached.invite.state.member] = "invite"
    <3>1. \A i \in 0..token : i # 0 => log'[i] = log[i]
      BY <1>3, <1>6
    <3> QED
      BY <1>2, <1>11, <3>1 DEF MergeInv, Merging, Upto, Tells, Memberships
  <2> QED
    BY <1>2, <1>8, <1>11, <2>1 DEF MergeInv, Merging, Upto, Apart
<1>15. Following'
  BY <1>2, <1>10, <1>13 DEF MergeInv, Following, Follows
<1> QED
  BY <1>7, <1>14, <1>15 DEF MergeInv

\* What a response does depends on the room, the log and how members are loaded.
LEMMA HandledAlike ==
    ASSUME UNCHANGED <<log, lazyLoading, session>>, NEW c, NEW d, Cached' = d
    PROVE  HandleSync(session, Cached)' = HandleSync(session, d)
<1>1. \A E : Told(E)' = Told(E)
  <2>1. \A kinds, E : LatestOf(kinds, E)' = LatestOf(kinds, E)
    BY DEF LatestOf
  <2> QED
    BY <2>1 DEF Told, Memberships
<1>2. \A x, y : Stated(x, y)' = Stated(x, y)
  BY DEF Stated, Later
<1>3. \A x, E : AddEvents(x, E)' = AddEvents(x, E)
  BY <1>1, <1>2 DEF AddEvents
<1>4. \A x, m : Entered(x, m)' = Entered(x, m)
  BY DEF Entered
<1>5. \A x, y : /\ HandleJoined(x, y)' = HandleJoined(x, y)
                /\ HandleInvited(x, y)' = HandleInvited(x, y)
  BY <1>2, <1>3, <1>4 DEF HandleJoined, HandleInvited
<1> QED
  BY <1>5 DEF HandleSync

LEMMA UpdateStoreKeeps ==
    ASSUME TypeInv, MergeInv, UpdateStore, fits'
    PROVE  TypeInv' /\ MergeInv'
<1>1. PICK n \in Limits :
        LET r == Response(token, n)
        IN /\ fits' = (fits /\ Fits(MergedAll(cache), r))
           /\ reference' = HandleSync(reference, r)
           /\ \/ cache' = Append(cache, r)
              \/ /\ cache # <<>>
                 /\ cache' = [cache EXCEPT ![Len(cache)] = Merged(r, @)]
  BY DEF UpdateStore
<1> DEFINE r == Response(token, n)
<1>2. /\ Fits(Cached, r)
      /\ reference' = HandleSync(reference, r)
      /\ \/ cache' = Append(cache, r)
         \/ cache # <<>> /\ cache' = [cache EXCEPT ![Len(cache)] = Merged(r, @)]
  BY <1>1 DEF Cached
<1>3. token < Len(log) /\ token' = Len(log) /\ log' = log /\ session' = session
      /\ lazyLoading' = lazyLoading
  BY DEF UpdateStore
<1>4. /\ log \in Seq(Kinds) /\ token \in Nat /\ Len(log) \in Nat /\ Len(log) <= MaxLog
      /\ cache \in Seq(Sync) /\ session \in Room /\ reference \in Room
  BY DEF TypeInv
<1>5. n \in Nat \ {0}
  BY Bounds
<1>6. Ready(session, reference, Cached, token)
  BY TypedIsReady
<1> HIDE DEF r
<1> DEFINE m == Merged(r, Cached)
<1>7. /\ r \in Sync /\ Apart(r)
      /\ r.join # None => r.join.events \subseteq 1..Len(log) /\ Tells(r.join, Len(log))
      /\ r.invite # None => Tells(r.invite, Len(log))
      /\ m \in Sync /\ Upto(m, session, Len(log))
      /\ Follows(HandleSync(session, m), HandleSync(reference, r), Len(log))
  BY <1>2, <1>3, <1>4, <1>5, <1>6, ResponseMerged DEF r
<1>8. cache' \in Seq(Sync) /\ SameEffect(MergedAll(cache'), m)
  <2>1. Apart(Cached)
    BY <1>6 DEF Ready, Upto
  <2>2. Cached.leave # None => r.join = None /\ r.invite = None
    BY <1>2 DEF Fits
  <2> QED
    BY <1>2, <1>4, <1>7, <2>1, <2>2, CacheGrows DEF Cached
<1>9. reference' \in Room
  BY <1>2, <1>4, <1>7, HandledTyped
<1>10. TypeInv'
  BY <1>3, <1>4, <1>8, <1>9 DEF TypeInv
<1> HIDE DEF m
<1> DEFINE d == MergedAll(cache')
<1>11. HandleSync(session, d) = HandleSync(session, m)
  BY <1>8, EffectHandled
<1>12. Upto(d, session, Len(log))
  BY <1>7, <1>8 DEF Upto, Apart, Tells, SameEffect, SameButState
<1>13. Follows(HandleSync(session, d), reference', Len(log))
  BY <1>2, <1>7, <1>11
<1>14. Cached' = d
  BY DEF Cached
<1> HIDE DEF d
<1>15. Taken' = HandleSync(session, d)
  BY <1>3, <1>14, HandledAlike DEF Taken
<1>16. Joined(token)' <=> Joined(Len(log))
  BY <1>3 DEF Joined
<1>17. MemberOf(token)' = MemberOf(Len(log))
  BY <1>3 DEF MemberOf, Membership, LastOf
<1>18. Merging'
  BY <1>3, <1>12, <1>14, <1>16 DEF Merging, Upto, Apart, Tells
<1>19. Following'
  BY <1>3, <1>13, <1>15, <1>17 DEF Following, Follows
<1> QED
  BY <1>10, <1>18, <1>19 DEF MergeInv

LEMMA TakeCacheKeeps ==
    ASSUME TypeInv, MergeInv, TakeCache
    PROVE  TypeInv' /\ MergeInv'
<1>1. /\ session' = Taken /\ cache' = <<>>
      /\ log' = log /\ token' = token /\ reference' = reference
      /\ lazyLoading' = lazyLoading /\ fits' = fits
  BY DEF TakeCache, Taken, Cached
<1>2. Ready(session, reference, Cached, token)
  BY TypedIsReady
<1>3. Taken \in Room /\ Upto(Empty, Taken, token)
  BY <1>2, TakenUpto DEF TypeInv, Taken
<1>4. TypeInv'
  BY <1>1, <1>3 DEF TypeInv
<1>5. Cached' = Empty
  BY <1>1 DEF Cached, MergedAll, Empty
<1>6. Taken' = session'
  <2>1. Empty.join = None /\ Empty.leave = None /\ Empty.invite = None
    BY DEF Empty
  <2> QED
    BY <1>5, <2>1 DEF Taken, HandleSync
<1>7. Joined(token)' <=> Joined(token)
  BY <1>1 DEF Joined
<1>8. MemberOf(token)' = MemberOf(token)
  BY <1>1 DEF MemberOf, Membership, LastOf
<1>9. Merging'
  BY <1>1, <1>3, <1>5, <1>7 DEF Merging, Upto, Apart, Empty
<1>10. Following'
  BY <1>1, <1>6, <1>8 DEF MergeInv, Following, Follows
<1> QED
  BY <1>4, <1>9, <1>10 DEF MergeInv

LEMMA StutterKeeps ==
    ASSUME TypeInv, MergeInv, UNCHANGED vars
    PROVE  TypeInv' /\ MergeInv'
<1>1. /\ log' = log /\ token' = token /\ cache' = cache
      /\ session' = session /\ reference' = reference
      /\ lazyLoading' = lazyLoading /\ fits' = fits
  BY DEF vars
<1>2. TypeInv'
  BY <1>1 DEF TypeInv
<1>3. Cached' = Cached
  BY <1>1 DEF Cached
<1>4. Taken' = Taken
  BY <1>1, <1>3, HandledAlike DEF Taken
<1>5. Joined(token)' <=> Joined(token)
  BY <1>1 DEF Joined
<1>6. MemberOf(token)' = MemberOf(token)
  BY <1>1 DEF MemberOf, Membership, LastOf
<1>7. Merging' /\ Following'
  BY <1>1, <1>3, <1>4, <1>5, <1>6
     DEF MergeInv, Merging, Following, Upto, Follows, Apart, Tells
<1> QED
  BY <1>2, <1>7 DEF MergeInv

\* As long as the merges fitted.
FitInv == fits => TypeInv /\ MergeInv

LEMMA InvKept == Spec => []FitInv
<1>1. Init => FitInv
  BY InitInv DEF FitInv
<1>2. FitInv /\ [Next]_vars => FitInv'
  <2> SUFFICES ASSUME FitInv, [Next]_vars, fits'
               PROVE  TypeInv' /\ MergeInv'
    BY DEF FitInv
  <2>1. fits
    <3>1. CASE RoomEvent
      BY <3>1 DEF RoomEvent
    <3>2. CASE UpdateStore
      BY <3>2 DEF UpdateStore
    <3>3. CASE TakeCache
      BY <3>3 DEF TakeCache
    <3>4. CASE UNCHANGED vars
      BY <3>4 DEF vars
    <3> QED
      BY <3>1, <3>2, <3>3, <3>4 DEF Next
  <2>2. TypeInv /\ MergeInv
    BY <2>1 DEF FitInv
  <2> QED
    BY <2>2, RoomEventKeeps, UpdateStoreKeeps, TakeCacheKeeps, StutterKeeps DEF Next
<1> QED
  BY <1>1, <1>2, PTL DEF Spec

(***************************************************************************)
(* handleBackgroundSyncCacheIfRequired: as long as every merge could hold  *)
(* what it merged, once the session took the cache the user's membership   *)
(* and the state of the room are what they would be had it handled the     *)
(* responses one by one, with members loaded lazily or not.                *)
(***************************************************************************)
THEOREM RoomIsSame == Spec => []SameRoom
<1>1. FitInv => SameRoom
  <2> SUFFICES ASSUME FitInv, fits, cache = <<>>
               PROVE  session.membership = reference.membership
                      /\ session.state = reference.state
    BY DEF SameRoom
  <2>1. Taken = session
    BY EmptyTaken DEF Taken, Cached, MergedAll
  <2> QED
    BY <2>1 DEF FitInv, MergeInv, Following, Follows
<1> QED
  BY <1>1, InvKept, PTL

(***************************************************************************)
(* The room that the session shows has the messages that it would have,    *)
(* and every event from where pagination goes on: that a merge keeps       *)
(* "limited" is what this rests on.                                        *)
(***************************************************************************)
THEOREM NoHoleLeft == Spec => []NoHole
<1>1. FitInv => NoHole
  <2> SUFFICES ASSUME FitInv, fits, cache = <<>>, session.membership = "join"
               PROVE  /\ session.back + 1 .. token \subseteq session.messages
                      /\ session.messages = reference.messages
    BY DEF NoHole
  <2>1. Taken = session
    BY EmptyTaken DEF Taken, Cached, MergedAll
  <2> QED
    BY <2>1 DEF FitInv, MergeInv, Following, Follows
<1> QED
  BY <1>1, InvKept, PTL
=============================================================================
