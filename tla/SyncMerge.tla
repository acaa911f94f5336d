------------------------------ MODULE SyncMerge ------------------------------
(***************************************************************************)
(* The merge of cached sync responses (MXSyncResponseStoreManager.merged)  *)
(* against what it stands for: the session, handed the merge of all that   *)
(* the extension cached, must be where it would be had it handled the      *)
(* responses one by one.                                                   *)
(*                                                                         *)
(* One room, whose log at the node (external) is a sequence of messages,   *)
(* state events and the memberships of the user.  An event is its position *)
(* in the log; a state is the last state event and the last membership of  *)
(* the user, 0 where there is none.                                        *)
(***************************************************************************)
EXTENDS Naturals, Sequences, FiniteSetsExt

CONSTANTS
    None,
    Limits,         \* the lengths of a timeline the extension may ask for
    MaxLog          \* bound: events of the room

ASSUME Bounds == Limits \subseteq Nat \ {0} /\ MaxLog \in Nat

State == [room : Nat, member : Nat]
NoState == [room |-> 0, member |-> 0]

\* A room of a response (one that is joined or left; an invitation).
Timeline == [state : State, events : SUBSET Nat, limited : BOOLEAN, prev : Nat]
Invitation == [state : State]
ASSUME NoneAssumption == None \notin Timeline \cup Invitation

VARIABLES
    log,            \* the node's room
    token,          \* the position up to which responses were made
    cache,          \* the chunks of the cache
    session,        \* the room of the session, which takes merged chunks
    reference,      \* the same room, had each response been handled
    lazyLoading,    \* syncWithLazyLoadOfRoomMembers, as the session was started
    fits            \* history: could every merge so far hold what it merged?

vars == <<log, token, cache, session, reference, lazyLoading, fits>>

-----------------------------------------------------------------------------
(* The node (external).                                                    *)

Memberships == {"join", "leave", "invite"}
LastOf(kinds, p) == Max({0} \cup {i \in 1..p : log[i] \in kinds})
Membership(p) == LET i == LastOf(Memberships, p) IN IF i = 0 THEN "leave" ELSE log[i]

\* What follows each membership.
NextKinds(membership) ==
    {"message", "state"} \cup (CASE membership = "leave" -> {"join", "invite"}
                                 [] membership = "invite" -> {"join", "leave"}
                                 [] membership = "join" -> {"leave"})

StateAt(p) == [room |-> LastOf({"state"}, p), member |-> LastOf(Memberships, p)]
After(base, i) == IF i > base THEN i ELSE 0

\* A section of a response: the state where its timeline starts, and the last
\* n events up to p.  A room that is new to the user comes with its whole state.
Section(since, p, n) ==
    LET isNew == \E i \in since..p : Membership(i) # "join" /\ i < p
        base == IF isNew THEN 0 ELSE since
        start == IF p > base + n THEN p - n ELSE base
        state == StateAt(start)
    IN [state |-> [room |-> After(base, state.room), member |-> After(base, state.member)],
        events |-> start + 1 .. p,
        limited |-> start > base \/ (isNew /\ LastOf({"join"}, since) # 0),
        prev |-> start]

\* A room the user left without having been in it has the rejection only.
LeftSection(since, p, n) ==
    IF \E i \in since..p : Membership(i) = "join"
    THEN Section(since, p, n)
    ELSE [state |-> NoState, events |-> {p}, limited |-> FALSE, prev |-> p - 1]

Empty == [join |-> None, leave |-> None, invite |-> None]
Response(since, n) ==
    LET p == Len(log)
        changed == LastOf(Memberships, p)
    IN CASE Membership(p) = "join" /\ p > since ->
              [Empty EXCEPT !.join = Section(since, p, n)]
         [] Membership(p) = "leave" /\ changed > since ->
              [Empty EXCEPT !.leave = LeftSection(since, changed, n)]
         [] Membership(p) = "invite" /\ changed > since ->
              [Empty EXCEPT !.invite = [state |-> StateAt(changed)]]
         [] OTHER -> Empty

-----------------------------------------------------------------------------
(* merged(_:onto:).                                                        *)

Later(old, new) == [room |-> IF new.room = 0 THEN old.room ELSE new.room,
                    member |-> IF new.member = 0 THEN old.member ELSE new.member]
JoinedOrLeft(r) == IF r.join # None THEN "join" ELSE "leave"
IsLimited(r) == LET s == r[JoinedOrLeft(r)] IN s # None /\ s.limited

\* A new limited timeline empties the old one ...
NewLimited(new, old) ==
    IF IsLimited(new) /\ old.join # None
    THEN [old EXCEPT !.join.events = {}, !.join.limited = TRUE]
    ELSE old

\* Mutant of OldLimited: the value is not kept.
OldLimitedLost(new, old) == new

\* ... and an old limited one makes the new one limited.
OldLimited(new, old) ==
    IF IsLimited(old) /\ new.join # None
    THEN [new EXCEPT !.join.limited = TRUE]
    ELSE new

\* Mutant of Accepted: the invitation stays.
AcceptedLate(new, old) ==
    LET section == JoinedOrLeft(new)
    IN IF old.invite # None /\ new[section] # None
       THEN <<[new EXCEPT ![section].state = Later(old.invite.state, @)], old>>
       ELSE <<new, old>>

\* The state of an invitation goes to what answers it.
Accepted(new, old) ==
    LET section == JoinedOrLeft(new)
    IN IF old.invite # None /\ new[section] # None
       THEN <<[new EXCEPT ![section].state = Later(old.invite.state, @)],
              [old EXCEPT !.invite = None]>>
       ELSE <<new, old>>

\* What a joined room had goes to its leaving.
Left(new, old) ==
    IF new.leave # None /\ old.join # None
    THEN <<[new EXCEPT !.leave.state = Later(old.join.state, @),
                       !.leave.events = old.join.events \cup @],
           [old EXCEPT !.join = None]>>
    ELSE <<new, old>>

\* NSDictionary + NSDictionary: arrays are joined, other values are the new.
Sum(old, new) ==
    CASE new = None -> old
      [] old = None -> new
      [] OTHER -> [new EXCEPT !.state = Later(old.state, @), !.events = old.events \cup @]
SumInvites(old, new) ==
    CASE new = None -> old
      [] old = None -> new
      [] OTHER -> [state |-> Later(old.state, new.state)]

Merged(new, old) ==
    LET flushed == NewLimited(new, old)
        accepted == Accepted(OldLimited(new, flushed), flushed)
        left == Left(accepted[1], accepted[2])
    IN [join |-> Sum(left[2].join, left[1].join),
        leave |-> Sum(left[2].leave, left[1].leave),
        invite |-> SumInvites(left[2].invite, left[1].invite)]

\* mergedSyncResponse: all the chunks, from the first.
MergedAll(chunks) ==
    LET upTo[i \in 1..Len(chunks)] ==
            IF i = 1 THEN chunks[1] ELSE Merged(chunks[i], upTo[i - 1])
    IN IF chunks = <<>> THEN Empty ELSE upTo[Len(chunks)]

-----------------------------------------------------------------------------
(* The session: handleSyncResponse, for joined, invited, then left rooms.  *)

NoRoom == [membership |-> "unknown", state |-> NoState, messages |-> {}, back |-> 0]

\* handleStateEvents, of the room's state and of its summary.
Stated(room, state) ==
    [room EXCEPT !.state = Later(@, state),
                 !.membership = IF state.member = 0 THEN @ ELSE log[state.member]]

LatestOf(kinds, events) == Max({0} \cup {i \in events : log[i] \in kinds})
Told(events) == [room |-> LatestOf({"state"}, events),
                 member |-> LatestOf(Memberships, events)]

\* addEvent: an event that is in the store is skipped.
AddEvents(room, events) ==
    [Stated(room, Told(events \ room.messages)) EXCEPT !.messages = @ \cup events]

\* With members loaded lazily the section tells the membership; without, only
\* the user's own member event does.
Entered(room, membership) ==
    [room EXCEPT !.membership = IF lazyLoading THEN membership ELSE @]

\* handleJoinedRoomSync: the state, then the timeline; events before "back"
\* are for pagination to fetch.
HandleJoined(room, s) ==
    LET initial == room.membership \in {"unknown", "invite"}
        ready == [Entered(room, "join") EXCEPT
                     !.messages = IF initial \/ s.limited THEN {} ELSE @,
                     !.back = IF s.limited THEN s.prev ELSE IF initial THEN 0 ELSE @]
    IN AddEvents(Stated(ready, s.state), s.events)

HandleInvited(room, s) == Stated(Entered(room, "invite"), s.state)

HandleSync(room, r) ==
    LET joined == IF r.join = None THEN room ELSE HandleJoined(room, r.join)
        invited == IF r.invite = None THEN joined ELSE HandleInvited(joined, r.invite)
    IN IF r.leave = None THEN invited ELSE NoRoom

-----------------------------------------------------------------------------
Init == /\ log = <<>> /\ token = 0 /\ cache = <<>>
        /\ session = NoRoom /\ reference = NoRoom
        /\ lazyLoading \in BOOLEAN /\ fits = TRUE

RoomEvent == /\ Len(log) < MaxLog
             /\ \E kind \in NextKinds(Membership(Len(log))) : log' = Append(log, kind)
             /\ UNCHANGED <<token, cache, session, reference, lazyLoading, fits>>

\* A merge empties a timeline, with the state events and the memberships in it,
\* which is a loss when the new section does not tell them; and the session
\* removes the room that the user left after it handled that of a user who is
\* invited or back.
Fits(old, new) ==
    /\ old.join # None /\ new.join # None /\ new.join.limited =>
           LET dropped == Told(old.join.events)
               told == Later(new.join.state, Told(new.join.events))
           IN \A part \in {"room", "member"} : dropped[part] # 0 => told[part] # 0
    /\ old.leave # None => new.join = None /\ new.invite = None

\* updateStore: into the last chunk unless it is too large, or as a new one
UpdateStore == /\ token < Len(log)
               /\ \E n \in Limits :
                    LET r == Response(token, n)
                    IN /\ fits' = (fits /\ Fits(MergedAll(cache), r))
                       /\ reference' = HandleSync(reference, r)
                       /\ \/ cache' = Append(cache, r)
                          \/ /\ cache # <<>>
                             /\ cache' = [cache EXCEPT ![Len(cache)] = Merged(r, @)]
               /\ token' = Len(log)
               /\ UNCHANGED <<log, session, lazyLoading>>

TakeCache == /\ cache # <<>>
             /\ session' = HandleSync(session, MergedAll(cache))
             /\ cache' = <<>>
             /\ UNCHANGED <<log, token, reference, lazyLoading, fits>>

Next == RoomEvent \/ UpdateStore \/ TakeCache
Spec == Init /\ [][Next]_vars

-----------------------------------------------------------------------------
\* As long as every merge could hold what it merged, the session that took the
\* cache has the user's membership and the state of the room as if it had
\* handled the responses itself, with members loaded lazily or not.
SameRoom == fits /\ cache = <<>> => /\ session.membership = reference.membership
                                    /\ session.state = reference.state

\* "to avoid losing value of limited": and in a joined room that the session
\* shows every event is there, down to where pagination goes on.
NoHole == fits /\ cache = <<>> /\ session.membership = "join" =>
              /\ session.back + 1 .. token \subseteq session.messages
              /\ session.messages = reference.messages
=============================================================================
