----------------------------- MODULE MCFileStore -----------------------------
EXTENDS FileStore

CONSTANTS r1, r2

E1 == [room |-> r1, kind |-> "event"]
E2 == [room |-> r2, kind |-> "event"]
J1 == [room |-> r1, kind |-> "join"]
L1 == [room |-> r1, kind |-> "leave"]

\* Two rooms, one of them joined after an invitation, left, joined again, and
\* saved twice since.
InviteLeaveAndRejoin == <<E1, J1, E2, L1, E1, E1>>
\* Two rooms that only receive events.
TwoRooms == <<E1, E2, E1>>
\* One room, left after one event.
LeaveOnce == <<E1, L1>>
=============================================================================
