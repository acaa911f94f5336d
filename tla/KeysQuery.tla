------------------------------ MODULE KeysQuery ------------------------------
(***************************************************************************)
(* What the callers of MXKeysQueryScheduler are promised, without saying   *)
(* how: one keys/query request is on its way at any time, it asks for      *)
(* exactly the users of the calls it was launched for, and a call waits    *)
(* for at most the request under way and the next one.                     *)
(***************************************************************************)
CONSTANTS
    Call,               \* the calls of query(users:), each made once
    User

VARIABLES
    asked,              \* the users each call asks for
    phase,              \* where each call is
    batch,              \* the users of the request under way
    busy                \* a request is under way

vars == <<asked, phase, batch, busy>>

\* "waiting": not in the next request for sure; "due": in the next request;
\* "carried": in the request under way; "over": its request has ended.
Phase == {"idle", "waiting", "due", "carried", "over"}

In(p) == {c \in Call : phase[c] = p}
UsersOf(calls) == UNION {asked[c] : c \in calls}

Init == /\ asked = [c \in Call |-> {}]
        /\ phase = [c \in Call |-> "idle"]
        /\ batch = {}
        /\ busy = FALSE

\* A call may share the request under way only if that one asks for all its
\* users.  It may be put off only behind something that is under way or due.
Ask(c, users) ==
    /\ phase[c] = "idle"
    /\ asked' = [asked EXCEPT ![c] = users]
    /\ \E p \in {"waiting", "due", "carried"} :
           /\ p = "carried" => busy /\ users \subseteq batch
           /\ p = "waiting" => busy \/ In("due") # {}
           /\ p = "due" => ~busy
           /\ phase' = [phase EXCEPT ![c] = p]
    /\ UNCHANGED <<batch, busy>>

\* The next request takes every call that is due.
Launch == /\ ~busy
          /\ In("due") # {}
          /\ batch' = UsersOf(In("due"))
          /\ busy' = TRUE
          /\ phase' = [c \in Call |->
                          IF phase[c] = "due" THEN "carried" ELSE phase[c]]
          /\ UNCHANGED asked

\* A request ends, well or not: what was put off is in the next one.
Finish == /\ busy
          /\ busy' = FALSE
          /\ batch' = {}
          /\ phase' = [c \in Call |-> CASE phase[c] = "carried" -> "over"
                                        [] phase[c] = "waiting" -> "due"
                                        [] OTHER -> phase[c]]
          /\ UNCHANGED asked

Next == \/ \E c \in Call, users \in SUBSET User : Ask(c, users)
        \/ Launch
        \/ Finish

Spec == Init /\ [][Next]_vars /\ WF_vars(Launch) /\ WF_vars(Finish)
=============================================================================
