------------------------------ MODULE Limiter ------------------------------
(***************************************************************************)
(* What a bounded pool promises its callers: at most Cap of them work at a *)
(* time, and after it is shut none begins.                                 *)
(***************************************************************************)
EXTENDS Naturals, FiniteSets

CONSTANTS Callers, Cap

VARIABLES
    users,  \* the callers at work
    shut    \* is the pool closed

vars == <<users, shut>>

Init == users = {} /\ shut = FALSE

Enter(c) ==
    /\ ~shut /\ c \notin users
    /\ Cardinality(users) < Cap
    /\ users' = users \cup {c}
    /\ UNCHANGED shut

Leave(c) ==
    /\ c \in users
    /\ users' = users \ {c}
    /\ UNCHANGED shut

Shut == ~shut /\ shut' = TRUE /\ UNCHANGED users

Next == Shut \/ \E c \in Callers : Enter(c) \/ Leave(c)

Spec == Init /\ [][Next]_vars
============================================================================
