--------------------------- MODULE SchedulerLanes ---------------------------
(***************************************************************************)
(* What the scheduler promises its users: one first-in first-out lane per  *)
(* priority, the highest non-empty lane served first, duplicates of a      *)
(* known fingerprint refused.  Saving and restoring does not exist here:   *)
(* it may forget fingerprints, and must disturb no lane.                   *)
(***************************************************************************)
EXTENDS Integers, Sequences

CONSTANTS Requests, Priorities, FingerprintOf

VARIABLES
    lanes,      \* lanes[p]: the requests of priority p, first in first
    known       \* fingerprints of accepted filtered requests

Waiting == UNION {{lanes[p][i] : i \in 1..Len(lanes[p])} : p \in Priorities}
MustKnow == {FingerprintOf[r] : r \in {w \in Waiting : ~w.dontFilter}}

Init == lanes = [p \in Priorities |-> <<>>] /\ known = {}

Join(r) ==
    /\ r.dontFilter \/ FingerprintOf[r] \notin known
    /\ lanes' = [lanes EXCEPT ![r.priority] = Append(@, r)]
    /\ known' = IF r.dontFilter THEN known ELSE known \cup {FingerprintOf[r]}

Serve(p) ==
    /\ lanes[p] # <<>>
    /\ \A q \in Priorities : q > p => lanes[q] = <<>>
    /\ lanes' = [lanes EXCEPT ![p] = Tail(@)]
    /\ UNCHANGED known

Forget ==
    /\ known' \subseteq known
    /\ MustKnow \subseteq known'
    /\ UNCHANGED lanes

Next ==
    \/ \E r \in Requests : Join(r)
    \/ \E p \in Priorities : Serve(p)
    \/ Forget

Spec == Init /\ [][Next]_<<lanes, known>>
============================================================================
