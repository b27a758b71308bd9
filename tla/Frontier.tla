------------------------------ MODULE Frontier ------------------------------
(***************************************************************************)
(* What a crawl with checkpoints promises, whatever its queue, goroutines, *)
(* limits and retries: a set of pages still to be dealt with that survives *)
(* pauses.  A page leaves it only by being dealt with, one at a time; a    *)
(* run that suspends saves all of it; a run that aborts saves nothing and  *)
(* spoils nothing saved; what is saved is forgotten only by a run that     *)
(* finished everything; and a run with something saved starts from that.   *)
(***************************************************************************)
CONSTANTS
    Pages,      \* what there is to deal with, one element per fingerprint
    NoSave      \* nothing is saved

VARIABLES
    phase,      \* "idle": no run, "fresh": a run that has no work yet, "running"
    pending,    \* the pages the run has still to deal with
    saved       \* the pages the last suspended run had left, or NoSave

frontierVars == <<phase, pending, saved>>

Init == phase = "idle" /\ pending = {} /\ saved = NoSave

Begin == phase = "idle" /\ phase' = "fresh" /\ UNCHANGED <<pending, saved>>

Recover ==
    /\ phase = "fresh" /\ saved # NoSave
    /\ phase' = "running" /\ pending' = saved
    /\ UNCHANGED saved

\* A run that starts anew may do so only when there is nothing to recover.
Discover(p) ==
    /\ phase = "running" \/ (phase = "fresh" /\ saved = NoSave)
    /\ phase' = "running" /\ pending' = pending \cup {p}
    /\ UNCHANGED saved

Settle(p) ==
    /\ phase = "running" /\ p \in pending
    /\ pending' = pending \ {p}
    /\ UNCHANGED <<phase, saved>>

End == phase # "idle" /\ phase' = "idle" /\ pending' = {}

Suspend == phase = "running" /\ End /\ saved' = pending
Abort == End /\ UNCHANGED saved
Finish == phase = "running" /\ pending = {} /\ End /\ saved' = NoSave

Next ==
    \/ Begin \/ Recover \/ Suspend \/ Abort \/ Finish
    \/ \E p \in Pages : Discover(p) \/ Settle(p)

Spec == Init /\ [][Next]_frontierVars
============================================================================
