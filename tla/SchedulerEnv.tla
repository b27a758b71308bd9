---------------------------- MODULE SchedulerEnv ----------------------------
(***************************************************************************)
(* The scheduler on its own: requests are offered and taken, and the       *)
(* scheduler is saved and restored.  A checkpoint written elsewhere may    *)
(* miss some of the fingerprints of `seen'.                                *)
(***************************************************************************)
EXTENDS Scheduler, Sequences

CONSTANTS
    Requests,       \* the requests the environment offers
    MaxOrder        \* bound on the push counter

ASSUME SchedulerEnvAssumption ==
    /\ Requests \subseteq Request
    /\ MaxOrder \in Nat

Init == SchedulerInit

OfferAny == \E r \in Requests : counter < MaxOrder /\ Offer(r)
DequeueNext == \E e \in queue : Dequeue(e)
Reload == \E kept \in SUBSET seen : Restore([Snapshot EXCEPT !.seen = kept])

Next == OfferAny \/ DequeueNext \/ Reload

Spec == Init /\ [][Next]_schedVars

----------------------------------------------------------------------------
Priorities == {r.priority : r \in Requests}

\* Of a set of entries, those that were pushed before e, the i-th that was pushed, and
\* the requests of all in push order.
Ahead(entries, e) == {x \in entries : x.order < e.order}
Nth(entries, i) == CHOOSE e \in entries : Cardinality(Ahead(entries, e)) = i - 1
InPushOrder(entries) == [i \in 1..Cardinality(entries) |-> Nth(entries, i).request]

\* Lane p as the queue holds it.
OfPriority(p) == {e \in queue : e.request.priority = p}
Lane(p) == InPushOrder(OfPriority(p))

Lanes == INSTANCE SchedulerLanes WITH
            lanes <- [p \in Priorities |-> Lane(p)],
            known <- seen,
            FingerprintOf <- [r \in Requests |-> Fingerprint(r)]

\* Whatever is offered, taken, saved and restored, requests are served highest
\* priority first and first-in first-out inside a priority; a restore moves no
\* request and keeps every queued request filtered.  (Less, Dequeue, Snapshot, Restore)
ServesInLaneOrder == Lanes!Spec
============================================================================
