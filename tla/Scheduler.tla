----------------------------- MODULE Scheduler -----------------------------
(***************************************************************************)
(* The crawl scheduler of spiders/scheduler.go: a priority queue of        *)
(* requests that hands out the highest priority first and, inside one      *)
(* priority, the request pushed first; a set of fingerprints that filters  *)
(* duplicates; and Snapshot/Restore, which a checkpoint goes through.      *)
(*                                                                         *)
(* The heap is the set of its entries: what Dequeue returns depends on     *)
(* Less alone, never on the heap's shape.  A list of requests is the set   *)
(* of its elements, each with its position as `order'.                     *)
(***************************************************************************)
EXTENDS Integers, FiniteSets

CONSTANTS
    Urls,           \* the URLs requests are made for (method, body and session folded in)
    Canon           \* Canon[u]: what canonicalizeURL makes of u

VARIABLES
    queue,          \* the heap's entries
    seen,           \* fingerprints of the filtered requests accepted so far
    counter         \* pushes so far; the order given to the last entry

schedVars == <<queue, seen, counter>>

Request == [url : Urls, priority : Int, dontFilter : BOOLEAN, retryCount : Nat]
Entry == [request : Request, order : Nat]

Fingerprints == {Canon[u] : u \in Urls}
\* Mutant: fingerprints of URLs as they are written.
RawFingerprint(r) == r.url
Fingerprint(r) == Canon[r.url]

ASSUME CanonAssumption == DOMAIN Canon = Urls

SchedulerInit == queue = {} /\ seen = {} /\ counter = 0

----------------------------------------------------------------------------
\* Mutant: of one priority, the request pushed last goes first.
PrecedesLatest(a, b) ==
    \/ a.request.priority > b.request.priority
    \/ a.request.priority = b.request.priority /\ a.order > b.order
\* priorityQueue.Less
Precedes(a, b) ==
    \/ a.request.priority > b.request.priority
    \/ /\ a.request.priority = b.request.priority
       /\ a.order < b.order

\* The fingerprints of the requests of a set of entries that dedupe applies to.
FilteredIn(entries) ==
    {Fingerprint(e.request) : e \in {x \in entries : ~x.request.dontFilter}}

\* acceptFingerprint: an unfiltered request is always accepted and never recorded.
Accepts(r) == r.dontFilter \/ Fingerprint(r) \notin seen

Enqueue(r) ==
    /\ Accepts(r)
    /\ seen' = IF r.dontFilter THEN seen ELSE seen \cup {Fingerprint(r)}
    /\ counter' = counter + 1
    /\ queue' = queue \cup {[request |-> r, order |-> counter + 1]}

\* Enqueue as its callers see it: a duplicate changes nothing.
Offer(r) == IF Accepts(r) THEN Enqueue(r) ELSE UNCHANGED schedVars

Dequeue(e) ==
    /\ e \in queue
    /\ \A other \in queue \ {e} : Precedes(e, other)
    /\ queue' = queue \ {e}
    /\ UNCHANGED <<seen, counter>>

\* The queue sorted by Less, each entry with its position in the list.
Listing(entries) ==
    {[request |-> e.request,
      order |-> Cardinality({x \in entries : Precedes(x, e)}) + 1] : e \in entries}

Snapshot == [requests |-> Listing(queue), seen |-> seen]

\* Mutants: the fingerprints of the requests restored, or those of the requests long
\* done, are not recorded.
RestoreGivenSeen(snapshot) ==
    /\ queue' = snapshot.requests /\ seen' = snapshot.seen
    /\ counter' = Cardinality(snapshot.requests)
RestorePendingSeen(snapshot) ==
    /\ queue' = snapshot.requests /\ seen' = FilteredIn(snapshot.requests)
    /\ counter' = Cardinality(snapshot.requests)

\* Restore, with restoredSeenFingerprints: the pending requests count as seen.
Restore(snapshot) ==
    /\ queue' = snapshot.requests
    /\ seen' = snapshot.seen \cup FilteredIn(snapshot.requests)
    /\ counter' = Cardinality(snapshot.requests)

----------------------------------------------------------------------------
SchedulerTypeOK ==
    /\ queue \subseteq Entry
    /\ seen \subseteq Fingerprints
    /\ counter \in Nat

\* A filtered request is queued at most once, and while it is queued its
\* fingerprint is recorded, also after a restore from a snapshot that lost
\* fingerprints.
FilteredOnce ==
    /\ FilteredIn(queue) \subseteq seen
    /\ \A a, b \in queue :
          /\ ~a.request.dontFilter /\ ~b.request.dontFilter
          /\ Fingerprint(a.request) = Fingerprint(b.request)
          => a = b
============================================================================
