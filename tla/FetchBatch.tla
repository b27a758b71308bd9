----------------------------- MODULE FetchBatch -----------------------------
(***************************************************************************)
(* ConcurrentFetcher.Fetch of fetchers/fetcher_async.go: the caller hands  *)
(* the indices of a slice of requests to a fixed number of workers over an *)
(* unbuffered channel; each writes its results into a shared slice.  When  *)
(* the context ends the caller fills in what it has not handed over.       *)
(***************************************************************************)
EXTENDS Integers, FiniteSets

CONSTANTS
    Count,          \* len(requests)
    Workers         \* the worker goroutines, normalizedConcurrency of them

VARIABLES
    main,           \* where the caller is
    next,           \* the index it hands over next
    jobsClosed,     \* is the channel closed
    worker, job,    \* where each worker is, and its index
    results,        \* the outcome in each result
    ended,          \* has the context ended
    started         \* history: the indices whose fetch was begun

vars == <<main, next, jobsClosed, worker, job, results, ended, started>>

Indices == 1..Count
Outcomes == {"response", "fetch error", "context error"}

ASSUME BatchAssumption ==
    /\ Count \in Nat \ {0}
    /\ IsFiniteSet(Workers) /\ Workers # {} /\ Cardinality(Workers) <= Count

Init ==
    /\ main = "dispatch" /\ next = 1 /\ jobsClosed = FALSE
    /\ worker = [w \in Workers |-> "idle"] /\ job = [w \in Workers |-> 0]
    /\ results = [i \in Indices |-> "none"]
    /\ ended = FALSE /\ started = {}

----------------------------------------------------------------------------
Write(w, outcome) ==
    /\ results' = [results EXCEPT ![job[w]] = outcome]
    /\ worker' = [worker EXCEPT ![w] = "idle"]

\* The caller's select: an idle worker takes the index ...
HandOver(w) ==
    /\ main = "dispatch" /\ next <= Count /\ worker[w] = "idle"
    /\ worker' = [worker EXCEPT ![w] = "check"] /\ job' = [job EXCEPT ![w] = next]
    /\ next' = next + 1
    /\ UNCHANGED <<main, jobsClosed, results, ended, started>>

\* Mutants: the rest is filled in from the index before, or after.
AbandonOneMore ==
    /\ main = "dispatch" /\ next <= Count /\ ended
    /\ results' = [i \in Indices |-> IF i >= next - 1 THEN "context error" ELSE results[i]]
    /\ jobsClosed' = TRUE /\ main' = "join"
    /\ UNCHANGED <<next, worker, job, ended, started>>
AbandonOneLess ==
    /\ main = "dispatch" /\ next <= Count /\ ended
    /\ results' = [i \in Indices |-> IF i > next THEN "context error" ELSE results[i]]
    /\ jobsClosed' = TRUE /\ main' = "join"
    /\ UNCHANGED <<next, worker, job, ended, started>>

\* ... or the context has ended.
AbandonRest ==
    /\ main = "dispatch" /\ next <= Count /\ ended
    /\ results' = [i \in Indices |-> IF i >= next THEN "context error" ELSE results[i]]
    /\ jobsClosed' = TRUE /\ main' = "join"
    /\ UNCHANGED <<next, worker, job, ended, started>>

CloseJobs ==
    /\ main = "dispatch" /\ next > Count
    /\ jobsClosed' = TRUE /\ main' = "join"
    /\ UNCHANGED <<next, worker, job, results, ended, started>>

\* wg.Wait
Return ==
    /\ main = "join" /\ \A w \in Workers : worker[w] = "exited"
    /\ main' = "returned"
    /\ UNCHANGED <<next, jobsClosed, worker, job, results, ended, started>>

\* Mutant: a worker does not look at the context.
CheckNothing(w) ==
    /\ worker[w] = "check"
    /\ worker' = [worker EXCEPT ![w] = "fetch"] /\ started' = started \cup {job[w]}
    /\ UNCHANGED <<main, next, jobsClosed, job, results, ended>>

CheckContext(w) ==
    /\ worker[w] = "check"
    /\ IF ended
       THEN Write(w, "context error") /\ UNCHANGED started
       ELSE /\ worker' = [worker EXCEPT ![w] = "fetch"] /\ started' = started \cup {job[w]}
            /\ UNCHANGED results
    /\ UNCHANGED <<main, next, jobsClosed, job, ended>>

\* fetchOne returns, with the context's error only if it has ended.
FinishFetch(w) ==
    /\ worker[w] = "fetch"
    /\ \E outcome \in Outcomes : (outcome = "context error" => ended) /\ Write(w, outcome)
    /\ UNCHANGED <<main, next, jobsClosed, job, ended, started>>

\* The range over the channel ends.
Exit(w) ==
    /\ worker[w] = "idle" /\ jobsClosed
    /\ worker' = [worker EXCEPT ![w] = "exited"]
    /\ UNCHANGED <<main, next, jobsClosed, job, results, ended, started>>

EndContext ==
    /\ ~ended /\ main # "returned" /\ ended' = TRUE
    /\ UNCHANGED <<main, next, jobsClosed, worker, job, results, started>>

CallerStep == (\E w \in Workers : HandOver(w)) \/ AbandonRest \/ CloseJobs \/ Return
WorkerStep(w) == CheckContext(w) \/ FinishFetch(w) \/ Exit(w)

Next ==
    \/ CallerStep \/ EndContext
    \/ \E w \in Workers : WorkerStep(w)
    \/ main = "returned" /\ UNCHANGED vars

Spec == Init /\ [][Next]_vars

\* Goroutines that can run do, and every fetch returns.
FairSpec == Spec /\ WF_vars(CallerStep) /\ \A w \in Workers : WF_vars(WorkerStep(w))

----------------------------------------------------------------------------
BatchTypeOK ==
    /\ main \in {"dispatch", "join", "returned"} /\ next \in 1..(Count + 1)
    /\ jobsClosed \in BOOLEAN /\ ended \in BOOLEAN
    /\ worker \in [Workers -> {"idle", "check", "fetch", "exited"}]
    /\ job \in [Workers -> 0..Count]
    /\ results \in [Indices -> Outcomes \cup {"none"}]
    /\ started \subseteq Indices

\* The caller gets an outcome for every request, and one that is not the context's
\* error for no request that was never fetched.  With WrittenOnce: no worker writes
\* after Fetch has returned.
ResultsComplete ==
    main = "returned" =>
        \A i \in Indices : results[i] # "none" /\ (results[i] # "context error" => i \in started)

\* The shared slice is written without locks: no result is ever written twice, by the
\* caller and a worker or by two workers, however the context's end races a handover.
WrittenOnce == [][\A i \in Indices : results[i] # "none" => results'[i] = results[i]]_results

\* Once the context has ended no worker decides to fetch, though the caller's select
\* may still hand requests over then.
NoFetchAfterEnd == [][ended => started' = started]_vars

\* The batch's books are right: the caller gets one outcome per request.
BatchSound == BatchTypeOK /\ ResultsComplete

\* What no step of a worker or of the caller does: write a result again, or begin a
\* fetch in a batch that has ended.
BatchSteps == WrittenOnce /\ NoFetchAfterEnd

\* Fetch returns: nobody waits for a job or a result that does not come.
BatchReturns == <>(main = "returned")
============================================================================
