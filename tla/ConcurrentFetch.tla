--------------------------- MODULE ConcurrentFetch ---------------------------
(***************************************************************************)
(* The concurrent fetcher over the static one: the workers of FetchBatch   *)
(* run the fetches of StaticFetch, under the batch's context, which takes  *)
(* the place of the one a request came with (fetchOne).                    *)
(***************************************************************************)
EXTENDS FetchBatch, StaticFetch

allVars == <<vars, fetchVars>>

ASSUME ConcurrentAssumption == Fetches = Indices

CInit == Init /\ FetchInit

\* Mutant: an error of the fetch itself is dropped.
SummaryOfAny(kind) == IF kind \in {"context", "canceled"} THEN "context error" ELSE "response"
\* What a result says of its fetch.
Summary(kind) ==
    CASE kind = "response" -> "response"
      [] kind \in {"context", "canceled"} -> "context error"
      [] OTHER -> "fetch error"

\* fetchOne
FetchOne(w) ==
    CheckContext(w) /\ IF worker'[w] = "fetch" THEN StartFetch(job[w]) ELSE UNCHANGED fetchVars
FetchedOne(w) ==
    /\ FinishFetch(w) /\ phase[job[w]] = "done"
    /\ results'[job[w]] = Summary(outcome[job[w]])
    /\ UNCHANGED fetchVars

CNext ==
    \/ CallerStep /\ UNCHANGED fetchVars
    \/ EndContext /\ \E how \in {"canceled", "deadline"} : EndFetchContext(how)
    \/ \E w \in Workers : FetchOne(w) \/ FetchedOne(w) \/ (Exit(w) /\ UNCHANGED fetchVars)
    \/ \E f \in Fetches : FetchStep(f) /\ UNCHANGED vars
    \/ main = "returned" /\ UNCHANGED allVars

CSpec == CInit /\ [][CNext]_allVars

\* Goroutines that can run do, and every request is answered, fails or times out.
CFairness ==
    /\ WF_allVars(CallerStep /\ UNCHANGED fetchVars)
    /\ \A w \in Workers : WF_allVars(FetchOne(w) \/ FetchedOne(w) \/ (Exit(w) /\ UNCHANGED fetchVars))
    /\ \A f \in Fetches : WF_allVars(FetchStep(f) /\ UNCHANGED vars)
CFairSpec == CSpec /\ CFairness

----------------------------------------------------------------------------
\* Types hold, a result never blames the context before it has ended, and a response is told only of
\* a fetch that got one.
ResultsHonest ==
    /\ FetchTypeOK
    /\ \A i \in Indices :
        /\ results[i] = "context error" => ended
        /\ results[i] \in {"response", "fetch error"} =>
              phase[i] = "done" /\ (results[i] = "response" <=> outcome[i] = "response")
=============================================================================
