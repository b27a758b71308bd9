----------------------------- MODULE FetchProofs -----------------------------
(***************************************************************************)
(* The shared slice of ConcurrentFetcher.Fetch needs no lock: for any      *)
(* number of requests and workers each result has one writer.  The fetches *)
(* keep their promises under any site, proxies and end of the context, and *)
(* so do both together.                                                    *)
(*                                                                         *)
(* What the layers of options promise, for all options, requests and names *)
(* of headers: a fetch takes the route and the headers of the nearest      *)
(* layer that asks for any; what a layer of a browser fetch blocks stays   *)
(* blocked, and its proxy keeps its credentials.                           *)
(***************************************************************************)
EXTENDS ConcurrentFetch, Library, SequenceTheorems, TLAPS

----------------------------------------------------------------------------
(* The batch *)

Working(w) == worker[w] \in {"check", "fetch"}

\* A worker at work has an index of its own that was handed over.
HandedOver == \A w \in Workers : Working(w) => job[w] \in Indices /\ job[w] < next
OneIndexEach == \A w, v \in Workers : Working(w) /\ Working(v) /\ job[w] = job[v] => w = v
FetchStarted == \A w \in Workers : worker[w] = "fetch" => job[w] \in started

\* The workers leave when the caller is through, and it returns when they have left.
ClosedLast == main = "dispatch" => jobsClosed = FALSE
Leaving ==
    /\ \A w \in Workers : worker[w] = "exited" => main # "dispatch"
    /\ main = "returned" => \A w \in Workers : worker[w] = "exited"

\* An index without a result is in the hands of a worker or still to be handed over,
\* and one with a result is neither.
InHands(i) == \E w \in Workers : Working(w) /\ job[w] = i
Pending(i) == InHands(i) \/ (main = "dispatch" /\ i >= next)
Undecided == \A i \in Indices : results[i] = "none" <=> Pending(i)

\* Only a fetch gives a result of its own.
Fetched == \A i \in Indices : results[i] \in {"response", "fetch error"} => i \in started

BatchInv ==
    /\ BatchTypeOK /\ HandedOver /\ OneIndexEach /\ FetchStarted
    /\ ClosedLast /\ Leaving /\ Undecided /\ Fetched

LEMMA IndicesAreNumbers == Indices \subseteq Nat /\ Count \in Nat
  BY BatchAssumption DEF Indices

LEMMA Types ==
    ASSUME BatchTypeOK
    PROVE  /\ worker \in [Workers -> {"idle", "check", "fetch", "exited"}]
           /\ job \in [Workers -> 0..Count] /\ results \in [Indices -> Outcomes \cup {"none"}]
           /\ next \in Nat /\ next \in 1..(Count + 1) /\ started \subseteq Indices
           /\ main \in {"dispatch", "join", "returned"}
  BY BatchAssumption DEF BatchTypeOK

LEMMA BatchInit == ASSUME Init PROVE BatchInv
  <1> USE BatchAssumption DEF Init, Indices
  <1>1. main \in {"dispatch", "join", "returned"} /\ next \in 1..(Count + 1)
    OBVIOUS
  <1>2. job \in [Workers -> 0..Count]
    OBVIOUS
  <1>3. BatchTypeOK
    BY <1>1, <1>2 DEF BatchTypeOK, Outcomes
  <1>4. \A w \in Workers : ~Working(w) /\ worker[w] # "exited" /\ worker[w] # "fetch"
    BY DEF Working
  <1>5. \A i \in Indices : results[i] = "none" /\ main = "dispatch" /\ i >= next
    OBVIOUS
  <1>6. HandedOver /\ OneIndexEach /\ FetchStarted
    BY <1>4 DEF HandedOver, OneIndexEach, FetchStarted
  <1>7. ClosedLast /\ Leaving
    BY <1>4 DEF ClosedLast, Leaving
  <1>8. Undecided /\ Fetched
    BY <1>5 DEF Undecided, Pending, Fetched
  <1> QED
    BY <1>3, <1>6, <1>7, <1>8 DEF BatchInv

\* The caller hands an index over.
LEMMA HandOverPreserves == ASSUME BatchInv, NEW w \in Workers, HandOver(w) PROVE BatchInv'
  <1>1. /\ main = "dispatch" /\ main' = main /\ next' = next + 1 /\ next <= Count
        /\ worker' = [worker EXCEPT ![w] = "check"] /\ job' = [job EXCEPT ![w] = next]
        /\ worker[w] = "idle"
    BY DEF HandOver
  <1>2. results' = results /\ started' = started
    BY DEF HandOver
  <1>3. jobsClosed' = jobsClosed /\ ended' = ended
    BY DEF HandOver
  <1>4. next \in Nat /\ next \in Indices
    BY <1>1, Types, BatchAssumption DEF BatchInv, Indices
  <1>5. ~Working(w)
    BY <1>1 DEF Working
  <1>6. BatchTypeOK'
    <2>1. worker' \in [Workers -> {"idle", "check", "fetch", "exited"}]
      BY <1>1, Types DEF BatchInv
    <2>2. job' \in [Workers -> 0..Count]
      BY <1>1, <1>4, Types, BatchAssumption DEF BatchInv, Indices
    <2>3. next' \in 1..(Count + 1)
      BY <1>1, <1>4, BatchAssumption
    <2>4. main \in {"dispatch", "join", "returned"} /\ jobsClosed \in BOOLEAN
          /\ ended \in BOOLEAN /\ results \in [Indices -> Outcomes \cup {"none"}]
          /\ started \subseteq Indices
      BY DEF BatchInv, BatchTypeOK
    <2> QED
      BY <1>1, <1>2, <1>3, <2>1, <2>2, <2>3, <2>4 DEF BatchTypeOK
  <1>7. \A v \in Workers : worker'[v] = IF v = w THEN "check" ELSE worker[v]
    BY <1>1, Types DEF BatchInv
  <1>8. \A v \in Workers : job'[v] = IF v = w THEN next ELSE job[v]
    BY <1>1, Types DEF BatchInv
  <1>9. \A v \in Workers : Working(v)' <=> Working(v) \/ v = w
    BY <1>7 DEF Working
  <1>10. \A v \in Workers : Working(v) => job[v] \in Indices /\ job[v] \in Nat /\ job[v] < next
    BY IndicesAreNumbers DEF BatchInv, HandedOver
  <1>11. HandedOver'
    BY <1>1, <1>4, <1>8, <1>9, <1>10 DEF HandedOver
  <1>12. OneIndexEach'
    <2>1. \A v \in Workers : Working(v) => job[v] # next
      BY <1>4, <1>10
    <2> QED
      BY <1>8, <1>9, <2>1 DEF BatchInv, OneIndexEach
  <1>13. FetchStarted'
    BY <1>2, <1>7, <1>8 DEF BatchInv, FetchStarted
  <1>14. ClosedLast' /\ Leaving'
    BY <1>1, <1>3, <1>7 DEF BatchInv, ClosedLast, Leaving
  <1>15. \A i \in Indices : InHands(i)' <=> InHands(i) \/ i = next
    <2> TAKE i \in Indices
    <2>1. CASE i = next
      BY <2>1, <1>8, <1>9 DEF InHands
    <2>2. CASE i # next
      BY <2>2, <1>5, <1>8, <1>9 DEF InHands
    <2> QED
      BY <2>1, <2>2
  <1>16. \A i \in Indices : Pending(i)' <=> Pending(i)
    <2> TAKE i \in Indices
    <2>1. i \in Nat /\ (i >= next' <=> i >= next /\ i # next) /\ (i = next => i >= next)
      BY <1>1, <1>4, IndicesAreNumbers
    <2> QED
      BY <1>1, <1>15, <2>1 DEF Pending
  <1>17. Undecided'
    BY <1>2, <1>16 DEF BatchInv, Undecided
  <1>18. Fetched'
    BY <1>2 DEF BatchInv, Fetched
  <1> QED
    BY <1>6, <1>11, <1>12, <1>13, <1>14, <1>17, <1>18 DEF BatchInv

\* A step that leaves the workers alone keeps what is said of them.
LEMMA WorkersAlone ==
    ASSUME BatchInv, UNCHANGED <<next, worker, job, started>>
    PROVE  /\ HandedOver' /\ OneIndexEach' /\ FetchStarted'
           /\ \A i \in Indices : InHands(i)' <=> InHands(i)
  <1>1. \A w \in Workers : Working(w)' <=> Working(w)
    BY DEF Working
  <1>2. HandedOver' /\ OneIndexEach' /\ FetchStarted'
    BY <1>1 DEF BatchInv, HandedOver, OneIndexEach, FetchStarted
  <1>3. \A i \in Indices : InHands(i)' <=> InHands(i)
    BY <1>1 DEF InHands
  <1> QED
    BY <1>2, <1>3

\* The caller gives up or is through with the requests.
LEMMA LeaveDispatchPreserves ==
    ASSUME BatchInv, AbandonRest \/ CloseJobs PROVE BatchInv'
  <1>1. main = "dispatch" /\ main' = "join" /\ UNCHANGED <<next, worker, job, started>>
    BY DEF AbandonRest, CloseJobs
  <1>2. jobsClosed' = TRUE /\ ended' = ended
    BY DEF AbandonRest, CloseJobs
  <1>3. HandedOver' /\ OneIndexEach' /\ FetchStarted' /\ \A i \in Indices : InHands(i)' <=> InHands(i)
    BY <1>1, WorkersAlone
  <1>4. \A i \in Indices : results'[i] = IF i >= next THEN "context error" ELSE results[i]
    <2>1. CASE AbandonRest
      BY <2>1 DEF AbandonRest
    <2>2. CASE CloseJobs
      <3>1. \A i \in Indices : ~(i >= next)
        BY <2>2, Types, BatchAssumption DEF CloseJobs, BatchInv, Indices
      <3> QED
        BY <2>2, <3>1 DEF CloseJobs
    <2> QED
      BY <2>1, <2>2
  <1>5. results' \in [Indices -> Outcomes \cup {"none"}]
    <2>1. CASE AbandonRest
      BY <2>1, Types DEF AbandonRest, BatchInv, Outcomes
    <2>2. CASE CloseJobs
      BY <2>2, Types DEF CloseJobs, BatchInv
    <2> QED
      BY <2>1, <2>2
  <1>6. BatchTypeOK'
    <2>1. jobsClosed' \in BOOLEAN /\ ended' \in BOOLEAN
      BY <1>2 DEF BatchInv, BatchTypeOK
    <2>2. main' \in {"dispatch", "join", "returned"} /\ started' \subseteq Indices
      BY <1>1, Types DEF BatchInv
    <2>3. /\ next' \in 1..(Count + 1) /\ job' \in [Workers -> 0..Count]
          /\ worker' \in [Workers -> {"idle", "check", "fetch", "exited"}]
      BY <1>1, Types DEF BatchInv
    <2> QED
      BY <1>5, <2>1, <2>2, <2>3 DEF BatchTypeOK
  <1>7. ClosedLast'
    BY <1>1 DEF ClosedLast
  <1>8. Leaving'
    BY <1>1 DEF BatchInv, Leaving
  <1>9. \A i \in Indices : InHands(i) => ~(i >= next)
    BY Types, IndicesAreNumbers DEF BatchInv, HandedOver, InHands
  <1>10. \A i \in Indices : Pending(i)' <=> InHands(i)
    BY <1>1, <1>3 DEF Pending
  <1>11. \A i \in Indices : Pending(i) <=> InHands(i) \/ i >= next
    BY <1>1 DEF Pending
  <1>12. Undecided'
    BY <1>4, <1>9, <1>10, <1>11 DEF BatchInv, Undecided
  <1>13. Fetched'
    BY <1>1, <1>4 DEF BatchInv, Fetched
  <1> QED
    BY <1>3, <1>6, <1>7, <1>8, <1>12, <1>13 DEF BatchInv

\* The caller returns, or the context ends.
LEMMA ReturnPreserves == ASSUME BatchInv, Return \/ EndContext PROVE BatchInv'
  <1>1. UNCHANGED <<next, worker, job, started, results>>
    BY DEF Return, EndContext
  <1>2. main' = main \/ (main = "join" /\ main' = "returned" /\ \A w \in Workers : worker[w] = "exited")
    BY DEF Return, EndContext
  <1>3. jobsClosed' = jobsClosed /\ ended' \in BOOLEAN
    BY DEF Return, EndContext, BatchInv, BatchTypeOK
  <1>4. HandedOver' /\ OneIndexEach' /\ FetchStarted' /\ \A i \in Indices : InHands(i)' <=> InHands(i)
    BY <1>1, WorkersAlone
  <1>5. BatchTypeOK'
    <2>1. jobsClosed' \in BOOLEAN
      BY <1>3 DEF BatchInv, BatchTypeOK
    <2>2. main' \in {"dispatch", "join", "returned"}
      BY <1>2, Types DEF BatchInv
    <2>3. /\ next' \in 1..(Count + 1) /\ job' \in [Workers -> 0..Count]
          /\ worker' \in [Workers -> {"idle", "check", "fetch", "exited"}]
          /\ results' \in [Indices -> Outcomes \cup {"none"}] /\ started' \subseteq Indices
      BY <1>1, Types DEF BatchInv
    <2> QED
      BY <1>3, <2>1, <2>2, <2>3 DEF BatchTypeOK
  <1>6. ClosedLast'
    BY <1>2, <1>3 DEF BatchInv, ClosedLast
  <1>7. Leaving'
    BY <1>1, <1>2 DEF BatchInv, Leaving
  <1>8. \A i \in Indices : Pending(i)' <=> Pending(i)
    <2>1. main' = "dispatch" <=> main = "dispatch"
      BY <1>2
    <2> QED
      BY <1>1, <1>4, <2>1 DEF Pending
  <1>9. Undecided' /\ Fetched'
    BY <1>1, <1>8 DEF BatchInv, Undecided, Fetched
  <1> QED
    BY <1>4, <1>5, <1>6, <1>7, <1>9 DEF BatchInv

LEMMA HandedOverBefore ==
    ASSUME BatchInv, NEW w \in Workers, Working(w) PROVE ~(job[w] >= next)
  <1>1. job[w] \in Nat /\ next \in Nat /\ job[w] < next
    BY Types, IndicesAreNumbers DEF BatchInv, HandedOver
  <1> QED
    BY <1>1

\* A worker writes its result and gives its index up.
LEMMA WritePreserves ==
    ASSUME BatchInv, NEW w \in Workers, NEW told \in Outcomes, Working(w), Write(w, told),
           told \in {"response", "fetch error"} => job[w] \in started,
           UNCHANGED <<main, next, job, started>>, jobsClosed' = jobsClosed, ended' = ended
    PROVE  BatchInv'
  <1>1. job[w] \in Indices
    BY DEF BatchInv, HandedOver
  <1>2. \A i \in Indices : results'[i] = IF i = job[w] THEN told ELSE results[i]
    BY <1>1, Types DEF Write, BatchInv
  <1>3. \A v \in Workers : worker'[v] = IF v = w THEN "idle" ELSE worker[v]
    BY Types DEF Write, BatchInv
  <1>4. \A v \in Workers : Working(v)' <=> Working(v) /\ v # w
    BY <1>3 DEF Working
  <1>5. BatchTypeOK'
    <2>1. jobsClosed' \in BOOLEAN /\ ended' \in BOOLEAN
      BY DEF BatchInv, BatchTypeOK
    <2>2. results' \in [Indices -> Outcomes \cup {"none"}]
      BY Types DEF Write, BatchInv
    <2>3. worker' \in [Workers -> {"idle", "check", "fetch", "exited"}]
      BY Types DEF Write, BatchInv
    <2>4. /\ next' \in 1..(Count + 1) /\ job' \in [Workers -> 0..Count]
          /\ main' \in {"dispatch", "join", "returned"} /\ started' \subseteq Indices
      BY Types DEF BatchInv
    <2> QED
      BY <2>1, <2>2, <2>3, <2>4 DEF BatchTypeOK
  <1>6. HandedOver' /\ OneIndexEach'
    BY <1>4 DEF BatchInv, HandedOver, OneIndexEach
  <1>7. FetchStarted'
    BY <1>3 DEF BatchInv, FetchStarted
  <1>8. ClosedLast'
    BY DEF BatchInv, ClosedLast
  <1>9. Leaving'
    <2>1. main # "returned"
      BY DEF BatchInv, Leaving, Working
    <2> QED
      BY <1>3, <2>1 DEF BatchInv, Leaving
  <1>10. \A i \in Indices : InHands(i)' <=> InHands(i) /\ i # job[w]
    <2> TAKE i \in Indices
    <2>1. \A v \in Workers : Working(v) /\ job[v] = job[w] => v = w
      BY DEF BatchInv, OneIndexEach
    <2> QED
      BY <1>4, <2>1 DEF InHands
  <1>11. ~(job[w] >= next)
    BY HandedOverBefore
  <1>12. \A i \in Indices : Pending(i)' <=> Pending(i) /\ i # job[w]
    BY <1>10, <1>11 DEF Pending
  <1>13. told # "none"
    BY DEF Outcomes
  <1>14. Undecided'
    BY <1>2, <1>12, <1>13 DEF BatchInv, Undecided
  <1>15. Fetched'
    BY <1>2 DEF BatchInv, Fetched
  <1> QED
    BY <1>5, <1>6, <1>7, <1>8, <1>9, <1>14, <1>15 DEF BatchInv

\* A worker begins its fetch, or leaves.
LEMMA BeginPreserves ==
    ASSUME BatchInv, NEW w \in Workers, CheckContext(w), ~ended PROVE BatchInv'
  <1>1. /\ worker[w] = "check" /\ worker' = [worker EXCEPT ![w] = "fetch"]
        /\ started' = started \cup {job[w]} /\ UNCHANGED <<main, next, job, results>>
    BY DEF CheckContext
  <1>2. jobsClosed' = jobsClosed /\ ended' = ended
    BY DEF CheckContext
  <1>3. \A v \in Workers : worker'[v] = IF v = w THEN "fetch" ELSE worker[v]
    BY <1>1, Types DEF BatchInv
  <1>4. \A v \in Workers : Working(v)' <=> Working(v)
    BY <1>1, <1>3 DEF Working
  <1>5. job[w] \in Indices
    BY <1>1 DEF BatchInv, HandedOver, Working
  <1>6. BatchTypeOK'
    <2>1. jobsClosed' \in BOOLEAN /\ ended' \in BOOLEAN
      BY <1>2 DEF BatchInv, BatchTypeOK
    <2>2. worker' \in [Workers -> {"idle", "check", "fetch", "exited"}]
      BY <1>1, Types DEF BatchInv
    <2>3. /\ next' \in 1..(Count + 1) /\ job' \in [Workers -> 0..Count]
          /\ main' \in {"dispatch", "join", "returned"} /\ started' \subseteq Indices
          /\ results' \in [Indices -> Outcomes \cup {"none"}]
      BY <1>1, <1>5, Types DEF BatchInv
    <2> QED
      BY <2>1, <2>2, <2>3 DEF BatchTypeOK
  <1>7. HandedOver' /\ OneIndexEach'
    BY <1>1, <1>4 DEF BatchInv, HandedOver, OneIndexEach
  <1>8. FetchStarted'
    BY <1>1, <1>3 DEF BatchInv, FetchStarted
  <1>9. ClosedLast'
    BY <1>1, <1>2 DEF BatchInv, ClosedLast
  <1>10. Leaving'
    BY <1>1, <1>3 DEF BatchInv, Leaving
  <1>11. \A i \in Indices : Pending(i)' <=> Pending(i)
    BY <1>1, <1>4 DEF Pending, InHands
  <1>12. Undecided' /\ Fetched'
    BY <1>1, <1>11 DEF BatchInv, Undecided, Fetched
  <1> QED
    BY <1>6, <1>7, <1>8, <1>9, <1>10, <1>12 DEF BatchInv

LEMMA ExitPreserves == ASSUME BatchInv, NEW w \in Workers, Exit(w) PROVE BatchInv'
  <1>1. /\ worker[w] = "idle" /\ worker' = [worker EXCEPT ![w] = "exited"]
        /\ UNCHANGED <<main, next, job, started, results>>
    BY DEF Exit
  <1>2. jobsClosed = TRUE /\ jobsClosed' = jobsClosed /\ ended' = ended
    BY DEF Exit, BatchInv, BatchTypeOK
  <1>3. \A v \in Workers : worker'[v] = IF v = w THEN "exited" ELSE worker[v]
    BY <1>1, Types DEF BatchInv
  <1>4. \A v \in Workers : Working(v)' <=> Working(v)
    BY <1>1, <1>3 DEF Working
  <1>5. BatchTypeOK'
    <2>1. jobsClosed' \in BOOLEAN /\ ended' \in BOOLEAN
      BY <1>2 DEF BatchInv, BatchTypeOK
    <2>2. worker' \in [Workers -> {"idle", "check", "fetch", "exited"}]
      BY <1>1, Types DEF BatchInv
    <2>3. /\ next' \in 1..(Count + 1) /\ job' \in [Workers -> 0..Count]
          /\ main' \in {"dispatch", "join", "returned"} /\ started' \subseteq Indices
          /\ results' \in [Indices -> Outcomes \cup {"none"}]
      BY <1>1, Types DEF BatchInv
    <2> QED
      BY <2>1, <2>2, <2>3 DEF BatchTypeOK
  <1>6. HandedOver' /\ OneIndexEach'
    BY <1>1, <1>4 DEF BatchInv, HandedOver, OneIndexEach
  <1>7. FetchStarted'
    BY <1>1, <1>3 DEF BatchInv, FetchStarted
  <1>8. main # "dispatch"
    BY <1>2 DEF BatchInv, ClosedLast
  <1>9. ClosedLast' /\ Leaving'
    BY <1>1, <1>3, <1>8 DEF BatchInv, ClosedLast, Leaving
  <1>10. \A i \in Indices : Pending(i)' <=> Pending(i)
    BY <1>1, <1>4 DEF Pending, InHands
  <1>11. Undecided' /\ Fetched'
    BY <1>1, <1>10 DEF BatchInv, Undecided, Fetched
  <1> QED
    BY <1>5, <1>6, <1>7, <1>9, <1>11 DEF BatchInv

LEMMA WorkerPreserves == ASSUME BatchInv, NEW w \in Workers, WorkerStep(w) PROVE BatchInv'
  <1>1. CASE CheckContext(w) /\ ended
    <2>1. Working(w) /\ Write(w, "context error") /\ UNCHANGED <<main, next, job, started>>
      BY <1>1 DEF CheckContext, Working
    <2>2. jobsClosed' = jobsClosed /\ ended' = ended
      BY <1>1 DEF CheckContext
    <2>3. "context error" \in Outcomes
      BY DEF Outcomes
    <2> QED
      BY <2>1, <2>2, <2>3, WritePreserves
  <1>2. CASE CheckContext(w) /\ ~ended
    BY <1>2, BeginPreserves
  <1>3. CASE FinishFetch(w)
    <2>1. PICK told \in Outcomes : Write(w, told)
      BY <1>3 DEF FinishFetch
    <2>2. worker[w] = "fetch" /\ UNCHANGED <<main, next, job, started>>
      BY <1>3 DEF FinishFetch
    <2>3. jobsClosed' = jobsClosed /\ ended' = ended
      BY <1>3 DEF FinishFetch
    <2>4. Working(w) /\ job[w] \in started
      BY <2>2 DEF Working, BatchInv, FetchStarted
    <2> QED
      BY <2>1, <2>2, <2>3, <2>4, WritePreserves
  <1>4. CASE Exit(w)
    BY <1>4, ExitPreserves
  <1> QED
    BY <1>1, <1>2, <1>3, <1>4 DEF WorkerStep

LEMMA BatchInvariant == Spec => []BatchInv
  <1>1. ASSUME BatchInv, UNCHANGED vars PROVE BatchInv'
    <2>1. UNCHANGED <<main, next, worker, job, results, started>>
      BY <1>1 DEF vars
    <2>2. jobsClosed' = jobsClosed /\ ended' = ended
      BY <1>1 DEF vars
    <2>3. BatchTypeOK'
      BY <1>1, <2>1, <2>2 DEF BatchInv, BatchTypeOK
    <2>4. HandedOver' /\ OneIndexEach' /\ FetchStarted' /\ \A i \in Indices : InHands(i)' <=> InHands(i)
      BY <1>1, <2>1, WorkersAlone
    <2>5. ClosedLast' /\ Leaving' /\ Undecided' /\ Fetched'
      BY <1>1, <2>1, <2>2, <2>4
      DEF BatchInv, ClosedLast, Leaving, Undecided, Pending, Fetched
    <2> QED
      BY <2>3, <2>4, <2>5 DEF BatchInv
  <1>2. BatchInv /\ [Next]_vars => BatchInv'
    BY <1>1, HandOverPreserves, LeaveDispatchPreserves, ReturnPreserves, WorkerPreserves
    DEF Next, CallerStep
  <1> QED
    BY <1>2, BatchInit, PTL DEF Spec

\* Every variable keeps its type.
THEOREM BatchTypeCorrect == Spec => []BatchTypeOK
  <1>1. BatchInv => BatchTypeOK
    BY DEF BatchInv
  <1> QED
    BY <1>1, BatchInvariant, PTL

\* When Fetch returns every result is there, and none without a fetch but by the
\* end of the context.
THEOREM BatchComplete == Spec => []ResultsComplete
  <1>1. ASSUME BatchInv, main = "returned" PROVE \A i \in Indices : results[i] # "none"
    <2>1. \A w \in Workers : ~Working(w)
      BY <1>1 DEF BatchInv, Leaving, Working
    <2>2. \A i \in Indices : ~Pending(i)
      BY <1>1, <2>1 DEF Pending, InHands
    <2> QED
      BY <1>1, <2>2 DEF BatchInv, Undecided
  <1>2. BatchInv => ResultsComplete
    BY <1>1, Types DEF BatchInv, Fetched, ResultsComplete, Outcomes
  <1> QED
    BY <1>2, BatchInvariant, PTL

\* No result is written twice.
THEOREM NoSecondWrite == Spec => WrittenOnce
  <1> DEFINE Kept == \A i \in Indices : results[i] # "none" => results'[i] = results[i]
  <1>1. ASSUME BatchInv, NEW w \in Workers, NEW told, Working(w), Write(w, told) PROVE Kept
    <2>1. job[w] \in Indices /\ InHands(job[w])
      BY <1>1 DEF BatchInv, HandedOver, InHands
    <2>2. results[job[w]] = "none"
      BY <1>1, <2>1 DEF BatchInv, Undecided, Pending
    <2> QED
      BY <1>1, <2>2, Types DEF Write, BatchInv
  <1>2. ASSUME BatchInv, AbandonRest PROVE Kept
    <2>1. \A i \in Indices : i >= next => results[i] = "none"
      BY <1>2 DEF AbandonRest, BatchInv, Undecided, Pending
    <2> QED
      BY <1>2, <2>1 DEF AbandonRest
  <1>3. ASSUME BatchInv, [Next]_vars PROVE [Kept]_results
    <2> HIDE DEF Kept
    <2>1. ASSUME NEW w \in Workers, HandOver(w) PROVE UNCHANGED results
      BY <2>1 DEF HandOver
    <2>2. ASSUME CloseJobs \/ Return \/ EndContext PROVE UNCHANGED results
      BY <2>2 DEF CloseJobs, Return, EndContext
    <2>3. ASSUME NEW w \in Workers, CheckContext(w) PROVE Kept \/ UNCHANGED results
      <3>1. Working(w)
        BY <2>3 DEF CheckContext, Working
      <3>2. Write(w, "context error") \/ UNCHANGED results
        BY <2>3 DEF CheckContext
      <3> QED
        BY <1>1, <1>3, <3>1, <3>2
    <2>4. ASSUME NEW w \in Workers, FinishFetch(w) PROVE Kept
      <3>1. Working(w)
        BY <2>4 DEF FinishFetch, Working
      <3>2. PICK told \in Outcomes : Write(w, told)
        BY <2>4 DEF FinishFetch
      <3> QED
        BY <1>1, <1>3, <3>1, <3>2
    <2>5. ASSUME NEW w \in Workers, Exit(w) PROVE UNCHANGED results
      BY <2>5 DEF Exit
    <2>6. ASSUME UNCHANGED vars PROVE UNCHANGED results
      BY <2>6 DEF vars
    <2> QED
      BY <1>2, <1>3, <2>1, <2>2, <2>3, <2>4, <2>5, <2>6 DEF Next, CallerStep, WorkerStep
  <1> QED
    BY <1>3, BatchInvariant, PTL DEF Spec, WrittenOnce

\* No worker begins a fetch once the context has ended.
THEOREM EndedMeansNoFetch == Spec => NoFetchAfterEnd
  <1> DEFINE Still == ended => started' = started
  <1>1. ASSUME [Next]_vars PROVE [Still]_vars
    <2>1. ASSUME CallerStep \/ EndContext \/ UNCHANGED vars PROVE UNCHANGED started
      BY <2>1 DEF CallerStep, EndContext, HandOver, AbandonRest, CloseJobs, Return, vars
    <2>2. ASSUME NEW w \in Workers, CheckContext(w), ended PROVE UNCHANGED started
      BY <2>2 DEF CheckContext
    <2>3. ASSUME NEW w \in Workers, FinishFetch(w) \/ Exit(w) PROVE UNCHANGED started
      BY <2>3 DEF FinishFetch, Exit
    <2> QED
      BY <1>1, <2>1, <2>2, <2>3 DEF Next, WorkerStep
  <1> QED
    BY <1>1, PTL DEF Spec, NoFetchAfterEnd

\* When Fetch returns every request has its outcome.  (Fetch)
THEOREM BatchAlwaysSound == Spec => []BatchSound
  BY BatchTypeCorrect, BatchComplete, PTL DEF BatchSound

\* No result is written twice and no fetch begins after the end.  (Fetch, its workers)
THEOREM BatchStepsSound == Spec => BatchSteps
  BY NoSecondWrite, EndedMeansNoFetch DEF BatchSteps

----------------------------------------------------------------------------
(* The fetches by themselves *)

\* A fetch that blocks private addresses is past its check only with a target that is none;
\* only one that obeys robots.txt asks for it; and whoever an attempt asks now is the target
\* or not private.
PublicSound ==
    /\ \A f \in Fetches : phase[f] \in {"robots", "attempt", "request", "body", "failed", "timer"} =>
          (plan[f].blocks => plan[f].start \notin Private)
    /\ \A f \in Fetches : phase[f] = "robots" => plan[f].robots
    /\ \A f \in Fetches : phase[f] = "request" /\ plan[f].policy # "all" =>
          host[f] = plan[f].start \/ host[f] \notin Private
    /\ RedirectsStayPublic

\* Only an attempt that has begun, and that will end in the fetch's end, can be late.
LateSound ==
    \A f \in Fetches :
        /\ late[f] <= 1 /\ (over = "no" => late[f] = 0)
        /\ phase[f] \in {"idle", "safety", "robots", "attempt", "timer"} => late[f] = 0

\* The proxies before the next one have been taken once more than the others.
RotationSound == \A i \in 0..(Proxies - 1) : used[i] = IF i < index THEN 1 ELSE 0

\* The context is blamed only when it has ended.
BlameSound == \A f \in Fetches : outcome[f] \in {"context", "canceled"} => over # "no"

FetchInv == FetchTypeOK /\ PublicSound /\ LateSound /\ RotationSound /\ BlameSound

LEMMA FetchAtStart == ASSUME FetchInit PROVE FetchInv
  <1> USE FetchAssumption DEF FetchInit
  <1>1. FetchTypeOK
    BY DEF FetchTypeOK
  <1>2. PublicSound /\ LateSound /\ BlameSound
    BY DEF PublicSound, RedirectsStayPublic, LateSound, BlameSound
  <1>3. RotationSound
    BY DEF RotationSound
  <1> QED
    BY <1>1, <1>2, <1>3 DEF FetchInv

\* A fetch that returns
LEMMA DoneKeeps ==
    ASSUME FetchInv, NEW f \in Fetches, NEW kind \in Kinds, Done(f, kind), UNCHANGED sharedVars,
           kind \in {"context", "canceled"} => over # "no"
    PROVE  FetchInv'
  <1> USE FetchAssumption DEF FetchInv, Done, ForgetAttempt, sharedVars
  <1>1. FetchTypeOK'
    BY DEF FetchTypeOK
  <1>2. \A g \in Fetches : phase'[g] = IF g = f THEN "done" ELSE phase[g]
    BY DEF FetchTypeOK
  <1>3. PublicSound'
    BY <1>2 DEF PublicSound, RedirectsStayPublic, FetchTypeOK
  <1>4. LateSound' /\ RotationSound'
    BY <1>2 DEF LateSound, RotationSound
  <1>5. BlameSound'
    BY DEF BlameSound, FetchTypeOK
  <1> QED
    BY <1>1, <1>3, <1>4, <1>5

\* A fetch that goes on to another attempt, none of which was late
LEMMA NextAttemptKeeps ==
    ASSUME FetchInv, NEW f \in Fetches, NextAttempt(f), late[f] = 0,
           plan[f].blocks => plan[f].start \notin Private
    PROVE  FetchInv'
  <1> USE FetchAssumption DEF FetchInv, NextAttempt, ForgetAttempt, sharedVars
  <1>1. FetchTypeOK'
    BY DEF FetchTypeOK
  <1>2. \A g \in Fetches : phase'[g] = IF g = f THEN "attempt" ELSE phase[g]
    BY DEF FetchTypeOK
  <1>3. PublicSound'
    BY <1>2 DEF PublicSound, RedirectsStayPublic, FetchTypeOK
  <1>4. LateSound' /\ RotationSound' /\ BlameSound'
    BY <1>2 DEF LateSound, RotationSound, BlameSound
  <1> QED
    BY <1>1, <1>3, <1>4

\* A request that goes out, to a host that may be asked then
LEMMA AskKeeps ==
    ASSUME FetchInv, NEW f \in Fetches, NEW h \in Hosts, NEW by \in {"attempt", "robots"},
           Ask(f, h, by)
    PROVE  /\ host' \in [Fetches -> Hosts] /\ hops' \in [Fetches -> Nat]
           /\ asked' \in [Fetches -> SUBSET [by : {"attempt", "robots"}, host : Private]]
           /\ \A g \in Fetches : g # f => asked'[g] = asked[g] /\ host'[g] = host[g]
           /\ \A q \in asked'[f] : q \in asked[f] \/ (q.by = by /\ q.host = h /\ h \in Private)
           /\ host'[f] = h
  <1> USE FetchAssumption DEF FetchInv, FetchTypeOK, Ask
  <1> DEFINE new == [by : {by}, host : {h} \cap Private]
  <1>1. new \in SUBSET [by : {"attempt", "robots"}, host : Private]
    OBVIOUS
  <1>2. \A q \in new : q.by = by /\ q.host = h /\ h \in Private
    OBVIOUS
  <1>3. asked' = [asked EXCEPT ![f] = @ \cup new]
    OBVIOUS
  <1> HIDE DEF new
  <1> QED
    BY <1>1, <1>2, <1>3

LEMMA FailureKeepsFetch ==
    ASSUME FetchInv, NEW f \in Fetches, phase[f] \in {"request", "body"}, NEW reading \in BOOLEAN,
           NEW fault \in {"network", "timeout", "canceled", "redirect", "private redirect"},
           fault = "canceled" => over # "no", FailAttempt(f, fault, reading)
    PROVE  FetchInv'
  <1> DEFINE kind == IF proxied[f] /\ ~reading THEN "proxy" ELSE fault
  <1>1. kind \in Kinds /\ (kind \in {"context", "canceled"} => over # "no")
    BY DEF Kinds
  <1>2. CASE Retriable(f, fault, reading)
    <2> USE FetchAssumption DEF FetchInv, sharedVars
    <2>1. /\ phase' = [phase EXCEPT ![f] = "failed"] /\ lastErr' = [lastErr EXCEPT ![f] = kind]
          /\ ForgetAttempt(f) /\ UNCHANGED <<attempt, outcome, sharedVars>>
      BY <1>2 DEF FailAttempt
    <2>2. FetchTypeOK'
      BY <1>1, <2>1 DEF FetchTypeOK, ForgetAttempt
    <2>3. \A g \in Fetches : phase'[g] = IF g = f THEN "failed" ELSE phase[g]
      BY <2>1 DEF FetchTypeOK
    <2>4. PublicSound'
      BY <2>1, <2>3 DEF PublicSound, RedirectsStayPublic, ForgetAttempt, FetchTypeOK
    <2>5. LateSound'
      <3>1. UNCHANGED <<late, over>> /\ LateSound
        BY <2>1
      <3> QED
        BY <2>3, <3>1 DEF LateSound
    <2>6. RotationSound'
      BY <2>1 DEF RotationSound
    <2>7. BlameSound'
      BY <2>1 DEF BlameSound
    <2> QED
      BY <2>2, <2>4, <2>5, <2>6, <2>7
  <1>3. CASE ~Retriable(f, fault, reading)
    BY <1>1, <1>3, DoneKeeps DEF FailAttempt
  <1> QED
    BY <1>2, <1>3

LEMMA StartKeepsFetch == ASSUME FetchInv, NEW f \in Fetches, StartFetch(f) PROVE FetchInv'
  <1> USE FetchAssumption DEF FetchInv, StartFetch, sharedVars, localVars
  <1>1. FetchTypeOK'
    BY DEF FetchTypeOK
  <1>2. \A g \in Fetches : phase'[g] = IF g = f THEN "safety" ELSE phase[g]
    BY DEF FetchTypeOK
  <1>3. PublicSound'
    BY <1>2 DEF PublicSound, RedirectsStayPublic
  <1>4. LateSound' /\ RotationSound' /\ BlameSound'
    BY <1>2 DEF LateSound, RotationSound, BlameSound
  <1> QED
    BY <1>1, <1>3, <1>4

\* The request for robots.txt, and its redirects
LEMMA RobotsAskedKeeps ==
    ASSUME FetchInv, NEW f \in Fetches, NEW h \in Hosts, Ask(f, h, "robots"),
           phase[f] \in {"safety", "robots"}, phase' = [phase EXCEPT ![f] = "robots"],
           plan[f].robots, plan[f].blocks => plan[f].start \notin Private,
           UNCHANGED <<plan, attempt, proxied, lastErr, outcome, index, over, late, used>>
    PROVE  FetchInv'
  <1> USE FetchAssumption DEF FetchInv
  <1>1. FetchTypeOK'
    BY AskKeeps DEF FetchTypeOK
  <1>2. \A g \in Fetches : phase'[g] = IF g = f THEN "robots" ELSE phase[g]
    BY DEF FetchTypeOK
  <1>3. RedirectsStayPublic'
    BY AskKeeps DEF PublicSound, RedirectsStayPublic
  <1>4. PublicSound'
    BY <1>2, <1>3, AskKeeps DEF PublicSound
  <1>5. LateSound' /\ RotationSound' /\ BlameSound'
    BY <1>2 DEF LateSound, RotationSound, BlameSound
  <1> QED
    BY <1>1, <1>4, <1>5

LEMMA SafetyKeeps ==
    ASSUME FetchInv, NEW f \in Fetches,
           CheckSafety(f) \/ JudgeRobots(f) \/ \E to \in Hosts : RedirectRobots(f, to)
    PROVE  FetchInv'
  <1>1. {"private address", "robots"} \subseteq Kinds
    BY DEF Kinds
  <1>2. phase[f] \in {"safety", "robots"} /\ late[f] = 0 /\ plan[f].start \in Hosts
    BY FetchAssumption DEF CheckSafety, JudgeRobots, RedirectRobots, FetchInv, FetchTypeOK, LateSound
  <1>3. CASE \E kind \in {"private address", "robots"} : Done(f, kind) /\ UNCHANGED sharedVars
    BY <1>1, <1>3, DoneKeeps
  <1>4. CASE CheckSafety(f)
    <2>1. CASE ~(plan[f].blocks /\ plan[f].start \in Private \cup PrivateNames) /\ ~plan[f].robots
      BY <1>2, <1>4, <2>1, NextAttemptKeeps DEF CheckSafety
    <2>2. CASE ~(plan[f].blocks /\ plan[f].start \in Private \cup PrivateNames) /\ plan[f].robots
      BY <1>2, <1>4, <2>2, RobotsAskedKeeps DEF CheckSafety
    <2> QED
      BY <1>3, <1>4, <2>1, <2>2 DEF CheckSafety
  <1>5. CASE phase[f] = "robots"
    <2>1. plan[f].robots /\ (plan[f].blocks => plan[f].start \notin Private)
      BY <1>5 DEF FetchInv, PublicSound
    <2>2. CASE JudgeRobots(f)
      BY <1>2, <1>3, <2>1, <2>2, NextAttemptKeeps DEF JudgeRobots
    <2>3. ASSUME NEW to \in Hosts, RedirectRobots(f, to) PROVE FetchInv'
      <3>1. CASE ~(hops[f] >= ClientRedirects)
        <4>1. phase \in [Fetches -> {"idle", "safety", "robots", "attempt", "request", "body",
                                     "failed", "timer", "done"}]
          BY DEF FetchInv, FetchTypeOK
        <4>2. phase' = phase /\ phase = [phase EXCEPT ![f] = "robots"]
          BY <1>5, <2>3, <3>1, <4>1, Zenon DEF RedirectRobots
        <4>3. /\ Ask(f, to, "robots")
              /\ UNCHANGED <<plan, attempt, proxied, lastErr, outcome, index, over, late, used>>
          BY <2>3, <3>1 DEF RedirectRobots
        <4> QED
          BY <1>2, <2>1, <4>2, <4>3, RobotsAskedKeeps
      <3>2. CASE hops[f] >= ClientRedirects
        BY <1>3, <2>3, <3>2 DEF RedirectRobots
      <3> QED
        BY <3>1, <3>2
    <2> QED
      BY <1>5, <2>2, <2>3 DEF CheckSafety
  <1> QED
    BY <1>2, <1>4, <1>5 DEF JudgeRobots, RedirectRobots

\* The remainders that occur
LEMMA Remainder == \A i \in 0..(Proxies - 1) : i % Proxies = i /\ Proxies % Proxies = 0
  BY FetchAssumption

\* The rotation takes the one proxy that is due.
LEMMA RotationKeeps ==
    ASSUME FetchInv, index' = Rotate, used' = Taken(index % Proxies)
    PROVE  /\ index' \in 0..(Proxies - 1) /\ used' \in [0..(Proxies - 1) -> Nat]
           /\ RotationSound'
  <1> DEFINE counts == [used EXCEPT ![index] = @ + 1]
  <1>5. /\ Proxies \in Nat \ {0} /\ index \in 0..(Proxies - 1)
        /\ used \in [0..(Proxies - 1) -> Nat] /\ RotationSound
    BY FetchAssumption DEF FetchInv, FetchTypeOK
  <1>1. /\ index % Proxies = index /\ DOMAIN counts = 0..(Proxies - 1)
        /\ counts \in [0..(Proxies - 1) -> Nat]
    BY <1>5, Remainder
  <1>0. used' = IF \E j \in 0..(Proxies - 1) : counts[j] = 0 THEN counts
                ELSE [j \in 0..(Proxies - 1) |-> counts[j] - 1]
    BY <1>1, <1>5 DEF Taken
  <1>2. \A i \in 0..(Proxies - 1) : counts[i] = IF i <= index THEN 1 ELSE 0
    BY <1>5 DEF RotationSound
  <1> HIDE DEF counts
  <1>3. CASE index < Proxies - 1
    <2>1. index' = index + 1
      BY <1>3, <1>5, Remainder DEF Rotate
    <2>2. counts[Proxies - 1] = 0 /\ Proxies - 1 \in 0..(Proxies - 1)
      BY <1>2, <1>3, <1>5
    <2>3. used' = counts
      BY <1>0, <2>2
    <2>4. RotationSound'
      BY <1>2, <1>5, <2>1, <2>3 DEF RotationSound
    <2> QED
      BY <1>1, <1>3, <1>5, <2>1, <2>3, <2>4
  <1>4. CASE index = Proxies - 1
    <2>1. index' = 0
      <3>1. index + 1 = Proxies
        BY <1>4, <1>5
      <3>2. Proxies % Proxies = 0
        BY <1>5, Remainder
      <3> QED
        BY <3>1, <3>2 DEF Rotate
    <2>2. \A i \in 0..(Proxies - 1) : counts[i] = 1
      BY <1>2, <1>4, <1>5
    <2>3. used' = [i \in 0..(Proxies - 1) |-> counts[i] - 1]
      <3>1. ~\E j \in 0..(Proxies - 1) : counts[j] = 0
        BY <2>2
      <3> QED
        BY <1>0, <3>1, ZenonT(40)
    <2>4. \A i \in 0..(Proxies - 1) : used'[i] = counts[i] - 1
      BY <2>3
    <2>5. ASSUME NEW i \in 0..(Proxies - 1) PROVE used'[i] = 0
      <3>1. counts[i] = 1
        BY <1>5, <2>2
      <3>2. used'[i] = counts[i] - 1
        BY <2>4
      <3> QED
        BY <3>1, <3>2
    <2>6. used' \in [0..(Proxies - 1) -> Nat]
      BY <1>5, <2>3, <2>4, <2>5
    <2> QED
      BY <1>5, <2>1, <2>5, <2>6 DEF RotationSound
  <1> QED
    BY <1>3, <1>4, <1>5

\* Up to client.Do the rotation moves on, and an attempt after the end is counted.
LEMMA PreparationKeeps ==
    ASSUME FetchInv, NEW f \in Fetches, PrepareAttempt(f)
    PROVE  /\ index' \in 0..(Proxies - 1) /\ used' \in [0..(Proxies - 1) -> Nat]
           /\ RotationSound'
           /\ late' \in [Fetches -> Nat] /\ late'[f] <= 1 /\ (over = "no" => late'[f] = 0)
           /\ \A g \in Fetches : g # f => late'[g] = late[g]
           /\ phase[f] = "attempt" /\ (plan[f].blocks => plan[f].start \notin Private)
  <1> USE FetchAssumption DEF FetchInv
  <1>1. plan[f].rotates \in BOOLEAN
    BY DEF FetchTypeOK
  <1>2. index' \in 0..(Proxies - 1) /\ used' \in [0..(Proxies - 1) -> Nat] /\ RotationSound'
    <2>1. CASE plan[f].rotates
      BY <2>1, RotationKeeps DEF PrepareAttempt
    <2>2. CASE ~plan[f].rotates
      BY <2>2 DEF PrepareAttempt, RotationSound, FetchTypeOK
    <2> QED
      BY <1>1, <2>1, <2>2
  <1>3. phase[f] = "attempt" /\ late[f] = 0
    BY DEF PrepareAttempt, LateSound
  <1>4. late' = [late EXCEPT ![f] = IF over = "no" THEN @ ELSE @ + 1]
    BY DEF PrepareAttempt
  <1>5. /\ late' \in [Fetches -> Nat] /\ late'[f] <= 1 /\ (over = "no" => late'[f] = 0)
        /\ \A g \in Fetches : g # f => late'[g] = late[g]
    BY <1>3, <1>4 DEF FetchTypeOK
  <1> QED
    BY <1>2, <1>3, <1>5 DEF PublicSound

LEMMA AttemptKeeps == ASSUME FetchInv, NEW f \in Fetches, BeginAttempt(f) PROVE FetchInv'
  <1> USE FetchAssumption DEF FetchInv
  <1>1. plan[f] \in Plans /\ plan[f].start \in Hosts /\ plan[f].rotates \in BOOLEAN
    BY DEF FetchTypeOK
  <1>2. /\ PrepareAttempt(f) /\ phase' = [phase EXCEPT ![f] = "request"]
        /\ proxied' = [proxied EXCEPT ![f] = plan[f].rotates]
        /\ Ask(f, plan[f].start, "attempt")
        /\ UNCHANGED <<plan, attempt, lastErr, outcome, over>>
    BY DEF BeginAttempt
  <1>3. FetchTypeOK'
    <2>1. phase' \in [Fetches -> {"idle", "safety", "robots", "attempt", "request", "body",
                                  "failed", "timer", "done"}] /\ proxied' \in [Fetches -> BOOLEAN]
      BY <1>1, <1>2 DEF FetchTypeOK
    <2> QED
      BY <1>1, <1>2, <2>1, AskKeeps, PreparationKeeps DEF FetchTypeOK
  <1>4. \A g \in Fetches : phase'[g] = IF g = f THEN "request" ELSE phase[g]
    BY <1>2 DEF FetchTypeOK
  <1>5. plan[f].blocks => plan[f].start \notin Private
    BY <1>2, PreparationKeeps
  <1>6. RedirectsStayPublic'
    BY <1>1, <1>2, <1>5, AskKeeps DEF PublicSound, RedirectsStayPublic
  <1>7. PublicSound'
    BY <1>1, <1>2, <1>4, <1>5, <1>6, AskKeeps DEF PublicSound
  <1>8. LateSound'
    BY <1>2, <1>4, PreparationKeeps DEF LateSound
  <1>9. RotationSound' /\ BlameSound'
    BY <1>2, PreparationKeeps DEF BlameSound
  <1> QED
    BY <1>3, <1>7, <1>8, <1>9

\* An attempt that ends before anything is sent
LEMMA EndKeeps == ASSUME FetchInv, NEW f \in Fetches, EndBeforeSending(f) PROVE FetchInv'
  <1> USE FetchAssumption DEF FetchInv
  <1>1. PICK fault \in Faults \ {"network"} : Done(f, fault)
    BY DEF EndBeforeSending
  <1>2. fault \in Kinds /\ fault # "context" /\ (fault = "canceled" => over # "no")
    BY <1>1 DEF Faults, Kinds
  <1>3. PrepareAttempt(f) /\ UNCHANGED <<plan, over, asked>>
    BY DEF EndBeforeSending
  <1>4. FetchTypeOK'
    <2>1. /\ phase' \in [Fetches -> {"idle", "safety", "robots", "attempt", "request", "body",
                                     "failed", "timer", "done"}]
          /\ attempt' \in [Fetches -> Nat] /\ host' \in [Fetches -> Hosts]
          /\ hops' \in [Fetches -> Nat] /\ proxied' \in [Fetches -> BOOLEAN]
          /\ lastErr' \in [Fetches -> Kinds \cup {"none"}]
          /\ outcome' \in [Fetches -> Kinds \cup {"none"}]
      BY <1>1, <1>2 DEF FetchTypeOK, Done, ForgetAttempt
    <2> QED
      BY <1>3, <2>1, PreparationKeeps DEF FetchTypeOK
  <1>5. \A g \in Fetches : phase'[g] = IF g = f THEN "done" ELSE phase[g]
    BY <1>1 DEF FetchTypeOK, Done
  <1>6. PublicSound'
    <2>1. \A g \in Fetches : g # f => host'[g] = host[g]
      BY <1>1 DEF FetchTypeOK, Done, ForgetAttempt
    <2> QED
      BY <1>3, <1>5, <2>1 DEF PublicSound, RedirectsStayPublic
  <1>7. LateSound'
    BY <1>3, <1>5, PreparationKeeps DEF LateSound
  <1>8. BlameSound'
    BY <1>1, <1>2, <1>3 DEF BlameSound, FetchTypeOK, Done
  <1> QED
    BY <1>3, <1>4, <1>6, <1>7, <1>8, PreparationKeeps

LEMMA RedirectKeeps ==
    ASSUME FetchInv, NEW f \in Fetches, NEW to \in Hosts, Redirect(f, to)
    PROVE  FetchInv'
  <1>1. "response" \in Kinds /\ phase[f] = "request"
    BY DEF Kinds, Redirect
  <1>2. CASE Done(f, "response") /\ UNCHANGED sharedVars
    BY <1>1, <1>2, DoneKeeps
  <1>3. CASE FailAttempt(f, "redirect", FALSE) \/ FailAttempt(f, "private redirect", FALSE)
    BY <1>1, <1>3, FailureKeepsFetch
  <1>4. CASE /\ ~(plan[f].policy # "all" /\ PrivateRedirect(f, to))
             /\ Ask(f, to, "attempt")
             /\ UNCHANGED <<phase, plan, attempt, proxied, lastErr, outcome, index, over, late, used>>
    <2> USE FetchAssumption DEF FetchInv
    <2>1. FetchTypeOK'
      BY <1>4, AskKeeps DEF FetchTypeOK
    <2>2. plan[f].policy # "all" => to = plan[f].start \/ to \notin Private
      BY <1>1, <1>4 DEF PublicSound, PrivateRedirect
    <2>3. plan[f].blocks => plan[f].start \notin Private
      BY <1>1 DEF PublicSound
    <2>4. RedirectsStayPublic'
      BY <1>4, <2>2, <2>3, AskKeeps DEF PublicSound, RedirectsStayPublic
    <2>5. PublicSound'
      BY <1>4, <2>2, <2>4, AskKeeps DEF PublicSound
    <2>6. LateSound' /\ RotationSound' /\ BlameSound'
      BY <1>4 DEF LateSound, RotationSound, BlameSound
    <2> QED
      BY <2>1, <2>5, <2>6
  <1> QED
    BY <1>2, <1>3, <1>4 DEF Redirect

LEMMA AnswersKeep ==
    ASSUME FetchInv, NEW f \in Fetches, FailRequest(f) \/ Answer(f) \/ ReadBody(f)
    PROVE  FetchInv'
  <1>1. Faults \subseteq {"network", "timeout", "canceled"} /\ ("canceled" \in Faults => over # "no")
    BY DEF Faults
  <1>2. "response" \in Kinds
    BY DEF Kinds
  <1>3. CASE FailRequest(f)
    BY <1>1, <1>3, FailureKeepsFetch DEF FailRequest
  <1>4. CASE Answer(f)
    <2> USE DEF FetchInv, Answer, sharedVars, localVars
    <2>1. FetchTypeOK'
      BY <1>4 DEF FetchTypeOK
    <2>2. \A g \in Fetches : phase'[g] = IF g = f THEN "body" ELSE phase[g]
      BY <1>4 DEF FetchTypeOK
    <2>3. PublicSound'
      BY <1>4, <2>2 DEF PublicSound, RedirectsStayPublic
    <2>4. LateSound' /\ RotationSound' /\ BlameSound'
      BY <1>4, <2>2 DEF LateSound, RotationSound, BlameSound
    <2> QED
      BY <2>1, <2>3, <2>4
  <1>5. CASE ReadBody(f)
    BY <1>1, <1>2, <1>5, DoneKeeps, FailureKeepsFetch DEF ReadBody
  <1> QED
    BY <1>3, <1>4, <1>5

LEMMA WaitKeeps == ASSUME FetchInv, NEW f \in Fetches, WaitRetryDelay(f) \/ WakeUp(f) PROVE FetchInv'
  <1>1. {"proxy", "retry exhausted", "context"} \subseteq Kinds
    BY DEF Kinds
  <1>2. CASE GiveUp(f)
    BY <1>1, <1>2, DoneKeeps DEF GiveUp
  <1>3. CASE over # "no" /\ Done(f, "context") /\ UNCHANGED sharedVars
    BY <1>1, <1>3, DoneKeeps
  <1>4. /\ phase[f] \in {"failed", "timer"} /\ (phase[f] = "timer" => late[f] = 0)
        /\ over = "no" => late[f] = 0
        /\ plan[f].blocks => plan[f].start \notin Private
    BY DEF WaitRetryDelay, WakeUp, FetchInv, LateSound, PublicSound
  <1>5. CASE NextAttempt(f) /\ (phase[f] = "timer" \/ over = "no")
    BY <1>4, <1>5, NextAttemptKeeps
  <1>6. CASE /\ over = "no" /\ phase' = [phase EXCEPT ![f] = "timer"]
             /\ UNCHANGED <<attempt, lastErr, outcome, localVars, sharedVars>>
    <2> USE DEF FetchInv, sharedVars, localVars
    <2>1. FetchTypeOK'
      BY <1>6 DEF FetchTypeOK
    <2>2. \A g \in Fetches : phase'[g] = IF g = f THEN "timer" ELSE phase[g]
      BY <1>6 DEF FetchTypeOK
    <2>3. PublicSound'
      BY <1>4, <1>6, <2>2 DEF PublicSound, RedirectsStayPublic
    <2>4. LateSound' /\ RotationSound' /\ BlameSound'
      BY <1>6, <2>2 DEF LateSound, RotationSound, BlameSound
    <2> QED
      BY <2>1, <2>3, <2>4
  <1>7. CASE WaitRetryDelay(f)
    BY <1>2, <1>3, <1>5, <1>6, <1>7 DEF WaitRetryDelay
  <1>8. CASE WakeUp(f)
    BY <1>3, <1>5, <1>8 DEF WakeUp
  <1> QED
    BY <1>7, <1>8

LEMMA ContextEndKeeps ==
    ASSUME FetchInv, NEW how \in {"canceled", "deadline"}, EndFetchContext(how)
    PROVE  FetchInv'
  BY DEF EndFetchContext, FetchInv, FetchTypeOK, PublicSound, RedirectsStayPublic, LateSound,
         RotationSound, BlameSound

LEMMA FetchInvariant == FetchSpec => []FetchInv
  <1>1. FetchInv /\ [FetchNext]_fetchVars => FetchInv'
    <2>1. FetchInv /\ UNCHANGED fetchVars => FetchInv'
      BY DEF FetchInv, FetchTypeOK, PublicSound, RedirectsStayPublic, LateSound, RotationSound,
             BlameSound, fetchVars
    <2> QED
      BY <2>1, StartKeepsFetch, SafetyKeeps, AttemptKeeps, EndKeeps, RedirectKeeps, AnswersKeep, WaitKeeps,
         ContextEndKeeps DEF FetchNext, FetchStep
  <1> QED
    BY <1>1, FetchAtStart, PTL DEF FetchSpec

\* Whatever sites answer and redirect to, where redirects are not followed everywhere no
\* private address is asked but the target itself, and none by a fetch that blocks them;
\* but for what the redirects of robots.txt lead a fetch to that obeys it.
\* (enforceFetchSafety, checkRobotsAllowed, clientWithRedirectPolicy, isPrivateAddressRedirect)
THEOREM RedirectsAlwaysPublic == FetchSpec => []RedirectsStayPublic
  <1>1. FetchInv => RedirectsStayPublic
    BY DEF FetchInv, PublicSound
  <1> QED
    BY <1>1, FetchInvariant, PTL

\* A fetch begins at most one attempt after its context has ended.
\* (Fetcher.do, waitRetryDelay)
THEOREM EndedAlwaysStopsRetries == FetchSpec => []EndedContextStopsRetries
  <1>1. FetchInv => EndedContextStopsRetries
    BY DEF FetchInv, LateSound, EndedContextStopsRetries
  <1> QED
    BY <1>1, FetchInvariant, PTL

\* However many fetches share a rotator, no proxy is taken twice more than another.
\* (ProxyRotator.Next, CyclicProxyRotation)
THEOREM RotationAlwaysEven == FetchSpec => []RotationEven
  <1>1. FetchInv => RotationEven
    <2>1. FetchInv => DOMAIN used = 0..(Proxies - 1) /\ \A i \in 0..(Proxies - 1) : used[i] \in {0, 1}
      BY DEF FetchInv, FetchTypeOK, RotationSound
    <2> QED
      BY <2>1 DEF RotationEven
  <1> QED
    BY <1>1, FetchInvariant, PTL

----------------------------------------------------------------------------
(* Both together *)

\* A step of the composition is one of the batch or none of it ...
LEMMA StepsOfBatch == ASSUME [CNext]_allVars PROVE [Next]_vars
  <1>1. CASE UNCHANGED allVars
    BY <1>1 DEF allVars
  <1>2. CASE CallerStep \/ EndContext
    BY <1>2 DEF Next
  <1>3. ASSUME NEW w \in Workers, FetchOne(w) \/ FetchedOne(w) \/ Exit(w) PROVE [Next]_vars
    BY <1>3 DEF FetchOne, FetchedOne, Next, WorkerStep
  <1> QED
    BY <1>1, <1>2, <1>3 DEF CNext

\* ... and one of the fetches or none of them.
LEMMA StepsOfFetches == ASSUME BatchInv, [CNext]_allVars PROVE [FetchNext]_fetchVars
  <1>1. CASE UNCHANGED allVars
    BY <1>1 DEF allVars
  <1>2. ASSUME NEW w \in Workers, FetchOne(w) PROVE [FetchNext]_fetchVars
    <2>1. job[w] \in Fetches
      BY <1>2, ConcurrentAssumption DEF FetchOne, CheckContext, BatchInv, HandedOver, Working
    <2>2. StartFetch(job[w]) \/ UNCHANGED fetchVars
      BY <1>2 DEF FetchOne
    <2> QED
      BY <2>1, <2>2 DEF FetchNext
  <1>3. ASSUME NEW f \in Fetches, FetchStep(f) PROVE [FetchNext]_fetchVars
    BY <1>3 DEF FetchNext
  <1>4. ASSUME NEW how \in {"canceled", "deadline"}, EndFetchContext(how) PROVE [FetchNext]_fetchVars
    BY <1>4 DEF FetchNext
  <1> QED
    BY <1>1, <1>2, <1>3, <1>4 DEF CNext, FetchedOne

\* The composition implements the batch: what holds of every batch, whatever its fetches
\* answer, holds of one over the static fetcher.
\* (ConcurrentFetcher.Fetch, fetchOne)
THEOREM ComposedIsBatch == CSpec => Spec
  <1>1. CInit => Init
    BY DEF CInit
  <1> QED
    BY <1>1, StepsOfBatch, PTL DEF CSpec, Spec

\* The composition implements the fetches: what holds of fetches that are started anyhow
\* holds of those that workers start.
\* (fetchOne, Fetcher.do)
THEOREM ComposedIsFetches == CSpec => FetchSpec
  <1>1. CInit => FetchInit
    BY DEF CInit
  <1>2. CSpec => []BatchInv
    BY ComposedIsBatch, BatchInvariant, PTL
  <1>3. BatchInv /\ [CNext]_allVars => [FetchNext]_fetchVars
    BY StepsOfFetches
  <1> QED
    BY <1>1, <1>2, <1>3, PTL DEF CSpec, FetchSpec

\* Batch and fetches agree on the context, and a result says what its fetch came to.
ToldRight ==
    /\ ended <=> over # "no"
    /\ \A i \in Indices : results[i] = "context error" => ended
    /\ \A i \in Indices : results[i] \in {"response", "fetch error"} =>
          phase[i] = "done" /\ (results[i] = "response" <=> outcome[i] = "response")

\* A fetch that is done stays done and comes to nothing else.
LEMMA DoneStays ==
    ASSUME FetchTypeOK, NEW f \in Fetches, StartFetch(f) \/ FetchStep(f)
    PROVE  /\ UNCHANGED over
           /\ \A g \in Fetches : phase[g] = "done" => phase'[g] = "done" /\ outcome'[g] = outcome[g]
  <1> DEFINE Same == \A g \in Fetches \ {f} : phase'[g] = phase[g] /\ outcome'[g] = outcome[g]
  <1> USE DEF FetchTypeOK, sharedVars
  <1>1. ASSUME NEW kind, Done(f, kind) PROVE Same
    BY <1>1 DEF Done
  <1>2. ASSUME NEW fault, NEW reading, FailAttempt(f, fault, reading) PROVE Same /\ UNCHANGED over
    BY <1>1, <1>2 DEF FailAttempt
  <1>3. StartFetch(f) \/ BeginAttempt(f) \/ Answer(f) => Same /\ UNCHANGED over /\ phase[f] # "done"
    BY DEF StartFetch, BeginAttempt, PrepareAttempt, Answer
  <1>4. CheckSafety(f) \/ JudgeRobots(f) => Same /\ UNCHANGED over /\ phase[f] # "done"
    BY <1>1 DEF CheckSafety, JudgeRobots, NextAttempt
  <1>9. EndBeforeSending(f) => Same /\ UNCHANGED over /\ phase[f] # "done"
    BY <1>1 DEF EndBeforeSending, PrepareAttempt
  <1>5. ASSUME NEW to \in Hosts, Redirect(f, to) \/ RedirectRobots(f, to)
        PROVE  Same /\ UNCHANGED over /\ phase[f] # "done"
    BY <1>1, <1>2, <1>5 DEF Redirect, RedirectRobots
  <1>6. FailRequest(f) \/ ReadBody(f) => Same /\ UNCHANGED over /\ phase[f] # "done"
    BY <1>1, <1>2 DEF FailRequest, ReadBody
  <1>7. WaitRetryDelay(f) \/ WakeUp(f) => Same /\ UNCHANGED over /\ phase[f] # "done"
    BY <1>1 DEF WaitRetryDelay, WakeUp, GiveUp, NextAttempt
  <1>8. Same /\ UNCHANGED over /\ phase[f] # "done"
    BY <1>3, <1>4, <1>5, <1>6, <1>7, <1>9 DEF FetchStep
  <1> QED
    BY <1>8

LEMMA TellingKeeps ==
    ASSUME BatchInv, FetchInv, ToldRight, [CNext]_allVars
    PROVE  ToldRight'
  <1> USE ConcurrentAssumption
  <1>1. results \in [Indices -> Outcomes \cup {"none"}] /\ FetchTypeOK
    BY DEF BatchInv, BatchTypeOK, FetchInv
  <1>2. CASE UNCHANGED allVars
    BY <1>2 DEF allVars, vars, fetchVars, ToldRight
  <1>3. CASE CallerStep /\ UNCHANGED fetchVars
    <2>1. ended' = ended
      BY <1>3 DEF CallerStep, HandOver, AbandonRest, CloseJobs, Return
    <2>2. \A i \in Indices : results'[i] = results[i] \/ (results'[i] = "context error" /\ ended)
      BY <1>1, <1>3 DEF CallerStep, HandOver, AbandonRest, CloseJobs, Return
    <2> QED
      BY <1>3, <2>1, <2>2 DEF ToldRight, fetchVars
  <1>4. ASSUME EndContext, NEW how \in {"canceled", "deadline"}, EndFetchContext(how) PROVE ToldRight'
    BY <1>4 DEF EndContext, EndFetchContext, ToldRight
  <1>5. ASSUME NEW w \in Workers, FetchOne(w) PROVE ToldRight'
    <2>1. job[w] \in Fetches
      BY <1>5 DEF FetchOne, CheckContext, BatchInv, HandedOver, Working
    <2>2. ended' = ended /\ \A i \in Indices :
              results'[i] = results[i] \/ (results'[i] = "context error" /\ ended)
      BY <1>1, <1>5 DEF FetchOne, CheckContext, Write
    <2>3. CASE StartFetch(job[w])
      <3>1. UNCHANGED over /\ \A g \in Indices : phase[g] = "done" =>
                phase'[g] = "done" /\ outcome'[g] = outcome[g]
        BY <1>1, <2>1, <2>3, DoneStays
      <3> QED
        BY <2>2, <3>1 DEF ToldRight
    <2>4. CASE UNCHANGED fetchVars
      BY <2>2, <2>4 DEF ToldRight, fetchVars
    <2> QED
      BY <1>5, <2>3, <2>4 DEF FetchOne
  <1>6. ASSUME NEW w \in Workers, FetchedOne(w) PROVE ToldRight'
    <2> DEFINE i == job[w]
    <2>1. i \in Indices
      BY <1>6 DEF FetchedOne, FinishFetch, BatchInv, HandedOver, Working
    <2>2. PICK told \in Outcomes : (told = "context error" => ended) /\ Write(w, told)
      BY <1>6 DEF FetchedOne, FinishFetch
    <2>3. /\ ended' = ended /\ UNCHANGED fetchVars /\ phase[i] = "done"
          /\ results'[i] = told /\ told = Summary(outcome[i])
          /\ \A j \in Indices : j # i => results'[j] = results[j]
      BY <1>1, <1>6, <2>1, <2>2 DEF FetchedOne, FinishFetch, Write
    <2>4. told = "response" <=> outcome[i] = "response"
      BY <2>3 DEF Summary
    <2> QED
      BY <2>1, <2>2, <2>3, <2>4 DEF ToldRight, fetchVars
  <1>7. ASSUME NEW w \in Workers, Exit(w), UNCHANGED fetchVars PROVE ToldRight'
    BY <1>7 DEF Exit, ToldRight, fetchVars
  <1>8. ASSUME NEW f \in Fetches, FetchStep(f), UNCHANGED vars PROVE ToldRight'
    <2>1. UNCHANGED over /\ \A g \in Indices : phase[g] = "done" =>
              phase'[g] = "done" /\ outcome'[g] = outcome[g]
      BY <1>1, <1>8, DoneStays
    <2> QED
      BY <1>8, <2>1 DEF ToldRight, vars
  <1> QED
    BY <1>2, <1>3, <1>4, <1>5, <1>6, <1>7, <1>8 DEF CNext

\* No result blames the context before it has ended, or tells of a response that no
\* fetch got.
\* (fetchOne, ConcurrentFetcher.Fetch)
THEOREM ResultsAlwaysHonest == CSpec => []ResultsHonest
  <1>1. CInit => ToldRight
    BY DEF CInit, Init, FetchInit, ToldRight
  <1>2. CSpec => []BatchInv
    BY ComposedIsBatch, BatchInvariant, PTL
  <1>3. CSpec => []FetchInv
    BY ComposedIsFetches, FetchInvariant, PTL
  <1>4. BatchInv /\ FetchInv /\ ToldRight /\ [CNext]_allVars => ToldRight'
    BY TellingKeeps
  <1>5. FetchInv /\ ToldRight => ResultsHonest
    BY DEF FetchInv, ToldRight, ResultsHonest
  <1> QED
    BY <1>1, <1>2, <1>3, <1>4, <1>5, PTL DEF CSpec

\* What comes of a fetch that is done can be told: a worker that waits for it is never
\* left without a result to write, for a context is blamed only when it has ended.
\* (fetchOne)
THEOREM ContextBlamedRightly ==
    CSpec => [](\A i \in Indices : Summary(outcome[i]) = "context error" => ended)
  <1>1. CInit => ToldRight
    BY DEF CInit, Init, FetchInit, ToldRight
  <1>2. CSpec => []BatchInv
    BY ComposedIsBatch, BatchInvariant, PTL
  <1>3. CSpec => []FetchInv
    BY ComposedIsFetches, FetchInvariant, PTL
  <1>4. BatchInv /\ FetchInv /\ ToldRight /\ [CNext]_allVars => ToldRight'
    BY TellingKeeps
  <1>5. FetchInv /\ ToldRight => \A i \in Indices : Summary(outcome[i]) = "context error" => ended
    BY ConcurrentAssumption DEF FetchInv, BlameSound, ToldRight, Summary
  <1> QED
    BY <1>1, <1>2, <1>3, <1>4, <1>5, PTL DEF CSpec

----------------------------------------------------------------------------
(* Options: headers *)

\* Over a layer with values, the merge has the names of both and the values of the upper.
LEMMA MergedHeaders ==
    ASSUME NEW base, NEW nearer, Valued(base), Valued(nearer)
    PROVE  /\ Valued(MergeHeaders(base, nearer))
           /\ DOMAIN MergeHeaders(base, nearer) = DOMAIN base \cup DOMAIN nearer
           /\ \A k \in DOMAIN MergeHeaders(base, nearer) :
                 MergeHeaders(base, nearer)[k] = IF k \in DOMAIN nearer THEN nearer[k] ELSE base[k]
  BY DEF Valued, MergeHeaders, Named

\* A default fills in for no value, or an empty one, and for nothing else.
LEMMA DefaultFillsIn ==
    ASSUME NEW headers, NEW key, NEW value, Valued(headers)
    PROVE  /\ Valued(SetDefault(headers, key, value))
           /\ DOMAIN headers \subseteq DOMAIN SetDefault(headers, key, value)
           /\ \A k \in DOMAIN headers : k # key \/ Head(headers[k]) # "" =>
                 SetDefault(headers, key, value)[k] = headers[k]
  BY DEF Valued, SetDefault, Get, Named

\* The nearest of four.
LEMMA NearestOfFour ==
    ASSUME NEW values, DOMAIN values = 1..4, NEW none
    PROVE  Nearest(values, none) =
              IF values[1] # none THEN values[1]
              ELSE IF values[2] # none THEN values[2]
              ELSE IF values[3] # none THEN values[3] ELSE values[4]
  <1> DEFINE given == {i \in DOMAIN values : values[i] # none}
             first == CHOOSE i \in given : \A j \in given : i <= j
  <1>1. given \subseteq {1, 2, 3, 4}
    OBVIOUS
  <1>2. ASSUME NEW i \in given, \A j \in given : i <= j
        PROVE  first = i
    BY <1>1, <1>2
  <1>3. Nearest(values, none) = IF given = {} THEN none ELSE values[first]
    BY DEF Nearest
  <1>4. CASE values[1] # none
    BY <1>1, <1>2, <1>3, <1>4
  <1>5. CASE values[1] = none /\ values[2] # none
    BY <1>1, <1>2, <1>3, <1>5
  <1>6. CASE values[1] = none /\ values[2] = none /\ values[3] # none
    BY <1>1, <1>2, <1>3, <1>6
  <1>7. CASE values[1] = none /\ values[2] = none /\ values[3] = none
    BY <1>1, <1>2, <1>3, <1>7
  <1> QED
    BY <1>4, <1>5, <1>6, <1>7

\* Four layers, the nearest first, merged from the last up.
MergedLayers(layers) ==
    MergeHeaders(layers[4], MergeHeaders(MergeHeaders(layers[3], layers[2]), layers[1]))

\* They give each name the values of the nearest layer that has it.
LEMMA NearestLayerHas ==
    ASSUME NEW layers, DOMAIN layers = 1..4, \A i \in 1..4 : Valued(layers[i])
    PROVE  /\ Valued(MergedLayers(layers))
           /\ DOMAIN MergedLayers(layers) = UNION {Named(layers[i]) : i \in 1..4}
           /\ \A k \in DOMAIN MergedLayers(layers) : MergedLayers(layers)[k] = Having(layers, k)
           /\ \A k : k \notin DOMAIN MergedLayers(layers) => Having(layers, k) = <<>>
  <1> DEFINE a == layers[1]
             b == layers[2]
             c == layers[3]
             d == layers[4]
             upper == MergeHeaders(c, b)
             wanted == MergeHeaders(upper, a)
             all == MergeHeaders(d, wanted)
  <1>0. Valued(a) /\ Valued(b) /\ Valued(c) /\ Valued(d)
    OBVIOUS
  <1> HIDE DEF a, b, c, d
  <1>1. \A i \in 1..4 : i = 1 \/ i = 2 \/ i = 3 \/ i = 4
    OBVIOUS
  <1>2. \A i \in 1..4 : Named(layers[i]) = DOMAIN layers[i]
    BY DEF Named, Valued
  <1>3. /\ Valued(upper) /\ DOMAIN upper = DOMAIN c \cup DOMAIN b
        /\ \A k \in DOMAIN upper : upper[k] = IF k \in DOMAIN b THEN b[k] ELSE c[k]
    BY <1>0, MergedHeaders
  <1> HIDE DEF upper
  <1>4. /\ Valued(wanted) /\ DOMAIN wanted = DOMAIN upper \cup DOMAIN a
        /\ \A k \in DOMAIN wanted : wanted[k] = IF k \in DOMAIN a THEN a[k] ELSE upper[k]
    BY <1>0, <1>3, MergedHeaders, ZenonT(40)
  <1> HIDE DEF wanted
  <1>5. /\ Valued(all) /\ DOMAIN all = DOMAIN d \cup DOMAIN wanted
        /\ \A k \in DOMAIN all : all[k] = IF k \in DOMAIN wanted THEN wanted[k] ELSE d[k]
    BY <1>0, <1>4, MergedHeaders
  <1> HIDE DEF all
  <1>6. MergedLayers(layers) = all
    BY DEF MergedLayers, all, wanted, upper, a, b, c, d
  <1>7. DOMAIN all = UNION {Named(layers[i]) : i \in 1..4}
    BY <1>1, <1>2, <1>3, <1>4, <1>5 DEF a, b, c, d
  <1>8. ASSUME NEW k
        PROVE  Having(layers, k) = IF k \in DOMAIN layers[1] THEN layers[1][k]
                                   ELSE IF k \in DOMAIN layers[2] THEN layers[2][k]
                                   ELSE IF k \in DOMAIN layers[3] THEN layers[3][k]
                                   ELSE IF k \in DOMAIN layers[4] THEN layers[4][k] ELSE <<>>
    <2> DEFINE values == [i \in DOMAIN layers |-> IF k \in Named(layers[i]) THEN layers[i][k] ELSE <<>>]
    <2>1. Having(layers, k) = Nearest(values, <<>>)
      BY DEF Having
    <2>2. /\ DOMAIN values = 1..4
          /\ \A i \in 1..4 : /\ k \in DOMAIN layers[i] => values[i] = layers[i][k] /\ values[i] # <<>>
                             /\ k \notin DOMAIN layers[i] => values[i] = <<>>
      BY <1>2 DEF Valued
    <2> HIDE DEF values
    <2>3. Nearest(values, <<>>) = IF values[1] # <<>> THEN values[1]
                                  ELSE IF values[2] # <<>> THEN values[2]
                                  ELSE IF values[3] # <<>> THEN values[3] ELSE values[4]
      BY <2>2, NearestOfFour
    <2> QED
      BY <2>1, <2>2, <2>3
  <1>9. \A k \in DOMAIN all : all[k] = Having(layers, k)
    BY <1>3, <1>4, <1>5, <1>8 DEF a, b, c, d
  <1>10. \A k : k \notin DOMAIN all => Having(layers, k) = <<>>
    BY <1>3, <1>4, <1>5, <1>8 DEF a, b, c, d
  <1> QED
    BY <1>5, <1>6, <1>7, <1>9, <1>10
----------------------------------------------------------------------------
(* A fetch of a static session *)

\* What the adapter hands the session.
LEMMA AdapterGives ==
    ASSUME NEW options, NEW request, request.method \in Methods
    PROVE  LET opts == AdapterOptions(options, request)
               own == request.options
               named == MetaRoute(request.meta)
           IN  /\ DOMAIN opts = {"headers", "fields", "proxy", "rotator", "safety"}
               /\ DOMAIN opts.fields = DOMAIN options.fields
               /\ opts.headers = MergeHeaders(MergeHeaders(options.headers, own.headers), request.headers)
               /\ named # Direct => Route(opts) = named
               /\ named = Direct =>
                     /\ opts.proxy = IF HasValues(own.proxy) THEN own.proxy ELSE options.proxy
                     /\ opts.rotator = IF own.rotator # "" THEN own.rotator ELSE options.rotator
  <1> DEFINE merged == MergeStaticRequestOptions(options, request.options)
             headed == [merged EXCEPT !.headers = MergeHeaders(@, request.headers)]
             bodied == IF request.body = "" THEN headed ELSE [headed EXCEPT !.fields["body"] = request.body]
             opts == ApplyStaticProxyMeta(bodied, request.meta)
  <1>1. AdapterOptions(options, request) = opts
    BY DEF AdapterOptions
  <1>2. /\ DOMAIN merged = {"headers", "fields", "proxy", "rotator", "safety"}
        /\ DOMAIN merged.fields = DOMAIN options.fields
        /\ merged.headers = MergeHeaders(options.headers, request.options.headers)
        /\ merged.proxy = IF HasValues(request.options.proxy) THEN request.options.proxy ELSE options.proxy
        /\ merged.rotator = IF request.options.rotator # "" THEN request.options.rotator ELSE options.rotator
        /\ merged = [f \in {"headers", "fields", "proxy", "rotator", "safety"} |-> merged[f]]
    BY DEF MergeStaticRequestOptions, Overridden
  <1> HIDE DEF merged
  <1>3. /\ DOMAIN bodied = {"headers", "fields", "proxy", "rotator", "safety"}
        /\ DOMAIN bodied.fields = DOMAIN options.fields
        /\ bodied.headers = MergeHeaders(merged.headers, request.headers)
        /\ bodied.proxy = merged.proxy /\ bodied.rotator = merged.rotator
        /\ bodied = [f \in {"headers", "fields", "proxy", "rotator", "safety"} |-> bodied[f]]
    BY <1>2
  <1> HIDE DEF bodied
  <1>4. /\ DOMAIN opts = {"headers", "fields", "proxy", "rotator", "safety"}
        /\ opts.fields = bodied.fields /\ opts.headers = bodied.headers
    BY <1>3 DEF ApplyStaticProxyMeta
  <1>5. /\ MetaRoute(request.meta) # Direct => Route(opts) = MetaRoute(request.meta)
        /\ MetaRoute(request.meta) = Direct => opts = bodied
    <2>1. MetaRoute(request.meta) =
             IF request.meta.proxies # "" THEN [proxy |-> [NoProxy EXCEPT !.urls = request.meta.proxies], rotator |-> ""]
             ELSE IF request.meta.proxy # "" THEN [proxy |-> [NoProxy EXCEPT !.url = request.meta.proxy], rotator |-> ""]
             ELSE Direct
      BY DEF MetaRoute, Route, ApplyStaticProxyMeta, Direct
    <2>2. CASE request.meta.proxies # ""
      <3> DEFINE named == [NoProxy EXCEPT !.urls = request.meta.proxies]
      <3>1. opts = [bodied EXCEPT !.proxy = named, !.rotator = ""]
        BY <2>2 DEF ApplyStaticProxyMeta
      <3>2. named.urls # "" /\ NoProxy.urls = ""
        BY <2>2 DEF NoProxy
      <3>3. MetaRoute(request.meta) = [proxy |-> named, rotator |-> ""]
        BY <2>1, <2>2
      <3> HIDE DEF named, opts
      <3>4. opts.proxy = named /\ opts.rotator = ""
        BY <1>3, <3>1
      <3>5. named # NoProxy
        BY <3>2
      <3>6. MetaRoute(request.meta) # Direct
        <4>1. [proxy |-> named, rotator |-> ""].proxy = named /\ Direct.proxy = NoProxy
          BY DEF Direct
        <4>2. [proxy |-> named, rotator |-> ""] # Direct
          BY <3>5, <4>1
        <4> QED
          BY <3>3, <4>2
      <3> QED
        BY <3>3, <3>4, <3>6 DEF Route
    <2>3. CASE request.meta.proxies = "" /\ request.meta.proxy # ""
      <3> DEFINE named == [NoProxy EXCEPT !.url = request.meta.proxy]
      <3>1. opts = [bodied EXCEPT !.proxy = named, !.rotator = ""]
        BY <2>3 DEF ApplyStaticProxyMeta
      <3>2. named.url # "" /\ NoProxy.url = ""
        BY <2>3 DEF NoProxy
      <3>3. MetaRoute(request.meta) = [proxy |-> named, rotator |-> ""]
        BY <2>1, <2>3
      <3> HIDE DEF named, opts
      <3>4. opts.proxy = named /\ opts.rotator = ""
        BY <1>3, <3>1
      <3>5. named # NoProxy
        BY <3>2
      <3>6. MetaRoute(request.meta) # Direct
        <4>1. [proxy |-> named, rotator |-> ""].proxy = named /\ Direct.proxy = NoProxy
          BY DEF Direct
        <4>2. [proxy |-> named, rotator |-> ""] # Direct
          BY <3>5, <4>1
        <4> QED
          BY <3>3, <4>2
      <3> QED
        BY <3>3, <3>4, <3>6 DEF Route
    <2>4. CASE request.meta.proxies = "" /\ request.meta.proxy = ""
      BY <2>1, <2>4 DEF ApplyStaticProxyMeta
    <2> QED
      BY <2>2, <2>3, <2>4
  <1> HIDE DEF opts
  <1> QED
    BY <1>1, <1>2, <1>3, <1>4, <1>5
\* The route of a session's fetch: what it is asked for, or else the session's.
SessionRoute(session, opts) ==
    LET own == HasValues(opts.proxy) \/ opts.rotator # "" IN
    [proxy |-> IF own THEN opts.proxy ELSE session.proxy,
     rotator |-> IF own \/ HasValues(session.proxy) THEN opts.rotator ELSE session.rotator]

RouteRefused(route) == HasValues(route.proxy) /\ (route.rotator # "" \/ ProxyConfig(route.proxy) = Refused)

\* Headers with a content type and an identity filled in.
FilledIn(filled, headers) ==
    \E value, some : filled = ApplyIdentity(SetDefault(headers, "Content-Type", value), some)

\* What is sent: the session's options below the adapter's, prepared.
LEMMA SentIs ==
    ASSUME NEW session, NEW options, NEW request, request.method \in Methods,
           Sent(session, options, request) # Panic,
           StaticFields \subseteq DOMAIN options.fields
    PROVE  LET sent == Sent(session, options, request)
               opts == AdapterOptions(options, request)
               route == SessionRoute(session, opts)
           IN  /\ sent = Refused <=> Contradictory(opts.fields) \/ RouteRefused(route)
               /\ sent # Refused => /\ Route(sent) = route
                                    /\ FilledIn(sent.headers, MergeHeaders(session.headers, opts.headers))
  <1> DEFINE opts == AdapterOptions(options, request)
             own == HasValues(opts.proxy) \/ opts.rotator # ""
             merged == SessionOptions(session, opts)
             proxy == IF own THEN opts.proxy ELSE session.proxy
             rotator == IF own \/ HasValues(session.proxy) THEN opts.rotator ELSE session.rotator
             route == SessionRoute(session, opts)
  <1>1. /\ DOMAIN opts = {"headers", "fields", "proxy", "rotator", "safety"}
        /\ DOMAIN opts.fields = DOMAIN options.fields
    BY AdapterGives
  <1>2. opts # Refused
    <2>1. "refused" \in DOMAIN Refused
      BY DEF Refused
    <2> QED
      BY <1>1, <2>1
  <1> HIDE DEF opts
  <1>3. Sent(session, options, request) = IF merged = Panic THEN Panic ELSE PrepareRequest(merged)
    BY <1>2 DEF Sent, opts
  <1>4. merged # Panic
    BY <1>3
  <1>5. merged = [opts EXCEPT
                     !.headers = MergeHeaders(session.headers, @),
                     !.proxy = IF own THEN @ ELSE session.proxy,
                     !.rotator = IF own \/ HasValues(session.proxy) THEN @ ELSE session.rotator,
                     !.fields["store"] = IF @ = "" THEN session.store ELSE @]
    BY <1>4 DEF SessionOptions
  <1>6. /\ DOMAIN merged = DOMAIN opts
        /\ merged.headers = MergeHeaders(session.headers, opts.headers)
        /\ merged.proxy = proxy /\ merged.rotator = rotator
        /\ \A f \in DOMAIN opts.fields \ {"store"} : merged.fields[f] = opts.fields[f]
    BY <1>1, <1>5
  <1> HIDE DEF merged
  <1>7. Contradictory(merged.fields) <=> Contradictory(opts.fields)
    <2>1. \A f \in BodyKinds \cup {"impersonate", "http3"} : merged.fields[f] = opts.fields[f]
      BY <1>1, <1>6 DEF BodyKinds, StaticFields
    <2>2. {b \in BodyKinds : merged.fields[b] # ""} = {b \in BodyKinds : opts.fields[b] # ""}
      BY <2>1
    <2> QED
      BY <2>1, <2>2 DEF Contradictory
  <1> DEFINE prepared == [merged EXCEPT !.headers = ApplyIdentity(SetDefault(
                             merged.headers, "Content-Type", ContentTypeOf(merged.fields)), merged)]
  <1>8. PrepareRequest(merged) =
           IF \/ Contradictory(merged.fields)
              \/ HasValues(proxy) /\ rotator # ""
              \/ (IF HasValues(proxy) THEN ProxyConfig(proxy) ELSE NoProxy) = Refused
           THEN Refused ELSE prepared
    BY <1>6 DEF PrepareRequest
  <1>9. NoProxy # Refused
    <2>1. DOMAIN NoProxy # DOMAIN Refused
      BY DEF NoProxy, Refused
    <2> QED
      BY <2>1
  <1>10. /\ prepared.proxy = proxy /\ prepared.rotator = rotator
         /\ prepared.headers = ApplyIdentity(SetDefault(
               MergeHeaders(session.headers, opts.headers), "Content-Type", ContentTypeOf(merged.fields)), merged)
         /\ DOMAIN prepared # DOMAIN Refused
    BY <1>1, <1>6 DEF Refused
  <1> HIDE DEF prepared
  <1>11. prepared # Refused
    BY <1>10
  <1>12. route = [proxy |-> proxy, rotator |-> rotator]
    BY DEF SessionRoute
  <1> HIDE DEF proxy, rotator, own, route
  <1>13. Sent(session, options, request) = PrepareRequest(merged)
    BY <1>3, <1>4
  <1>14. route.proxy = proxy /\ route.rotator = rotator
    BY <1>12
  <1>15. Sent(session, options, request) = Refused <=> Contradictory(opts.fields) \/ RouteRefused(route)
    <2>1. CASE Contradictory(opts.fields)
      BY <1>7, <1>8, <1>13, <2>1
    <2>2. CASE ~Contradictory(opts.fields) /\ HasValues(proxy)
      BY <1>7, <1>8, <1>11, <1>13, <1>14, <2>2 DEF RouteRefused
    <2>3. CASE ~Contradictory(opts.fields) /\ ~HasValues(proxy)
      BY <1>7, <1>8, <1>9, <1>11, <1>13, <1>14, <2>3 DEF RouteRefused
    <2> QED
      BY <2>1, <2>2, <2>3
  <1>16. ASSUME Sent(session, options, request) # Refused
         PROVE  /\ Route(Sent(session, options, request)) = route
                /\ FilledIn(Sent(session, options, request).headers, MergeHeaders(session.headers, opts.headers))
    <2>1. Sent(session, options, request) = prepared
      BY <1>8, <1>13, <1>16
    <2> QED
      BY <1>10, <1>12, <2>1 DEF Route, FilledIn
  <1> QED
    BY <1>15, <1>16 DEF route, opts

\* A fetch by a method that the session has not is refused.
LEMMA OtherMethodsRefused ==
    ASSUME NEW session, NEW options, NEW request, request.method \notin Methods
    PROVE  AdapterOptions(options, request) = Refused /\ Sent(session, options, request) = Refused
  BY DEF AdapterOptions, Sent

\* HeaderOfNearestLayer for all options and requests whose headers were set, not only
\* named (FetcherSession.mergeOptions, staticidentity.ApplyHeaders): the names of the
\* identity and Content-Type are no exception, whatever layer gave them a value.
THEOREM HeaderAlwaysNearest ==
    ASSUME NEW session, NEW options, NEW request,
           StaticFields \subseteq DOMAIN options.fields,
           Valued(session.headers), Valued(options.headers),
           Valued(request.options.headers), Valued(request.headers)
    PROVE  HeaderOfNearestLayer(session, options, request)
  <1> DEFINE layers == <<request.headers, request.options.headers, options.headers, session.headers>>
             sent == Sent(session, options, request)
             given == MergedLayers(layers)
  <1>1. SUFFICES ASSUME sent # Refused, sent # Panic,
                        NEW k \in UNION {Named(layers[i]) : i \in 1..4},
                        Head(Having(layers, k)) # ""
                 PROVE  sent.headers[k] = Having(layers, k)
    BY DEF HeaderOfNearestLayer
  <1>2. request.method \in Methods
    BY <1>1, OtherMethodsRefused
  <1>3. given = MergeHeaders(session.headers, AdapterOptions(options, request).headers)
    <2>1. AdapterOptions(options, request).headers =
             MergeHeaders(MergeHeaders(options.headers, request.options.headers), request.headers)
      BY <1>2, AdapterGives
    <2> QED
      BY <2>1 DEF MergedLayers
  <1>4. FilledIn(sent.headers, MergeHeaders(session.headers, AdapterOptions(options, request).headers))
    BY <1>1, <1>2, SentIs
  <1>5. DOMAIN layers = 1..4 /\ \A i \in 1..4 : Valued(layers[i])
    <2>1. \A i \in 1..4 : i = 1 \/ i = 2 \/ i = 3 \/ i = 4
      OBVIOUS
    <2> QED
      BY <2>1
  <1> HIDE DEF layers
  <1>6. /\ Valued(given)
        /\ k \in DOMAIN given
        /\ given[k] = Having(layers, k)
    BY <1>1, <1>5, NearestLayerHas
  <1> HIDE DEF given
  <1>7. PICK value, some : sent.headers = ApplyIdentity(SetDefault(given, "Content-Type", value), some)
    BY <1>3, <1>4 DEF FilledIn
  <1> DEFINE typed == SetDefault(given, "Content-Type", value)
  <1>8. /\ Valued(typed)
        /\ k \in DOMAIN typed
        /\ typed[k] = given[k]
    BY <1>1, <1>6, DefaultFillsIn, ZenonT(40)
  <1>9. sent.headers = ApplyIdentity(typed, some)
    BY <1>7
  <1> HIDE DEF typed, sent
  <1>10. Get(typed, k) # ""
    BY <1>1, <1>6, <1>8 DEF Get, Named, Valued
  <1>11. ApplyIdentity(typed, some)[k] = typed[k]
    BY <1>8, <1>10 DEF ApplyIdentity
  <1> QED
    BY <1>6, <1>8, <1>9, <1>11
LEMMA MixedMeans ==
    ASSUME NEW r, NEW s
    PROVE  Mixed(r, s) <=> /\ HasValues(r.proxy) <=> ~HasValues(s.proxy)
                           /\ r.rotator # "" \/ s.rotator # ""
  <1>1. HasValues(r.proxy) \in BOOLEAN /\ HasValues(s.proxy) \in BOOLEAN
    BY DEF HasValues
  <1>2. {r.rotator, s.rotator} # {""} <=> r.rotator # "" \/ s.rotator # ""
    OBVIOUS
  <1>3. \A x, y \in BOOLEAN : {x, y} = {TRUE, FALSE} <=> (x <=> ~y)
    <2>1. {TRUE, FALSE} = {TRUE, FALSE} /\ {FALSE, TRUE} = {TRUE, FALSE}
      OBVIOUS
    <2>2. {TRUE, TRUE} # {TRUE, FALSE} /\ {FALSE, FALSE} # {TRUE, FALSE}
      OBVIOUS
    <2> QED
      BY <2>1, <2>2
  <1> QED
    BY <1>1, <1>2, <1>3 DEF Mixed

LEMMA RouteMeans ==
    ASSUME NEW layer
    PROVE  /\ Route(layer) = [proxy |-> Route(layer).proxy, rotator |-> Route(layer).rotator]
           /\ Route(layer) = Direct <=> /\ ~HasValues(Route(layer).proxy)
                                       /\ Route(layer).rotator = ""
  <1>1. Route(layer) = [proxy |-> Route(layer).proxy, rotator |-> Route(layer).rotator]
    BY DEF Route
  <1>2. Direct = [proxy |-> NoProxy, rotator |-> ""] /\ Direct.proxy = NoProxy /\ Direct.rotator = ""
    BY DEF Direct
  <1> QED
    BY <1>1, <1>2 DEF HasValues

\* RouteOfNearestLayer for all options, requests and routes (ApplyStaticProxyMeta,
\* FetcherSession.mergeOptions, prepareRequest): four layers that each ask for a proxy or
\* a rotator are never mixed, but for the request's own options and the adapter's.
THEOREM RouteAlwaysNearest ==
    ASSUME NEW session, NEW options, NEW request,
           StaticFields \subseteq DOMAIN options.fields
    PROVE  RouteOfNearestLayer(session, options, request)
  <1> DEFINE named == MetaRoute(request.meta)
             own == Route(request.options)
             adapted == Route(options)
             kept == Route(session)
             routes == <<named, own, adapted, kept>>
             sent == Sent(session, options, request)
             opts == AdapterOptions(options, request)
             route == SessionRoute(session, opts)
             Suits(r) == HasValues(r.proxy) => r.rotator = "" /\ ProxyConfig(r.proxy) # Refused
  <1>1. SUFFICES ASSUME \A i \in 1..4 : Suits(routes[i]), sent # Panic
                 PROVE  IF named = Direct /\ Mixed(own, adapted) THEN sent = Refused
                        ELSE IF sent = Refused THEN AdapterRefuses(options, request)
                        ELSE Route(sent) = Nearest(routes, Direct)
    BY DEF RouteOfNearestLayer
  <1>2. CASE request.method \notin Methods
    BY <1>2, OtherMethodsRefused DEF AdapterRefuses
  <1>3. CASE request.method \in Methods
    <2>1. /\ sent = Refused <=> Contradictory(opts.fields) \/ RouteRefused(route)
          /\ sent # Refused => Route(sent) = route
      BY <1>1, <1>3, SentIs
    <2>2. /\ named # Direct => Route(opts) = named
          /\ named = Direct =>
                /\ opts.proxy = IF HasValues(own.proxy) THEN own.proxy ELSE adapted.proxy
                /\ opts.rotator = IF own.rotator # "" THEN own.rotator ELSE adapted.rotator
      BY <1>3, AdapterGives, ZenonT(40) DEF Route
    <2>3. /\ route.proxy = IF HasValues(opts.proxy) \/ opts.rotator # "" THEN opts.proxy ELSE kept.proxy
          /\ route.rotator = IF HasValues(opts.proxy) \/ opts.rotator # "" \/ HasValues(kept.proxy)
                             THEN opts.rotator ELSE kept.rotator
          /\ route = [proxy |-> route.proxy, rotator |-> route.rotator]
      BY DEF SessionRoute, Route
    <2>4. Contradictory(opts.fields) => AdapterRefuses(options, request)
      BY DEF AdapterRefuses
    <2>5. Nearest(routes, Direct) = IF named # Direct THEN named ELSE IF own # Direct THEN own
                                    ELSE IF adapted # Direct THEN adapted ELSE kept
      BY NearestOfFour
    <2>6. Mixed(own, adapted) <=> /\ HasValues(own.proxy) <=> ~HasValues(adapted.proxy)
                                  /\ own.rotator # "" \/ adapted.rotator # ""
      BY MixedMeans
    <2>7. Suits(named) /\ Suits(own) /\ Suits(adapted) /\ Suits(kept)
      <3>1. routes[1] = named /\ routes[2] = own /\ routes[3] = adapted /\ routes[4] = kept
        OBVIOUS
      <3> HIDE DEF routes, Suits
      <3>2. Suits(routes[1]) /\ Suits(routes[2]) /\ Suits(routes[3]) /\ Suits(routes[4])
        BY <1>1
      <3> QED
        BY <3>1, <3>2
    <2>8. \A r \in {own, adapted, kept} :
             /\ r = [proxy |-> r.proxy, rotator |-> r.rotator]
             /\ r = Direct <=> ~HasValues(r.proxy) /\ r.rotator = ""
      BY RouteMeans
    <2>9. named # Direct => HasValues(opts.proxy) \/ opts.rotator # ""
      <3>1. named # Direct => HasValues(named.proxy) \/ named.rotator # ""
        BY RouteMeans DEF MetaRoute
      <3>2. Route(opts) = named => opts.proxy = named.proxy /\ opts.rotator = named.rotator
        BY DEF Route
      <3> QED
        BY <2>2, <3>1, <3>2
    <2>10. named # Direct => opts.proxy = named.proxy /\ opts.rotator = named.rotator
      <3>1. Route(opts).proxy = opts.proxy /\ Route(opts).rotator = opts.rotator
        BY DEF Route
      <3> QED
        BY <2>2, <3>1
    <2> HIDE DEF named, own, adapted, kept, routes, sent, opts, route
    <2>11. CASE named = Direct /\ Mixed(own, adapted)
      <3>1. RouteRefused(route)
        BY <2>2, <2>3, <2>6, <2>7, <2>11 DEF RouteRefused
      <3> QED
        BY <2>1, <2>11, <3>1
    <2>12. CASE ~(named = Direct /\ Mixed(own, adapted))
      <3>1. CASE named # Direct
        <4>1. route = named /\ named = [proxy |-> named.proxy, rotator |-> named.rotator]
          BY <2>3, <2>9, <2>10, <3>1, RouteMeans DEF named, MetaRoute
        <4>2. ~RouteRefused(route)
          BY <2>7, <4>1 DEF RouteRefused
        <4> QED
          BY <2>1, <2>4, <2>5, <2>12, <3>1, <4>1, <4>2
      <3>2. CASE named = Direct /\ (own # Direct \/ adapted # Direct)
        <4>1. route = IF own # Direct THEN own ELSE adapted
          <5>1. CASE HasValues(own.proxy)
            BY <2>2, <2>3, <2>6, <2>7, <2>8, <2>12, <3>2, <5>1
          <5>2. CASE ~HasValues(own.proxy) /\ own.rotator # ""
            <6>1. ~HasValues(adapted.proxy)
              BY <2>6, <2>12, <3>2, <5>2
            <6>2. own.proxy = NoProxy /\ adapted.proxy = NoProxy
              BY <5>2, <6>1 DEF HasValues
            <6>3. route.proxy = own.proxy /\ route.rotator = own.rotator
              BY <2>2, <2>3, <3>2, <5>2, <6>1, <6>2
            <6> QED
              BY <2>3, <2>8, <5>2, <6>3
          <5>3. CASE own = Direct
            BY <2>2, <2>3, <2>7, <2>8, <3>2, <5>3
          <5> QED
            BY <2>8, <5>1, <5>2, <5>3
        <4>2. ~RouteRefused(route)
          BY <2>7, <4>1 DEF RouteRefused
        <4> QED
          BY <2>1, <2>4, <2>5, <2>12, <3>2, <4>1, <4>2
      <3>3. CASE named = Direct /\ own = Direct /\ adapted = Direct
        <4>1. route = kept
          BY <2>2, <2>3, <2>7, <2>8, <3>3
        <4>2. ~RouteRefused(route)
          BY <2>7, <4>1 DEF RouteRefused
        <4> QED
          BY <2>1, <2>4, <2>5, <2>12, <3>3, <4>1, <4>2
      <3> QED
        BY <3>1, <3>2, <3>3
    <2> QED
      BY <2>11, <2>12
  <1> QED
    BY <1>2, <1>3
----------------------------------------------------------------------------
(* A fetch of a browser session *)

\* What the session merges under what the adapter asks for.
Asked(session, adapter, request, rotated) ==
    MergeBrowserOptions(session, BrowserAdapterOptions(adapter, request, rotated).options)

\* The proxy the adapter chose for the request; NoServer when it chose none.
ChosenProxy(adapter, request, rotated) ==
    LET merged == IF request.options.proxy # NoServer THEN request.options.proxy ELSE adapter.options.proxy
        named == MetaProxy(request.meta)
    IN  IF named # NoServer THEN named
        ELSE IF merged.server = "" /\ adapter.rotates THEN FromFetchProxy(rotated) ELSE NoServer

\* How three layers and the request's meta come together in it.
AskedOf(session, adapter, request, rotated) ==
    LET wanted == Asked(session, adapter, request, rotated)
        chosen == ChosenProxy(adapter, request, rotated)
    IN  /\ DOMAIN wanted = {"headers", "fields", "switches", "proxy", "wait", "cookies",
                           "blocked", "flags", "actions", "shot"}
        /\ wanted.headers = MergeHeaders(session.headers, MergeHeaders(
              MergeHeaders(adapter.options.headers, request.options.headers), request.headers))
        /\ BrowserFields \subseteq DOMAIN wanted.fields
        /\ \A f \in BrowserFields :
              wanted.fields[f] = IF request.options.fields[f] # "" THEN request.options.fields[f]
                                ELSE IF adapter.options.fields[f] # "" THEN adapter.options.fields[f]
                                ELSE session.fields[f]
        /\ \A s \in {"disableResources", "blockAds"} :
              wanted.switches[s] = (session.switches[s] \/ (adapter.options.switches[s] \/ request.options.switches[s]))
        /\ BrowserSwitches \subseteq DOMAIN wanted.switches
        /\ wanted.blocked = session.blocked \o (adapter.options.blocked \o request.options.blocked)
        /\ wanted.actions = session.actions \o (adapter.options.actions \o request.options.actions)
        /\ BrowserAdapterOptions(adapter, request, rotated).selected = chosen.server
        /\ chosen # NoServer => wanted.proxy = chosen
        /\ wanted.proxy \in {session.proxy, adapter.options.proxy, request.options.proxy, chosen}
        /\ wanted.wait = IF request.options.wait # NoWait THEN request.options.wait
                         ELSE IF adapter.options.wait # NoWait THEN adapter.options.wait ELSE session.wait

LEMMA AskedIs ==
    ASSUME NEW session, NEW adapter, NEW request, NEW rotated,
           HaveAllOptions({session, adapter.options})
    PROVE  AskedOf(session, adapter, request, rotated)
  <1> DEFINE merged == MergeSpiderBrowserOptions(adapter.options, request.options)
             chosen == ChosenProxy(adapter, request, rotated)
             options == BrowserAdapterOptions(adapter, request, rotated).options
             wanted == Asked(session, adapter, request, rotated)
             OptionNames == {"headers", "fields", "switches", "proxy", "wait", "cookies", "blocked", "flags", "actions", "shot"}
  <1>0. /\ BrowserSwitches \subseteq DOMAIN session.switches
        /\ BrowserSwitches \subseteq DOMAIN adapter.options.switches
        /\ BrowserFields \subseteq DOMAIN session.fields
        /\ BrowserFields \subseteq DOMAIN adapter.options.fields
    BY DEF HaveAllOptions
  <1>1. /\ DOMAIN merged = OptionNames
        /\ merged.headers = MergeHeaders(adapter.options.headers, request.options.headers)
        /\ merged.fields = Overridden(adapter.options.fields, request.options.fields)
        /\ merged.switches = Switched(adapter.options.switches, request.options.switches)
        /\ merged.proxy = IF request.options.proxy # NoServer THEN request.options.proxy ELSE adapter.options.proxy
        /\ merged.wait = IF request.options.wait # NoWait THEN request.options.wait ELSE adapter.options.wait
        /\ merged.blocked = adapter.options.blocked \o request.options.blocked
        /\ merged.actions = adapter.options.actions \o request.options.actions
    BY DEF MergeSpiderBrowserOptions
  <1> HIDE DEF merged
  <1>2. /\ options = [merged EXCEPT !.headers = MergeHeaders(@, request.headers),
                                    !.switches["stealth"] = @ \/ adapter.stealth,
                                    !.proxy = IF chosen # NoServer THEN chosen ELSE @]
        /\ BrowserAdapterOptions(adapter, request, rotated).selected = chosen.server
    BY <1>1 DEF BrowserAdapterOptions, ChosenProxy, merged
  <1> HIDE DEF options, chosen
  <1>3. /\ options.headers = MergeHeaders(merged.headers, request.headers)
        /\ options.fields = merged.fields /\ options.wait = merged.wait
        /\ \A s \in {"disableResources", "blockAds"} : options.switches[s] = merged.switches[s]
        /\ options.blocked = merged.blocked /\ options.actions = merged.actions
        /\ options.proxy = IF chosen # NoServer THEN chosen ELSE merged.proxy
    <2>1. {"disableResources", "blockAds"} \subseteq DOMAIN merged.switches \ {"stealth"}
      BY <1>0, <1>1 DEF Switched, BrowserSwitches
    <2>2. /\ options.headers = MergeHeaders(merged.headers, request.headers)
          /\ options.fields = merged.fields /\ options.wait = merged.wait
          /\ options.blocked = merged.blocked /\ options.actions = merged.actions
          /\ options.proxy = IF chosen # NoServer THEN chosen ELSE merged.proxy
      BY <1>1, <1>2
    <2>3. options.switches = [merged.switches EXCEPT !["stealth"] = @ \/ adapter.stealth]
      BY <1>1, <1>2
    <2> QED
      BY <2>1, <2>2, <2>3
  <1>4. /\ DOMAIN wanted = OptionNames
        /\ wanted.headers = MergeHeaders(session.headers, options.headers)
        /\ wanted.fields = Overridden(session.fields, options.fields)
        /\ wanted.switches = Switched(NormalizeStealth(session.switches), NormalizeStealth(options.switches))
        /\ wanted.proxy = IF options.proxy # NoServer THEN options.proxy ELSE session.proxy
        /\ wanted.wait = IF options.wait # NoWait THEN options.wait ELSE session.wait
        /\ wanted.blocked = session.blocked \o options.blocked
        /\ wanted.actions = session.actions \o options.actions
    BY DEF Asked, MergeBrowserOptions, options
  <1> HIDE DEF wanted
  <1>5. /\ BrowserFields \subseteq DOMAIN wanted.fields
        /\ \A f \in BrowserFields :
              wanted.fields[f] = IF request.options.fields[f] # "" THEN request.options.fields[f]
                                ELSE IF adapter.options.fields[f] # "" THEN adapter.options.fields[f]
                                ELSE session.fields[f]
    <2>1. \A f \in BrowserFields : f \in DOMAIN session.fields /\ f \in DOMAIN adapter.options.fields
      BY <1>0
    <2>2. /\ DOMAIN wanted.fields = DOMAIN session.fields
          /\ \A f \in DOMAIN session.fields :
                wanted.fields[f] = IF options.fields[f] = "" THEN session.fields[f] ELSE options.fields[f]
      BY <1>4 DEF Overridden
    <2>3. \A f \in DOMAIN adapter.options.fields :
             options.fields[f] = IF request.options.fields[f] = "" THEN adapter.options.fields[f]
                                 ELSE request.options.fields[f]
      BY <1>1, <1>3 DEF Overridden
    <2> QED
      BY <2>1, <2>2, <2>3
  <1>6. /\ BrowserSwitches \subseteq DOMAIN wanted.switches
        /\ \A s \in {"disableResources", "blockAds"} :
              wanted.switches[s] = (session.switches[s] \/ (adapter.options.switches[s] \/ request.options.switches[s]))
    <2>1. \A s \in BrowserSwitches : s \in DOMAIN session.switches /\ s \in DOMAIN adapter.options.switches
      BY <1>0
    <2>2. /\ DOMAIN wanted.switches = DOMAIN session.switches
          /\ \A s \in DOMAIN session.switches : wanted.switches[s] =
                (NormalizeStealth(session.switches)[s] \/ NormalizeStealth(options.switches)[s])
      BY <1>4 DEF Switched, NormalizeStealth
    <2>3. \A s \in {"disableResources", "blockAds"} :
             /\ s \in BrowserSwitches
             /\ NormalizeStealth(session.switches)[s] = session.switches[s]
      BY <2>1 DEF NormalizeStealth, BrowserSwitches
    <2>4. \A s \in {"disableResources", "blockAds"} :
             NormalizeStealth(options.switches)[s] =
                (adapter.options.switches[s] \/ request.options.switches[s])
      <3>1. \A s \in {"disableResources", "blockAds"} : options.switches[s] =
               (adapter.options.switches[s] \/ request.options.switches[s])
        BY <1>1, <1>3, <2>1, <2>3 DEF Switched
      <3> QED
        BY <1>1, <1>2, <2>1, <2>3, <3>1 DEF NormalizeStealth, Switched
    <2> QED
      BY <2>1, <2>2, <2>3, <2>4
  <1>7. /\ chosen # NoServer => wanted.proxy = chosen
        /\ wanted.proxy \in {session.proxy, adapter.options.proxy, request.options.proxy, chosen}
    BY <1>1, <1>3, <1>4
  <1>8. wanted.wait = IF request.options.wait # NoWait THEN request.options.wait
                      ELSE IF adapter.options.wait # NoWait THEN adapter.options.wait ELSE session.wait
    BY <1>1, <1>3, <1>4
  <1> QED
    BY <1>1, <1>2, <1>3, <1>4, <1>5, <1>6, <1>7, <1>8 DEF AskedOf, wanted, chosen
\* Headers with the defaults of a browser and what its stealth makes up.
Disguised(disguised, headers, agent, locale) ==
    \E switches : disguised = StealthHeaders(
        SetDefault(SetDefault(headers, "User-Agent", agent), "Accept-Language", locale), switches)

LEMMA RequestIs ==
    ASSUME NEW wanted,
           DOMAIN wanted = {"headers", "fields", "switches", "proxy", "wait", "cookies", "blocked", "flags", "actions", "shot"},
           BrowserFields \subseteq DOMAIN wanted.fields,
           BrowserSwitches \subseteq DOMAIN wanted.switches,
           NewBrowserRequest(wanted) # Refused
    PROVE  LET sent == NewBrowserRequest(wanted)
               agent == wanted.fields["userAgent"]
           IN  /\ sent.proxy = wanted.proxy /\ sent.wait = wanted.wait
               /\ sent.blocked = wanted.blocked /\ sent.actions = wanted.actions
               /\ \A s \in {"disableResources", "blockAds"} : sent.switches[s] = wanted.switches[s]
               /\ Disguised(sent.headers, wanted.headers, agent, wanted.fields["locale"])
               /\ sent.fields["userAgent"] = IF agent = "" THEN Get(sent.headers, "User-Agent") ELSE agent
  <1> DEFINE sent == NewBrowserRequest(wanted)
             opts == [wanted EXCEPT !.switches = NormalizeStealth(@)]
             named == SetDefault(SetDefault(opts.headers, "User-Agent", opts.fields["userAgent"]),
                                 "Accept-Language", opts.fields["locale"])
             headers == StealthHeaders(named, opts.switches)
  <1>1. /\ DOMAIN opts = DOMAIN wanted
        /\ opts.switches = NormalizeStealth(wanted.switches)
        /\ \A f \in DOMAIN wanted \ {"switches"} : opts[f] = wanted[f]
    OBVIOUS
  <1> HIDE DEF opts
  <1>2. sent = [opts EXCEPT !.headers = headers,
                            !.fields["userAgent"] = IF @ = "" THEN Get(headers, "User-Agent") ELSE @,
                            !.flags = StealthFlags(@, opts.switches)]
    BY DEF NewBrowserRequest, opts
  <1>3. headers = StealthHeaders(SetDefault(SetDefault(wanted.headers, "User-Agent", wanted.fields["userAgent"]),
                                            "Accept-Language", wanted.fields["locale"]), opts.switches)
    BY <1>1
  <1> HIDE DEF sent, headers, named
  <1>4. /\ sent.headers = headers /\ sent.proxy = wanted.proxy /\ sent.wait = wanted.wait
        /\ sent.blocked = wanted.blocked /\ sent.actions = wanted.actions
        /\ sent.switches = NormalizeStealth(wanted.switches)
        /\ sent.fields = [wanted.fields EXCEPT !["userAgent"] = IF @ = "" THEN Get(headers, "User-Agent") ELSE @]
    BY <1>1, <1>2
  <1>5. "userAgent" \in DOMAIN wanted.fields /\ {"disableResources", "blockAds"} \subseteq DOMAIN wanted.switches
    BY DEF BrowserFields, BrowserSwitches
  <1>6. \A s \in {"disableResources", "blockAds"} : sent.switches[s] = wanted.switches[s]
    BY <1>4, <1>5 DEF NormalizeStealth
  <1>7. sent.fields["userAgent"] = IF wanted.fields["userAgent"] = "" THEN Get(sent.headers, "User-Agent")
                                   ELSE wanted.fields["userAgent"]
    BY <1>4, <1>5
  <1>8. Disguised(sent.headers, wanted.headers, wanted.fields["userAgent"], wanted.fields["locale"])
    BY <1>3, <1>4 DEF Disguised
  <1> QED
    BY <1>4, <1>6, <1>7, <1>8 DEF sent

\* ProxyKeptWhole for all layers and proxies (mergeSpiderBrowserOptions,
\* mergeBrowserOptions): a server is never sent with the credentials of another layer.
THEOREM ProxyAlwaysWhole ==
    ASSUME NEW session, NEW adapter, NEW request, NEW rotated,
           HaveAllOptions({session, adapter.options})
    PROVE  ProxyKeptWhole(session, adapter, request, rotated)
  <1> DEFINE wanted == Asked(session, adapter, request, rotated)
             sent == BrowserSent(session, adapter, request, rotated)
             chosen == ChosenProxy(adapter, request, rotated)
             selected == BrowserAdapterOptions(adapter, request, rotated).selected
             given == {session.proxy, adapter.options.proxy, request.options.proxy,
                       MetaProxy(request.meta), FromFetchProxy(rotated), NoServer}
  <1>1. SUFFICES ASSUME sent # Refused
                 PROVE  sent.proxy \in given /\ (selected # "" => sent.proxy.server = selected)
    BY DEF ProxyKeptWhole
  <1>2. sent = NewBrowserRequest(wanted)
    BY DEF BrowserSent, Asked
  <1>3. AskedOf(session, adapter, request, rotated)
    BY AskedIs
  <1>4. /\ selected = chosen.server
        /\ chosen # NoServer => wanted.proxy = chosen
        /\ wanted.proxy \in {session.proxy, adapter.options.proxy, request.options.proxy, chosen}
    BY <1>3 DEF AskedOf
  <1>5. sent.proxy = wanted.proxy
    <2>1. /\ DOMAIN wanted = {"headers", "fields", "switches", "proxy", "wait", "cookies", "blocked", "flags", "actions", "shot"}
          /\ BrowserFields \subseteq DOMAIN wanted.fields
          /\ BrowserSwitches \subseteq DOMAIN wanted.switches
      BY <1>3 DEF AskedOf
    <2> HIDE DEF wanted, sent
    <2> QED
      BY <1>1, <1>2, <2>1, RequestIs
  <1>6. chosen \in {MetaProxy(request.meta), FromFetchProxy(rotated), NoServer}
    BY DEF ChosenProxy
  <1>7. NoServer.server = ""
    BY DEF NoServer
  <1> HIDE DEF wanted, sent, chosen, selected
  <1> QED
    BY <1>4, <1>5, <1>6, <1>7

LEMMA NearestOfThree ==
    ASSUME NEW values, DOMAIN values = 1..3, NEW none
    PROVE  Nearest(values, none) =
              IF values[1] # none THEN values[1]
              ELSE IF values[2] # none THEN values[2] ELSE values[3]
  <1> DEFINE given == {i \in DOMAIN values : values[i] # none}
             first == CHOOSE i \in given : \A j \in given : i <= j
  <1>1. given \subseteq {1, 2, 3}
    OBVIOUS
  <1>2. ASSUME NEW i \in given, \A j \in given : i <= j
        PROVE  first = i
    BY <1>1, <1>2
  <1>3. Nearest(values, none) = IF given = {} THEN none ELSE values[first]
    BY DEF Nearest
  <1>4. CASE values[1] # none
    BY <1>1, <1>2, <1>3, <1>4
  <1>5. CASE values[1] = none /\ values[2] # none
    BY <1>1, <1>2, <1>3, <1>5
  <1>6. CASE values[1] = none /\ values[2] = none
    BY <1>1, <1>2, <1>3, <1>6
  <1> QED
    BY <1>4, <1>5, <1>6

\* WaitKeptWhole for all layers and waits (mergeSpiderBrowserOptions, mergeBrowserOptions):
\* the selector a page is waited for is never sent with the state of another layer.
THEOREM WaitAlwaysWhole ==
    ASSUME NEW session, NEW adapter, NEW request, NEW rotated,
           HaveAllOptions({session, adapter.options})
    PROVE  WaitKeptWhole(session, adapter, request, rotated)
  <1> DEFINE wanted == Asked(session, adapter, request, rotated)
             sent == BrowserSent(session, adapter, request, rotated)
             waits == <<request.options.wait, adapter.options.wait, session.wait>>
  <1>1. SUFFICES ASSUME sent # Refused
                 PROVE  sent.wait = Nearest(waits, NoWait)
    BY DEF WaitKeptWhole
  <1>2. sent = NewBrowserRequest(wanted)
    BY DEF BrowserSent, Asked
  <1>3. AskedOf(session, adapter, request, rotated)
    BY AskedIs
  <1>4. /\ DOMAIN wanted = {"headers", "fields", "switches", "proxy", "wait", "cookies", "blocked", "flags", "actions", "shot"}
        /\ BrowserFields \subseteq DOMAIN wanted.fields
        /\ BrowserSwitches \subseteq DOMAIN wanted.switches
        /\ wanted.wait = IF request.options.wait # NoWait THEN request.options.wait
                         ELSE IF adapter.options.wait # NoWait THEN adapter.options.wait ELSE session.wait
    BY <1>3 DEF AskedOf
  <1>5. Nearest(waits, NoWait) = IF request.options.wait # NoWait THEN request.options.wait
                                 ELSE IF adapter.options.wait # NoWait THEN adapter.options.wait ELSE session.wait
    <2>1. /\ DOMAIN waits = 1..3
          /\ waits[1] = request.options.wait /\ waits[2] = adapter.options.wait /\ waits[3] = session.wait
      OBVIOUS
    <2> HIDE DEF waits
    <2> QED
      BY <2>1, NearestOfThree
  <1> HIDE DEF wanted, sent, waits
  <1>6. sent.wait = wanted.wait
    BY <1>1, <1>2, <1>4, RequestIs
  <1> QED
    BY <1>4, <1>5, <1>6

\* Every name that has a first value keeps it.
Keeps(before, after) == Valued(after) /\ \A k : Get(before, k) # "" => Get(after, k) = Get(before, k)

LEMMA DefaultKeeps ==
    ASSUME NEW headers, NEW key, NEW value, Valued(headers)
    PROVE  /\ Keeps(headers, SetDefault(headers, key, value))
           /\ Get(headers, key) = "" /\ value # "" => Get(SetDefault(headers, key, value), key) = value
  <1> DEFINE set == SetDefault(headers, key, value)
             changed == [k \in DOMAIN headers \cup {key} |-> IF k = key THEN <<value>> ELSE headers[k]]
  <1>1. <<value>> # <<>> /\ Head(<<value>>) = value
    OBVIOUS
  <1>2. Valued(changed)
    BY <1>1 DEF Valued
  <1>3. Get(changed, key) = value /\ \A k : k # key => Get(changed, k) = Get(headers, k)
    BY <1>1 DEF Get, Named
  <1>4. set = IF Get(headers, key) # "" \/ value = "" THEN headers ELSE changed
    BY DEF SetDefault
  <1> HIDE DEF set, changed
  <1> QED
    BY <1>2, <1>3, <1>4 DEF set, Keeps

\* Neither the defaults nor the stealth of a browser take a header from its caller, but
\* for the referer.
LEMMA DisguiseKeeps ==
    ASSUME NEW disguised, NEW headers, NEW agent, NEW locale,
           Valued(headers), Disguised(disguised, headers, agent, locale)
    PROVE  /\ \A k : k # "Referer" /\ Get(headers, k) # "" => Get(disguised, k) = Get(headers, k)
           /\ Get(headers, "User-Agent") = "" /\ agent # "" => Get(disguised, "User-Agent") = agent
  <1> DEFINE named == SetDefault(headers, "User-Agent", agent)
             localed == SetDefault(named, "Accept-Language", locale)
             Browser == SetDefault(localed, "User-Agent", "stealth")
             accepting == SetDefault(Browser, "Accept", "html")
             speaking == SetDefault(accepting, "Accept-Language", "en-US")
             generated == SetDefault(speaking, "Upgrade-Insecure-Requests", "1")
             Referred(h) == [k \in DOMAIN h \cup {"Referer"} |-> IF k = "Referer" THEN <<"google">> ELSE h[k]]
  <1>1. /\ Keeps(headers, named)
        /\ Get(headers, "User-Agent") = "" /\ agent # "" => Get(named, "User-Agent") = agent
    BY DefaultKeeps
  <1>2. disguised \in {localed, generated, Referred(localed), Referred(generated)}
    BY DEF Disguised, StealthHeaders
  <1> HIDE DEF named
  <1>3. Keeps(named, localed)
    <2>1. Valued(named)
      BY <1>1 DEF Keeps
    <2> QED
      BY <2>1, DefaultKeeps
  <1> HIDE DEF localed
  <1>4. Keeps(localed, Browser)
    <2>1. Valued(localed)
      BY <1>3 DEF Keeps
    <2> QED
      BY <2>1, DefaultKeeps
  <1> HIDE DEF Browser
  <1>5. Keeps(Browser, accepting)
    <2>1. Valued(Browser)
      BY <1>4 DEF Keeps
    <2> QED
      BY <2>1, DefaultKeeps
  <1> HIDE DEF accepting
  <1>8. Keeps(accepting, speaking)
    <2>1. Valued(accepting)
      BY <1>5 DEF Keeps
    <2> QED
      BY <2>1, DefaultKeeps
  <1> HIDE DEF speaking
  <1>9. Keeps(speaking, generated)
    <2>1. Valued(speaking)
      BY <1>8 DEF Keeps
    <2> QED
      BY <2>1, DefaultKeeps
  <1> HIDE DEF generated
  <1>6. \A h, k : k # "Referer" => Get(Referred(h), k) = Get(h, k)
    BY DEF Get, Named
  <1> HIDE DEF Referred
  <1>7. \A k : k # "Referer" /\ Get(localed, k) # "" => Get(disguised, k) = Get(localed, k)
    <2>1. \A k : Get(localed, k) # "" => Get(generated, k) = Get(localed, k)
      BY <1>4, <1>5, <1>8, <1>9 DEF Keeps
    <2> QED
      BY <1>2, <1>6, <2>1
  <1> QED
    BY <1>1, <1>3, <1>7 DEF Keeps
\* BrowserHeadersKept for all layers and headers (newBrowserRequest,
\* applyBrowserStealthHeaders): what the caller set is what the page is loaded with.
THEOREM BrowserHeadersAlwaysKept ==
    ASSUME NEW session, NEW adapter, NEW request, NEW rotated,
           HaveAllOptions({session, adapter.options}),
           Valued(session.headers), Valued(adapter.options.headers),
           Valued(request.options.headers), Valued(request.headers)
    PROVE  BrowserHeadersKept(session, adapter, request, rotated)
  <1> DEFINE wanted == Asked(session, adapter, request, rotated)
             sent == BrowserSent(session, adapter, request, rotated)
             layers == <<request.headers, request.options.headers, adapter.options.headers, session.headers>>
             given == MergedLayers(layers)
             agents == {o.fields["userAgent"] : o \in {session, adapter.options, request.options}}
             agent == wanted.fields["userAgent"]
  <1>1. SUFFICES ASSUME sent # Refused
                 PROVE  /\ \A k \in (UNION {Named(layers[i]) : i \in 1..4}) \ {"Referer"} :
                              Head(Having(layers, k)) # "" => Get(sent.headers, k) = Head(Having(layers, k))
                        /\ agents = {""} \/ Having(layers, "User-Agent") = <<>>
                              => sent.fields["userAgent"] = Get(sent.headers, "User-Agent")
    BY DEF BrowserHeadersKept
  <1>2. sent = NewBrowserRequest(wanted)
    BY DEF BrowserSent, Asked
  <1>3. AskedOf(session, adapter, request, rotated)
    BY AskedIs
  <1>4. given = wanted.headers
    BY <1>3 DEF AskedOf, MergedLayers
  <1>5. agents = {""} => agent = ""
    <2>1. agent \in agents
      BY <1>3 DEF AskedOf, BrowserFields
    <2> QED
      BY <2>1
  <1>6. DOMAIN layers = 1..4 /\ \A i \in 1..4 : Valued(layers[i])
    <2>1. \A i \in 1..4 : i = 1 \/ i = 2 \/ i = 3 \/ i = 4
      OBVIOUS
    <2> QED
      BY <2>1
  <1>7. /\ DOMAIN wanted = {"headers", "fields", "switches", "proxy", "wait", "cookies", "blocked", "flags", "actions", "shot"}
        /\ BrowserFields \subseteq DOMAIN wanted.fields
        /\ BrowserSwitches \subseteq DOMAIN wanted.switches
    BY <1>3 DEF AskedOf
  <1> HIDE DEF layers, wanted, sent, agents
  <1>8. /\ Valued(given)
        /\ DOMAIN given = UNION {Named(layers[i]) : i \in 1..4}
        /\ \A k \in DOMAIN given : given[k] = Having(layers, k)
        /\ \A k : k \notin DOMAIN given => Having(layers, k) = <<>>
    BY <1>6, NearestLayerHas
  <1> HIDE DEF given
  <1>9. /\ Disguised(sent.headers, given, agent, wanted.fields["locale"])
        /\ sent.fields["userAgent"] = IF agent = "" THEN Get(sent.headers, "User-Agent") ELSE agent
    BY <1>1, <1>2, <1>4, <1>7, RequestIs
  <1>10. /\ \A k : k # "Referer" /\ Get(given, k) # "" => Get(sent.headers, k) = Get(given, k)
         /\ Get(given, "User-Agent") = "" /\ agent # "" => Get(sent.headers, "User-Agent") = agent
    BY <1>8, <1>9, DisguiseKeeps
  <1>11. \A k \in DOMAIN given : Get(given, k) = Head(Having(layers, k))
    BY <1>8 DEF Get, Named, Valued
  <1>12. Having(layers, "User-Agent") = <<>> => Get(given, "User-Agent") = ""
    BY <1>8 DEF Get, Named, Valued
  <1> HIDE DEF agent
  <1>13. ASSUME NEW k, k \in UNION {Named(layers[i]) : i \in 1..4}, k # "Referer",
                Head(Having(layers, k)) # ""
         PROVE  Get(sent.headers, k) = Head(Having(layers, k))
    <2>1. k \in DOMAIN given
      BY <1>8, <1>13
    <2> QED
      BY <1>10, <1>11, <1>13, <2>1
  <1>14. agent = "" \/ Having(layers, "User-Agent") = <<>>
            => sent.fields["userAgent"] = Get(sent.headers, "User-Agent")
    BY <1>9, <1>10, <1>12
  <1>15. \A k \in (UNION {Named(layers[i]) : i \in 1..4}) \ {"Referer"} :
            Head(Having(layers, k)) # "" => Get(sent.headers, k) = Head(Having(layers, k))
    BY <1>13
  <1>16. agents = {""} \/ Having(layers, "User-Agent") = <<>>
            => sent.fields["userAgent"] = Get(sent.headers, "User-Agent")
    BY <1>5, <1>14
  <1> QED
    BY <1>15, <1>16
Steps == {"block", "user agent", "headers", "script", "cookies", "navigate",
          "action", "wait", "screenshot", "html"}

LEMMA StepsIf ==
    ASSUME NEW S, NEW c, NEW step \in S
    PROVE  If(c, step) \in Seq(S)
  <1>1. <<step>> \in Seq(S)
    OBVIOUS
  <1>2. CASE c
    BY <1>1, <1>2 DEF If
  <1>3. CASE ~c
    BY <1>3 DEF If
  <1> QED
    BY <1>2, <1>3

\* A page of which something is blocked is navigated after the block.
LEMMA BlockedBeforeNavigated ==
    ASSUME NEW request, BlockedPatterns(request) # {}, NEW A, request.actions \in Seq(A)
    PROVE  \E i, j \in DOMAIN PageSteps(request) :
              i < j /\ PageSteps(request)[i] = "block" /\ PageSteps(request)[j] = "navigate"
  <1> DEFINE Both(s) == s \in Seq(Steps) /\ \E i, j \in DOMAIN s : i < j /\ s[i] = "block" /\ s[j] = "navigate"
             Blocks(s) == s \in Seq(Steps) /\ Len(s) > 0 /\ s[1] = "block"
             acted == [i \in DOMAIN request.actions |-> "action"]
             first == If(BlockedPatterns(request) # {}, "block")
  <1>1. "block" \in Steps /\ "navigate" \in Steps /\ "action" \in Steps /\ "html" \in Steps
    BY DEF Steps
  <1>2. \A s, t \in Seq(Steps) : Blocks(s) => Blocks(s \o t)
    OBVIOUS
  <1>3. ASSUME NEW s \in Seq(Steps), Blocks(s)
        PROVE  Both(s \o <<"navigate">>)
    <2> DEFINE t == s \o <<"navigate">>
    <2>1. <<"navigate">> \in Seq(Steps)
      BY <1>1
    <2>2. t \in Seq(Steps) /\ DOMAIN t = 1..(Len(s) + 1)
      BY <2>1
    <2>3. t[1] = "block" /\ t[Len(s) + 1] = "navigate"
      BY <1>3
    <2>4. 1 < Len(s) + 1 /\ 1 \in DOMAIN t /\ Len(s) + 1 \in DOMAIN t
      BY <1>3, <2>2
    <2> HIDE DEF t
    <2>5. \E i, j \in DOMAIN t : i < j /\ t[i] = "block" /\ t[j] = "navigate"
      BY <2>3, <2>4, Zenon
    <2> QED
      BY <2>2, <2>5 DEF t
  <1>4. ASSUME NEW s \in Seq(Steps), NEW t \in Seq(Steps), Both(s)
        PROVE  Both(s \o t)
    <2>1. PICK i, j \in DOMAIN s : i < j /\ s[i] = "block" /\ s[j] = "navigate"
      BY <1>4
    <2>2. /\ s \o t \in Seq(Steps)
          /\ i \in DOMAIN (s \o t) /\ (s \o t)[i] = s[i]
          /\ j \in DOMAIN (s \o t) /\ (s \o t)[j] = s[j]
      OBVIOUS
    <2> QED
      BY <2>1, <2>2
  <1>5. acted \in Seq(Steps)
    <2>1. Len(request.actions) \in Nat /\ DOMAIN acted = 1..Len(request.actions)
      OBVIOUS
    <2>2. \A i \in DOMAIN acted : acted[i] = "action"
      OBVIOUS
    <2>3. acted = [i \in 1..Len(request.actions) |-> "action"]
      BY <2>1
    <2>4. acted \in [1..Len(request.actions) -> Steps]
      BY <1>1, <2>3
    <2> QED
      <3>1. \E n \in Nat : acted \in [1..n -> Steps]
        BY <2>1, <2>4
      <3> HIDE DEF acted
      <3> QED
        BY <3>1, SeqDef
  <1>6. Blocks(first)
    <2>1. first = <<"block">>
      BY DEF If
    <2>2. <<"block">> \in Seq(Steps)
      BY <1>1
    <2> HIDE DEF first
    <2> QED
      BY <2>1, <2>2
  <1> DEFINE agent == If(request.fields["userAgent"] # "", "user agent")
             headers == If(Named(request.headers) # {}, "headers")
             script == If(request.switches["stealth"] /\ request.switches["hideCanvas"], "script")
             cookies == If(request.cookies # <<>>, "cookies")
             wait == If(request.wait.selector # "", "wait")
             shot == If(request.shot.enabled, "screenshot")
             before == first \o agent \o headers \o script \o cookies
             navigated == before \o <<"navigate">>
  <1>7. /\ agent \in Seq(Steps) /\ headers \in Seq(Steps) /\ script \in Seq(Steps)
        /\ cookies \in Seq(Steps) /\ wait \in Seq(Steps) /\ shot \in Seq(Steps)
        /\ <<"html">> \in Seq(Steps)
    <2>1. {"user agent", "headers", "script", "cookies", "wait", "screenshot"} \subseteq Steps
      BY DEF Steps
    <2>2. <<"html">> \in Seq(Steps)
      BY <1>1
    <2> QED
      BY <2>1, <2>2, StepsIf
  <1>8. PageSteps(request) = navigated \o acted \o wait \o shot \o <<"html">>
    BY DEF PageSteps
  <1> HIDE DEF agent, headers, script, cookies, wait, shot, acted, first
  <1>9. Blocks(before)
    BY <1>2, <1>6, <1>7
  <1> HIDE DEF before
  <1>10. Both(navigated)
    BY <1>3, <1>9
  <1> HIDE DEF navigated
  <1>11. Both(navigated \o acted \o wait \o shot \o <<"html">>)
    <2> HIDE DEF Both
    <2>1. Both(navigated) => navigated \in Seq(Steps)
      BY DEF Both
    <2>2. \A s, t \in Seq(Steps) : Both(s) => Both(s \o t) /\ s \o t \in Seq(Steps)
      BY <1>4
    <2>3. Both(navigated \o acted) /\ navigated \o acted \in Seq(Steps)
      BY <1>5, <1>10, <2>1, <2>2
    <2>4. Both(navigated \o acted \o wait) /\ navigated \o acted \o wait \in Seq(Steps)
      BY <1>7, <2>2, <2>3
    <2>5. Both(navigated \o acted \o wait \o shot) /\ navigated \o acted \o wait \o shot \in Seq(Steps)
      BY <1>7, <2>2, <2>4
    <2> QED
      BY <1>7, <2>2, <2>5
  <1> QED
    BY <1>8, <1>11
\* BlockedByAnyLayer for all layers, lists and switches (mergeSpiderBrowserOptions,
\* mergeBrowserOptions, browserBlockedURLPatterns): no layer takes back what another
\* blocks, and the block is in force before the page is navigated.
THEOREM BlockedStaysBlocked ==
    ASSUME NEW session, NEW adapter, NEW request, NEW rotated, NEW D, NEW A,
           HaveAllOptions({session, adapter.options}),
           \A o \in {session, adapter.options, request.options} : o.blocked \in Seq(D) /\ o.actions \in Seq(A)
    PROVE  BlockedByAnyLayer(session, adapter, request, rotated)
  <1> DEFINE wanted == Asked(session, adapter, request, rotated)
             sent == BrowserSent(session, adapter, request, rotated)
             layers == {session, adapter.options, request.options}
             blocked == UNION {BlockedPatterns(layer) : layer \in layers}
             steps == PageSteps(sent)
  <1>1. SUFFICES ASSUME sent # Refused
                 PROVE  /\ blocked \subseteq BlockedPatterns(sent)
                        /\ blocked # {} => \E i, j \in DOMAIN steps :
                              i < j /\ steps[i] = "block" /\ steps[j] = "navigate"
    BY DEF BlockedByAnyLayer
  <1>2. sent = NewBrowserRequest(wanted)
    BY DEF BrowserSent, Asked
  <1>3. AskedOf(session, adapter, request, rotated)
    BY AskedIs
  <1>4. /\ DOMAIN wanted = {"headers", "fields", "switches", "proxy", "wait", "cookies", "blocked", "flags", "actions", "shot"}
        /\ BrowserFields \subseteq DOMAIN wanted.fields
        /\ BrowserSwitches \subseteq DOMAIN wanted.switches
        /\ \A s \in {"disableResources", "blockAds"} :
              wanted.switches[s] = (session.switches[s] \/ (adapter.options.switches[s] \/ request.options.switches[s]))
        /\ wanted.blocked = session.blocked \o (adapter.options.blocked \o request.options.blocked)
        /\ wanted.actions = session.actions \o (adapter.options.actions \o request.options.actions)
    BY <1>3 DEF AskedOf
  <1> HIDE DEF wanted, sent
  <1>5. /\ sent.blocked = wanted.blocked /\ sent.actions = wanted.actions
        /\ \A s \in {"disableResources", "blockAds"} : sent.switches[s] = wanted.switches[s]
    BY <1>1, <1>2, <1>4, RequestIs
  <1>6. Range(sent.blocked) = UNION {Range(o.blocked) : o \in layers}
    <2> DEFINE lower == adapter.options.blocked \o request.options.blocked
    <2>1. lower \in Seq(D) /\ Range(lower) = Range(adapter.options.blocked) \cup Range(request.options.blocked)
      BY RangeConcatenation
    <2> HIDE DEF lower
    <2>2. Range(session.blocked \o lower) = Range(session.blocked) \cup Range(lower)
      BY <2>1, RangeConcatenation
    <2> QED
      BY <1>4, <1>5, <2>1, <2>2 DEF lower
  <1>7. \A s \in {"disableResources", "blockAds"} : \A o \in layers : o.switches[s] => sent.switches[s]
    BY <1>4, <1>5
  <1>8. blocked \subseteq BlockedPatterns(sent)
    <2>1. ASSUME NEW o \in layers
          PROVE  BlockedPatterns(o) \subseteq BlockedPatterns(sent)
      BY <1>6, <1>7 DEF BlockedPatterns
    <2> QED
      BY <2>1
  <1>9. sent.actions \in Seq(A)
    BY <1>4, <1>5
  <1> QED
    BY <1>8, <1>9, BlockedBeforeNavigated
----------------------------------------------------------------------------
(* Whatever layers are merged *)

LEMMA SeqWider ==
    ASSUME NEW S, NEW T, S \subseteq T, NEW s \in Seq(S)
    PROVE  s \in Seq(T)
  OBVIOUS

\* What a function is given is what was chosen for it.
LEMMA ChosenIs ==
    ASSUME NEW k, NEW inputs, Choose(k, inputs)
    PROVE  input'.k = k /\ "of" \in DOMAIN input' /\ input'.of \in inputs
  <1>1. PICK x \in inputs : input' = Input(k, x)
    BY DEF Choose
  <1> QED
    BY <1>1 DEF Input

\* OptionsRight for all sessions, adapters, requests and chosen proxies whose layers are
\* whole: the static and the browser fetches of the spider (session_adapters.go,
\* fetcher_session.go, browser_session.go) take each option from where it was asked for.
THEOREM OptionsAlwaysRight == LibrarySpec => []OptionsRight
  <1> DEFINE Inv == /\ Given("static options") => input.of \in StaticFetches
                    /\ Given("browser options") => input.of \in BrowserFetches
  <1>1. LibraryInit => Inv
    <2>1. LibraryInit => "of" \notin DOMAIN input
      BY DEF LibraryInit
    <2> QED
      BY <2>1 DEF Given
  <1>2. Inv /\ [LibraryNext]_input => Inv'
    <2> SUFFICES ASSUME Inv, [LibraryNext]_input
                 PROVE  Inv'
      OBVIOUS
    <2>1. CASE Choose("static options", StaticFetches)
      <3>1. input'.k = "static options" /\ input'.of \in StaticFetches
        BY <2>1, ChosenIs
      <3> QED
        BY <3>1 DEF Given
    <2>2. CASE Choose("browser options", BrowserFetches)
      <3>1. input'.k = "browser options" /\ input'.of \in BrowserFetches
        BY <2>2, ChosenIs
      <3> QED
        BY <3>1 DEF Given
    <2>4. CASE RobotsInput \/ PagesInput
      <3>1. input'.k \in {"robots", "shapes", "similar", "relocation", "selectors"}
        BY <2>4, ChosenIs DEF RobotsInput, PagesInput
      <3> QED
        BY <3>1 DEF Given
    <2>3. CASE UNCHANGED input
      BY <2>3 DEF Given
    <2> QED
      BY <2>1, <2>2, <2>3, <2>4 DEF LibraryNext, OptionsInput
  <1>3. Inv => OptionsRight
    <2> SUFFICES ASSUME Inv
                 PROVE  OptionsRight
      OBVIOUS
    <2> DEFINE f == input.of
               session == f.session
               adapter == f.adapter
               request == f.request
    <2>1. ASSUME Given("static options")
          PROVE  RouteOfNearestLayer(session, adapter, request) /\ HeaderOfNearestLayer(session, adapter, request)
      <3>1. /\ StaticFields \subseteq DOMAIN adapter.fields
            /\ Valued(session.headers) /\ Valued(adapter.headers)
            /\ Valued(request.options.headers) /\ Valued(request.headers)
        BY <2>1, OptionsAssumption
      <3> HIDE DEF session, adapter, request
      <3> QED
        BY <3>1, RouteAlwaysNearest, HeaderAlwaysNearest
    <2>2. ASSUME Given("browser options")
          PROVE  /\ BlockedByAnyLayer(session, adapter, request, RotatedProxy)
                 /\ ProxyKeptWhole(session, adapter, request, RotatedProxy)
                 /\ WaitKeptWhole(session, adapter, request, RotatedProxy)
                 /\ BrowserHeadersKept(session, adapter, request, RotatedProxy)
      <3> DEFINE layers == {session, adapter.options, request.options}
                 D == UNION {Range(o.blocked) : o \in layers}
                 A == UNION {Range(o.actions) : o \in layers}
      <3>1. /\ HaveAllOptions({session, adapter.options})
            /\ Valued(session.headers) /\ Valued(adapter.options.headers)
            /\ Valued(request.options.headers) /\ Valued(request.headers)
            /\ \A o \in layers : o.blocked \in Seq(Range(o.blocked)) /\ o.actions \in Seq(Range(o.actions))
        BY <2>2, OptionsAssumption
      <3>2. \A o \in layers : o.blocked \in Seq(D) /\ o.actions \in Seq(A)
        <4> SUFFICES ASSUME NEW o \in layers
                     PROVE  o.blocked \in Seq(D) /\ o.actions \in Seq(A)
          OBVIOUS
        <4>1. Range(o.blocked) \subseteq D /\ Range(o.actions) \subseteq A
          OBVIOUS
        <4>2. o.blocked \in Seq(Range(o.blocked)) /\ o.actions \in Seq(Range(o.actions))
          BY <3>1
        <4> HIDE DEF D, A
        <4> QED
          BY <4>1, <4>2, SeqWider
      <3> HIDE DEF session, adapter, request, D, A
      <3>3. BlockedByAnyLayer(session, adapter, request, RotatedProxy)
        BY <3>1, <3>2, BlockedStaysBlocked
      <3>4. ProxyKeptWhole(session, adapter, request, RotatedProxy)
        BY <3>1, ProxyAlwaysWhole
      <3>5. BrowserHeadersKept(session, adapter, request, RotatedProxy)
        BY <3>1, BrowserHeadersAlwaysKept
      <3>6. WaitKeptWhole(session, adapter, request, RotatedProxy)
        BY <3>1, WaitAlwaysWhole
      <3> QED
        BY <3>3, <3>4, <3>5, <3>6
    <2> QED
      BY <2>1, <2>2 DEF OptionsRight
  <1> QED
    BY <1>1, <1>2, <1>3, PTL DEF LibrarySpec
=============================================================================
