---------------------------- MODULE CrawlSafety ----------------------------
(***************************************************************************)
(* The types and the safety theorems of Crawl, for every value of its      *)
(* constants.                                                              *)
(*                                                                         *)
(* TypeInv has the types of all variables.  RunInv relates the run         *)
(* goroutine's books to its goroutines: how many there are, whose requests *)
(* are in activeRequests, and when activeRequests may hold a request that  *)
(* no goroutine works on any more.                                         *)
(***************************************************************************)
EXTENDS Crawl, FiniteSetTheorems, SequenceTheorems, TLAPS

\* Types, and the sets that Cardinality is taken of are finite.
TypeInv ==
    /\ TypeOK
    /\ IsFiniteSet(queue)
    /\ disk # Absent => IsFiniteSet(disk.requests)
    /\ tmp \notin {Absent, Torn} => IsFiniteSet(tmp.requests)
    /\ main = "renaming" => tmp \notin {Absent, Torn}

----------------------------------------------------------------------------
(***************************************************************************)
(* The scheduler's operations.                                             *)
(***************************************************************************)
\* A request's fingerprint is one.
LEMMA FingerprintType ==
    ASSUME NEW r \in Request
    PROVE  Fingerprint(r) \in Fingerprints
  BY DEF Request, Fingerprint, Fingerprints

LEMMA FilteredInType ==
    ASSUME NEW S, S \subseteq Entry
    PROVE  FilteredIn(S) \subseteq Fingerprints
  BY FingerprintType DEF FilteredIn, Entry

\* Offering a request keeps the scheduler well typed and its queue finite.
LEMMA OfferType ==
    ASSUME SchedulerTypeOK, IsFiniteSet(queue), NEW r \in Request, Offer(r)
    PROVE  SchedulerTypeOK' /\ IsFiniteSet(queue')
  <1>1. CASE Accepts(r)
    <2> DEFINE e == [request |-> r, order |-> counter + 1]
    <2>1. e \in Entry
      BY DEF Entry, SchedulerTypeOK
    <2>2. queue' = queue \cup {e} /\ counter' = counter + 1
      BY <1>1 DEF Offer, Enqueue
    <2>3. seen' \subseteq Fingerprints
      BY <1>1, FingerprintType DEF Offer, Enqueue, SchedulerTypeOK
    <2>4. IsFiniteSet(queue')
      BY <2>2, FS_AddElement
    <2> QED
      BY <2>1, <2>2, <2>3, <2>4 DEF SchedulerTypeOK
  <1>2. CASE ~Accepts(r)
    BY <1>2 DEF Offer, schedVars, SchedulerTypeOK
  <1> QED
    BY <1>1, <1>2

LEMMA DequeueType ==
    ASSUME SchedulerTypeOK, IsFiniteSet(queue), NEW e, Dequeue(e)
    PROVE  SchedulerTypeOK' /\ IsFiniteSet(queue') /\ e.request \in Request
  <1>1. queue' \subseteq queue /\ e \in queue
    BY DEF Dequeue
  <1>2. IsFiniteSet(queue')
    BY <1>1, FS_Subset
  <1> QED
    BY <1>1, <1>2 DEF Dequeue, SchedulerTypeOK, Entry

\* The list of a finite set of entries is a finite set of entries, and holds the
\* same requests.
LEMMA ListingType ==
    ASSUME NEW S, S \subseteq Entry, IsFiniteSet(S)
    PROVE  /\ Listing(S) \subseteq Entry
           /\ IsFiniteSet(Listing(S))
           /\ {e.request : e \in Listing(S)} = {e.request : e \in S}
  <1> DEFINE place(e) == [request |-> e.request,
                          order |-> Cardinality({x \in S : Precedes(x, e)}) + 1]
  <1>1. \A e \in S : Cardinality({x \in S : Precedes(x, e)}) \in Nat
    BY FS_Subset, FS_CardinalityType
  <1>2. \A e \in S : place(e) \in Entry
    BY <1>1 DEF Entry
  <1>3. Listing(S) = {place(e) : e \in S}
    BY DEF Listing
  <1>4. IsFiniteSet({place(e) : e \in S})
    <2> DEFINE f == [e \in S |-> place(e)]
               T == {place(e) : e \in S}
    <2>1. f \in Surjection(S, T)
      BY DEF Surjection
    <2> QED
      BY <2>1, FS_Surjection
  <1>5. {e.request : e \in Listing(S)} = {e.request : e \in S}
    <2>1. \A e \in S : place(e).request = e.request
      OBVIOUS
    <2> HIDE DEF place
    <2> QED
      BY <1>3, <2>1
  <1>6. Listing(S) \subseteq Entry
    BY <1>2, <1>3
  <1>7. IsFiniteSet(Listing(S))
    BY <1>3, <1>4
  <1> QED
    BY <1>5, <1>6, <1>7

----------------------------------------------------------------------------
(***************************************************************************)
(* Type correctness.                                                       *)
(***************************************************************************)
LEMMA InitialValues ==
    /\ Blank \in Request
    /\ Nobody \in [task : Nat, request : Request, err : ErrKinds \cup {"none"}]
    /\ NoStats \in [StatNames -> Nat]
    /\ NoPast \in Past
    /\ [d \in Domains |-> 0] \in [Domains -> Int]
    /\ DOMAIN NoTasks = {}
  <1>1. Blank \in Request
    BY CrawlAssumption DEF Blank, Request
  <1>2. NoStats \in [StatNames -> Nat]
    BY DEF NoStats
  <1>3. NoPast \in Past
    BY DEF NoPast, Past
  <1> QED
    BY <1>1, <1>2, <1>3 DEF Nobody, ErrKinds, NoTasks

LEMMA FreshRunType ==
    ASSUME TypeInv, FreshRun, UNCHANGED fileVars, runs' \in Nat,
           \/ main' = "down" /\ start' = <<>>
           \/ main' = "loading" /\ start' \in Starts
    PROVE  TypeInv'
  <1>1. start' \in Seq(Request) /\ cursor' \in 0..Len(start')
    <2>1. start' \in Seq(Request)
      BY CrawlAssumption, EmptySeq
    <2> QED
      BY <2>1, LenProperties DEF FreshRun
  <1>2. main' = "loading" => cursor' < Len(start')
    BY CrawlAssumption, EmptySeq DEF FreshRun
  <1>3. SchedulerTypeOK' /\ IsFiniteSet(queue')
    BY FS_EmptySet DEF FreshRun, SchedulerTypeOK
  <1>4. /\ ctxErr' \in {"none", "canceled", "deadline"} /\ stopErr' \in StopErrs /\ runErr' \in RunErrs
        /\ active' \in Nat /\ nextTaskID' \in Nat /\ stream' \in Nat /\ paused' \in BOOLEAN
        /\ DOMAIN activeRequests' = {} /\ DOMAIN tasks' = {}
        /\ outputs' \in Seq(Output)
    BY InitialValues, EmptySeq DEF FreshRun, StopErrs, RunErrs
  <1>5. /\ hand' \in [task : Nat, request : Request, err : ErrKinds \cup {"none"}]
        /\ parent' \in Request /\ stats' \in [StatNames -> Nat] /\ past' \in Past
        /\ slots' \in [Domains -> Int] /\ interrupted' \subseteq Fingerprints
    BY InitialValues DEF FreshRun
  <1>6. /\ disk' \in FileSnapshot \cup {Absent} /\ tmp' \in FileSnapshot \cup {Absent, Torn}
        /\ diskPast' \in Past
        /\ disk' # Absent => IsFiniteSet(disk'.requests)
        /\ tmp' \notin {Absent, Torn} => IsFiniteSet(tmp'.requests)
    BY DEF TypeInv, TypeOK, fileVars
  <1> QED
    BY <1>1, <1>2, <1>3, <1>4, <1>5, <1>6 DEF TypeInv, TypeOK
LEMMA FinishType ==
    ASSUME NEW err \in RunErrs, Finish(err)
    PROVE  main' = "done" /\ runErr' \in RunErrs
  BY DEF Finish, RunErrs, StopErrs

LEMMA StopType ==
    ASSUME NEW err \in StopErrs, Stop(err),
           stopErr \in StopErrs, ctxErr \in {"none", "canceled", "deadline"}
    PROVE  stopErr' \in StopErrs /\ ctxErr' \in {"none", "canceled", "deadline"}
  BY DEF Stop

LEMMA SettleType ==
    ASSUME NEW r \in Request, NEW S \in SUBSET Fingerprints, NEW U \in SUBSET Urls,
           past \in Past, Settle(r, S, U)
    PROVE  past' \in Past
  BY FingerprintType DEF Settle, Past

LEMMA CountType ==
    ASSUME stats \in [StatNames -> Nat], NEW names
    PROVE  Count(names) \in [StatNames -> Nat]
  BY DEF Count

\* Everything the tasks and the run goroutine leave alone when they set up.
LEMMA SetupType ==
    ASSUME TypeInv, FailSetup \/ Resume \/ EnqueueStart \/ OnStart \/ CheckContext
    PROVE  TypeInv'
  <1>1. CASE FailSetup
    BY <1>1 DEF FailSetup, TypeInv, TypeOK, SchedulerTypeOK, schedVars, runVars, fileVars, RunErrs, StopErrs
  <1>2. CASE Resume
    <2>1. disk \in FileSnapshot /\ IsFiniteSet(disk.requests)
      BY <1>2 DEF Resume, TypeInv, TypeOK
    <2>2. SchedulerTypeOK' /\ IsFiniteSet(queue')
      BY <1>2, <2>1, FilteredInType, FS_CardinalityType
         DEF Resume, Restore, FileSnapshot, SchedulerTypeOK
    <2> QED
      BY <1>2, <2>2 DEF Resume, TypeInv, TypeOK, runVars, fileVars
  <1>3. CASE EnqueueStart
    <2> DEFINE request == start[cursor + 1]
    <2>1. request \in Request /\ cursor + 1 \in 1..Len(start)
      BY <1>3, ElementOfSeq, LenProperties DEF EnqueueStart, TypeInv, TypeOK
    <2>2. CASE request.url \in Invalid
      <3>1. main' = "done" /\ runErr' \in RunErrs
        BY <1>3, <2>2, FinishType DEF EnqueueStart, RunErrs, StopErrs
      <3> QED
        BY <1>3, <2>2, <3>1 DEF EnqueueStart, TypeInv, TypeOK, SchedulerTypeOK, schedVars, fileVars
    <2>3. CASE request.url \notin Invalid
      <3>1. SchedulerTypeOK' /\ IsFiniteSet(queue')
        BY <1>3, <2>1, <2>3, OfferType DEF EnqueueStart, TypeInv, TypeOK
      <3>2. stats' \in [StatNames -> Nat]
        BY <1>3, <2>3, CountType DEF EnqueueStart, TypeInv, TypeOK
      <3>3. cursor' \in 0..Len(start) /\ (main' = "loading" => cursor' < Len(start))
        BY <1>3, <2>1, <2>3, LenProperties DEF EnqueueStart, TypeInv, TypeOK
      <3>4. main' \in {"loading", "starting"} /\ runErr' = runErr /\ start' = start
        BY <1>3, <2>3 DEF EnqueueStart
      <3> QED
        BY <1>3, <2>3, <3>1, <3>2, <3>3, <3>4 DEF EnqueueStart, TypeInv, TypeOK, fileVars
    <2> QED
      BY <2>2, <2>3
  <1>4. CASE OnStart
    BY <1>4 DEF OnStart, TypeInv, TypeOK, SchedulerTypeOK, schedVars, runVars, fileVars
  <1>5. CASE CheckContext
    <2>1. stopErr' \in StopErrs /\ ctxErr' \in {"none", "canceled", "deadline"}
      BY <1>5, StopType DEF CheckContext, TypeInv, TypeOK, StopErrs
    <2> QED
      BY <1>5, <2>1 DEF CheckContext, TypeInv, TypeOK, SchedulerTypeOK, schedVars, runVars, fileVars
  <1> QED
    BY <1>1, <1>2, <1>3, <1>4, <1>5
\* The loop: launching a task.
LEMMA StartReadyTaskType ==
    ASSUME TypeInv, StartReadyTask
    PROVE  TypeInv'
  <1>1. PICK e \in queue :
          /\ Dequeue(e)
          /\ activeRequests' = With(activeRequests, nextTaskID + 1, e.request)
          /\ tasks' = With(tasks, nextTaskID + 1, NewTask(e.request))
    BY DEF StartReadyTask
  <1>2. SchedulerTypeOK' /\ IsFiniteSet(queue') /\ e.request \in Request
    BY <1>1, DequeueType DEF TypeInv, TypeOK
  <1>3. NewTask(e.request) \in Task
    BY <1>2 DEF NewTask, Task, TaskResult, Steps, Kinds
  <1>4. /\ DOMAIN activeRequests' \subseteq 1..nextTaskID'
        /\ \A t \in DOMAIN activeRequests' : activeRequests'[t] \in Request
    BY <1>1, <1>2 DEF StartReadyTask, With, TypeInv, TypeOK
  <1>5. /\ DOMAIN tasks' \subseteq 1..nextTaskID'
        /\ \A t \in DOMAIN tasks' : tasks'[t] \in Task
    <2>1. \A t \in DOMAIN tasks' : tasks'[t] = NewTask(e.request) \/ (t \in DOMAIN tasks /\ tasks'[t] = tasks[t])
      BY <1>1 DEF With
    <2>2. DOMAIN tasks' = DOMAIN tasks \cup {nextTaskID + 1} /\ nextTaskID' = nextTaskID + 1
      BY <1>1 DEF StartReadyTask, With
    <2> QED
      BY <1>3, <2>1, <2>2 DEF TypeInv, TypeOK
  <1> QED
    BY <1>2, <1>4, <1>5 DEF StartReadyTask, TypeInv, TypeOK, fileVars

\* The loop: the result of a task.
LEMMA HandleTaskResultType ==
    ASSUME TypeInv, HandleTaskResult
    PROVE  TypeInv'
  <1>1. PICK t \in DOMAIN tasks : TakesResult(t)
    BY DEF HandleTaskResult
  <1>2. /\ tasks[t].request \in Request /\ tasks[t].request.url \in Urls
        /\ tasks[t].result.retry \in Request /\ tasks[t].result.err \in ErrKinds \cup {"none"}
        /\ t \in Nat
    BY DEF TypeInv, TypeOK, Task, TaskResult, Request
  <1>3. /\ DOMAIN activeRequests' \subseteq 1..nextTaskID
        /\ \A u \in DOMAIN activeRequests' : activeRequests'[u] \in Request
        /\ DOMAIN tasks' \subseteq 1..nextTaskID
        /\ \A u \in DOMAIN tasks' : tasks'[u] \in Task
    BY <1>1 DEF TakesResult, Without, TypeInv, TypeOK
  <1> DEFINE Updated ==
        /\ SchedulerTypeOK' /\ IsFiniteSet(queue')
        /\ hand' \in [task : Nat, request : Request, err : ErrKinds \cup {"none"}]
        /\ past' \in Past /\ stats' \in [StatNames -> Nat]
        /\ outputs' \in Seq(Output) /\ parent' \in Request
        /\ (main' = "outputs" => outputs' # <<>>) /\ main' \in {"errored", "top", "outputs"}
  <1> USE DEF TypeInv, TypeOK
  <1>4. ASSUME ResultErr(t) PROVE Updated
    <2>1. hand' \in [task : Nat, request : Request, err : ErrKinds \cup {"none"}]
      <3> HIDE DEF TypeInv
      <3> QED BY <1>2, <1>4 DEF ResultErr
    <2>2. main' = "errored" /\ UNCHANGED <<queue, seen, counter, stats, past, parent, outputs>>
      BY <1>4 DEF ResultErr, schedVars
    <2>3. SchedulerTypeOK' /\ IsFiniteSet(queue')
      BY <2>2 DEF SchedulerTypeOK
    <2> QED
      BY <2>1, <2>2, <2>3
  <1>5. ASSUME ResultRobots(t) \/ ResultBlocked(t) PROVE Updated
    <2>1. {Fingerprint(tasks[t].request)} \in SUBSET Fingerprints /\ {} \in SUBSET Urls
      BY <1>2, FingerprintType
    <2>2. past' \in Past
      BY <1>2, <1>5, <2>1, SettleType DEF ResultRobots, ResultBlocked
    <2> QED
      BY <1>5, <2>2, CountType DEF ResultRobots, ResultBlocked, schedVars, SchedulerTypeOK
  <1>6. ASSUME ResultRetry(t) PROVE Updated
    <2> DEFINE settled == IF Accepts(tasks[t].result.retry) THEN {} ELSE {Fingerprint(tasks[t].request)}
    <2>1. /\ SchedulerTypeOK /\ IsFiniteSet(queue)
          /\ past \in Past /\ stats \in [StatNames -> Nat]
      BY DEF TypeInv, TypeOK
    <2>2. settled \in SUBSET Fingerprints /\ {} \in SUBSET Urls
      BY <1>2, FingerprintType
    <2>3. Offer(tasks[t].result.retry) /\ Settle(tasks[t].request, settled, {})
      BY <1>6 DEF ResultRetry
    <2>4. past' \in Past
      <3> HIDE DEF settled
      <3> QED BY <1>2, <2>1, <2>2, <2>3, SettleType
    <2>5. SchedulerTypeOK' /\ IsFiniteSet(queue')
      BY <1>2, <2>1, <2>3, OfferType
    <2>6. stats' \in [StatNames -> Nat]
      BY <1>6, <2>1, CountType DEF ResultRetry
    <2>7. main' = "top" /\ UNCHANGED <<hand, parent, outputs>>
      BY <1>6 DEF ResultRetry
    <2> QED
      BY <2>4, <2>5, <2>6, <2>7
  <1>7. ASSUME ResultOk(t) PROVE Updated
    <2>1. outputs' \in Seq(Output)
      BY <1>2, <1>7, CrawlAssumption DEF ResultOk
    <2>2. past' \in Past
      <3>1. /\ {Fingerprint(tasks[t].request)} \in SUBSET Fingerprints
            /\ {tasks[t].request.url} \in SUBSET Urls
        BY <1>2, FingerprintType
      <3> QED
        BY <1>2, <1>7, <3>1, SettleType DEF ResultOk
    <2> QED
      BY <1>2, <1>7, <2>1, <2>2, CountType DEF ResultOk, schedVars, SchedulerTypeOK
  <1>8. Updated
    BY <1>1, <1>4, <1>5, <1>6, <1>7 DEF TakesResult
  <1>9. active' \in Nat
    BY DEF HandleTaskResult, Waiting
  <1> QED
    BY <1>3, <1>8, <1>9 DEF HandleTaskResult, fileVars

\* The loop: an error, and the end of the context.
LEMMA StoppingType ==
    ASSUME TypeInv, HandleTaskError \/ ObserveDone
    PROVE  TypeInv'
  <1>1. CASE HandleTaskError
    <2>1. stopErr' \in StopErrs /\ ctxErr' \in {"none", "canceled", "deadline"}
      BY <1>1, StopType DEF HandleTaskError, TypeInv, TypeOK, StopErrs
    <2>2. stats' \in [StatNames -> Nat] /\ past' \in Past
      <3>1. hand.request \in Request /\ stats \in [StatNames -> Nat] /\ past \in Past
        BY DEF TypeInv, TypeOK
      <3>2. {Fingerprint(hand.request)} \in SUBSET Fingerprints /\ {} \in SUBSET Urls
        BY <3>1, FingerprintType
      <3>3. \/ UNCHANGED <<stats, past>>
            \/ /\ stats' = Count({"failed"})
               /\ Settle(hand.request, {Fingerprint(hand.request)}, {})
        BY <1>1 DEF HandleTaskError
      <3> QED
        BY <3>1, <3>2, <3>3, CountType, SettleType
    <2> QED
      BY <1>1, <2>1, <2>2, InitialValues
         DEF HandleTaskError, TypeInv, TypeOK, SchedulerTypeOK, schedVars, fileVars
  <1>2. CASE ObserveDone
    <2>1. stopErr' \in StopErrs /\ ctxErr' \in {"none", "canceled", "deadline"}
      BY <1>2, StopType DEF ObserveDone, TypeInv, TypeOK, StopErrs
    <2> QED
      BY <1>2, <2>1 DEF ObserveDone, TypeInv, TypeOK, SchedulerTypeOK, schedVars, runVars, fileVars
  <1> QED
    BY <1>1, <1>2
\* handleOutput.
LEMMA OutputsType ==
    ASSUME TypeInv, RejectItem \/ KeepItem \/ EnqueueOutput
    PROVE  TypeInv'
  <1>1. main = "outputs" /\ outputs \in Seq(Output) /\ outputs # <<>>
    BY DEF RejectItem, KeepItem, EnqueueOutput, TypeInv, TypeOK
  <1>2. Head(outputs) \in Output /\ Tail(outputs) \in Seq(Output)
    BY <1>1, HeadTailProperties
  <1>3. /\ stopErr \in StopErrs /\ ctxErr \in {"none", "canceled", "deadline"}
        /\ {"canceled", "deadline", "hook", "url"} \subseteq StopErrs
        /\ stats \in [StatNames -> Nat] /\ SchedulerTypeOK /\ IsFiniteSet(queue)
    BY DEF TypeInv, TypeOK, StopErrs
  <1>4. CASE RejectItem
    <2>1. stopErr' \in StopErrs /\ ctxErr' \in {"none", "canceled", "deadline"}
      BY <1>3, <1>4, StopType DEF RejectItem
    <2>2. stats' \in [StatNames -> Nat]
      BY <1>3, <1>4, CountType DEF RejectItem
    <2>3. outputs' \in Seq(Output) /\ (main' = "outputs" => outputs' # <<>>) /\ main' \in {"top", "outputs"}
      BY <1>2, <1>4 DEF RejectItem, NextOutput
    <2> QED
      BY <1>4, <2>1, <2>2, <2>3
         DEF RejectItem, TypeInv, TypeOK, SchedulerTypeOK, schedVars, fileVars
  <1>5. CASE KeepItem
    <2>1. stopErr' \in StopErrs /\ ctxErr' \in {"none", "canceled", "deadline"}
      BY <1>3, <1>5, StopType DEF KeepItem, SendItem
    <2>2. stats' \in [StatNames -> Nat]
      BY <1>3, <1>5, CountType DEF KeepItem
    <2>3. [Head(outputs) EXCEPT !.item = FALSE] \in Output
      BY <1>2 DEF Output
    <2>4. outputs' \in Seq(Output) /\ outputs' # <<>>
      BY <1>2, <1>5, <2>3 DEF KeepItem
    <2>5. stream' \in Nat
      BY <1>5 DEF KeepItem, SendItem, TypeInv, TypeOK
    <2> QED
      BY <1>5, <2>1, <2>2, <2>4, <2>5
         DEF KeepItem, TypeInv, TypeOK, SchedulerTypeOK, schedVars, fileVars
  <1>6. CASE EnqueueOutput
    <2>1. stopErr' \in StopErrs /\ ctxErr' \in {"none", "canceled", "deadline"}
      BY <1>3, <1>6, StopType DEF EnqueueOutput
    <2>2. stats' \in [StatNames -> Nat]
      BY <1>3, <1>6, CountType DEF EnqueueOutput
    <2>3. outputs' \in Seq(Output) /\ (main' = "outputs" => outputs' # <<>>) /\ main' \in {"top", "outputs"}
      BY <1>2, <1>6 DEF EnqueueOutput, NextOutput
    <2>4. \A link \in Head(outputs).next : LinkRequest(link) \in Request
      BY <1>2 DEF LinkRequest, Output, Link, Request, TypeInv, TypeOK
    <2>5. SchedulerTypeOK' /\ IsFiniteSet(queue')
      BY <1>3, <1>6, <2>4, OfferType DEF EnqueueOutput, schedVars, SchedulerTypeOK
    <2> QED
      BY <1>6, <2>1, <2>2, <2>3, <2>5 DEF EnqueueOutput, TypeInv, TypeOK, fileVars
  <1> QED
    BY <1>4, <1>5, <1>6

\* What is written to the checkpoint is a finite list of requests.
LEMMA PauseSnapshotType ==
    ASSUME TypeInv
    PROVE  PauseSnapshot \in FileSnapshot /\ IsFiniteSet(PauseSnapshot.requests)
  <1> DEFINE inFlight == DOMAIN activeRequests
             place(t) == [request |-> activeRequests[t],
                          order |-> Cardinality({u \in inFlight : u < t}) + 1]
             later(e) == [request |-> e.request, order |-> Cardinality(InFlightList) + e.order]
             later_list == {later(e) : e \in Snapshot.requests}
  <1>1. IsFiniteSet(inFlight)
    <2>1. nextTaskID \in Int /\ inFlight \subseteq 1..nextTaskID
      BY DEF TypeInv, TypeOK
    <2>2. IsFiniteSet(1..nextTaskID)
      BY <2>1, FS_Interval
    <2> QED
      BY <2>1, <2>2, FS_Subset
  <1>2. InFlightList \subseteq Entry
    <2>1. \A t \in inFlight : Cardinality({u \in inFlight : u < t}) \in Nat
      BY <1>1, FS_Subset, FS_CardinalityType
    <2>2. \A t \in inFlight : activeRequests[t] \in Request
      BY DEF TypeInv, TypeOK
    <2>3. \A t \in inFlight : place(t) \in Entry
      BY <2>1, <2>2 DEF Entry
    <2> QED
      BY <2>3 DEF InFlightList
  <1>3. IsFiniteSet(InFlightList)
    <2>1. [t \in inFlight |-> place(t)] \in Surjection(inFlight, InFlightList)
      BY DEF Surjection, InFlightList
    <2> QED
      BY <1>1, <2>1, FS_Surjection
  <1>4. Snapshot.requests \subseteq Entry /\ IsFiniteSet(Snapshot.requests)
    BY ListingType DEF Snapshot, TypeInv, TypeOK, SchedulerTypeOK
  <1>5. later_list \subseteq Entry
    BY <1>3, <1>4, FS_CardinalityType DEF Entry
  <1>6. IsFiniteSet(later_list)
    <2>1. [e \in Snapshot.requests |-> later(e)] \in Surjection(Snapshot.requests, later_list)
      BY DEF Surjection
    <2> QED
      BY <1>4, <2>1, FS_Surjection
  <1>7. PauseSnapshot = [requests |-> InFlightList \cup later_list, seen |-> seen]
    BY DEF PauseSnapshot, Joined, Snapshot
  <1>8. IsFiniteSet(InFlightList \cup later_list)
    BY <1>3, <1>6, FS_Union
  <1> HIDE DEF later_list
  <1> QED
    BY <1>2, <1>5, <1>7, <1>8 DEF FileSnapshot, TypeInv, TypeOK, SchedulerTypeOK

\* The end of a run.
LEMMA EndingType ==
    ASSUME TypeInv, Pause \/ OpenTemp \/ WriteTemp \/ RenameTemp \/ Fail \/ Complete
    PROVE  TypeInv'
  <1>1. {"none", "io"} \subseteq RunErrs /\ StopErrs \subseteq RunErrs /\ stopErr \in StopErrs
    BY DEF RunErrs, StopErrs, TypeInv, TypeOK
  <1>2. CASE Pause
    <2>1. runErr' \in RunErrs /\ main' \in {"saving", "done"}
      BY <1>1, <1>2, FinishType DEF Pause, TypeInv, TypeOK
    <2> QED
      BY <1>2, <2>1 DEF Pause, TypeInv, TypeOK, SchedulerTypeOK, schedVars, fileVars
  <1>3. CASE OpenTemp
    BY <1>3 DEF OpenTemp, TypeInv, TypeOK, SchedulerTypeOK, schedVars, runVars
  <1>4. CASE WriteTemp
    <2>1. runErr' \in RunErrs /\ main' \in {"renaming", "done"}
      BY <1>1, <1>4, FinishType DEF WriteTemp, TypeInv, TypeOK
    <2>2. /\ tmp' \in FileSnapshot \cup {Absent, Torn}
          /\ tmp' \notin {Absent, Torn} => IsFiniteSet(tmp'.requests)
          /\ main' = "renaming" => tmp' \notin {Absent, Torn}
      BY <1>4, PauseSnapshotType, CrawlAssumption DEF WriteTemp, TypeInv, TypeOK, Finish
    <2> QED
      BY <1>4, <2>1, <2>2 DEF WriteTemp, TypeInv, TypeOK, SchedulerTypeOK, schedVars, runVars
  <1>5. CASE RenameTemp
    <2>1. runErr' \in RunErrs /\ main' = "done"
      BY <1>1, <1>5, FinishType DEF RenameTemp
    <2>2. /\ disk' \in FileSnapshot \cup {Absent} /\ diskPast' \in Past
          /\ disk' # Absent => IsFiniteSet(disk'.requests)
      BY <1>5 DEF RenameTemp, TypeInv, TypeOK
    <2> QED
      BY <1>5, <2>1, <2>2 DEF RenameTemp, TypeInv, TypeOK, SchedulerTypeOK, schedVars, runVars
  <1>6. CASE Fail
    <2>1. runErr' \in RunErrs /\ main' = "done"
      BY <1>1, <1>6, FinishType DEF Fail
    <2> QED
      BY <1>6, <2>1 DEF Fail, TypeInv, TypeOK, SchedulerTypeOK, schedVars, runVars, fileVars
  <1>7. CASE Complete
    <2>1. runErr' \in RunErrs /\ main' = "done"
      BY <1>1, <1>7, FinishType DEF Complete
    <2>2. /\ disk' \in FileSnapshot \cup {Absent} /\ diskPast' \in Past
          /\ disk' # Absent => IsFiniteSet(disk'.requests)
      BY <1>7, InitialValues DEF Complete, TypeInv, TypeOK
    <2> QED
      BY <1>7, <2>1, <2>2 DEF Complete, TypeInv, TypeOK, SchedulerTypeOK, schedVars, runVars
  <1> QED
    BY <1>2, <1>3, <1>4, <1>5, <1>6, <1>7
\* The request goroutines.
LEMMA TaskStepType ==
    ASSUME TypeInv, NEW t \in DOMAIN tasks, TaskStep(t)
    PROVE  TypeInv'
  <1>1. /\ tasks[t] \in Task /\ tasks[t].request \in Request
        /\ ctxErr \in ErrKinds \cup {"none"} /\ FetchErr \in ErrKinds \cup {"none"}
        /\ Faults \subseteq ErrKinds \cup {"none"}
    BY CrawlAssumption DEF TypeInv, TypeOK, Task, FetchErr, ErrKinds
  <1>2. ASSUME NEW step \in Steps, Advance(t, step)
        PROVE  DOMAIN tasks' = DOMAIN tasks /\ \A u \in DOMAIN tasks : tasks'[u] \in Task
    BY <1>2 DEF Advance, TypeInv, TypeOK, Task
  <1>3. ASSUME NEW kind \in Kinds, NEW err \in ErrKinds \cup {"none"}, NEW retry \in Request,
               Return(t, kind, err, retry)
        PROVE  DOMAIN tasks' = DOMAIN tasks /\ \A u \in DOMAIN tasks : tasks'[u] \in Task
    <2>1. [kind |-> kind, err |-> err, retry |-> retry] \in TaskResult
      BY DEF TaskResult
    <2> QED
      BY <1>3, <2>1, ZenonT(40) DEF Return, TypeInv, TypeOK, Task, Steps
  <1>4. ASSUME NEW err \in ErrKinds \cup {"none"}, ReturnErr(t, err)
        PROVE  DOMAIN tasks' = DOMAIN tasks /\ \A u \in DOMAIN tasks : tasks'[u] \in Task
    BY <1>1, <1>3, <1>4 DEF ReturnErr, Kinds
  <1>5. \A filtered \in BOOLEAN : RetryOf(tasks[t].request, filtered) \in Request
    BY <1>1 DEF RetryOf, Request
  <1>6. {"acquire", "delay", "fetch", "callback"} \subseteq Steps /\ {"robots", "blocked", "retry", "ok"} \subseteq Kinds
        /\ "none" \in ErrKinds \cup {"none"}
    BY DEF Steps, Kinds
  <1>7. DOMAIN tasks' = DOMAIN tasks /\ \A u \in DOMAIN tasks : tasks'[u] \in Task
    <2>1. CASE CheckRobots(t)
      BY <1>1, <1>2, <1>3, <1>6, <2>1 DEF CheckRobots
    <2>2. CASE Acquire(t)
      BY <1>1, <1>2, <1>4, <1>6, <2>2 DEF Acquire
    <2>3. CASE Sleep(t)
      BY <1>1, <1>2, <1>4, <1>6, <2>3 DEF Sleep
    <2>4. CASE Fetch(t)
      BY <1>1, <1>2, <1>3, <1>4, <1>5, <1>6, <2>4, CrawlAssumption DEF Fetch
    <2>5. CASE RunCallback(t)
      BY <1>1, <1>3, <1>4, <1>6, <2>5 DEF RunCallback
    <2> QED
      BY <2>1, <2>2, <2>3, <2>4, <2>5 DEF TaskStep
  <1>8. slots' \in [Domains -> Int]
    <2>1. slots \in [Domains -> Int]
      BY DEF TypeInv, TypeOK
    <2>2. \/ UNCHANGED slots \/ Release(t)
          \/ slots' = [slots EXCEPT ![TaskDomain(t)] = @ + 1]
      BY DEF TaskStep, CheckRobots, Acquire, Sleep, Fetch, RunCallback
    <2> QED
      BY <2>1, <2>2 DEF Release
  <1>9. interrupted' \subseteq Fingerprints
    <2>1. interrupted \subseteq Fingerprints /\ Fingerprint(tasks[t].request) \in Fingerprints
      BY <1>1, FingerprintType DEF TypeInv, TypeOK
    <2> QED
      BY <2>1 DEF TaskStep, CheckRobots, Acquire, Sleep, Fetch, RunCallback, CutShort
  <1>10. UNCHANGED taskUnchanged
    BY DEF TaskStep, CheckRobots, Acquire, Sleep, Fetch, RunCallback
  <1> QED
    BY <1>7, <1>8, <1>9, <1>10
       DEF TypeInv, TypeOK, SchedulerTypeOK, taskUnchanged, schedVars, fileVars

LEMMA TypeStep == TypeInv /\ [Next]_vars => TypeInv'
  <1> SUFFICES ASSUME TypeInv, [Next]_vars
               PROVE  TypeInv'
    OBVIOUS
  <1>1. CASE Begin
    BY <1>1, FreshRunType DEF Begin, TypeInv, TypeOK
  <1>2. CASE FailSetup \/ Resume \/ EnqueueStart \/ OnStart \/ CheckContext
    BY <1>2, SetupType
  <1>3. CASE StartReadyTask
    BY <1>3, StartReadyTaskType
  <1>4. CASE HandleTaskResult
    BY <1>4, HandleTaskResultType
  <1>5. CASE HandleTaskError \/ ObserveDone
    BY <1>5, StoppingType
  <1>6. CASE RejectItem \/ KeepItem \/ EnqueueOutput
    BY <1>6, OutputsType
  <1>7. CASE Pause \/ OpenTemp \/ WriteTemp \/ RenameTemp \/ Fail \/ Complete
    BY <1>7, EndingType
  <1>8. ASSUME NEW t \in DOMAIN tasks, TaskStep(t)
        PROVE  TypeInv'
    BY <1>8, TaskStepType
  <1>9. CASE EndContext
    BY <1>9, CrawlAssumption
       DEF EndContext, TypeInv, TypeOK, SchedulerTypeOK, schedVars, runVars, fileVars
  <1>10. CASE ReadStream
    BY <1>10 DEF ReadStream, TypeInv, TypeOK, SchedulerTypeOK, schedVars, runVars, fileVars
  <1>11. CASE Crash
    BY <1>11, FreshRunType DEF Crash, TypeInv, TypeOK
  <1>12. CASE UNCHANGED vars
    BY <1>12 DEF TypeInv, TypeOK, SchedulerTypeOK, vars, schedVars, runVars, fileVars
  <1>13. CASE Rest
    BY <1>12, <1>13 DEF Rest
  <1> QED
    BY <1>1, <1>2, <1>3, <1>4, <1>5, <1>6, <1>7, <1>8, <1>9, <1>10, <1>11, <1>12, <1>13
       DEF Next, MainStep

LEMMA TypeInit == Init => TypeInv
  <1> SUFFICES ASSUME Init
               PROVE  TypeInv
    OBVIOUS
  <1>1. /\ start \in Seq(Request) /\ cursor \in 0..Len(start) /\ outputs \in Seq(Output)
        /\ DOMAIN activeRequests = {} /\ DOMAIN tasks = {}
    BY EmptySeq, InitialValues DEF Init
  <1>2. SchedulerTypeOK /\ IsFiniteSet(queue)
    BY FS_EmptySet DEF Init, SchedulerInit, SchedulerTypeOK
  <1> QED
    BY <1>1, <1>2, InitialValues DEF Init, TypeInv, TypeOK, StopErrs, RunErrs

\* Every variable keeps its type in every state of every crawl.
THEOREM TypeCorrect == Spec => []TypeOK
  <1>1. TypeInv => TypeOK
    BY DEF TypeInv
  <1> QED
    BY <1>1, TypeInit, TypeStep, PTL DEF Spec

----------------------------------------------------------------------------
(***************************************************************************)
(* The run goroutine's books.                                              *)
(***************************************************************************)
\* The places where no request goroutine may be alive, and those of a save.
Quiet == {"down", "loading", "starting", "saving", "writing", "renaming", "done"}
Saving == {"saving", "writing", "renaming"}

\* The failed task in hand is one that handleTaskResult left in activeRequests.
HandKeeps(t) == main = "errored" /\ ctxErr # "none" /\ hand.err = ctxErr /\ hand.task = t

TasksCounted == active = Cardinality(DOMAIN tasks) /\ active <= ConcurrentRequests
QuietHasNoTasks == main \in Quiet => active = 0
TasksAreActive == \A t \in DOMAIN tasks : t \in DOMAIN activeRequests /\ activeRequests[t] = tasks[t].request
KeptMeansStopped ==
    stopErr = "none" => \A t \in DOMAIN activeRequests : t \in DOMAIN tasks \/ HandKeeps(t)
SavesThePause == (main \in Saving => paused) /\ (main = "renaming" => tmp = PauseSnapshot)

RunInv ==
    /\ TypeInv /\ TasksCounted /\ QuietHasNoTasks
    /\ TasksAreActive /\ KeptMeansStopped /\ SavesThePause

----------------------------------------------------------------------------
\* The tasks of a run are finitely many.
LEMMA TasksFinite ==
    ASSUME TypeInv
    PROVE  IsFiniteSet(DOMAIN tasks) /\ IsFiniteSet(DOMAIN activeRequests)
  <1>1. /\ nextTaskID \in Int
        /\ DOMAIN tasks \subseteq 1..nextTaskID /\ DOMAIN activeRequests \subseteq 1..nextTaskID
    BY DEF TypeInv, TypeOK
  <1>2. IsFiniteSet(1..nextTaskID)
    BY <1>1, FS_Interval
  <1> QED
    BY <1>1, <1>2, FS_Subset

\* A step that leaves the tasks and the in-flight requests alone.
LEMMA Undisturbed ==
    ASSUME RunInv, TypeInv', UNCHANGED <<active, activeRequests, tasks>>,
           main' \in Quiet => active = 0,
           stopErr' = "none" => stopErr = "none" /\ \A t : HandKeeps(t) => HandKeeps(t)',
           main' \in Saving => paused',
           main' = "renaming" => tmp' = PauseSnapshot'
    PROVE  RunInv'
  <1>1. TasksCounted' /\ QuietHasNoTasks' /\ TasksAreActive' /\ SavesThePause'
    BY DEF RunInv, TasksCounted, QuietHasNoTasks, TasksAreActive, SavesThePause
  <1>2. KeptMeansStopped'
    BY DEF RunInv, KeptMeansStopped
  <1> QED
    BY <1>1, <1>2 DEF RunInv

\* Stopping never clears stopErr and leaves an ended context as it is.
LEMMA StopStops ==
    ASSUME NEW err, err # "none", Stop(err)
    PROVE  stopErr' # "none" /\ (ctxErr # "none" => ctxErr' = ctxErr)
  BY DEF Stop

LEMMA FreshRunKeepsBooks ==
    ASSUME TypeInv', FreshRun, main' \in {"down", "loading"}
    PROVE  RunInv'
  <1>1. DOMAIN tasks' = {} /\ DOMAIN activeRequests' = {} /\ active' = 0
    BY DEF FreshRun, NoTasks
  <1>2. Cardinality(DOMAIN tasks') = 0
    BY <1>1, FS_EmptySet
  <1>3. TasksCounted' /\ QuietHasNoTasks' /\ TasksAreActive' /\ KeptMeansStopped' /\ SavesThePause'
    BY <1>1, <1>2, CrawlAssumption
       DEF TasksCounted, QuietHasNoTasks, TasksAreActive, KeptMeansStopped, SavesThePause, Saving
  <1> QED
    BY <1>3 DEF RunInv

LEMMA SetupKeepsBooks ==
    ASSUME RunInv, TypeInv', FailSetup \/ Resume \/ EnqueueStart \/ OnStart \/ CheckContext
    PROVE  RunInv'
  <1>1. CASE FailSetup \/ Resume \/ OnStart
    <2>1. /\ UNCHANGED <<active, activeRequests, tasks, stopErr>>
          /\ main \in {"loading", "starting"} /\ main' \in {"starting", "top", "done"}
      BY <1>1 DEF FailSetup, Resume, OnStart, runVars
    <2> QED
      BY <2>1, Undisturbed DEF Quiet, Saving, RunInv, QuietHasNoTasks, HandKeeps
  <1>2. CASE EnqueueStart
    <2>1. /\ UNCHANGED <<active, activeRequests, tasks, stopErr>>
          /\ main = "loading" /\ main' \in {"loading", "starting", "done"}
      BY <1>2 DEF EnqueueStart, Finish
    <2> QED
      BY <2>1, Undisturbed DEF Quiet, Saving, RunInv, QuietHasNoTasks, HandKeeps
  <1>3. CASE CheckContext
    <2>1. /\ UNCHANGED <<active, activeRequests, tasks>>
          /\ main = "top" /\ main' = "launching"
          /\ stopErr' = "none" => stopErr = "none"
      BY <1>3, StopStops DEF CheckContext, runVars
    <2> QED
      BY <2>1, Undisturbed DEF Quiet, Saving, HandKeeps
  <1> QED
    BY <1>1, <1>2, <1>3

LEMMA StartReadyTaskKeepsBooks ==
    ASSUME RunInv, TypeInv', StartReadyTask
    PROVE  RunInv'
  <1> DEFINE id == nextTaskID + 1
  <1>1. PICK e \in queue :
          /\ activeRequests' = With(activeRequests, id, e.request)
          /\ tasks' = With(tasks, id, NewTask(e.request))
    BY DEF StartReadyTask
  <1>2. /\ main = "launching" /\ main' = "launching" /\ active' = active + 1
        /\ active < ConcurrentRequests /\ active \in Nat /\ stopErr' = stopErr
    BY DEF StartReadyTask, CanLaunch, RunInv, TypeInv, TypeOK
  <1>3. id \notin DOMAIN tasks /\ DOMAIN tasks' = DOMAIN tasks \cup {id}
    BY <1>1 DEF With, RunInv, TypeInv, TypeOK
  <1>4. TasksCounted'
    <2>1. Cardinality(DOMAIN tasks') = Cardinality(DOMAIN tasks) + 1
      BY <1>3, TasksFinite, FS_AddElement DEF RunInv
    <2> QED
      BY <1>2, <2>1, CrawlAssumption DEF RunInv, TasksCounted
  <1>5. TasksAreActive'
    <2>1. NewTask(e.request).request = e.request
      BY DEF NewTask
    <2> QED
      BY <1>1, <2>1 DEF With, RunInv, TasksAreActive
  <1>6. KeptMeansStopped'
    BY <1>1, <1>2 DEF With, RunInv, KeptMeansStopped, HandKeeps
  <1>7. QuietHasNoTasks' /\ SavesThePause'
    BY <1>2 DEF QuietHasNoTasks, SavesThePause, Quiet, Saving
  <1> QED
    BY <1>4, <1>5, <1>6, <1>7 DEF RunInv

LEMMA HandleTaskResultKeepsBooks ==
    ASSUME RunInv, TypeInv', HandleTaskResult
    PROVE  RunInv'
  <1>1. PICK t \in DOMAIN tasks : TakesResult(t)
    BY DEF HandleTaskResult
  <1>2. /\ main = "launching" /\ main' \in {"errored", "top", "outputs"}
        /\ active' = active - 1 /\ active \in Nat /\ UNCHANGED <<stopErr, ctxErr>>
    BY <1>1 DEF HandleTaskResult, TakesResult, Waiting, Launched, RunInv, TypeInv, TypeOK,
                ResultErr, ResultRobots, ResultBlocked, ResultRetry, ResultOk
  <1>3. tasks' = Without(tasks, t) /\ DOMAIN tasks' = DOMAIN tasks \ {t}
    BY <1>1 DEF TakesResult, Without
  <1>4. TasksCounted'
    <2>1. Cardinality(DOMAIN tasks') = Cardinality(DOMAIN tasks) - 1
      BY <1>3, TasksFinite, FS_RemoveElement DEF RunInv
    <2> QED
      BY <1>2, <2>1, CrawlAssumption DEF RunInv, TasksCounted
  <1>5. \/ activeRequests' = Without(activeRequests, t)
        \/ /\ activeRequests' = activeRequests
           /\ ctxErr # "none" /\ tasks[t].result.err = ctxErr /\ tasks[t].result.kind = "err"
    BY <1>1 DEF TakesResult, StaysActive, IsContextErr
  <1>6. TasksAreActive'
    BY <1>3, <1>5 DEF Without, RunInv, TasksAreActive
  <1>7. KeptMeansStopped'
    <2>1. CASE activeRequests' = Without(activeRequests, t)
      BY <1>2, <1>3, <2>1 DEF Without, RunInv, KeptMeansStopped, HandKeeps
    <2>2. CASE activeRequests' = activeRequests /\ ctxErr # "none" /\ tasks[t].result.err = ctxErr
                 /\ tasks[t].result.kind = "err"
      <3>1. ResultErr(t)
        BY <1>1, <2>2 DEF TakesResult, ResultRobots, ResultBlocked, ResultRetry, ResultOk
      <3>2. HandKeeps(t)'
        BY <1>2, <2>2, <3>1 DEF ResultErr, HandKeeps
      <3> QED
        BY <1>2, <1>3, <2>2, <3>2 DEF RunInv, KeptMeansStopped, HandKeeps
    <2> QED
      BY <1>5, <2>1, <2>2
  <1>8. QuietHasNoTasks' /\ SavesThePause'
    BY <1>2 DEF QuietHasNoTasks, SavesThePause, Quiet, Saving
  <1> QED
    BY <1>4, <1>6, <1>7, <1>8 DEF RunInv

LEMMA StoppingKeepsBooks ==
    ASSUME RunInv, TypeInv', HandleTaskError \/ ObserveDone
    PROVE  RunInv'
  <1>1. CASE HandleTaskError
    <2>1. UNCHANGED <<active, activeRequests, tasks>> /\ main' = "top"
      BY <1>1 DEF HandleTaskError
    <2>2. stopErr' = "none" => stopErr = "none" /\ \A t : ~HandKeeps(t)
      BY <1>1 DEF HandleTaskError, IsContextErr, Stop, HandKeeps
    <2> QED
      BY <2>1, <2>2, Undisturbed DEF Quiet, Saving
  <1>2. CASE ObserveDone
    <2>1. UNCHANGED <<active, activeRequests, tasks>> /\ main' = "top" /\ stopErr' # "none"
      BY <1>2, StopStops DEF ObserveDone, runVars
    <2> QED
      BY <2>1, Undisturbed DEF Quiet, Saving
  <1> QED
    BY <1>1, <1>2

LEMMA OutputsKeepBooks ==
    ASSUME RunInv, TypeInv', RejectItem \/ KeepItem \/ EnqueueOutput
    PROVE  RunInv'
  <1>1. UNCHANGED <<active, activeRequests, tasks>> /\ main = "outputs" /\ main' \in {"top", "outputs"}
    BY DEF RejectItem, KeepItem, EnqueueOutput, NextOutput
  <1>2. stopErr' = "none" => stopErr = "none"
    BY DEF RejectItem, KeepItem, SendItem, EnqueueOutput, Stop
  <1> QED
    BY <1>1, <1>2, Undisturbed DEF Quiet, Saving, HandKeeps

LEMMA EndingKeepsBooks ==
    ASSUME RunInv, TypeInv', Pause \/ OpenTemp \/ WriteTemp \/ RenameTemp \/ Fail \/ Complete
    PROVE  RunInv'
  <1>1. UNCHANGED <<active, activeRequests, tasks, stopErr, queue, seen>>
    BY DEF Pause, OpenTemp, WriteTemp, RenameTemp, Fail, Complete, runVars, schedVars
  <1>2. active = 0 /\ main # "errored"
    BY DEF Pause, OpenTemp, WriteTemp, RenameTemp, Fail, Complete, IsComplete, Launched,
           RunInv, QuietHasNoTasks, Quiet
  <1>3. main' \in Saving => paused'
    BY DEF Pause, OpenTemp, WriteTemp, RenameTemp, Fail, Complete, Finish, Saving,
           RunInv, SavesThePause, runVars
  <1>4. main' = "renaming" => tmp' = PauseSnapshot
    BY DEF Pause, OpenTemp, WriteTemp, RenameTemp, Fail, Complete, Finish
  <1>5. PauseSnapshot' = PauseSnapshot
    BY <1>1 DEF PauseSnapshot, InFlightList, Snapshot
  <1> QED
    BY <1>1, <1>2, <1>3, <1>4, <1>5, Undisturbed DEF HandKeeps

LEMMA TaskStepKeepsBooks ==
    ASSUME RunInv, TypeInv', NEW t \in DOMAIN tasks, TaskStep(t)
    PROVE  RunInv'
  <1>1. UNCHANGED taskUnchanged
    BY DEF TaskStep, CheckRobots, Acquire, Sleep, Fetch, RunCallback
  <1>2. /\ DOMAIN tasks' = DOMAIN tasks
        /\ \A u \in DOMAIN tasks : tasks'[u].request = tasks[u].request
    <2>1. ASSUME NEW step, Advance(t, step)
          PROVE  DOMAIN tasks' = DOMAIN tasks /\ \A u \in DOMAIN tasks : tasks'[u].request = tasks[u].request
      BY <2>1 DEF Advance, RunInv, TypeInv, TypeOK, Task
    <2>2. ASSUME NEW kind, NEW err, NEW retry, Return(t, kind, err, retry)
          PROVE  DOMAIN tasks' = DOMAIN tasks /\ \A u \in DOMAIN tasks : tasks'[u].request = tasks[u].request
      BY <2>2 DEF Return, RunInv, TypeInv, TypeOK, Task
    <2> QED
      BY <2>1, <2>2 DEF TaskStep, CheckRobots, Acquire, Sleep, Fetch, RunCallback, ReturnErr
  <1>3. TasksAreActive' /\ KeptMeansStopped'
    BY <1>1, <1>2 DEF taskUnchanged, RunInv, TasksAreActive, KeptMeansStopped, HandKeeps
  <1>4. PauseSnapshot' = PauseSnapshot
    BY <1>1 DEF PauseSnapshot, InFlightList, Snapshot, taskUnchanged, schedVars
  <1>5. TasksCounted' /\ QuietHasNoTasks' /\ SavesThePause'
    BY <1>1, <1>2, <1>4 DEF taskUnchanged, fileVars, RunInv, TasksCounted, QuietHasNoTasks, SavesThePause
  <1> QED
    BY <1>3, <1>5 DEF RunInv

LEMMA RunInvStep == RunInv /\ [Next]_vars => RunInv'
  <1> SUFFICES ASSUME RunInv, [Next]_vars
               PROVE  RunInv'
    OBVIOUS
  <1>0. TypeInv'
    BY TypeStep DEF RunInv
  <1>1. CASE Begin \/ Crash
    BY <1>0, <1>1, FreshRunKeepsBooks DEF Begin, Crash
  <1>2. CASE FailSetup \/ Resume \/ EnqueueStart \/ OnStart \/ CheckContext
    BY <1>0, <1>2, SetupKeepsBooks
  <1>3. CASE StartReadyTask
    BY <1>0, <1>3, StartReadyTaskKeepsBooks
  <1>4. CASE HandleTaskResult
    BY <1>0, <1>4, HandleTaskResultKeepsBooks
  <1>5. CASE HandleTaskError \/ ObserveDone
    BY <1>0, <1>5, StoppingKeepsBooks
  <1>6. CASE RejectItem \/ KeepItem \/ EnqueueOutput
    BY <1>0, <1>6, OutputsKeepBooks
  <1>7. CASE Pause \/ OpenTemp \/ WriteTemp \/ RenameTemp \/ Fail \/ Complete
    BY <1>0, <1>7, EndingKeepsBooks
  <1>8. ASSUME NEW t \in DOMAIN tasks, TaskStep(t)
        PROVE  RunInv'
    BY <1>0, <1>8, TaskStepKeepsBooks
  <1>9. CASE EndContext \/ ReadStream \/ UNCHANGED vars
    <2>1. /\ UNCHANGED <<active, activeRequests, tasks, stopErr, main, paused, tmp, hand, queue, seen>>
          /\ ctxErr # "none" => ctxErr' = ctxErr
      BY <1>9 DEF EndContext, ReadStream, vars, runVars, fileVars, schedVars
    <2>2. PauseSnapshot' = PauseSnapshot
      BY <2>1 DEF PauseSnapshot, InFlightList, Snapshot
    <2> QED
      BY <1>0, <2>1, <2>2, Undisturbed DEF HandKeeps, RunInv, QuietHasNoTasks, SavesThePause
  <1>10. CASE Rest
    BY <1>9, <1>10 DEF Rest
  <1> QED
    BY <1>1, <1>2, <1>3, <1>4, <1>5, <1>6, <1>7, <1>8, <1>9, <1>10 DEF Next, MainStep

LEMMA RunInvInit == Init => RunInv
  <1> SUFFICES ASSUME Init
               PROVE  RunInv
    OBVIOUS
  <1>1. DOMAIN tasks = {} /\ DOMAIN activeRequests = {} /\ active = 0 /\ main = "down"
    BY DEF Init, NoTasks
  <1>2. Cardinality(DOMAIN tasks) = 0
    BY <1>1, FS_EmptySet
  <1> QED
    BY <1>1, <1>2, TypeInit, CrawlAssumption
       DEF RunInv, TasksCounted, QuietHasNoTasks, TasksAreActive, KeptMeansStopped, SavesThePause, Saving

\* However many requests there are and whenever the run stops, fails or dies, at
\* most ConcurrentRequests goroutines are alive and none outlives its run.
THEOREM BoundedTasks == Spec => []TasksBounded
  <1>1. RunInv => TasksBounded
    BY DEF RunInv, TasksCounted, QuietHasNoTasks, Quiet, TasksBounded, Running
  <1> QED
    BY <1>1, RunInvInit, RunInvStep, PTL DEF Spec

\* A run that completes without a stop owes nothing.
LEMMA CompleteOwesNothing ==
    ASSUME RunInv, IsComplete, stopErr = "none"
    PROVE  Owed = {}
  <1>1. queue = {} /\ main # "errored"
    BY CrawlAssumption DEF IsComplete, Launched, CanLaunch
  <1>2. DOMAIN tasks = {}
    BY TasksFinite, FS_EmptySet DEF RunInv, TasksCounted, IsComplete
  <1>3. DOMAIN activeRequests = {}
    BY <1>1, <1>2 DEF RunInv, KeptMeansStopped, HandKeeps
  <1> QED
    BY <1>1, <1>3 DEF Owed

\* The checkpoint goes when nothing is owed, and is replaced by what a pause owes.
LEMMA DiskChanges ==
    ASSUME RunInv, Next, disk' # disk
    PROVE  IF disk' = Absent THEN Owed = {} ELSE paused /\ disk' = PauseSnapshot
  <1>1. CASE Complete
    BY <1>1, CompleteOwesNothing DEF Complete
  <1>2. CASE RenameTemp
    <2>1. disk' = PauseSnapshot /\ paused
      BY <1>2 DEF RenameTemp, RunInv, SavesThePause, Saving
    <2>2. disk' # Absent
      BY <2>1, PauseSnapshotType, CrawlAssumption DEF RunInv
    <2> QED
      BY <2>1, <2>2
  <1>3. ASSUME ~Complete, ~RenameTemp
        PROVE  disk' = disk
    BY <1>3
       DEF Next, MainStep, fileVars, Begin, FailSetup, Resume, EnqueueStart, OnStart, CheckContext,
           StartReadyTask, ObserveDone, HandleTaskResult, HandleTaskError, RejectItem, KeepItem,
           EnqueueOutput, Pause, OpenTemp, WriteTemp, Fail, TaskStep, CheckRobots, Acquire, Sleep,
           Fetch, RunCallback, taskUnchanged, EndContext, ReadStream, Crash, Rest, vars
  <1> QED
    BY <1>1, <1>2, <1>3

\* The checkpoint of an unfinished crawl is never removed, and never replaced by
\* anything but the whole of what a pausing run still owes (Cleanup and Save).
THEOREM CheckpointKept == Spec => CheckpointOnlyForgottenWhenDone
  <1>1. RunInv /\ [Next]_vars =>
          [disk' # disk => IF disk' = Absent THEN Owed = {} ELSE paused /\ disk' = PauseSnapshot]_vars
    BY DiskChanges
  <1> QED
    BY <1>1, RunInvInit, RunInvStep, PTL DEF Spec, CheckpointOnlyForgottenWhenDone

----------------------------------------------------------------------------
(***************************************************************************)
(* No accepted request is lost.  The code tells a request that the end of  *)
(* the context cut short from one that failed by comparing its error with  *)
(* the context's, once to keep it in activeRequests and once more to count *)
(* it.  The two agree unless the context ends between them and in the way  *)
(* the error says (EndsUnderJudgement), which needs a session or callback  *)
(* that returns a context's error while the run's context lives.           *)
(***************************************************************************)
RetriesKeepThePage ==
    \A t \in DOMAIN tasks : tasks[t].result.kind = "retry" =>
        Fingerprint(tasks[t].result.retry) = Fingerprint(tasks[t].request)
HandIsKept ==
    main = "errored" /\ IsContextErr(hand.err) =>
        hand.task \in DOMAIN activeRequests /\ activeRequests[hand.task] = hand.request

\* A file holds, pending, whatever it says is seen and was not settled by `before'.
Complements(file, before) ==
    file.seen \subseteq {Fingerprint(e.request) : e \in file.requests} \cup before.settled
FilesComplete ==
    /\ disk # Absent => Complements(disk, diskPast)
    /\ main = "renaming" => Complements(tmp, past)

KeepInv ==
    /\ RunInv /\ RetriesKeepThePage /\ HandIsKept
    /\ NoRequestLost /\ FilesComplete

\* What the run owes, by its three places.
LEMMA OwedPlaces ==
    OwedFingerprints =
        {Fingerprint(e.request) : e \in queue}
        \cup {Fingerprint(activeRequests[t]) : t \in DOMAIN activeRequests}
        \cup (IF main = "errored" THEN {Fingerprint(hand.request)} ELSE {})
  BY DEF OwedFingerprints, Owed

\* A step that moves no request leaves what is owed as it is.
LEMMA OwedStays ==
    ASSUME UNCHANGED <<queue, activeRequests>>,
           main = "errored" \/ main' = "errored" => main' = main /\ hand' = hand
    PROVE  OwedFingerprints' = OwedFingerprints
  <1>1. Owed' = Owed
    BY DEF Owed
  <1> QED
    BY <1>1 DEF OwedFingerprints, Fingerprint

LEMMA NothingMoves ==
    ASSUME NoRequestLost, UNCHANGED <<queue, seen, activeRequests, past>>,
           main = "errored" \/ main' = "errored" => main' = main /\ hand' = hand
    PROVE  NoRequestLost'
  BY OwedStays DEF NoRequestLost

\* The filter records a fingerprint only for a request it queues.
LEMMA OfferOwes ==
    ASSUME NEW r, Offer(r)
    PROVE  /\ queue \subseteq queue'
           /\ seen' \subseteq seen \cup {Fingerprint(e.request) : e \in queue'}
           /\ Accepts(r) => r \in {e.request : e \in queue'}
           /\ \A e \in queue' : e \in queue \/ (Accepts(r) /\ e.request = r)
  <1>1. CASE Accepts(r)
    <2> DEFINE e == [request |-> r, order |-> counter + 1]
    <2>1. queue' = queue \cup {e} /\ e.request = r /\ seen' \subseteq seen \cup {Fingerprint(r)}
      BY <1>1 DEF Offer, Enqueue
    <2> HIDE DEF e
    <2> QED
      BY <1>1, <2>1
  <1>2. CASE ~Accepts(r)
    BY <1>2 DEF Offer, schedVars
  <1> QED
    BY <1>1, <1>2

\* What a pause writes complements what the run has settled.
LEMMA PauseSnapshotComplete ==
    ASSUME TypeInv, NoRequestLost, main # "errored"
    PROVE  Complements(PauseSnapshot, past)
  <1> DEFINE place(t) == [request |-> activeRequests[t],
                          order |-> Cardinality({u \in DOMAIN activeRequests : u < t}) + 1]
             later(e) == [request |-> e.request, order |-> Cardinality(InFlightList) + e.order]
             later_list == {later(e) : e \in Snapshot.requests}
  <1>1. PauseSnapshot.requests = InFlightList \cup later_list /\ PauseSnapshot.seen = seen
    BY DEF PauseSnapshot, Joined, Snapshot
  <1>2. \A t \in DOMAIN activeRequests : \E x \in InFlightList : x.request = activeRequests[t]
    <2>1. \A t \in DOMAIN activeRequests : place(t).request = activeRequests[t] /\ place(t) \in InFlightList
      BY DEF InFlightList
    <2> HIDE DEF place
    <2> QED
      BY <2>1
  <1>3. \A e \in queue : \E x \in later_list : x.request = e.request
    <2>1. {e.request : e \in Snapshot.requests} = {e.request : e \in queue}
      BY ListingType DEF Snapshot, TypeInv, TypeOK, SchedulerTypeOK
    <2>2. \A e \in Snapshot.requests : later(e).request = e.request
      OBVIOUS
    <2> HIDE DEF later
    <2>3. \A e \in queue : \E y \in Snapshot.requests : y.request = e.request
      BY <2>1
    <2> QED
      BY <2>2, <2>3
  <1> HIDE DEF later_list
  <1>4. OwedFingerprints \subseteq {Fingerprint(x.request) : x \in PauseSnapshot.requests}
    BY <1>1, <1>2, <1>3, OwedPlaces
  <1> QED
    BY <1>1, <1>4 DEF Complements, NoRequestLost

\* A step that moves no request, ends at most the context, and writes no checkpoint.
LEMMA SmallStep ==
    ASSUME KeepInv, RunInv',
           UNCHANGED <<queue, seen, activeRequests, past, tasks, disk, diskPast>>,
           ~EndsUnderJudgement,
           main' = "renaming" => main = "renaming" /\ tmp' = tmp,
           main = "errored" \/ main' = "errored" => main' = main /\ hand' = hand
    PROVE  KeepInv'
  <1>1. NoRequestLost'
    BY NothingMoves DEF KeepInv
  <1>2. RetriesKeepThePage'
    BY DEF KeepInv, RetriesKeepThePage, Fingerprint
  <1>3. HandIsKept'
    BY DEF KeepInv, HandIsKept, IsContextErr, EndsUnderJudgement
  <1>4. FilesComplete'
    BY DEF KeepInv, FilesComplete, Complements, Fingerprint
  <1> QED
    BY <1>1, <1>2, <1>3, <1>4 DEF KeepInv

LEMMA StopEndsContext ==
    ASSUME NEW err, Stop(err)
    PROVE  ctxErr' = ctxErr \/ ctxErr = "none"
  BY DEF Stop

LEMMA SmallStepsKeep ==
    ASSUME KeepInv, RunInv', ~EndsUnderJudgement,
           \/ FailSetup \/ OnStart \/ CheckContext \/ ObserveDone
           \/ RejectItem \/ KeepItem \/ Pause \/ OpenTemp \/ Fail
           \/ EndContext \/ ReadStream \/ UNCHANGED vars
    PROVE  KeepInv'
  <1>1. CASE FailSetup \/ OnStart \/ Pause \/ OpenTemp \/ Fail \/ ReadStream \/ EndContext \/ UNCHANGED vars
    BY <1>1, SmallStep
       DEF FailSetup, OnStart, Pause, OpenTemp, Fail, ReadStream, EndContext, vars, runVars, fileVars,
           schedVars, IsComplete, Launched, Finish
  <1>2. CASE CheckContext \/ ObserveDone
    BY <1>2, SmallStep DEF CheckContext, ObserveDone, Waiting, Launched, runVars, fileVars, schedVars
  <1>3. CASE RejectItem \/ KeepItem
    BY <1>3, SmallStep DEF RejectItem, KeepItem, NextOutput, fileVars, schedVars
  <1> QED
    BY <1>1, <1>2, <1>3

LEMMA FreshRunKeeps ==
    ASSUME KeepInv, RunInv', FreshRun, UNCHANGED fileVars, main' \in {"down", "loading"}
    PROVE  KeepInv'
  <1>1. seen' = {} /\ DOMAIN tasks' = {}
    BY DEF FreshRun, NoTasks
  <1>2. NoRequestLost' /\ RetriesKeepThePage' /\ HandIsKept'
    BY <1>1 DEF NoRequestLost, RetriesKeepThePage, HandIsKept
  <1>3. FilesComplete'
    BY DEF KeepInv, FilesComplete, Complements, Fingerprint, fileVars
  <1> QED
    BY <1>2, <1>3 DEF KeepInv

\* A request offered to the scheduler, by a start or a link, is owed then if the
\* filter lets it in, and nothing else changes in what is owed.
LEMMA OfferOwed ==
    ASSUME NEW r, Offer(r), UNCHANGED activeRequests, main # "errored", main' # "errored"
    PROVE  /\ OwedFingerprints' = OwedFingerprints \cup (IF Accepts(r) THEN {Fingerprint(r)} ELSE {})
           /\ seen' \subseteq seen \cup OwedFingerprints'
  <1>1. \A s \in Owed' : s \in Owed \/ (Accepts(r) /\ s = r)
    BY OfferOwes DEF Owed
  <1>2. Owed \subseteq Owed' /\ (Accepts(r) => r \in Owed')
    BY OfferOwes DEF Owed
  <1>3. {Fingerprint(e.request) : e \in queue'} \subseteq OwedFingerprints'
    BY DEF OwedFingerprints, Owed, Fingerprint
  <1> QED
    BY <1>1, <1>2, <1>3, OfferOwes DEF OwedFingerprints, Fingerprint

LEMMA OfferKeeps ==
    ASSUME NoRequestLost, NEW r, Offer(r), UNCHANGED <<activeRequests, past>>,
           main # "errored", main' # "errored"
    PROVE  NoRequestLost'
  BY OfferOwed DEF NoRequestLost

LEMMA EnqueueKeeps ==
    ASSUME KeepInv, RunInv', EnqueueStart \/ EnqueueOutput
    PROVE  KeepInv'
  <1>1. /\ UNCHANGED <<activeRequests, past, tasks, disk, diskPast>>
        /\ ctxErr' = ctxErr \/ ctxErr = "none"
        /\ main # "errored" /\ main' \notin {"errored", "renaming"}
    BY StopEndsContext DEF EnqueueStart, EnqueueOutput, NextOutput, Finish, fileVars
  <1>2. (\E r : Offer(r)) \/ UNCHANGED <<queue, seen>>
    BY DEF EnqueueStart, EnqueueOutput, schedVars
  <1>3. NoRequestLost'
    BY <1>1, <1>2, OfferKeeps, NothingMoves DEF KeepInv
  <1>4. RetriesKeepThePage'
    BY <1>1 DEF KeepInv, RetriesKeepThePage, Fingerprint
  <1>5. HandIsKept' /\ FilesComplete'
    BY <1>1 DEF KeepInv, HandIsKept, FilesComplete, Complements, Fingerprint
  <1> QED
    BY <1>3, <1>4, <1>5 DEF KeepInv

LEMMA ResumeKeeps ==
    ASSUME KeepInv, RunInv', Resume
    PROVE  KeepInv'
  <1>1. /\ UNCHANGED <<activeRequests, tasks, ctxErr, disk, diskPast>>
        /\ main # "errored" /\ main' \notin {"errored", "renaming"}
        /\ Restore(disk) /\ past' = diskPast /\ disk # Absent
    BY DEF Resume, runVars, fileVars
  <1>2. FilteredIn(disk.requests) \subseteq {Fingerprint(e.request) : e \in disk.requests}
    BY DEF FilteredIn
  <1>3. {Fingerprint(e.request) : e \in disk.requests} \subseteq OwedFingerprints'
    BY <1>1 DEF Restore, OwedFingerprints, Owed, Fingerprint
  <1>4. NoRequestLost'
    BY <1>1, <1>2, <1>3 DEF Restore, KeepInv, FilesComplete, Complements, NoRequestLost
  <1>5. RetriesKeepThePage' /\ HandIsKept' /\ FilesComplete'
    BY <1>1 DEF KeepInv, RetriesKeepThePage, HandIsKept, FilesComplete,
                Complements, Fingerprint
  <1> QED
    BY <1>4, <1>5 DEF KeepInv

\* Launching moves a request from the queue to those in flight.
LEMMA LaunchOwes ==
    ASSUME TypeInv, StartReadyTask
    PROVE  OwedFingerprints' = OwedFingerprints
  <1> DEFINE id == nextTaskID + 1
  <1>1. PICK e \in queue : Dequeue(e) /\ activeRequests' = With(activeRequests, id, e.request)
    BY DEF StartReadyTask
  <1>2. queue' = queue \ {e} /\ main = "launching" /\ main' = "launching"
    BY <1>1 DEF StartReadyTask, Dequeue
  <1>3. id \notin DOMAIN activeRequests
    BY DEF TypeInv, TypeOK
  <1>4. /\ DOMAIN activeRequests' = DOMAIN activeRequests \cup {id}
        /\ activeRequests'[id] = e.request
        /\ \A t \in DOMAIN activeRequests : activeRequests'[t] = activeRequests[t]
    BY <1>1, <1>3 DEF With
  <1> HIDE DEF id
  <1>5. Owed' = Owed
    BY <1>2, <1>3, <1>4 DEF Owed
  <1> QED
    BY <1>5 DEF OwedFingerprints, Fingerprint

LEMMA StartReadyTaskKeeps ==
    ASSUME KeepInv, RunInv', StartReadyTask
    PROVE  KeepInv'
  <1>1. PICK e \in queue : tasks' = With(tasks, nextTaskID + 1, NewTask(e.request))
    BY DEF StartReadyTask
  <1>2. UNCHANGED <<main, ctxErr, hand, seen, past, disk, diskPast>> /\ main = "launching"
    BY DEF StartReadyTask, Dequeue, fileVars
  <1>3. NoRequestLost'
    BY <1>2, LaunchOwes DEF KeepInv, RunInv, NoRequestLost
  <1>4. RetriesKeepThePage'
    <2>1. NewTask(e.request).result = [kind |-> "none", err |-> "none", retry |-> e.request]
      BY DEF NewTask
    <2>2. \A t \in DOMAIN tasks' : tasks'[t] = NewTask(e.request) \/ (t \in DOMAIN tasks /\ tasks'[t] = tasks[t])
      BY <1>1 DEF With
    <2> QED
      BY <1>2, <2>1, <2>2 DEF KeepInv, RetriesKeepThePage, Fingerprint
  <1>5. HandIsKept' /\ FilesComplete'
    BY <1>2 DEF KeepInv, HandIsKept, FilesComplete, Complements, Fingerprint
  <1> QED
    BY <1>3, <1>4, <1>5 DEF KeepInv

\* A result takes at most its own page from what is owed, and settles what it takes:
\* handleTaskResult settles a request, queues its retry, or leaves it to handleTaskError.
LEMMA ResultOwes ==
    ASSUME KeepInv, NEW t \in DOMAIN tasks, TakesResult(t), main = "launching"
    PROVE  LET page == Fingerprint(tasks[t].request) IN
           /\ OwedFingerprints' \subseteq OwedFingerprints
           /\ OwedFingerprints \subseteq OwedFingerprints' \cup {page}
           /\ page \in OwedFingerprints /\ page \in OwedFingerprints' \cup past'.settled
           /\ past.settled \subseteq past'.settled
           /\ seen' \subseteq seen \cup OwedFingerprints'
  <1> DEFINE page == Fingerprint(tasks[t].request)
  <1>1. t \in DOMAIN activeRequests /\ activeRequests[t] = tasks[t].request
    BY DEF KeepInv, RunInv, TasksAreActive
  <1>2. activeRequests' = activeRequests \/ activeRequests' = Without(activeRequests, t)
    BY DEF TakesResult
  <1>3. /\ \A u \in DOMAIN activeRequests : u # t =>
              u \in DOMAIN activeRequests' /\ activeRequests'[u] = activeRequests[u]
        /\ \A u \in DOMAIN activeRequests' :
              u \in DOMAIN activeRequests /\ activeRequests'[u] = activeRequests[u]
    BY <1>2 DEF Without
  <1>4. page \in OwedFingerprints
    BY <1>1, OwedPlaces
  <1>5. /\ queue \subseteq queue'
        /\ \A e \in queue' : e \in queue \/ Fingerprint(e.request) = page
        /\ seen' \subseteq seen \cup {Fingerprint(e.request) : e \in queue'}
        /\ past.settled \subseteq past'.settled
        /\ page \in OwedFingerprints' \cup past'.settled
        /\ main' = "errored" => hand'.request = tasks[t].request
    <2>1. CASE ResultErr(t)
      BY <2>1 DEF ResultErr, schedVars, OwedFingerprints, Owed, Fingerprint
    <2>2. CASE ResultRobots(t) \/ ResultBlocked(t) \/ ResultOk(t)
      BY <2>2 DEF ResultRobots, ResultBlocked, ResultOk, schedVars, Settle
    <2>3. CASE ResultRetry(t)
      <3> DEFINE retry == tasks[t].result.retry
      <3>1. Offer(retry) /\ past.settled \subseteq past'.settled /\ main' = "top"
        BY <2>3 DEF ResultRetry, Settle
      <3>2. page = Fingerprint(retry)
        BY <2>3 DEF ResultRetry, KeepInv, RetriesKeepThePage
      <3>3. CASE Accepts(retry)
        <4>1. retry \in Owed'
          BY <3>1, <3>3, OfferOwes DEF Owed
        <4> QED
          BY <3>1, <3>2, <4>1, OfferOwes DEF OwedFingerprints, Fingerprint
      <3>4. CASE ~Accepts(retry)
        BY <2>3, <3>1, <3>4, OfferOwes DEF ResultRetry, Settle
      <3> QED
        BY <3>3, <3>4
    <2> QED
      BY <2>1, <2>2, <2>3 DEF TakesResult
  <1>6. /\ \A r \in Owed : r \in Owed' \/ r = tasks[t].request
        /\ \A r \in Owed' : r \in Owed \/ Fingerprint(r) = page
    BY <1>1, <1>3, <1>5 DEF Owed
  <1>7. OwedFingerprints \subseteq OwedFingerprints' \cup {page}
    BY <1>6 DEF OwedFingerprints, Fingerprint
  <1>8. OwedFingerprints' \subseteq OwedFingerprints
    BY <1>4, <1>6 DEF OwedFingerprints, Fingerprint
  <1>9. {Fingerprint(e.request) : e \in queue'} \subseteq OwedFingerprints'
    BY DEF OwedFingerprints, Owed, Fingerprint
  <1> QED
    BY <1>4, <1>5, <1>7, <1>8, <1>9

LEMMA HandleTaskResultKeeps ==
    ASSUME KeepInv, RunInv', HandleTaskResult
    PROVE  KeepInv'
  <1>1. PICK t \in DOMAIN tasks : TakesResult(t)
    BY DEF HandleTaskResult
  <1>2. /\ main = "launching" /\ main' \in {"errored", "top", "outputs"}
        /\ UNCHANGED <<ctxErr, disk, diskPast>> /\ tasks' = Without(tasks, t)
    BY <1>1 DEF HandleTaskResult, TakesResult, Waiting, Launched, fileVars,
                ResultErr, ResultRobots, ResultBlocked, ResultRetry, ResultOk
  <1>3. NoRequestLost'
    BY <1>1, <1>2, ResultOwes DEF KeepInv, NoRequestLost
  <1>4. RetriesKeepThePage'
    BY <1>2 DEF Without, KeepInv, RetriesKeepThePage, Fingerprint
  <1>5. HandIsKept'
    <2> SUFFICES ASSUME main' = "errored", IsContextErr(hand.err)'
                 PROVE  hand'.task \in DOMAIN activeRequests' /\ activeRequests'[hand'.task] = hand'.request
      BY DEF HandIsKept
    <2>1. ResultErr(t)
      BY <1>1, <1>2 DEF TakesResult, ResultRobots, ResultBlocked, ResultRetry, ResultOk
    <2>2. hand' = [task |-> t, request |-> tasks[t].request, err |-> tasks[t].result.err]
      BY <2>1 DEF ResultErr
    <2>3. StaysActive(t)
      BY <1>2, <2>1, <2>2 DEF ResultErr, StaysActive, IsContextErr
    <2>4. activeRequests' = activeRequests
      BY <1>1, <2>3 DEF TakesResult
    <2>5. t \in DOMAIN activeRequests /\ activeRequests[t] = tasks[t].request
      BY DEF KeepInv, RunInv, TasksAreActive
    <2> QED
      BY <2>2, <2>4, <2>5
  <1>6. FilesComplete'
    BY <1>2 DEF KeepInv, FilesComplete, Complements, Fingerprint
  <1> QED
    BY <1>3, <1>4, <1>5, <1>6 DEF KeepInv

\* handleTaskError stops for what is still in activeRequests and settles the rest.
LEMMA ErrorOwes ==
    ASSUME KeepInv, HandleTaskError
    PROVE  LET page == Fingerprint(hand.request) IN
           /\ OwedFingerprints' \subseteq OwedFingerprints
           /\ OwedFingerprints \subseteq OwedFingerprints' \cup {page}
           /\ page \in OwedFingerprints /\ page \in OwedFingerprints' \cup past'.settled
           /\ past.settled \subseteq past'.settled
  <1> DEFINE page == Fingerprint(hand.request)
  <1>1. /\ UNCHANGED <<queue, activeRequests>> /\ main = "errored" /\ main' = "top"
        /\ past.settled \subseteq past'.settled
    BY DEF HandleTaskError, schedVars, Settle
  <1>2. page \in OwedFingerprints' \cup past'.settled
    <2>1. CASE IsContextErr(hand.err)
      <3>1. hand.task \in DOMAIN activeRequests /\ activeRequests[hand.task] = hand.request
        BY <1>1, <2>1 DEF KeepInv, HandIsKept
      <3> QED
        BY <1>1, <3>1 DEF OwedFingerprints, Owed, Fingerprint
    <2>2. CASE ~IsContextErr(hand.err)
      BY <2>2 DEF HandleTaskError, Settle
    <2> QED
      BY <2>1, <2>2
  <1>3. /\ \A r \in Owed : r \in Owed' \/ r = hand.request
        /\ Owed' \subseteq Owed
    BY <1>1 DEF Owed
  <1>4. OwedFingerprints \subseteq OwedFingerprints' \cup {page} /\ OwedFingerprints' \subseteq OwedFingerprints
    BY <1>3 DEF OwedFingerprints, Fingerprint
  <1> QED
    BY <1>1, <1>2, <1>4, OwedPlaces

LEMMA HandleTaskErrorKeeps ==
    ASSUME KeepInv, RunInv', HandleTaskError
    PROVE  KeepInv'
  <1>1. /\ UNCHANGED <<seen, tasks, disk, diskPast>> /\ main' = "top"
        /\ ctxErr' = ctxErr \/ ctxErr = "none"
    BY StopEndsContext DEF HandleTaskError, schedVars, fileVars
  <1>2. NoRequestLost'
    BY <1>1, ErrorOwes DEF KeepInv, NoRequestLost
  <1>3. RetriesKeepThePage' /\ HandIsKept' /\ FilesComplete'
    BY <1>1 DEF KeepInv, RetriesKeepThePage, HandIsKept, FilesComplete, Complements, Fingerprint
  <1> QED
    BY <1>2, <1>3 DEF KeepInv

\* The save and the cleanup.
LEMMA EndingKeeps ==
    ASSUME KeepInv, RunInv', WriteTemp \/ RenameTemp \/ Complete
    PROVE  KeepInv'
  <1>1. /\ UNCHANGED <<queue, seen, activeRequests, past, tasks, ctxErr>>
        /\ main # "errored" /\ main' \in {"renaming", "done"}
    BY DEF WriteTemp, RenameTemp, Complete, IsComplete, Launched, Finish, runVars, schedVars
  <1>2. NoRequestLost'
    BY <1>1, NothingMoves DEF KeepInv
  <1>3. RetriesKeepThePage' /\ HandIsKept'
    BY <1>1 DEF KeepInv, RetriesKeepThePage, HandIsKept, Fingerprint
  <1>4. FilesComplete'
    <2>1. CASE WriteTemp
      <3>1. UNCHANGED <<disk, diskPast>> /\ (main' = "renaming" => tmp' = PauseSnapshot)
        BY <2>1 DEF WriteTemp, Finish
      <3>2. Complements(PauseSnapshot, past)
        BY <1>1, PauseSnapshotComplete DEF KeepInv, RunInv
      <3> QED
        BY <1>1, <3>1, <3>2 DEF KeepInv, FilesComplete, Complements, Fingerprint
    <2>2. CASE RenameTemp
      <3>1. main' = "done" /\ main = "renaming"
        BY <2>2 DEF RenameTemp, Finish
      <3>2. \/ disk' = tmp /\ diskPast' = past
            \/ UNCHANGED <<disk, diskPast>>
        BY <2>2 DEF RenameTemp
      <3> QED
        BY <3>1, <3>2 DEF KeepInv, FilesComplete, Complements, Fingerprint
    <2>3. CASE Complete
      <3>1. main' = "done" /\ (disk' = Absent \/ UNCHANGED <<disk, diskPast>>)
        BY <2>3 DEF Complete, Finish
      <3> QED
        BY <3>1 DEF KeepInv, FilesComplete, Complements, Fingerprint
    <2> QED
      BY <2>1, <2>2, <2>3
  <1> QED
    BY <1>2, <1>3, <1>4 DEF KeepInv

\* A goroutine retries nothing but its own page.
LEMMA TaskStepKeeps ==
    ASSUME KeepInv, RunInv', NEW t \in DOMAIN tasks, TaskStep(t)
    PROVE  KeepInv'
  <1>1. UNCHANGED <<queue, seen, activeRequests, past, main, hand, ctxErr, disk, tmp, diskPast>>
    BY DEF TaskStep, CheckRobots, Acquire, Sleep, Fetch, RunCallback, taskUnchanged, schedVars, fileVars
  <1> DEFINE KeepsPage(u) ==
        /\ u \in DOMAIN tasks
        /\ tasks'[u].result.kind = "retry" =>
              Fingerprint(tasks'[u].result.retry) = Fingerprint(tasks'[u].request)
  <1>2. \A u \in DOMAIN tasks : tasks[u].result.kind = "retry" =>
                  Fingerprint(tasks[u].result.retry) = Fingerprint(tasks[u].request)
    BY DEF KeepInv, RetriesKeepThePage
  <1>3. ASSUME NEW step, Advance(t, step)
        PROVE  \A u \in DOMAIN tasks' : KeepsPage(u)
    BY <1>2, <1>3 DEF Advance, KeepInv, RunInv, TypeInv, TypeOK, Task
  <1>4. ASSUME NEW kind, NEW err, NEW retry, Return(t, kind, err, retry),
               kind = "retry" => Fingerprint(retry) = Fingerprint(tasks[t].request)
        PROVE  \A u \in DOMAIN tasks' : KeepsPage(u)
    <2>1. DOMAIN tasks' = DOMAIN tasks /\ \A u \in DOMAIN tasks : u # t => tasks'[u] = tasks[u]
      BY <1>4 DEF Return
    <2>2. /\ tasks'[t].result = [kind |-> kind, err |-> err, retry |-> retry]
          /\ tasks'[t].request = tasks[t].request
      BY <1>4 DEF Return, KeepInv, RunInv, TypeInv, TypeOK, Task
    <2>3. KeepsPage(t)
      BY <1>4, <2>2
    <2>4. \A u \in DOMAIN tasks : u # t => KeepsPage(u)
      BY <1>2, <2>1
    <2> QED
      BY <2>1, <2>3, <2>4
  <1>5. \A filtered : Fingerprint(RetryOf(tasks[t].request, filtered)) = Fingerprint(tasks[t].request)
    BY DEF RetryOf, Fingerprint
  <1> HIDE DEF KeepsPage
  <1>6. \A u \in DOMAIN tasks' : KeepsPage(u)
    <2>1. CASE CheckRobots(t)
      BY <1>3, <1>4, <2>1 DEF CheckRobots
    <2>2. CASE Acquire(t)
      BY <1>3, <1>4, <2>2 DEF Acquire, ReturnErr
    <2>3. CASE Sleep(t)
      BY <1>3, <1>4, <2>3 DEF Sleep, ReturnErr
    <2>4. CASE Fetch(t)
      BY <1>3, <1>4, <1>5, <2>4 DEF Fetch, ReturnErr
    <2>5. CASE RunCallback(t)
      BY <1>3, <1>4, <2>5 DEF RunCallback, ReturnErr
    <2> QED
      BY <2>1, <2>2, <2>3, <2>4, <2>5 DEF TaskStep
  <1>7. RetriesKeepThePage'
    BY <1>1, <1>6 DEF KeepsPage, RetriesKeepThePage, Fingerprint
  <1>8. NoRequestLost'
    BY <1>1, NothingMoves DEF KeepInv
  <1>9. HandIsKept' /\ FilesComplete'
    BY <1>1 DEF KeepInv, HandIsKept, IsContextErr, FilesComplete, Complements, Fingerprint
  <1> QED
    BY <1>7, <1>8, <1>9 DEF KeepInv

LEMMA JudgedStepIsAStep == [JudgedNext]_vars => [Next]_vars /\ ~EndsUnderJudgement
  BY DEF JudgedNext, EndsUnderJudgement, vars

LEMMA KeepInvStep == KeepInv /\ [JudgedNext]_vars => KeepInv'
  <1> SUFFICES ASSUME KeepInv, [JudgedNext]_vars
               PROVE  KeepInv'
    OBVIOUS
  <1>0. [Next]_vars /\ ~EndsUnderJudgement
    BY JudgedStepIsAStep
  <1>1. RunInv'
    BY <1>0, RunInvStep DEF KeepInv
  <1>2. CASE Begin \/ Crash
    BY <1>1, <1>2, FreshRunKeeps DEF Begin, Crash
  <1>3. CASE \/ FailSetup \/ OnStart \/ CheckContext \/ ObserveDone
             \/ RejectItem \/ KeepItem \/ Pause \/ OpenTemp \/ Fail
             \/ EndContext \/ ReadStream \/ UNCHANGED vars
    BY <1>0, <1>1, <1>3, SmallStepsKeep
  <1>4. CASE EnqueueStart \/ EnqueueOutput
    BY <1>1, <1>4, EnqueueKeeps
  <1>5. CASE Resume
    BY <1>1, <1>5, ResumeKeeps
  <1>6. CASE StartReadyTask
    BY <1>1, <1>6, StartReadyTaskKeeps
  <1>7. CASE HandleTaskResult
    BY <1>1, <1>7, HandleTaskResultKeeps
  <1>8. CASE HandleTaskError
    BY <1>1, <1>8, HandleTaskErrorKeeps
  <1>9. CASE WriteTemp \/ RenameTemp \/ Complete
    BY <1>1, <1>9, EndingKeeps
  <1>10. ASSUME NEW t \in DOMAIN tasks, TaskStep(t)
         PROVE  KeepInv'
    BY <1>1, <1>10, TaskStepKeeps
  <1>11. CASE Rest
    BY <1>3, <1>11 DEF Rest
  <1> QED
    BY <1>0, <1>2, <1>3, <1>4, <1>5, <1>6, <1>7, <1>8, <1>9, <1>10, <1>11 DEF Next, MainStep

LEMMA KeepInvInit == Init => KeepInv
  <1> SUFFICES ASSUME Init
               PROVE  KeepInv
    OBVIOUS
  <1>1. seen = {} /\ DOMAIN tasks = {} /\ main = "down" /\ disk = Absent
    BY DEF Init, SchedulerInit, NoTasks
  <1> QED
    BY <1>1, RunInvInit
       DEF KeepInv, NoRequestLost, RetriesKeepThePage, HandIsKept, FilesComplete

\* While no context ends under the judgement of a failed request, the crawl loses no
\* accepted request: in any run, after any pause, crash, failure or resume, each
\* fingerprint the filter knows is owed by the run or settled by it or a run before.
THEOREM NothingLost == JudgedSpec => []NoRequestLost
  <1>1. KeepInv => NoRequestLost
    BY DEF KeepInv
  <1> QED
    BY <1>1, KeepInvInit, KeepInvStep, PTL DEF JudgedSpec

\* And the checkpoint on disk is complete at every moment, in the middle of a save and
\* after a crash too.
THEOREM CheckpointsComplete == JudgedSpec => []CheckpointComplete
  <1>1. KeepInv => CheckpointComplete
    BY DEF KeepInv, RunInv, TypeInv, TypeOK, FilesComplete, Complements, CheckpointComplete
  <1> QED
    BY <1>1, KeepInvInit, KeepInvStep, PTL DEF JudgedSpec

----------------------------------------------------------------------------
(***************************************************************************)
(* What keeps the context from ending under a judgement: sessions and      *)
(* callbacks that return a context's error only for the run's own context. *)
(***************************************************************************)
ContextErrs == {"canceled", "deadline"}
SessionsReportTheirOwn == Faults \cap ContextErrs = {}

\* Every context error on its way to the loop is the context's.
ErrorsAreTheContexts ==
    /\ \A t \in DOMAIN tasks : tasks[t].result.err \in ContextErrs => tasks[t].result.err = ctxErr
    /\ main = "errored" => (hand.err \in ContextErrs => hand.err = ctxErr)
TellInv == RunInv /\ ErrorsAreTheContexts

\* A context that has ended stays ended, in the way it did.
LEMMA ContextEndsOnce ==
    ASSUME Next, ~Begin, ~Crash
    PROVE  ctxErr = "none" \/ ctxErr' = ctxErr
  <1>1. CASE FailSetup \/ MainStep
    BY <1>1, StopEndsContext
       DEF FailSetup, MainStep, Resume, EnqueueStart, OnStart, CheckContext, StartReadyTask, ObserveDone,
           HandleTaskResult, HandleTaskError, RejectItem, KeepItem, SendItem, EnqueueOutput, Pause,
           OpenTemp, WriteTemp, RenameTemp, Fail, Complete
  <1>2. ASSUME NEW t \in DOMAIN tasks, TaskStep(t)
        PROVE  ctxErr' = ctxErr
    BY <1>2 DEF TaskStep, CheckRobots, Acquire, Sleep, Fetch, RunCallback, taskUnchanged
  <1>3. CASE EndContext \/ ReadStream \/ Rest
    BY <1>3 DEF EndContext, ReadStream, Rest, vars
  <1> QED
    BY <1>1, <1>2, <1>3 DEF Next

\* A step of the loop adds no result, and hands on at most one error it was sent.
LEMMA LoopTells ==
    ASSUME TellInv, FailSetup \/ MainStep \/ EndContext \/ ReadStream \/ UNCHANGED vars,
           ctxErr = "none" \/ ctxErr' = ctxErr
    PROVE  ErrorsAreTheContexts'
  <1>1. CASE StartReadyTask
    <2>1. PICK e \in queue : tasks' = With(tasks, nextTaskID + 1, NewTask(e.request))
      BY <1>1 DEF StartReadyTask
    <2>2. NewTask(e.request).result.err = "none"
      BY DEF NewTask
    <2>3. \A t \in DOMAIN tasks' : tasks'[t] = NewTask(e.request) \/ (t \in DOMAIN tasks /\ tasks'[t] = tasks[t])
      BY <2>1 DEF With
    <2>4. main' = "launching" /\ ctxErr' = ctxErr
      BY <1>1 DEF StartReadyTask
    <2> QED
      BY <2>2, <2>3, <2>4 DEF TellInv, ErrorsAreTheContexts, ContextErrs
  <1>2. CASE HandleTaskResult
    <2>1. PICK t \in DOMAIN tasks : TakesResult(t)
      BY <1>2 DEF HandleTaskResult
    <2>2. ctxErr' = ctxErr /\ tasks' = Without(tasks, t)
      BY <1>2, <2>1 DEF HandleTaskResult, TakesResult
    <2>3. main' = "errored" => hand'.err = tasks[t].result.err
      BY <2>1 DEF TakesResult, ResultErr, ResultRobots, ResultBlocked, ResultRetry, ResultOk
    <2> QED
      BY <2>2, <2>3 DEF Without, TellInv, ErrorsAreTheContexts
  <1>3. CASE ~StartReadyTask /\ ~HandleTaskResult
    <2>1. UNCHANGED tasks /\ (main' = "errored" => main = "errored" /\ hand' = hand)
      BY <1>3 DEF FailSetup, MainStep, Resume, EnqueueStart, OnStart, CheckContext, ObserveDone,
           HandleTaskError, RejectItem, KeepItem, EnqueueOutput, NextOutput, Pause, Finish,
           OpenTemp, WriteTemp, RenameTemp, Fail, Complete, EndContext, ReadStream, runVars, vars
    <2>2. ctxErr = "none" =>
            /\ \A t \in DOMAIN tasks : tasks[t].result.err \notin ContextErrs
            /\ main = "errored" => hand.err \notin ContextErrs
      BY DEF TellInv, ErrorsAreTheContexts, ContextErrs
    <2> QED
      BY <2>1, <2>2 DEF TellInv, ErrorsAreTheContexts, ContextErrs
  <1> QED
    BY <1>1, <1>2, <1>3

\* A goroutine reports a context error only when the context has ended that way.
LEMMA TaskTells ==
    ASSUME SessionsReportTheirOwn, TellInv, NEW t \in DOMAIN tasks, TaskStep(t)
    PROVE  ErrorsAreTheContexts'
  <1>1. UNCHANGED <<main, hand, ctxErr>>
    BY DEF TaskStep, CheckRobots, Acquire, Sleep, Fetch, RunCallback, taskUnchanged
  <1> DEFINE Tells(u) == u \in DOMAIN tasks /\ (tasks'[u].result.err \in ContextErrs => tasks'[u].result.err = ctxErr)
  <1>2. \A u \in DOMAIN tasks : tasks[u].result.err \in ContextErrs => tasks[u].result.err = ctxErr
    BY DEF TellInv, ErrorsAreTheContexts
  <1>3. ASSUME NEW step, Advance(t, step)
        PROVE  \A u \in DOMAIN tasks' : Tells(u)
    BY <1>2, <1>3 DEF Advance, TellInv, RunInv, TypeInv, TypeOK, Task
  <1>4. ASSUME NEW kind, NEW err, NEW retry, Return(t, kind, err, retry),
               err \in ContextErrs => err = ctxErr
        PROVE  \A u \in DOMAIN tasks' : Tells(u)
    <2>1. DOMAIN tasks' = DOMAIN tasks /\ \A u \in DOMAIN tasks : u # t => tasks'[u] = tasks[u]
      BY <1>4 DEF Return
    <2>2. tasks'[t].result = [kind |-> kind, err |-> err, retry |-> retry]
      BY <1>4 DEF Return, TellInv, RunInv, TypeInv, TypeOK, Task
    <2>3. Tells(t)
      BY <1>4, <2>2
    <2>4. \A u \in DOMAIN tasks : u # t => Tells(u)
      BY <1>2, <2>1
    <2> QED
      BY <2>1, <2>3, <2>4
  <1>5. /\ "none" \notin ContextErrs
        /\ \A err \in Faults : err \notin ContextErrs
        /\ FetchErr \in ContextErrs => FetchErr = ctxErr
    BY DEF SessionsReportTheirOwn, ContextErrs, FetchErr
  <1> HIDE DEF Tells
  <1>6. \A u \in DOMAIN tasks' : Tells(u)
    <2>1. CASE CheckRobots(t)
      BY <1>3, <1>4, <1>5, <2>1 DEF CheckRobots
    <2>2. CASE Acquire(t)
      BY <1>3, <1>4, <1>5, <2>2 DEF Acquire, ReturnErr
    <2>3. CASE Sleep(t)
      BY <1>3, <1>4, <1>5, <2>3 DEF Sleep, ReturnErr
    <2>4. CASE Fetch(t)
      BY <1>3, <1>4, <1>5, <2>4 DEF Fetch, ReturnErr
    <2>5. CASE RunCallback(t)
      BY <1>3, <1>4, <1>5, <2>5 DEF RunCallback, ReturnErr
    <2> QED
      BY <2>1, <2>2, <2>3, <2>4, <2>5 DEF TaskStep
  <1> QED
    BY <1>1, <1>2, <1>6 DEF Tells, TellInv, ErrorsAreTheContexts

LEMMA TellInvStep ==
    ASSUME SessionsReportTheirOwn
    PROVE  TellInv /\ [Next]_vars => TellInv'
  <1> SUFFICES ASSUME TellInv, [Next]_vars
               PROVE  ErrorsAreTheContexts'
    BY RunInvStep DEF TellInv
  <1>1. CASE Begin \/ Crash
    BY <1>1 DEF Begin, Crash, FreshRun, NoTasks, ErrorsAreTheContexts
  <1>2. CASE UNCHANGED vars
    BY <1>2, LoopTells DEF vars
  <1>3. CASE Next /\ ~Begin /\ ~Crash
    <2>1. ctxErr = "none" \/ ctxErr' = ctxErr
      BY <1>3, ContextEndsOnce
    <2> QED
      BY <1>3, <2>1, LoopTells, TaskTells DEF Next, Rest
  <1> QED
    BY <1>1, <1>2, <1>3

\* With sessions that never return a context error of their own, no context ends under
\* the judgement of a failed request: what is proved of JudgedSpec holds of every run.
THEOREM HonestSessionsAreJudged ==
    ASSUME SessionsReportTheirOwn
    PROVE  Spec => JudgedSpec
  <1>1. Init => TellInv
    BY RunInvInit DEF Init, NoTasks, TellInv, ErrorsAreTheContexts
  <1>2. TellInv /\ [Next]_vars => [JudgedNext]_vars
    <2> SUFFICES ASSUME TellInv, Next, EndsUnderJudgement
                 PROVE  FALSE
      BY DEF JudgedNext
    <2>1. ~Begin /\ ~Crash
      BY DEF EndsUnderJudgement, Begin, Crash
    <2>2. ctxErr = "none"
      BY <2>1, ContextEndsOnce DEF EndsUnderJudgement
    <2>3. ctxErr' \in ContextErrs
      BY <2>2, RunInvStep DEF EndsUnderJudgement, TellInv, RunInv, TypeInv, TypeOK, ContextErrs
    <2> QED
      BY <2>2, <2>3 DEF EndsUnderJudgement, TellInv, ErrorsAreTheContexts, ContextErrs
  <1> QED
    BY <1>1, <1>2, TellInvStep, PTL DEF Spec, JudgedSpec

----------------------------------------------------------------------------
(***************************************************************************)
(* The work of a crawl: the limits of the hosts, that nothing is fetched   *)
(* twice, that links are followed, and that a pause keeps what the end of  *)
(* the context cut short.                                                  *)
(***************************************************************************)

----------------------------------------------------------------------------
(***************************************************************************)
(* What a step of a goroutine and a step of the run do to the tasks.       *)
(***************************************************************************)
\* A task working for its host holds one slot of it.
Holding == {"delay", "fetch", "callback"}
Holds(t) == tasks[t].at \in Holding
ReturnsAs(t, kind, err) ==
    tasks'[t].at = "send" /\ tasks'[t].result.kind = kind /\ tasks'[t].result.err = err

\* A goroutine works on its own task only, which keeps its request and has not sent
\* its result; it goes on, or returns, and takes or gives back the slot it holds.
LEMMA TaskStepEffect ==
    ASSUME TypeInv, NEW t \in DOMAIN tasks, TaskStep(t)
    PROVE  /\ UNCHANGED taskUnchanged
           /\ DOMAIN tasks' = DOMAIN tasks
           /\ \A u \in DOMAIN tasks : u # t => tasks'[u] = tasks[u]
           /\ tasks'[t].request = tasks[t].request
           /\ tasks[t].at # "send"
           /\ \/ Holds(t)' = Holds(t) /\ UNCHANGED slots
              \/ /\ ~Holds(t) /\ Holds(t)'
                 /\ PerDomain > 0 => slots[TaskDomain(t)] < PerDomain
                 /\ slots' = IF PerDomain = 0 THEN slots ELSE [slots EXCEPT ![TaskDomain(t)] = @ + 1]
              \/ Holds(t) /\ ~Holds(t)' /\ Release(t)
           /\ \/ UNCHANGED interrupted
              \/ ctxErr # "none" /\ CutShort(t) /\ \E err \in {ctxErr, FetchErr} : ReturnsAs(t, "err", err)
  <1> USE DEF Holds, Holding
  <1>0. UNCHANGED taskUnchanged
    BY DEF TaskStep, CheckRobots, Acquire, Sleep, Fetch, RunCallback
  <1>1. tasks[t] \in Task /\ DOMAIN tasks[t] = {"at", "request", "result"}
    BY DEF TypeInv, TypeOK, Task
  <1>2. ASSUME NEW step, Advance(t, step)
        PROVE  /\ DOMAIN tasks' = DOMAIN tasks
               /\ \A u \in DOMAIN tasks : u # t => tasks'[u] = tasks[u]
               /\ tasks'[t].request = tasks[t].request /\ tasks'[t].at = step
    BY <1>1, <1>2 DEF Advance
  <1>3. ASSUME NEW kind, NEW err, NEW retry, Return(t, kind, err, retry)
        PROVE  /\ DOMAIN tasks' = DOMAIN tasks
               /\ \A u \in DOMAIN tasks : u # t => tasks'[u] = tasks[u]
               /\ tasks'[t].request = tasks[t].request /\ ReturnsAs(t, kind, err)
    <2>1. /\ DOMAIN tasks' = DOMAIN tasks
          /\ \A u \in DOMAIN tasks : u # t => tasks'[u] = tasks[u]
      BY <1>3 DEF Return
    <2>2. /\ tasks'[t].request = tasks[t].request /\ tasks'[t].at = "send"
          /\ tasks'[t].result = [kind |-> kind, err |-> err, retry |-> retry]
      BY <1>1, <1>3 DEF Return
    <2> QED
      BY <2>1, <2>2 DEF ReturnsAs
  <1>4. CASE CheckRobots(t)
    <2>1. tasks[t].at = "robots" /\ UNCHANGED <<slots, interrupted>>
      BY <1>4 DEF CheckRobots, IsAt
    <2>2. Advance(t, "acquire") \/ Return(t, "robots", "none", tasks[t].request)
      BY <1>4 DEF CheckRobots
    <2> QED
      BY <1>0, <1>2, <1>3, <2>1, <2>2 DEF ReturnsAs
  <1>5. CASE Acquire(t)
    <2>1. tasks[t].at = "acquire"
      BY <1>5 DEF Acquire, IsAt
    <2>2. CASE /\ PerDomain = 0 \/ slots[TaskDomain(t)] < PerDomain
               /\ slots' = IF PerDomain = 0 THEN slots ELSE [slots EXCEPT ![TaskDomain(t)] = @ + 1]
               /\ Advance(t, IF Delay THEN "delay" ELSE "fetch")
               /\ UNCHANGED interrupted
      <3>1. PerDomain > 0 => slots[TaskDomain(t)] < PerDomain
        BY <2>2, CrawlAssumption
      <3> QED
        BY <1>0, <1>2, <2>1, <2>2, <3>1
    <2>3. CASE ctxErr # "none" /\ ReturnErr(t, ctxErr) /\ CutShort(t) /\ UNCHANGED slots
      BY <1>0, <1>3, <2>1, <2>3 DEF ReturnErr, ReturnsAs
    <2> QED
      BY <1>5, <2>2, <2>3 DEF Acquire
  <1>6. CASE Sleep(t)
    <2>1. tasks[t].at = "delay"
      BY <1>6 DEF Sleep, IsAt
    <2>2. CASE Advance(t, "fetch") /\ UNCHANGED <<slots, interrupted>>
      BY <1>0, <1>2, <2>1, <2>2
    <2>3. CASE ctxErr # "none" /\ ReturnErr(t, ctxErr) /\ Release(t) /\ CutShort(t)
      BY <1>0, <1>3, <2>1, <2>3 DEF ReturnErr, ReturnsAs
    <2> QED
      BY <1>6, <2>2, <2>3 DEF Sleep
  <1>7. CASE Fetch(t)
    <2>1. tasks[t].at = "fetch"
      BY <1>7 DEF Fetch, IsAt
    <2>2. CASE Advance(t, "callback") /\ UNCHANGED <<slots, interrupted>>
      BY <1>0, <1>2, <2>1, <2>2
    <2>3. CASE (\E kind, err, retry : Return(t, kind, err, retry)) /\ Release(t) /\ UNCHANGED interrupted
      BY <1>0, <1>3, <2>1, <2>3 DEF ReturnsAs
    <2>4. CASE ctxErr # "none" /\ ReturnErr(t, FetchErr) /\ Release(t) /\ CutShort(t)
      BY <1>0, <1>3, <2>1, <2>4 DEF ReturnErr, ReturnsAs
    <2> QED
      BY <1>7, <2>2, <2>3, <2>4 DEF Fetch, ReturnErr
  <1>8. CASE RunCallback(t)
    <2>1. tasks[t].at = "callback"
      BY <1>8 DEF RunCallback, IsAt
    <2>2. (\E kind, err, retry : Return(t, kind, err, retry)) /\ Release(t) /\ UNCHANGED interrupted
      BY <1>8 DEF RunCallback, ReturnErr
    <2> QED
      BY <1>0, <1>3, <2>1, <2>2 DEF ReturnsAs
  <1> QED
    BY <1>4, <1>5, <1>6, <1>7, <1>8 DEF TaskStep

----------------------------------------------------------------------------
(***************************************************************************)
(* The limits of the hosts.                                                *)
(***************************************************************************)
SlotsInv == TypeInv /\ DomainsBounded

LEMMA TaskStepHolds ==
    ASSUME SlotsInv, NEW t \in DOMAIN tasks, TaskStep(t), PerDomain > 0
    PROVE  DomainsBounded'
  <1>1. PICK home \in Domains : home = TaskDomain(t)
    BY CrawlAssumption DEF TaskDomain, SlotsInv, TypeInv, TypeOK, Task, Request
  <1>0. slots \in [Domains -> Int] /\ PerDomain \in Nat
    BY CrawlAssumption DEF SlotsInv, TypeInv, TypeOK
  <1>2. \A u \in DOMAIN tasks : TaskDomain(u)' = TaskDomain(u)
    BY TaskStepEffect DEF TaskDomain, SlotsInv
  <1>3. \A d \in Domains : d # home => InDomain(d)' = InDomain(d)
    BY <1>1, <1>2, TaskStepEffect DEF InDomain, SlotsInv
  <1>4. \A d \in Domains :
            /\ slots[d] = Cardinality(InDomain(d)) /\ slots[d] <= PerDomain
            /\ IsFiniteSet(InDomain(d))
    <2>1. \A d \in Domains : InDomain(d) \subseteq DOMAIN tasks
      BY DEF InDomain
    <2> QED
      BY <2>1, TasksFinite, FS_Subset DEF SlotsInv, DomainsBounded
  <1>5. CASE Holds(t)' = Holds(t) /\ UNCHANGED slots
    <2>1. InDomain(home)' = InDomain(home)
      BY <1>1, <1>2, <1>5, TaskStepEffect DEF InDomain, Holds, Holding, SlotsInv
    <2> QED
      BY <1>3, <1>4, <1>5, <2>1 DEF DomainsBounded
  <1>6. CASE ~Holds(t) /\ Holds(t)' /\ slots[home] < PerDomain /\ slots' = [slots EXCEPT ![home] = @ + 1]
    <2>1. InDomain(home)' = InDomain(home) \cup {t} /\ t \notin InDomain(home)
      BY <1>1, <1>2, <1>6, TaskStepEffect DEF InDomain, Holds, Holding, SlotsInv
    <2>2. Cardinality(InDomain(home)') = Cardinality(InDomain(home)) + 1
      BY <1>1, <1>4, <2>1, FS_AddElement
    <2>3. slots'[home] = slots[home] + 1 /\ \A d \in Domains : d # home => slots'[d] = slots[d]
      BY <1>0, <1>6
    <2>4. slots'[home] = Cardinality(InDomain(home)') /\ slots'[home] <= PerDomain
      BY <1>0, <1>4, <1>6, <2>2, <2>3
    <2>5. \A d \in Domains : d # home => slots'[d] = Cardinality(InDomain(d)') /\ slots'[d] <= PerDomain
      BY <1>3, <1>4, <2>3
    <2> QED
      BY <2>4, <2>5 DEF DomainsBounded
  <1>7. CASE Holds(t) /\ ~Holds(t)' /\ slots' = [slots EXCEPT ![home] = @ - 1]
    <2>1. InDomain(home)' = InDomain(home) \ {t} /\ t \in InDomain(home)
      BY <1>1, <1>2, <1>7, TaskStepEffect DEF InDomain, Holds, Holding, SlotsInv
    <2>2. Cardinality(InDomain(home)') = Cardinality(InDomain(home)) - 1
      BY <1>1, <1>4, <2>1, FS_RemoveElement
    <2>3. slots'[home] = slots[home] - 1 /\ \A d \in Domains : d # home => slots'[d] = slots[d]
      BY <1>0, <1>7
    <2>4. slots'[home] = Cardinality(InDomain(home)') /\ slots'[home] <= PerDomain
      BY <1>0, <1>4, <1>7, <2>2, <2>3
    <2>5. \A d \in Domains : d # home => slots'[d] = Cardinality(InDomain(d)') /\ slots'[d] <= PerDomain
      BY <1>3, <1>4, <2>3
    <2> QED
      BY <2>4, <2>5 DEF DomainsBounded
  <1> QED
    BY <1>1, <1>5, <1>6, <1>7, TaskStepEffect DEF Release, SlotsInv

\* The run launches tasks that hold nothing and takes results of tasks that hold nothing.
LEMMA RunStepHolds ==
    ASSUME SlotsInv, StartReadyTask \/ HandleTaskResult
    PROVE  DomainsBounded'
  <1>1. UNCHANGED slots
    BY DEF StartReadyTask, HandleTaskResult
  <1>2. \A d \in Domains : InDomain(d)' = InDomain(d)
    <2>1. CASE StartReadyTask
      <3>1. PICK e \in queue : tasks' = With(tasks, nextTaskID + 1, NewTask(e.request))
        BY <2>1 DEF StartReadyTask
      <3>2. nextTaskID + 1 \notin DOMAIN tasks /\ NewTask(e.request).at = "robots"
        BY DEF NewTask, SlotsInv, TypeInv, TypeOK
      <3> QED
        BY <3>1, <3>2 DEF With, InDomain, TaskDomain
    <2>2. CASE HandleTaskResult
      <3>1. PICK t \in DOMAIN tasks : tasks' = Without(tasks, t) /\ tasks[t].at = "send"
        BY <2>2 DEF HandleTaskResult, TakesResult
      <3> QED
        BY <3>1 DEF Without, InDomain, TaskDomain
    <2> QED
      BY <2>1, <2>2
  <1> QED
    BY <1>1, <1>2 DEF SlotsInv, DomainsBounded

LEMMA SlotsInvStep == SlotsInv /\ [Next]_vars => SlotsInv'
  <1> SUFFICES ASSUME SlotsInv, [Next]_vars
               PROVE  DomainsBounded'
    BY TypeStep DEF SlotsInv
  <1>1. CASE Begin \/ Crash
    <2>1. slots' = [d \in Domains |-> 0] /\ DOMAIN tasks' = {}
      BY <1>1 DEF Begin, Crash, FreshRun, NoTasks
    <2>2. \A d \in Domains : InDomain(d)' = {} /\ slots'[d] = 0
      BY <2>1 DEF InDomain
    <2>3. PerDomain \in Nat /\ Cardinality({}) = 0
      BY FS_EmptySet, CrawlAssumption
    <2> QED
      BY <2>2, <2>3 DEF DomainsBounded
  <1>2. CASE StartReadyTask \/ HandleTaskResult
    BY <1>2, RunStepHolds
  <1>3. ASSUME NEW t \in DOMAIN tasks, TaskStep(t) PROVE DomainsBounded'
    BY <1>3, TaskStepHolds DEF DomainsBounded
  <1>4. CASE UNCHANGED <<tasks, slots>>
    <2>1. \A d \in Domains : InDomain(d)' = InDomain(d)
      BY <1>4 DEF InDomain, TaskDomain
    <2> QED
      BY <1>4, <2>1 DEF SlotsInv, DomainsBounded
  <1> QED
    BY <1>1, <1>2, <1>3, <1>4
       DEF Next, MainStep, FailSetup, Resume, EnqueueStart, OnStart, CheckContext, ObserveDone,
           HandleTaskError, RejectItem, KeepItem, EnqueueOutput, Pause, OpenTemp, WriteTemp,
           RenameTemp, Fail, Complete, EndContext, ReadStream, Rest, vars, runVars

LEMMA SlotsInvInit == Init => SlotsInv
  <1> SUFFICES ASSUME Init
               PROVE  DomainsBounded
    BY TypeInit DEF SlotsInv
  <1>1. \A d \in Domains : InDomain(d) = {} /\ slots[d] = 0
    BY DEF Init, NoTasks, InDomain
  <1>2. PerDomain \in Nat /\ Cardinality({}) = 0
    BY FS_EmptySet, CrawlAssumption
  <1> QED
    BY <1>1, <1>2 DEF DomainsBounded

\* However many hosts, tasks and stops there are, a host's limiter counts exactly the
\* tasks that work for the host and never exceeds its limit: no return of a goroutine
\* forgets its slot or gives it back twice.  (crawlerDomainLimiters)
THEOREM HostsBounded == Spec => []DomainsBounded
  <1>1. SlotsInv => DomainsBounded
    BY DEF SlotsInv
  <1> QED
    BY <1>1, SlotsInvInit, SlotsInvStep, PTL DEF Spec
----------------------------------------------------------------------------
(***************************************************************************)
(* Nothing is fetched twice.  A fingerprint the filter has recorded is in  *)
(* at most one of four places: the queue, a request in flight, the failed  *)
(* task in hand, and what the crawl has dealt with.                        *)
(***************************************************************************)
\* Two requests the filter takes for the same.
Same(r, s) == ~r.dontFilter /\ ~s.dontFilter /\ Fingerprint(r) = Fingerprint(s)

\* A set of entries that the filter let through: `known' has been recorded, and
\* `done' dealt with.
OnceIn(entries, known, done) ==
    /\ \A a, b \in entries : Same(a.request, b.request) => a = b
    /\ \A e \in entries : ~e.request.dontFilter => Fingerprint(e.request) \in known \ done
    /\ done \subseteq known

QueueOnce == OnceIn(queue, seen, past.fetched)
FlyingOnce ==
    \A t \in DOMAIN activeRequests :
        /\ ~activeRequests[t].dontFilter => Fingerprint(activeRequests[t]) \in seen \ past.fetched
        /\ \A u \in DOMAIN activeRequests : Same(activeRequests[t], activeRequests[u]) => t = u
        /\ \A e \in queue : ~Same(activeRequests[t], e.request)
\* The failed task in hand is still in flight only if the context ended it.
HandOnce ==
    main = "errored" =>
        /\ hand.task \in DOMAIN activeRequests => HandKeeps(hand.task)
        /\ hand.task \notin DOMAIN activeRequests =>
              /\ ~hand.request.dontFilter => Fingerprint(hand.request) \in seen
              /\ \A e \in queue : ~Same(hand.request, e.request)
              /\ \A t \in DOMAIN activeRequests : ~Same(hand.request, activeRequests[t])
FilesOnce ==
    /\ disk # Absent => OnceIn(disk.requests, disk.seen, diskPast.fetched)
    /\ main = "renaming" => OnceIn(tmp.requests, tmp.seen, past.fetched)
Early == {"down", "loading", "starting"}
NoneInFlight == main \in Early => DOMAIN activeRequests = {}

OnceInv == RunInv /\ QueueOnce /\ FlyingOnce /\ HandOnce /\ FilesOnce /\ NoneInFlight

\* The list a pause saves, entry by entry: what is in flight, then what is queued.
FrontPlace(t) ==
    [request |-> activeRequests[t], order |-> Cardinality({u \in DOMAIN activeRequests : u < t}) + 1]
BackPlace(e) ==
    [request |-> e.request,
     order |-> Cardinality(InFlightList) + (Cardinality({x \in queue : Precedes(x, e)}) + 1)]

LEMMA PauseEntries ==
    /\ PauseSnapshot.requests =
          {FrontPlace(t) : t \in DOMAIN activeRequests} \cup {BackPlace(e) : e \in queue}
    /\ PauseSnapshot.seen = seen
    /\ \A t \in DOMAIN activeRequests : FrontPlace(t).request = activeRequests[t]
    /\ \A e \in queue : BackPlace(e).request = e.request
  <1>1. InFlightList = {FrontPlace(t) : t \in DOMAIN activeRequests}
    BY DEF InFlightList, FrontPlace
  <1>2. {[request |-> e.request, order |-> Cardinality(InFlightList) + e.order] : e \in Listing(queue)}
          = {BackPlace(e) : e \in queue}
    <2> DEFINE place(e) == [request |-> e.request,
                            order |-> Cardinality({x \in queue : Precedes(x, e)}) + 1]
               later(e) == [request |-> e.request, order |-> Cardinality(InFlightList) + e.order]
    <2>1. Listing(queue) = {place(e) : e \in queue}
      BY DEF Listing
    <2>2. \A e \in queue : later(place(e)) = BackPlace(e)
      BY DEF BackPlace
    <2> HIDE DEF place, later
    <2>3. {later(e) : e \in Listing(queue)} = {BackPlace(e) : e \in queue}
      BY <2>1, <2>2
    <2> QED
      BY <2>3 DEF later
  <1> QED
    BY <1>1, <1>2 DEF PauseSnapshot, Joined, Snapshot, FrontPlace, BackPlace

LEMMA PauseSnapshotOnce ==
    ASSUME QueueOnce, FlyingOnce
    PROVE  OnceIn(PauseSnapshot.requests, PauseSnapshot.seen, past.fetched)
  <1> DEFINE list == PauseSnapshot.requests
  <1>1. \A x \in list :
            \/ \E t \in DOMAIN activeRequests : x = FrontPlace(t)
            \/ \E e \in queue : x = BackPlace(e)
    BY PauseEntries
  <1>2. \A x, y \in list : Same(x.request, y.request) => x = y
    BY <1>1, PauseEntries DEF QueueOnce, FlyingOnce, OnceIn, Same
  <1>3. \A x \in list : ~x.request.dontFilter => Fingerprint(x.request) \in seen \ past.fetched
    BY <1>1, PauseEntries DEF QueueOnce, FlyingOnce, OnceIn
  <1> QED
    BY <1>2, <1>3, PauseEntries DEF QueueOnce, OnceIn

\* What the filter lets in was in none of the places.
LEMMA OfferOnce ==
    ASSUME NEW done, OnceIn(queue, seen, done), NEW r, Offer(r)
    PROVE  /\ OnceIn(queue', seen', done)
           /\ seen \subseteq seen'
           /\ \A e \in queue' : e \in queue \/ e.request.dontFilter \/ Fingerprint(e.request) \notin seen
  <1>1. CASE Accepts(r)
    <2> DEFINE new == [request |-> r, order |-> counter + 1]
    <2>1. queue' = queue \cup {new} /\ new.request = r
      BY <1>1 DEF Offer, Enqueue
    <2>2. seen' = IF r.dontFilter THEN seen ELSE seen \cup {Fingerprint(r)}
      BY <1>1 DEF Offer, Enqueue
    <2>3. r.dontFilter \/ Fingerprint(r) \notin seen
      BY <1>1 DEF Accepts
    <2> HIDE DEF new
    <2> QED
      BY <2>1, <2>2, <2>3 DEF OnceIn, Same
  <1>2. CASE ~Accepts(r)
    BY <1>2 DEF Offer, schedVars
  <1> QED
    BY <1>1, <1>2

\* A step that at most offers a request, and at most ends the context.
LEMMA ScheduleGrows ==
    ASSUME OnceInv, RunInv',
           (\E r : Offer(r)) \/ UNCHANGED <<queue, seen>>,
           UNCHANGED <<activeRequests, past, disk, diskPast>>,
           main' = "errored" => main = "errored" /\ hand' = hand /\ (ctxErr # "none" => ctxErr' = ctxErr)
                                /\ UNCHANGED <<queue, seen>>,
           main' = "renaming" => main = "renaming" /\ tmp' = tmp,
           main' \in Early => main \in Early
    PROVE  OnceInv'
  <1>1. /\ OnceIn(queue', seen', past.fetched)
        /\ seen \subseteq seen'
        /\ \A e \in queue' : e \in queue \/ e.request.dontFilter \/ Fingerprint(e.request) \notin seen
    BY OfferOnce DEF OnceInv, QueueOnce
  <1>2. QueueOnce'
    BY <1>1 DEF QueueOnce, OnceIn, Same, Fingerprint
  <1>3. FlyingOnce'
    BY <1>1 DEF OnceInv, FlyingOnce, Same, Fingerprint
  <1>4. HandOnce'
    BY DEF OnceInv, HandOnce, HandKeeps, Same, Fingerprint
  <1>5. FilesOnce' /\ NoneInFlight'
    BY DEF OnceInv, FilesOnce, OnceIn, Same, Fingerprint, NoneInFlight
  <1> QED
    BY <1>2, <1>3, <1>4, <1>5 DEF OnceInv

LEMMA GrowingSteps ==
    ASSUME OnceInv, RunInv',
           \/ FailSetup \/ EnqueueStart \/ OnStart \/ CheckContext \/ ObserveDone
           \/ RejectItem \/ KeepItem \/ EnqueueOutput \/ Pause \/ OpenTemp \/ Fail
           \/ (\E t \in DOMAIN tasks : TaskStep(t))
           \/ EndContext \/ ReadStream \/ UNCHANGED vars
    PROVE  OnceInv'
  <1>1. CASE FailSetup \/ OnStart \/ CheckContext \/ ObserveDone
    BY <1>1, ScheduleGrows
       DEF FailSetup, OnStart, CheckContext, ObserveDone, Waiting, Launched, runVars, fileVars, schedVars, Early
  <1>2. CASE EnqueueStart \/ EnqueueOutput
    <2>1. (\E r : Offer(r)) \/ UNCHANGED <<queue, seen>>
      BY <1>2 DEF EnqueueStart, EnqueueOutput, schedVars
    <2>2. /\ UNCHANGED <<activeRequests, past, disk, diskPast>>
          /\ main' \notin {"errored", "renaming"} /\ (main' \in Early => main \in Early)
      BY <1>2 DEF EnqueueStart, EnqueueOutput, NextOutput, Finish, fileVars, Early
    <2> QED
      BY <2>1, <2>2, ScheduleGrows
  <1>3. CASE RejectItem \/ KeepItem
    BY <1>3, ScheduleGrows DEF RejectItem, KeepItem, NextOutput, fileVars, schedVars, Early
  <1>4. CASE Pause \/ OpenTemp \/ Fail
    BY <1>4, ScheduleGrows
       DEF Pause, OpenTemp, Fail, IsComplete, Launched, Finish, runVars, fileVars, schedVars, Early
  <1>5. CASE (\E t \in DOMAIN tasks : TaskStep(t)) \/ EndContext \/ ReadStream \/ UNCHANGED vars
    <2>1. /\ UNCHANGED <<queue, seen, activeRequests, past, disk, diskPast, main, hand, tmp>>
          /\ ctxErr # "none" => ctxErr' = ctxErr
      BY <1>5 DEF TaskStep, CheckRobots, Acquire, Sleep, Fetch, RunCallback, taskUnchanged, EndContext,
                  ReadStream, vars, runVars, fileVars, schedVars
    <2> QED
      BY <2>1, ScheduleGrows
  <1> QED
    BY <1>1, <1>2, <1>3, <1>4, <1>5

LEMMA FreshRunOnce ==
    ASSUME OnceInv, RunInv', FreshRun, UNCHANGED fileVars, main' \in {"down", "loading"}
    PROVE  OnceInv'
  <1>1. queue' = {} /\ seen' = {} /\ DOMAIN activeRequests' = {} /\ past'.fetched = {}
    BY DEF FreshRun, NoTasks, NoPast
  <1>2. QueueOnce' /\ FlyingOnce' /\ HandOnce' /\ NoneInFlight'
    BY <1>1 DEF QueueOnce, OnceIn, FlyingOnce, HandOnce, NoneInFlight
  <1>3. FilesOnce'
    BY DEF OnceInv, FilesOnce, OnceIn, Same, Fingerprint, fileVars
  <1> QED
    BY <1>2, <1>3 DEF OnceInv

\* A restored list brings its fingerprints back, also those the snapshot has lost.
LEMMA ResumeOnce ==
    ASSUME OnceInv, RunInv', Resume
    PROVE  OnceInv'
  <1>1. /\ UNCHANGED <<activeRequests, disk, diskPast>> /\ past' = diskPast
        /\ main = "loading" /\ main' = "starting" /\ disk # Absent
        /\ queue' = disk.requests /\ disk.seen \subseteq seen'
    BY DEF Resume, Restore, runVars, fileVars
  <1>2. QueueOnce'
    BY <1>1 DEF OnceInv, FilesOnce, QueueOnce, OnceIn, Same, Fingerprint
  <1>3. FlyingOnce' /\ NoneInFlight'
    BY <1>1 DEF OnceInv, NoneInFlight, Early, FlyingOnce
  <1>4. HandOnce' /\ FilesOnce'
    BY <1>1 DEF OnceInv, HandOnce, FilesOnce, OnceIn, Same, Fingerprint
  <1> QED
    BY <1>2, <1>3, <1>4 DEF OnceInv

\* Launching moves a request from the queue to those in flight.
LEMMA StartReadyTaskOnce ==
    ASSUME OnceInv, RunInv', StartReadyTask
    PROVE  OnceInv'
  <1> DEFINE id == nextTaskID + 1
  <1>1. PICK e \in queue : Dequeue(e) /\ activeRequests' = With(activeRequests, id, e.request)
    BY DEF StartReadyTask
  <1>2. /\ UNCHANGED <<main, past, disk, diskPast>> /\ main = "launching"
        /\ queue' = queue \ {e} /\ seen' = seen
    BY <1>1 DEF StartReadyTask, Dequeue, fileVars
  <1>3. id \notin DOMAIN activeRequests
    BY DEF OnceInv, RunInv, TypeInv, TypeOK
  <1>4. /\ DOMAIN activeRequests' = DOMAIN activeRequests \cup {id}
        /\ activeRequests'[id] = e.request
        /\ \A t \in DOMAIN activeRequests : activeRequests'[t] = activeRequests[t]
    BY <1>1, <1>3 DEF With
  <1>5. QueueOnce'
    BY <1>2 DEF OnceInv, QueueOnce, OnceIn, Same, Fingerprint
  <1> HIDE DEF id
  <1>6. FlyingOnce'
    <2>1. ~e.request.dontFilter => Fingerprint(e.request) \in seen \ past.fetched
      BY DEF OnceInv, QueueOnce, OnceIn
    <2>2. \A b \in queue' : ~Same(e.request, b.request)
      BY <1>2 DEF OnceInv, QueueOnce, OnceIn
    <2>3. \A t \in DOMAIN activeRequests : ~Same(activeRequests[t], e.request) /\ ~Same(e.request, activeRequests[t])
      BY DEF OnceInv, FlyingOnce, Same
    <2> QED
      BY <1>2, <1>4, <2>1, <2>2, <2>3 DEF OnceInv, FlyingOnce, Same, Fingerprint
  <1>7. HandOnce' /\ FilesOnce' /\ NoneInFlight'
    BY <1>2 DEF OnceInv, HandOnce, FilesOnce, NoneInFlight, Early, OnceIn, Same, Fingerprint
  <1> QED
    BY <1>5, <1>6, <1>7 DEF OnceInv

\* A result moves its request from those in flight to what is dealt with, or, failed,
\* to the hand; a retry that goes through the filter again is not the request itself.
LEMMA HandleTaskResultOnce ==
    ASSUME OnceInv, RunInv', HandleTaskResult
    PROVE  OnceInv'
  <1>1. PICK t \in DOMAIN tasks : TakesResult(t)
    BY DEF HandleTaskResult
  <1> DEFINE r == tasks[t].request
  <1>2. /\ main = "launching" /\ main' \in {"errored", "top", "outputs"}
        /\ UNCHANGED <<ctxErr, disk, diskPast>>
    BY <1>1 DEF HandleTaskResult, TakesResult, Waiting, Launched, fileVars,
                ResultErr, ResultRobots, ResultBlocked, ResultRetry, ResultOk
  <1>3. t \in DOMAIN activeRequests /\ activeRequests[t] = r
    BY DEF OnceInv, RunInv, TasksAreActive
  <1>4. /\ OnceIn(queue, seen, past.fetched)
        /\ ~r.dontFilter => Fingerprint(r) \in seen \ past.fetched
        /\ \A e \in queue : ~Same(r, e.request)
        /\ \A u \in DOMAIN activeRequests : u # t => ~Same(r, activeRequests[u])
    BY <1>3 DEF OnceInv, QueueOnce, FlyingOnce
  <1>5. CASE ResultErr(t)
    <2>1. /\ UNCHANGED <<queue, seen, past>> /\ main' = "errored"
          /\ hand' = [task |-> t, request |-> r, err |-> tasks[t].result.err]
          /\ tasks[t].result.kind = "err"
      BY <1>5 DEF ResultErr, schedVars
    <2>2. QueueOnce'
      BY <1>4, <2>1 DEF QueueOnce, OnceIn, Same, Fingerprint
    <2>3. \/ activeRequests' = Without(activeRequests, t)
          \/ activeRequests' = activeRequests /\ ctxErr # "none" /\ tasks[t].result.err = ctxErr
      BY <1>1 DEF TakesResult, StaysActive, IsContextErr
    <2>4. /\ DOMAIN activeRequests' \subseteq DOMAIN activeRequests
          /\ \A u \in DOMAIN activeRequests' : activeRequests'[u] = activeRequests[u]
      BY <2>3 DEF Without
    <2>5. FlyingOnce'
      BY <2>1, <2>4 DEF OnceInv, FlyingOnce, Same, Fingerprint
    <2>6. HandOnce'
      <3>1. hand'.task = t /\ hand'.request = r /\ hand'.err = tasks[t].result.err
        BY <2>1
      <3>2. CASE t \in DOMAIN activeRequests'
        <4>1. ctxErr # "none" /\ tasks[t].result.err = ctxErr
          BY <2>3, <3>2 DEF Without
        <4> QED
          BY <1>2, <2>1, <3>1, <3>2, <4>1 DEF HandOnce, HandKeeps
      <3>3. CASE t \notin DOMAIN activeRequests'
        <4>1. \A u \in DOMAIN activeRequests' : ~Same(r, activeRequests'[u])
          BY <1>4, <2>4, <3>3
        <4> QED
          BY <1>4, <2>1, <3>1, <3>3, <4>1 DEF HandOnce, Same, Fingerprint
      <3> QED
        BY <3>2, <3>3
    <2> QED
      BY <1>2, <2>1, <2>2, <2>5, <2>6
         DEF OnceInv, FilesOnce, NoneInFlight, Early, OnceIn, Same, Fingerprint
  <1>6. CASE ResultRobots(t) \/ ResultBlocked(t) \/ ResultOk(t) \/ ResultRetry(t)
    <2>1. /\ main' \in {"top", "outputs"}
          /\ past'.fetched = past.fetched \cup (IF r.dontFilter THEN {} ELSE {Fingerprint(r)})
          /\ activeRequests' = Without(activeRequests, t)
      BY <1>1, <1>6 DEF ResultRobots, ResultBlocked, ResultOk, ResultRetry, Settle, TakesResult, StaysActive
    <2>2. (\E s : Offer(s)) \/ UNCHANGED <<queue, seen>>
      BY <1>6 DEF ResultRobots, ResultBlocked, ResultOk, ResultRetry, schedVars
    <2>3. /\ OnceIn(queue', seen', past.fetched)
          /\ seen \subseteq seen'
          /\ \A e \in queue' : e \in queue \/ e.request.dontFilter \/ Fingerprint(e.request) \notin seen
      BY <1>4, <2>2, OfferOnce
    <2>4. QueueOnce'
      <3>1. OnceIn(queue', seen', past'.fetched)
        BY <1>4, <2>1, <2>3 DEF OnceIn, Same
      <3> QED
        BY <3>1 DEF QueueOnce, OnceIn, Same, Fingerprint
    <2>5. /\ DOMAIN activeRequests' = DOMAIN activeRequests \ {t}
          /\ \A u \in DOMAIN activeRequests' : activeRequests'[u] = activeRequests[u]
      BY <2>1 DEF Without
    <2>6. FlyingOnce'
      <3> SUFFICES ASSUME NEW u \in DOMAIN activeRequests'
                   PROVE  /\ ~activeRequests[u].dontFilter => Fingerprint(activeRequests[u]) \in seen' \ past'.fetched
                          /\ \A v \in DOMAIN activeRequests' : Same(activeRequests[u], activeRequests[v]) => u = v
                          /\ \A e \in queue' : ~Same(activeRequests[u], e.request)
        BY <2>5 DEF FlyingOnce, Same, Fingerprint
      <3>1. u # t /\ u \in DOMAIN activeRequests
        BY <2>5
      <3>2. /\ ~activeRequests[u].dontFilter => Fingerprint(activeRequests[u]) \in seen \ past.fetched
            /\ \A v \in DOMAIN activeRequests : Same(activeRequests[u], activeRequests[v]) => u = v
            /\ \A e \in queue : ~Same(activeRequests[u], e.request)
        BY <3>1 DEF OnceInv, FlyingOnce
      <3> QED
        BY <1>4, <2>1, <2>3, <2>5, <3>1, <3>2 DEF Same
    <2> QED
      BY <1>2, <2>1, <2>4, <2>6
         DEF OnceInv, HandOnce, FilesOnce, NoneInFlight, Early, OnceIn, Same, Fingerprint
  <1> QED
    BY <1>1, <1>5, <1>6 DEF TakesResult
\* handleTaskError deals with the request in hand, unless the context ended it.
LEMMA HandleTaskErrorOnce ==
    ASSUME OnceInv, RunInv', HandleTaskError
    PROVE  OnceInv'
  <1>1. /\ UNCHANGED <<queue, seen, activeRequests, disk, diskPast>>
        /\ main = "errored" /\ main' = "top"
    BY DEF HandleTaskError, schedVars, fileVars
  <1>2. /\ QueueOnce /\ FlyingOnce /\ HandOnce
        /\ past'.fetched = past.fetched
           \/ /\ ~(ctxErr # "none" /\ hand.err = ctxErr)
              /\ past'.fetched = past.fetched \cup (IF hand.request.dontFilter THEN {}
                                                     ELSE {Fingerprint(hand.request)})
    BY DEF HandleTaskError, IsContextErr, Settle, OnceInv
  <1>3. CASE past'.fetched = past.fetched
    BY <1>1, <1>2, <1>3
       DEF OnceInv, QueueOnce, FlyingOnce, HandOnce, FilesOnce, NoneInFlight, Early, OnceIn, Same, Fingerprint
  <1>4. CASE /\ ~(ctxErr # "none" /\ hand.err = ctxErr)
             /\ past'.fetched = past.fetched \cup (IF hand.request.dontFilter THEN {}
                                                    ELSE {Fingerprint(hand.request)})
    <2>1. /\ ~hand.request.dontFilter => Fingerprint(hand.request) \in seen
          /\ \A e \in queue : ~Same(hand.request, e.request)
          /\ \A t \in DOMAIN activeRequests : ~Same(hand.request, activeRequests[t])
      BY <1>1, <1>2, <1>4 DEF HandOnce, HandKeeps
    <2>2. QueueOnce'
      BY <1>1, <1>2, <1>4, <2>1 DEF QueueOnce, OnceIn, Same, Fingerprint
    <2>3. FlyingOnce'
      BY <1>1, <1>2, <1>4, <2>1 DEF FlyingOnce, Same, Fingerprint
    <2> QED
      BY <1>1, <2>2, <2>3 DEF OnceInv, HandOnce, FilesOnce, NoneInFlight, Early, OnceIn, Same, Fingerprint
  <1> QED
    BY <1>2, <1>3, <1>4

\* The save and the cleanup.
LEMMA EndingOnce ==
    ASSUME OnceInv, RunInv', WriteTemp \/ RenameTemp \/ Complete
    PROVE  OnceInv'
  <1>1. /\ UNCHANGED <<queue, seen, activeRequests, past>>
        /\ main \in {"writing", "renaming", "launching"} /\ main' \in {"renaming", "done"}
    BY DEF WriteTemp, RenameTemp, Complete, IsComplete, Launched, Finish, runVars, schedVars
  <1>2. QueueOnce' /\ FlyingOnce' /\ HandOnce' /\ NoneInFlight'
    BY <1>1 DEF OnceInv, QueueOnce, FlyingOnce, HandOnce, NoneInFlight, Early, OnceIn, Same, Fingerprint
  <1>3. FilesOnce'
    <2>1. CASE WriteTemp
      <3>1. UNCHANGED <<disk, diskPast>> /\ (main' = "renaming" => tmp' = PauseSnapshot)
        BY <2>1 DEF WriteTemp, Finish
      <3>2. OnceIn(PauseSnapshot.requests, PauseSnapshot.seen, past.fetched)
        BY PauseSnapshotOnce DEF OnceInv
      <3> QED
        BY <1>1, <3>1, <3>2 DEF OnceInv, FilesOnce, OnceIn, Same, Fingerprint
    <2>2. CASE RenameTemp
      <3>1. main = "renaming" /\ main' = "done"
        BY <2>2 DEF RenameTemp, Finish
      <3>2. \/ disk' = tmp /\ diskPast' = past
            \/ UNCHANGED <<disk, diskPast>>
        BY <2>2 DEF RenameTemp
      <3> QED
        BY <3>1, <3>2 DEF OnceInv, FilesOnce, OnceIn, Same, Fingerprint
    <2>3. CASE Complete
      <3>1. main' = "done" /\ (disk' = Absent \/ UNCHANGED <<disk, diskPast>>)
        BY <2>3 DEF Complete, Finish
      <3> QED
        BY <3>1 DEF OnceInv, FilesOnce, OnceIn, Same, Fingerprint
    <2> QED
      BY <2>1, <2>2, <2>3
  <1> QED
    BY <1>2, <1>3 DEF OnceInv

LEMMA OnceInvStep == OnceInv /\ [Next]_vars => OnceInv'
  <1> SUFFICES ASSUME OnceInv, [Next]_vars
               PROVE  OnceInv'
    OBVIOUS
  <1>0. RunInv'
    BY RunInvStep DEF OnceInv
  <1>1. CASE Begin \/ Crash
    BY <1>0, <1>1, FreshRunOnce DEF Begin, Crash
  <1>2. CASE \/ FailSetup \/ EnqueueStart \/ OnStart \/ CheckContext \/ ObserveDone
             \/ RejectItem \/ KeepItem \/ EnqueueOutput \/ Pause \/ OpenTemp \/ Fail
             \/ (\E t \in DOMAIN tasks : TaskStep(t))
             \/ EndContext \/ ReadStream \/ UNCHANGED vars
    BY <1>0, <1>2, GrowingSteps
  <1>3. CASE Resume
    BY <1>0, <1>3, ResumeOnce
  <1>4. CASE StartReadyTask
    BY <1>0, <1>4, StartReadyTaskOnce
  <1>5. CASE HandleTaskResult
    BY <1>0, <1>5, HandleTaskResultOnce
  <1>6. CASE HandleTaskError
    BY <1>0, <1>6, HandleTaskErrorOnce
  <1>7. CASE WriteTemp \/ RenameTemp \/ Complete
    BY <1>0, <1>7, EndingOnce
  <1>8. CASE Rest
    BY <1>2, <1>8 DEF Rest
  <1> QED
    BY <1>1, <1>2, <1>3, <1>4, <1>5, <1>6, <1>7, <1>8 DEF Next, MainStep

LEMMA OnceInvInit == Init => OnceInv
  <1> SUFFICES ASSUME Init
               PROVE  OnceInv
    OBVIOUS
  <1>1. /\ queue = {} /\ seen = {} /\ DOMAIN activeRequests = {} /\ past.fetched = {}
        /\ main = "down" /\ disk = Absent
    BY DEF Init, SchedulerInit, NoTasks, NoPast
  <1> QED
    BY <1>1, RunInvInit
       DEF OnceInv, QueueOnce, OnceIn, FlyingOnce, HandOnce, FilesOnce, NoneInFlight

\* In any run, after any pause, crash or resume, a filtered request is queued or in
\* flight once, and never again once its result was handled: no completed page is
\* fetched again.  (Restore, restoredSeenFingerprints, pauseSnapshot, handleTaskResult)
THEOREM NothingReplayed == Spec => []NoReplay
  <1>1. OnceInv => NoReplay
    BY DEF OnceInv, QueueOnce, FlyingOnce, OnceIn, Same, NoReplay
  <1> QED
    BY <1>1, OnceInvInit, OnceInvStep, PTL DEF Spec

\* The same of the scheduler by itself: what is queued was recorded, and is queued once.
THEOREM QueuedOnce == Spec => []FilteredOnce
  <1>1. OnceInv => FilteredOnce
    BY DEF OnceInv, QueueOnce, OnceIn, Same, FilteredIn, FilteredOnce
  <1> QED
    BY <1>1, OnceInvInit, OnceInvStep, PTL DEF Spec
----------------------------------------------------------------------------
(***************************************************************************)
(* Links are followed.  While the outputs of a page are handled, those     *)
(* left are the last ones of the page, and those before them are done.     *)
(***************************************************************************)
OutputDone(o, known) == o.item \/ \A link \in o.next : LinkDone(link, known)
\* What is left of a page's outputs: k are done, and only the item of one of the others
\* may be gone.
Left(page, left, k, known) ==
    /\ k + Len(left) = Len(page)
    /\ \A i \in 1..k : OutputDone(page[i], known)
    /\ \A i \in 1..Len(left) : left[i].next = page[k + i].next /\ (left[i].item => page[k + i].item)
HandlingSound ==
    main = "outputs" => \E k \in Nat : Left(Pages[parent.url], outputs, k, seen)

PageDone(u, known) == \A i \in 1..Len(Pages[u]) : OutputDone(Pages[u][i], known)
VisitedDone == \A u \in past.visited : (main = "outputs" /\ parent.url = u) \/ PageDone(u, seen)
FilesLinked ==
    /\ disk # Absent => \A u \in diskPast.visited : PageDone(u, disk.seen)
    /\ main = "renaming" => \A u \in past.visited : PageDone(u, tmp.seen)

LinksInv == RunInv /\ HandlingSound /\ VisitedDone /\ FilesLinked

LEMMA DoneGrows ==
    ASSUME NEW known, NEW more, known \subseteq more
    PROVE  /\ \A o : OutputDone(o, known) => OutputDone(o, more)
           /\ \A u : PageDone(u, known) => PageDone(u, more)
  BY DEF OutputDone, PageDone, LinkDone

\* The filter forgets nothing while a run lasts, and a link offered to it is done.
LEMMA OfferDone ==
    ASSUME NEW r, Offer(r)
    PROVE  seen \subseteq seen' /\ (~r.dontFilter => Fingerprint(r) \in seen')
  BY DEF Offer, Enqueue, Accepts, schedVars

\* Steps that handle no outputs and touch no file.
LEMMA LinksFrame ==
    ASSUME LinksInv, RunInv', seen \subseteq seen', past'.visited = past.visited,
           UNCHANGED <<disk, diskPast>>,
           main' = "outputs" <=> main = "outputs",
           main = "outputs" => UNCHANGED <<parent, outputs>>,
           main' = "renaming" => main = "renaming" /\ tmp' = tmp
    PROVE  LinksInv'
  <1> USE DEF OutputDone, PageDone, LinkDone, IsDomainAllowed
  <1>1. HandlingSound'
    BY DEF LinksInv, HandlingSound, Left
  <1>2. VisitedDone'
    BY DEF LinksInv, VisitedDone
  <1>3. FilesLinked'
    BY DEF LinksInv, FilesLinked
  <1> QED
    BY <1>1, <1>2, <1>3 DEF LinksInv

\* One output is handled: thrown away with its item, or its link done.
LEMMA OutputHandled ==
    ASSUME LinksInv, RunInv', main = "outputs", NextOutput, seen \subseteq seen',
           OutputDone(Head(outputs), seen'),
           UNCHANGED <<past, parent, disk, diskPast>>
    PROVE  LinksInv'
  <1> DEFINE page == Pages[parent.url]
  <1>1. /\ page \in Seq(Output) /\ outputs \in Seq(Output) /\ outputs # <<>>
        /\ Len(page) \in Nat /\ Len(outputs) \in Nat /\ Len(outputs) > 0
    <2>1. parent.url \in Urls /\ outputs \in Seq(Output) /\ outputs # <<>>
      BY DEF LinksInv, RunInv, TypeInv, TypeOK, Request
    <2> QED
      BY <2>1, CrawlAssumption, LenProperties, EmptySeq
  <1>2. PICK k \in Nat : Left(page, outputs, k, seen)
    BY DEF LinksInv, HandlingSound
  <1>3. /\ Head(outputs) = outputs[1] /\ Len(Tail(outputs)) = Len(outputs) - 1
        /\ \A i \in 1..Len(Tail(outputs)) : Tail(outputs)[i] = outputs[i + 1]
    BY <1>1, HeadTailProperties
  <1>4. OutputDone(page[k + 1], seen')
    BY <1>1, <1>2, <1>3 DEF Left, OutputDone
  <1>5. \A i \in 1..(k + 1) : OutputDone(page[i], seen')
    <2>1. \A i \in 1..k : OutputDone(page[i], seen')
      BY <1>2, DoneGrows DEF Left
    <2>2. \A i \in 1..(k + 1) : i \in 1..k \/ i = k + 1
      OBVIOUS
    <2> QED
      BY <1>4, <2>1, <2>2
  <1>10. k + 1 + Len(Tail(outputs)) = Len(page)
    <2>1. \A n, m \in Nat : k + n = m => k + 1 + (n - 1) = m
      BY <1>2
    <2>2. k + Len(outputs) = Len(page) /\ Len(Tail(outputs)) = Len(outputs) - 1
      BY <1>2, <1>3 DEF Left
    <2> HIDE DEF page
    <2> QED
      BY <1>1, <2>1, <2>2
  <1>6. outputs' = Tail(outputs) /\ main' = IF Tail(outputs) = <<>> THEN "top" ELSE "outputs"
    BY DEF NextOutput
  <1>7. HandlingSound'
    <2> SUFFICES ASSUME main' = "outputs" PROVE Left(page, outputs', k + 1, seen')
      BY SMTT(30) DEF HandlingSound, Left, OutputDone, LinkDone, IsDomainAllowed
    <2>1. k + 1 + Len(outputs') = Len(page)
      BY <1>6, <1>10
    <2>2. \A i \in 1..Len(outputs') : outputs'[i].next = page[k + 1 + i].next
                                      /\ (outputs'[i].item => page[k + 1 + i].item)
      <3> SUFFICES ASSUME NEW i \in 1..Len(outputs')
                   PROVE  outputs'[i].next = page[k + 1 + i].next
                          /\ (outputs'[i].item => page[k + 1 + i].item)
        OBVIOUS
      <3>1. outputs'[i] = outputs[i + 1] /\ i + 1 \in 1..Len(outputs) /\ k + (i + 1) = k + 1 + i
        BY <1>1, <1>3, <1>6
      <3> QED
        BY <1>2, <3>1 DEF Left
    <2> QED
      BY <1>5, <2>1, <2>2 DEF Left
  <1>8. VisitedDone'
    <2>1. Tail(outputs) = <<>> => PageDone(parent.url, seen')
      <3>1. Tail(outputs) = <<>> => k + 1 = Len(page)
        <4>1. \A n \in Nat : k + 1 + 0 = n => k + 1 = n
          BY <1>2
        <4>2. Tail(outputs) = <<>> => Len(Tail(outputs)) = 0
          BY EmptySeq
        <4> HIDE DEF page
        <4> QED
          BY <1>1, <1>10, <4>1, <4>2
      <3> QED
        BY <1>5, <3>1 DEF PageDone
    <2>2. \A u \in past.visited : parent.url = u \/ PageDone(u, seen')
      BY DoneGrows DEF LinksInv, VisitedDone
    <2>3. \A u \in past.visited : (main' = "outputs" /\ parent.url = u) \/ PageDone(u, seen')
      BY <1>6, <2>1, <2>2
    <2> QED
      BY <2>3 DEF VisitedDone, PageDone, OutputDone, LinkDone, IsDomainAllowed
  <1>9. FilesLinked'
    BY <1>6 DEF LinksInv, FilesLinked, PageDone, OutputDone, LinkDone, IsDomainAllowed
  <1> QED
    BY <1>7, <1>8, <1>9 DEF LinksInv
LEMMA OutputsLinked ==
    ASSUME LinksInv, RunInv', RejectItem \/ KeepItem \/ EnqueueOutput
    PROVE  LinksInv'
  <1>1. CASE RejectItem
    BY <1>1, OutputHandled DEF RejectItem, OutputDone, schedVars, fileVars
  <1>2. CASE KeepItem
    <2> DEFINE page == Pages[parent.url]
    <2>1. /\ main = "outputs" /\ UNCHANGED <<main, seen, past, parent, disk, diskPast>>
          /\ outputs' = <<[Head(outputs) EXCEPT !.item = FALSE]>> \o Tail(outputs)
      BY <1>2 DEF KeepItem, schedVars, fileVars
    <2>2. PICK k \in Nat : Left(page, outputs, k, seen)
      BY <2>1 DEF LinksInv, HandlingSound
    <2>3. outputs \in Seq(Output) /\ outputs # <<>>
      BY <2>1 DEF LinksInv, RunInv, TypeInv, TypeOK
    <2>4. /\ Head(outputs) = outputs[1] /\ outputs[1] \in Output /\ Len(outputs) \in Nat /\ Len(outputs) > 0
          /\ Len(Tail(outputs)) = Len(outputs) - 1 /\ Tail(outputs) \in Seq(Output)
          /\ \A i \in 1..Len(Tail(outputs)) : Tail(outputs)[i] = outputs[i + 1]
      BY <2>3, HeadTailProperties, LenProperties, EmptySeq
    <2> DEFINE kept == [Head(outputs) EXCEPT !.item = FALSE]
    <2>5. kept \in Output /\ kept.next = outputs[1].next /\ kept.item = FALSE
      BY <2>4 DEF Output
    <2> HIDE DEF kept
    <2>6. /\ Len(outputs') = Len(outputs) /\ outputs'[1] = kept
          /\ \A i \in 1..Len(outputs) : i # 1 => outputs'[i] = outputs[i]
      <3>1. outputs' = <<kept>> \o Tail(outputs)
        BY <2>1 DEF kept
      <3>2. /\ Len(<<kept>> \o Tail(outputs)) = 1 + Len(Tail(outputs))
            /\ \A i \in 1..(1 + Len(Tail(outputs))) :
                  (<<kept>> \o Tail(outputs))[i] = IF i <= 1 THEN <<kept>>[i] ELSE Tail(outputs)[i - 1]
        <4>1. <<kept>> \in Seq(Output) /\ Len(<<kept>>) = 1
          BY <2>5
        <4> QED
          BY <2>4, <4>1, ConcatProperties
      <3>3. \A i \in 1..Len(outputs) : i # 1 => i - 1 \in 1..Len(Tail(outputs)) /\ i - 1 + 1 = i
        BY <2>4
      <3> QED
        BY <2>4, <3>1, <3>2, <3>3
    <2>7. \A i \in 1..Len(outputs') : outputs'[i].next = page[k + i].next /\ (outputs'[i].item => page[k + i].item)
      BY <2>2, <2>4, <2>5, <2>6 DEF Left
    <2>8. Left(page, outputs', k, seen)
      BY <2>2, <2>6, <2>7 DEF Left
    <2>9. HandlingSound'
      BY <2>1, <2>8 DEF HandlingSound, Left, OutputDone, LinkDone, IsDomainAllowed
    <2>10. VisitedDone' /\ FilesLinked'
      BY <2>1 DEF LinksInv, VisitedDone, FilesLinked, PageDone, OutputDone, LinkDone, IsDomainAllowed
    <2> QED
      BY <2>9, <2>10 DEF LinksInv
  <1>3. CASE EnqueueOutput
    <2>1. /\ main = "outputs" /\ NextOutput /\ UNCHANGED <<past, parent, disk, diskPast>>
          /\ outputs \in Seq(Output) /\ outputs # <<>>
      BY <1>3 DEF EnqueueOutput, fileVars, LinksInv, RunInv, TypeInv, TypeOK
    <2>2. Head(outputs) \in Output
      BY <2>1, HeadTailProperties
    <2>3. seen \subseteq seen' /\ OutputDone(Head(outputs), seen')
      <3>1. CASE Head(outputs).next = {}
        BY <1>3, <3>1, OfferDone DEF EnqueueOutput, OutputDone, schedVars
      <3>2. ASSUME NEW link \in Head(outputs).next,
                   \/ ~IsDomainAllowed(link.url) /\ UNCHANGED schedVars
                   \/ link.url \in Invalid /\ UNCHANGED schedVars
                   \/ Offer(LinkRequest(link))
            PROVE  seen \subseteq seen' /\ OutputDone(Head(outputs), seen')
        <4>1. \A other \in Head(outputs).next : other = link
          BY <2>2 DEF Output
        <4>2. link \in Link
          BY <2>2 DEF Output
        <4>3. seen \subseteq seen'
          BY <3>2, OfferDone DEF schedVars
        <4>4. LinkDone(link, seen')
          <5>1. CASE ~IsDomainAllowed(link.url) \/ link.url \in Invalid \/ (link.dontFilter /\ ~link.follow)
            BY <5>1 DEF LinkDone
          <5>2. CASE Offer(LinkRequest(link)) /\ ~(link.dontFilter /\ ~link.follow)
            <6>1. LinkRequest(link).url = link.url /\ ~LinkRequest(link).dontFilter
              BY <4>2, <5>2 DEF LinkRequest, Link, LinksInv, RunInv, TypeInv, TypeOK, Request
            <6> QED
              BY <5>2, <6>1, OfferDone DEF LinkDone, Fingerprint
          <5> QED
            BY <3>2, <5>1, <5>2
        <4> QED
          BY <4>1, <4>3, <4>4 DEF OutputDone
      <3> QED
        BY <1>3, <3>1, <3>2 DEF EnqueueOutput
    <2> QED
      BY <2>1, <2>3, OutputHandled
  <1> QED
    BY <1>1, <1>2, <1>3
\* A result brings in the outputs of its page, of which none is handled yet.
LEMMA ResultLinked ==
    ASSUME LinksInv, RunInv', HandleTaskResult
    PROVE  LinksInv'
  <1>1. PICK t \in DOMAIN tasks : TakesResult(t)
    BY DEF HandleTaskResult
  <1>2. main = "launching" /\ UNCHANGED <<disk, diskPast>>
    BY DEF HandleTaskResult, Waiting, Launched, fileVars
  <1>3. CASE ResultErr(t) \/ ResultRobots(t) \/ ResultBlocked(t) \/ ResultRetry(t)
    <2>1. main' \in {"top", "errored"} /\ past'.visited = past.visited
      BY <1>3 DEF ResultErr, ResultRobots, ResultBlocked, ResultRetry, Settle
    <2>2. seen \subseteq seen'
      BY <1>3, OfferDone DEF ResultErr, ResultRobots, ResultBlocked, ResultRetry, schedVars
    <2> QED
      BY <1>2, <2>1, <2>2, LinksFrame
  <1>4. CASE ResultOk(t)
    <2> DEFINE u == tasks[t].request.url
    <2>1. /\ seen' = seen /\ parent'.url = u /\ outputs' = Pages[u]
          /\ past'.visited = past.visited \cup {u}
          /\ main' = IF outputs' = <<>> THEN "top" ELSE "outputs"
      BY <1>4 DEF ResultOk, schedVars, Settle
    <2>2. Pages[u] \in Seq(Output) /\ Len(Pages[u]) \in Nat
      BY CrawlAssumption, LenProperties DEF LinksInv, RunInv, TypeInv, TypeOK, Task, Request
    <2> HIDE DEF u
    <2>3. HandlingSound'
      <3>1. \A i \in 1..Len(Pages[u]) : 0 + i = i
        BY <2>2
      <3>2. Left(Pages[u], outputs', 0, seen')
        BY <2>1, <2>2, <3>1 DEF Left
      <3>3. Left(Pages[parent'.url], outputs', 0, seen')
        BY <2>1, <3>2
      <3> QED
        BY <3>3 DEF HandlingSound, Left, OutputDone, LinkDone, IsDomainAllowed
    <2>4. VisitedDone'
      <3>1. outputs' = <<>> => PageDone(u, seen')
        BY <2>1, EmptySeq DEF PageDone
      <3>2. \A v \in past.visited : PageDone(v, seen')
        BY <1>2, <2>1 DEF LinksInv, VisitedDone
      <3>3. \A v \in past'.visited : (main' = "outputs" /\ parent'.url = v) \/ PageDone(v, seen')
        BY <2>1, <3>1, <3>2
      <3> QED
        BY <3>3 DEF VisitedDone, PageDone, OutputDone, LinkDone, IsDomainAllowed
    <2>5. FilesLinked'
      BY <1>2, <2>1 DEF LinksInv, FilesLinked, PageDone, OutputDone, LinkDone, IsDomainAllowed
    <2> QED
      BY <2>3, <2>4, <2>5 DEF LinksInv
  <1> QED
    BY <1>1, <1>3, <1>4 DEF TakesResult

\* The checkpoint carries the filter's memory along with what was visited.
LEMMA FilesStayLinked ==
    ASSUME LinksInv, RunInv', Resume \/ WriteTemp \/ RenameTemp \/ Complete
    PROVE  LinksInv'
  <1> USE DEF PageDone, OutputDone, LinkDone, IsDomainAllowed
  <1>1. main # "outputs" /\ main' # "outputs"
    BY DEF Resume, WriteTemp, RenameTemp, Complete, IsComplete, Launched, Finish
  <1>2. HandlingSound'
    BY <1>1 DEF HandlingSound
  <1>3. CASE Resume
    <2>1. /\ disk # Absent /\ UNCHANGED <<disk, diskPast>> /\ past' = diskPast /\ disk.seen \subseteq seen'
          /\ main' # "renaming"
      BY <1>3 DEF Resume, Restore, fileVars
    <2>2. VisitedDone' /\ FilesLinked'
      BY <2>1 DEF LinksInv, VisitedDone, FilesLinked
    <2> QED
      BY <1>2, <2>2 DEF LinksInv
  <1>4. CASE WriteTemp \/ RenameTemp \/ Complete
    <2>1. UNCHANGED <<seen, past>>
      BY <1>4 DEF WriteTemp, RenameTemp, Complete, schedVars
    <2>2. VisitedDone'
      BY <1>1, <2>1 DEF LinksInv, VisitedDone
    <2>3. \/ UNCHANGED <<disk, diskPast>> \/ disk' = Absent
          \/ main = "renaming" /\ disk' = tmp /\ diskPast' = past
      BY <1>4 DEF WriteTemp, RenameTemp, Complete
    <2>4. main' = "renaming" => tmp' = PauseSnapshot /\ PauseSnapshot.seen = seen
      BY <1>4 DEF WriteTemp, RenameTemp, Complete, Finish, PauseSnapshot, Snapshot
    <2>5. FilesLinked'
      BY <1>1, <2>1, <2>3, <2>4 DEF LinksInv, VisitedDone, FilesLinked
    <2> QED
      BY <1>2, <2>2, <2>5 DEF LinksInv
  <1> QED
    BY <1>3, <1>4

LEMMA LinksInvStep == LinksInv /\ [Next]_vars => LinksInv'
  <1> SUFFICES ASSUME LinksInv, [Next]_vars
               PROVE  LinksInv'
    OBVIOUS
  <1>0. RunInv'
    BY RunInvStep DEF LinksInv
  <1>1. CASE Begin \/ Crash
    <2>1. /\ past'.visited = {} /\ UNCHANGED <<disk, diskPast>>
          /\ main' \in {"loading", "down"}
      BY <1>1 DEF Begin, Crash, FreshRun, NoPast, fileVars
    <2>2. HandlingSound' /\ VisitedDone'
      BY <2>1 DEF HandlingSound, VisitedDone
    <2>3. FilesLinked'
      BY <2>1 DEF LinksInv, FilesLinked, PageDone, OutputDone, LinkDone, IsDomainAllowed
    <2> QED
      BY <1>0, <2>2, <2>3 DEF LinksInv
  <1>2. CASE FailSetup \/ OnStart \/ CheckContext \/ StartReadyTask \/ ObserveDone \/ Pause \/ OpenTemp \/ Fail
    <2>1. /\ seen' = seen /\ past' = past /\ UNCHANGED <<disk, diskPast>>
          /\ main # "outputs" /\ main' \notin {"outputs", "renaming"}
      BY <1>2 DEF FailSetup, OnStart, CheckContext, StartReadyTask, Dequeue, ObserveDone, Pause, OpenTemp,
                  Fail, Waiting, IsComplete, Launched, Finish, schedVars, fileVars
    <2> QED
      BY <1>0, <2>1, LinksFrame
  <1>3. CASE EnqueueStart
    <2>1. /\ past' = past /\ UNCHANGED <<disk, diskPast>>
          /\ main = "loading" /\ main' \notin {"outputs", "renaming"}
      BY <1>3 DEF EnqueueStart, Finish, fileVars
    <2>2. seen \subseteq seen'
      BY <1>3, OfferDone DEF EnqueueStart, schedVars
    <2> QED
      BY <1>0, <2>1, <2>2, LinksFrame
  <1>4. CASE HandleTaskResult
    BY <1>0, <1>4, ResultLinked
  <1>5. CASE HandleTaskError
    <2>1. /\ seen' = seen /\ UNCHANGED <<disk, diskPast>> /\ past'.visited = past.visited
          /\ main = "errored" /\ main' = "top"
      BY <1>5 DEF HandleTaskError, Settle, schedVars, fileVars
    <2> QED
      BY <1>0, <2>1, LinksFrame
  <1>6. CASE RejectItem \/ KeepItem \/ EnqueueOutput
    BY <1>0, <1>6, OutputsLinked
  <1>7. CASE Resume \/ WriteTemp \/ RenameTemp \/ Complete
    BY <1>0, <1>7, FilesStayLinked
  <1>8. CASE (\E t \in DOMAIN tasks : TaskStep(t)) \/ EndContext \/ ReadStream \/ UNCHANGED vars
    <2>1. UNCHANGED <<seen, past, disk, diskPast, main, parent, outputs, tmp>>
      BY <1>8 DEF TaskStep, CheckRobots, Acquire, Sleep, Fetch, RunCallback, taskUnchanged, EndContext,
                  ReadStream, vars, runVars, fileVars, schedVars
    <2> QED
      BY <1>0, <2>1, LinksFrame
  <1>9. CASE Rest
    BY <1>8, <1>9 DEF Rest
  <1> QED
    BY <1>1, <1>2, <1>3, <1>4, <1>5, <1>6, <1>7, <1>8, <1>9 DEF Next, MainStep

LEMMA LinksInvInit == Init => LinksInv
  BY RunInvInit DEF Init, NoPast, LinksInv, HandlingSound, VisitedDone, FilesLinked

\* Whatever the pages hold, hooks do and stops interrupt, the links of a page whose
\* outputs were handled are known to the filter, after a resume too.  (handleOutput)
THEOREM LinksAlwaysFollowed == Spec => []LinksFollowed
  <1>1. LinksInv => LinksFollowed
    BY DEF LinksInv, VisitedDone, PageDone, OutputDone, LinksFollowed
  <1> QED
    BY <1>1, LinksInvInit, LinksInvStep, PTL DEF Spec
----------------------------------------------------------------------------
(***************************************************************************)
(* A pause keeps what the end of the context cut short: a goroutine that   *)
(* returned because of it reports the context's error, which leaves its    *)
(* request in activeRequests until the checkpoint is written.  A session   *)
(* that reports an ended deadline as a timeout of its own breaks the first *)
(* link; the theorem is about sessions that do not.                        *)
(***************************************************************************)
CutTask(t) ==
    /\ tasks[t].at = "send" /\ tasks[t].result.kind = "err"
    /\ ctxErr # "none" /\ tasks[t].result.err = ctxErr
CutsKept ==
    \A f \in interrupted : \E t \in DOMAIN activeRequests :
        Fingerprint(activeRequests[t]) = f /\ (t \in DOMAIN tasks => CutTask(t))
PausedPlaces == paused => main \in Saving \cup {"done"}

CutInv == RunInv /\ CutsKept /\ PausedPlaces /\ PauseKeepsInterrupted

\* Steps that leave the tasks alone and do not finish a save.
LEMMA CutFrame ==
    ASSUME CutInv, RunInv', UNCHANGED <<interrupted, activeRequests, tasks, disk>>,
           ctxErr # "none" => ctxErr' = ctxErr,
           paused' => main' \in Saving \cup {"done"},
           main' = "done" /\ paused' /\ runErr' = "none" => main = "done" /\ paused /\ runErr = "none"
    PROVE  CutInv'
  <1>1. CutsKept'
    BY DEF CutInv, CutsKept, CutTask, Fingerprint
  <1>2. PausedPlaces' /\ PauseKeepsInterrupted'
    BY DEF CutInv, PausedPlaces, PauseKeepsInterrupted, Fingerprint
  <1> QED
    BY <1>1, <1>2 DEF CutInv

LEMMA FinishFails ==
    ASSUME NEW err, err # "none", Finish(err)
    PROVE  main' = "done" /\ runErr' # "none"
  BY DEF Finish

LEMMA CutSteps ==
    ASSUME CutInv, RunInv',
           \/ FailSetup \/ Resume \/ EnqueueStart \/ OnStart \/ CheckContext \/ ObserveDone
           \/ HandleTaskError \/ RejectItem \/ KeepItem \/ EnqueueOutput
           \/ Pause \/ OpenTemp \/ WriteTemp \/ Fail \/ EndContext \/ ReadStream \/ UNCHANGED vars
    PROVE  CutInv'
  <1>1. UNCHANGED <<interrupted, activeRequests, tasks, disk>>
    BY DEF FailSetup, Resume, EnqueueStart, OnStart, CheckContext, ObserveDone, HandleTaskError, RejectItem,
           KeepItem, EnqueueOutput, Pause, OpenTemp, WriteTemp, Fail, EndContext, ReadStream, vars,
           runVars, fileVars
  <1>2. ctxErr # "none" => ctxErr' = ctxErr
    BY StopEndsContext
       DEF FailSetup, Resume, EnqueueStart, OnStart, CheckContext, ObserveDone, HandleTaskError, RejectItem,
           KeepItem, SendItem, EnqueueOutput, Pause, OpenTemp, WriteTemp, Fail, EndContext, ReadStream, vars
  <1>3. CASE \/ FailSetup \/ Resume \/ EnqueueStart \/ OnStart \/ CheckContext \/ ObserveDone
             \/ HandleTaskError \/ RejectItem \/ KeepItem \/ EnqueueOutput
    <2>1. ~paused /\ paused' = paused
      BY <1>3 DEF FailSetup, Resume, EnqueueStart, OnStart, CheckContext, ObserveDone, HandleTaskError,
                  RejectItem, KeepItem, EnqueueOutput, Waiting, Launched, runVars,
                  CutInv, PausedPlaces, Saving
    <2> QED
      BY <1>1, <1>2, <2>1, CutFrame
  <1>4. CASE Pause \/ OpenTemp \/ WriteTemp \/ Fail
    <2>1. main' \in Saving \cup {"done"} /\ (main' = "done" => runErr' # "none")
      BY <1>4, FinishFails DEF Pause, OpenTemp, WriteTemp, Fail, Saving
    <2> QED
      BY <1>1, <1>2, <2>1, CutFrame
  <1>5. CASE EndContext \/ ReadStream \/ UNCHANGED vars
    <2>1. UNCHANGED <<main, paused, runErr>>
      BY <1>5 DEF EndContext, ReadStream, vars, runVars
    <2> QED
      BY <1>1, <1>2, <2>1, CutFrame DEF CutInv, PausedPlaces
  <1> QED
    BY <1>3, <1>4, <1>5

\* The run keeps the request of a task that was cut short when it takes its result.
LEMMA RunStepsKeepCuts ==
    ASSUME CutInv, RunInv', StartReadyTask \/ HandleTaskResult
    PROVE  CutInv'
  <1>1. /\ main = "launching" /\ main' \in {"launching", "errored", "top", "outputs"}
        /\ UNCHANGED <<ctxErr, interrupted, paused>>
    BY DEF StartReadyTask, HandleTaskResult, Waiting, Launched, TakesResult,
           ResultErr, ResultRobots, ResultBlocked, ResultRetry, ResultOk
  <1>2. PausedPlaces' /\ PauseKeepsInterrupted'
    BY <1>1 DEF CutInv, PausedPlaces, Saving, PauseKeepsInterrupted
  <1>3. CutsKept'
    <2> SUFFICES ASSUME NEW f \in interrupted
                 PROVE  \E u \in DOMAIN activeRequests' :
                            /\ Fingerprint(activeRequests'[u]) = f
                            /\ u \in DOMAIN tasks' => u \in DOMAIN tasks /\ tasks'[u] = tasks[u] /\ CutTask(u)
      BY <1>1 DEF CutsKept, CutTask, Fingerprint
    <2>1. PICK u \in DOMAIN activeRequests :
              Fingerprint(activeRequests[u]) = f /\ (u \in DOMAIN tasks => CutTask(u))
      BY DEF CutInv, CutsKept
    <2>2. CASE StartReadyTask
      <3>1. PICK e \in queue :
              /\ activeRequests' = With(activeRequests, nextTaskID + 1, e.request)
              /\ tasks' = With(tasks, nextTaskID + 1, NewTask(e.request))
        BY <2>2 DEF StartReadyTask
      <3>2. u # nextTaskID + 1
        BY DEF CutInv, RunInv, TypeInv, TypeOK
      <3>3. /\ u \in DOMAIN activeRequests' /\ activeRequests'[u] = activeRequests[u]
            /\ u \in DOMAIN tasks' => u \in DOMAIN tasks /\ tasks'[u] = tasks[u]
        BY <3>1, <3>2 DEF With
      <3> QED
        BY <2>1, <3>3
    <2>3. CASE HandleTaskResult
      <3>1. PICK t \in DOMAIN tasks : TakesResult(t)
        BY <2>3 DEF HandleTaskResult
      <3>2. tasks' = Without(tasks, t)
        BY <3>1 DEF TakesResult
      <3>3. u \in DOMAIN tasks' => u \in DOMAIN tasks /\ tasks'[u] = tasks[u]
        BY <3>2 DEF Without
      <3>4. u \in DOMAIN activeRequests' /\ activeRequests'[u] = activeRequests[u]
        <4>1. CASE u = t
          <5>1. activeRequests' = activeRequests
            BY <2>1, <3>1, <4>1 DEF TakesResult, StaysActive, IsContextErr, CutTask
          <5> QED
            BY <5>1
        <4>2. CASE u # t
          BY <3>1, <4>2 DEF TakesResult, Without
        <4> QED
          BY <4>1, <4>2
      <3> QED
        BY <2>1, <3>3, <3>4
    <2> QED
      BY <2>2, <2>3
  <1> QED
    BY <1>2, <1>3 DEF CutInv

LEMMA TaskStepCuts ==
    ASSUME ~MasksDeadline, CutInv, RunInv', NEW t \in DOMAIN tasks, TaskStep(t)
    PROVE  CutInv'
  <1>1. UNCHANGED <<main, paused, runErr, disk, ctxErr, activeRequests>> /\ DOMAIN tasks' = DOMAIN tasks
    BY TaskStepEffect DEF CutInv, RunInv, taskUnchanged, fileVars
  <1>2. t \in DOMAIN activeRequests /\ activeRequests[t] = tasks[t].request
    BY DEF CutInv, RunInv, TasksAreActive
  <1>3. /\ tasks[t].at # "send"
        /\ \A u \in DOMAIN tasks : u # t => tasks'[u] = tasks[u]
        /\ \/ UNCHANGED interrupted
           \/ /\ ctxErr # "none" /\ ReturnsAs(t, "err", ctxErr)
              /\ interrupted' = interrupted \cup {Fingerprint(tasks[t].request)}
    BY TaskStepEffect DEF CutInv, RunInv, CutShort, FetchErr
  <1>4. \A f \in interrupted : \E u \in DOMAIN activeRequests :
            /\ Fingerprint(activeRequests[u]) = f
            /\ u \in DOMAIN tasks => CutTask(u) /\ tasks'[u] = tasks[u]
    BY <1>3 DEF CutInv, CutsKept, CutTask
  <1>5. CutsKept'
    BY <1>1, <1>2, <1>3, <1>4 DEF CutsKept, CutTask, ReturnsAs, Fingerprint
  <1>6. main \in {"saving", "writing", "renaming", "done"} => DOMAIN tasks = {}
    BY TasksFinite, FS_EmptySet DEF CutInv, RunInv, QuietHasNoTasks, Quiet, TasksCounted
  <1>7. PausedPlaces' /\ PauseKeepsInterrupted'
    BY <1>1, <1>6 DEF CutInv, PausedPlaces, PauseKeepsInterrupted
  <1> QED
    BY <1>5, <1>7 DEF CutInv

LEMMA FinishedCuts ==
    ASSUME CutInv, RunInv', RenameTemp \/ Complete
    PROVE  CutInv'
  <1>1. UNCHANGED <<interrupted, activeRequests, tasks, ctxErr, paused>> /\ main' = "done"
    BY DEF RenameTemp, Complete, Finish, runVars
  <1>2. CutsKept' /\ PausedPlaces'
    BY <1>1 DEF CutInv, CutsKept, CutTask, PausedPlaces, Fingerprint
  <1>3. PauseKeepsInterrupted'
    <2>1. CASE Complete
      BY <1>1, <2>1 DEF Complete, IsComplete, Launched, CutInv, PausedPlaces, Saving, PauseKeepsInterrupted
    <2>2. CASE RenameTemp
      <3> SUFFICES ASSUME runErr' = "none"
                   PROVE  interrupted \subseteq {Fingerprint(e.request) : e \in disk'.requests}
        BY <1>1 DEF PauseKeepsInterrupted, Fingerprint
      <3>1. disk' = PauseSnapshot
        BY <2>2, FinishFails DEF RenameTemp, CutInv, RunInv, SavesThePause
      <3>2. \A f \in interrupted : \E t \in DOMAIN activeRequests : Fingerprint(activeRequests[t]) = f
        BY DEF CutInv, CutsKept
      <3>3. \A t \in DOMAIN activeRequests :
                FrontPlace(t) \in disk'.requests /\ FrontPlace(t).request = activeRequests[t]
        BY <3>1, PauseEntries
      <3> QED
        BY <3>2, <3>3
    <2> QED
      BY <2>1, <2>2
  <1> QED
    BY <1>2, <1>3 DEF CutInv

LEMMA CutInvStep ==
    ASSUME ~MasksDeadline
    PROVE  CutInv /\ [Next]_vars => CutInv'
  <1> SUFFICES ASSUME CutInv, [Next]_vars
               PROVE  CutInv'
    OBVIOUS
  <1>0. RunInv'
    BY RunInvStep DEF CutInv
  <1>1. CASE Begin \/ Crash
    <2>1. interrupted' = {} /\ paused' = FALSE
      BY <1>1 DEF Begin, Crash, FreshRun
    <2> QED
      BY <1>0, <2>1 DEF CutInv, CutsKept, PausedPlaces, PauseKeepsInterrupted
  <1>2. CASE \/ FailSetup \/ Resume \/ EnqueueStart \/ OnStart \/ CheckContext \/ ObserveDone
             \/ HandleTaskError \/ RejectItem \/ KeepItem \/ EnqueueOutput
             \/ Pause \/ OpenTemp \/ WriteTemp \/ Fail \/ EndContext \/ ReadStream \/ UNCHANGED vars
    BY <1>0, <1>2, CutSteps
  <1>3. CASE StartReadyTask \/ HandleTaskResult
    BY <1>0, <1>3, RunStepsKeepCuts
  <1>4. ASSUME NEW t \in DOMAIN tasks, TaskStep(t) PROVE CutInv'
    BY <1>0, <1>4, TaskStepCuts
  <1>5. CASE RenameTemp \/ Complete
    BY <1>0, <1>5, FinishedCuts
  <1>6. CASE Rest
    BY <1>2, <1>6 DEF Rest
  <1> QED
    BY <1>1, <1>2, <1>3, <1>4, <1>5, <1>6 DEF Next, MainStep

LEMMA CutInvInit == Init => CutInv
  BY RunInvInit DEF Init, CutInv, CutsKept, PausedPlaces, PauseKeepsInterrupted

\* With sessions that report an ended deadline as what it is, a pause that succeeds has
\* saved every page whose work the end of the context cut short, to be fetched again.
\* (handleTaskResult, pauseSnapshot, Save)
THEOREM InterruptedAlwaysKept ==
    ASSUME ~MasksDeadline
    PROVE  Spec => []PauseKeepsInterrupted
  <1>1. CutInv => PauseKeepsInterrupted
    BY DEF CutInv
  <1> QED
    BY <1>1, CutInvInit, CutInvStep, PTL DEF Spec
============================================================================
