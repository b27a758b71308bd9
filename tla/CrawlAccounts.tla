--------------------------- MODULE CrawlAccounts ---------------------------
(***************************************************************************)
(* What the books of a crawl add up to, for every value of the constants:  *)
(* the places in the lists that are saved and restored, the counters of    *)
(* the Result, the retries, what success means, and, from all of these,    *)
(* that the crawl implements the Frontier.                                 *)
(***************************************************************************)
EXTENDS CrawlSafety

----------------------------------------------------------------------------
(***************************************************************************)
(* Places in a list.                                                       *)
(***************************************************************************)
\* The places of a list of at most n entries: no two entries have the same.
Ordered(list, n) ==
    /\ \A e \in list : e.order \in 1..n
    /\ \A x, y \in list : x.order = y.order => x = y

\* A part of a finite set that lacks one element of another part, and has none that
\* the other lacks, is the smaller.
LEMMA SmallerPart ==
    ASSUME NEW S, IsFiniteSet(S), NEW A, A \subseteq S, NEW B, B \subseteq S,
           A \subseteq B, NEW x, x \in B, x \notin A
    PROVE  Cardinality(A) < Cardinality(B) /\ Cardinality(A) \in Nat /\ Cardinality(B) \in Nat
  <1>1. IsFiniteSet(A) /\ IsFiniteSet(B)
    BY FS_Subset
  <1>2. Cardinality(A) <= Cardinality(B) /\ (Cardinality(B) = Cardinality(A) => B = A)
    BY <1>1, FS_Subset
  <1>3. Cardinality(A) \in Nat /\ Cardinality(B) \in Nat
    BY <1>1, FS_CardinalityType
  <1> QED
    BY <1>2, <1>3

Before(S, e) == {x \in S : Precedes(x, e)}
Rank(S, e) == Cardinality(Before(S, e))

\* Less orders a queue totally: each entry has a place of its own in the sorted list.
LEMMA RankPlaces ==
    ASSUME NEW S, S \subseteq Entry, IsFiniteSet(S),
           \A x, y \in S : x.order = y.order => x = y
    PROVE  /\ \A e \in S : Rank(S, e) \in Nat /\ Rank(S, e) + 1 \in 1..Cardinality(S)
           /\ \A a, b \in S : Rank(S, a) = Rank(S, b) => a = b
  <1>1. \A e \in S : e.request.priority \in Int /\ e.order \in Nat
    BY DEF Entry, Request
  <1>2. \A e \in S : Before(S, e) \subseteq S /\ e \notin Before(S, e)
    BY <1>1 DEF Before, Precedes
  <1>3. Cardinality(S) \in Nat
    BY FS_CardinalityType
  <1>4. \A e \in S : Rank(S, e) \in Nat /\ Rank(S, e) < Cardinality(S)
    BY <1>2, SmallerPart DEF Rank
  <1>5. ASSUME NEW a \in S, NEW b \in S, Precedes(a, b)
        PROVE  Rank(S, a) < Rank(S, b)
    <2>1. Before(S, a) \subseteq Before(S, b)
      BY <1>1, <1>5 DEF Before, Precedes
    <2>2. a \in Before(S, b)
      BY <1>5 DEF Before
    <2> QED
      BY <1>2, <2>1, <2>2, SmallerPart DEF Rank
  <1>6. \A a, b \in S : a # b => Precedes(a, b) \/ Precedes(b, a)
    BY <1>1 DEF Precedes
  <1>7. \A a, b \in S : Rank(S, a) = Rank(S, b) => a = b
    BY <1>4, <1>5, <1>6
  <1> QED
    BY <1>3, <1>4, <1>7

\* The place of a task among those in flight, by its number.
LaunchedBefore(t) == {u \in DOMAIN activeRequests : u < t}

LEMMA FlightPlaces ==
    ASSUME TypeInv
    PROVE  /\ Cardinality(DOMAIN activeRequests) \in Nat
           /\ \A t \in DOMAIN activeRequests :
                 FrontPlace(t).order \in 1..Cardinality(DOMAIN activeRequests)
           /\ \A t, u \in DOMAIN activeRequests : FrontPlace(t).order = FrontPlace(u).order => t = u
  <1> DEFINE D == DOMAIN activeRequests
             rank(t) == Cardinality(LaunchedBefore(t))
  <1>1. D \subseteq Nat /\ IsFiniteSet(D)
    BY TasksFinite DEF TypeInv, TypeOK
  <1>2. \A t \in D : LaunchedBefore(t) \subseteq D /\ t \notin LaunchedBefore(t)
    BY <1>1 DEF LaunchedBefore
  <1>3. Cardinality(D) \in Nat
    BY <1>1, FS_CardinalityType
  <1>4. \A t \in D : rank(t) \in Nat /\ rank(t) < Cardinality(D)
    BY <1>1, <1>2, SmallerPart
  <1>5. ASSUME NEW t \in D, NEW u \in D, t < u
        PROVE  rank(t) < rank(u)
    <2>1. LaunchedBefore(t) \subseteq LaunchedBefore(u) /\ t \in LaunchedBefore(u)
      BY <1>1, <1>5 DEF LaunchedBefore
    <2> QED
      BY <1>1, <1>2, <2>1, SmallerPart
  <1>6. \A t \in D : FrontPlace(t).order = rank(t) + 1
    BY DEF FrontPlace, LaunchedBefore
  <1>7. \A t, u \in D : t # u => t < u \/ u < t
    BY <1>1
  <1> HIDE DEF rank, D
  <1>8. \A t, u \in D : rank(t) + 1 = rank(u) + 1 => t = u
    BY <1>4, <1>5, <1>7
  <1>9. \A t \in D : rank(t) + 1 \in 1..Cardinality(D)
    BY <1>3, <1>4
  <1> QED
    BY <1>3, <1>6, <1>8, <1>9 DEF D

\* A pause saves as many entries as there are requests in flight and in the queue,
\* those in flight in the first places.
LEMMA PausePlaces ==
    ASSUME TypeInv, Ordered(queue, counter)
    PROVE  /\ Ordered(PauseSnapshot.requests, Cardinality(PauseSnapshot.requests))
           /\ \A t \in DOMAIN activeRequests, e \in queue : FrontPlace(t).order < BackPlace(e).order
  <1> DEFINE D == DOMAIN activeRequests
             m == Cardinality(D)
             q == Cardinality(queue)
             front == {FrontPlace(t) : t \in D}
             back == {BackPlace(e) : e \in queue}
  <1>1. IsFiniteSet(D) /\ IsFiniteSet(queue) /\ m \in Nat /\ q \in Nat /\ queue \subseteq Entry
    BY TasksFinite, FS_CardinalityType DEF TypeInv, TypeOK, SchedulerTypeOK
  <1>2. /\ \A t \in D : FrontPlace(t).order \in 1..m
        /\ \A t, u \in D : FrontPlace(t).order = FrontPlace(u).order => t = u
    BY FlightPlaces
  <1>3. IsFiniteSet(front) /\ Cardinality(front) = m
    <2> DEFINE f == [t \in D |-> FrontPlace(t)]
    <2>1. f \in Surjection(D, front) /\ f \in Injection(D, front)
      BY <1>2 DEF Surjection, Injection, IsInjective
    <2> QED
      BY <1>1, <2>1, FS_Surjection
  <1>4. InFlightList = front
    BY DEF InFlightList, FrontPlace
  <1>5. \A e \in queue : BackPlace(e).order = m + (Rank(queue, e) + 1)
    BY <1>3, <1>4 DEF BackPlace, Rank, Before
  <1>6. /\ \A e \in queue : Rank(queue, e) \in Nat /\ Rank(queue, e) + 1 \in 1..q
        /\ \A a, b \in queue : Rank(queue, a) = Rank(queue, b) => a = b
    BY <1>1, RankPlaces DEF Ordered
  <1> HIDE DEF m, q
  <1>7. /\ \A e \in queue : BackPlace(e).order \in (m + 1)..(m + q)
        /\ \A a, b \in queue : BackPlace(a).order = BackPlace(b).order => a = b
    BY <1>1, <1>5, <1>6
  <1>8. IsFiniteSet(back) /\ Cardinality(back) = q
    <2> DEFINE f == [e \in queue |-> BackPlace(e)]
    <2>1. f \in Surjection(queue, back) /\ f \in Injection(queue, back)
      BY <1>7 DEF Surjection, Injection, IsInjective
    <2> QED
      BY <1>1, <2>1, FS_Surjection DEF q
  <1>9. \A t \in D, e \in queue : FrontPlace(t).order < BackPlace(e).order
    BY <1>1, <1>2, <1>7
  <1>10. \A x \in front : \E t \in D : x = FrontPlace(t)
    OBVIOUS
  <1>11. \A x \in back : \E e \in queue : x = BackPlace(e)
    OBVIOUS
  <1> HIDE DEF front, back
  <1>12. Ordered(front \cup back, m + q)
    <2>1. \A x \in front : x.order \in 1..m
      BY <1>2, <1>10
    <2>2. \A x \in back : x.order \in (m + 1)..(m + q)
      BY <1>7, <1>11
    <2>3. \A x \in front \cup back : x.order \in 1..(m + q)
      BY <1>1, <2>1, <2>2
    <2>4. \A x, y \in front : x.order = y.order => x = y
      BY <1>2, <1>10
    <2>5. \A x, y \in back : x.order = y.order => x = y
      BY <1>7, <1>11
    <2>6. \A x \in front, y \in back : x.order # y.order
      BY <1>1, <2>1, <2>2
    <2> QED
      BY <2>3, <2>4, <2>5, <2>6 DEF Ordered
  <1>13. Cardinality(front \cup back) = m + q
    <2>1. front \cap back = {}
      BY <1>1, <1>2, <1>7, <1>10, <1>11
    <2> QED
      BY <1>1, <1>3, <1>8, <2>1, FS_Union, FS_EmptySet
  <1> QED
    BY <1>9, <1>12, <1>13, PauseEntries DEF front, back
----------------------------------------------------------------------------
(***************************************************************************)
(* The order a pause saves is the order a resume works in.                 *)
(***************************************************************************)
QueueOrdered == Ordered(queue, counter)
FilesOrdered ==
    /\ disk # Absent => Ordered(disk.requests, Cardinality(disk.requests))
    /\ main = "renaming" => Ordered(tmp.requests, Cardinality(tmp.requests))

PlacesInv == RunInv /\ QueueOrdered /\ FilesOrdered

LEMMA OfferOrdered ==
    ASSUME SchedulerTypeOK, QueueOrdered, NEW r, Offer(r)
    PROVE  QueueOrdered'
  <1>0. counter \in Nat /\ \A e \in queue : e.order \in 1..counter
    BY DEF SchedulerTypeOK, QueueOrdered, Ordered
  <1>1. CASE Accepts(r)
    <2> DEFINE new == [request |-> r, order |-> counter + 1]
    <2>1. queue' = queue \cup {new} /\ counter' = counter + 1 /\ new.order = counter + 1
      BY <1>1 DEF Offer, Enqueue
    <2> HIDE DEF new
    <2>2. \A e \in queue : e.order # new.order /\ e.order \in 1..(counter + 1)
      BY <1>0, <2>1
    <2>3. new.order \in 1..(counter + 1)
      BY <1>0, <2>1
    <2> QED
      BY <2>1, <2>2, <2>3 DEF QueueOrdered, Ordered
  <1>2. CASE ~Accepts(r)
    BY <1>2 DEF Offer, schedVars, QueueOrdered, Ordered
  <1> QED
    BY <1>1, <1>2

\* Steps that at most offer a request.
LEMMA PlacesFrame ==
    ASSUME PlacesInv, RunInv',
           (\E r : Offer(r)) \/ UNCHANGED <<queue, counter>>,
           UNCHANGED disk,
           main' = "renaming" => main = "renaming" /\ tmp' = tmp
    PROVE  PlacesInv'
  <1>1. QueueOrdered'
    BY OfferOrdered DEF PlacesInv, RunInv, TypeInv, TypeOK, QueueOrdered, Ordered
  <1>2. FilesOrdered'
    BY DEF PlacesInv, FilesOrdered, Ordered
  <1> QED
    BY <1>1, <1>2 DEF PlacesInv

LEMMA PlacesInvStep == PlacesInv /\ [Next]_vars => PlacesInv'
  <1> SUFFICES ASSUME PlacesInv, [Next]_vars
               PROVE  PlacesInv'
    OBVIOUS
  <1>0. RunInv'
    BY RunInvStep DEF PlacesInv
  <1>1. CASE Begin \/ Crash
    <2>1. queue' = {} /\ UNCHANGED disk /\ main' \in {"loading", "down"}
      BY <1>1 DEF Begin, Crash, FreshRun, fileVars
    <2> QED
      BY <1>0, <2>1 DEF PlacesInv, QueueOrdered, FilesOrdered, Ordered
  <1>2. CASE \/ FailSetup \/ EnqueueStart \/ OnStart \/ CheckContext \/ ObserveDone \/ HandleTaskResult
             \/ HandleTaskError \/ RejectItem \/ KeepItem \/ EnqueueOutput \/ Pause \/ OpenTemp \/ Fail
             \/ (\E t \in DOMAIN tasks : TaskStep(t)) \/ EndContext \/ ReadStream \/ UNCHANGED vars
    <2>1. (\E r : Offer(r)) \/ UNCHANGED <<queue, counter>>
      BY <1>2 DEF FailSetup, EnqueueStart, OnStart, CheckContext, ObserveDone, HandleTaskResult, TakesResult,
           ResultErr, ResultRobots, ResultBlocked, ResultRetry, ResultOk, HandleTaskError, RejectItem,
           KeepItem, EnqueueOutput, Pause, OpenTemp, Fail, TaskStep, CheckRobots, Acquire, Sleep, Fetch,
           RunCallback, taskUnchanged, EndContext, ReadStream, vars, schedVars
    <2>2. UNCHANGED disk
      BY <1>2 DEF FailSetup, EnqueueStart, OnStart, CheckContext, ObserveDone, HandleTaskResult,
           HandleTaskError, RejectItem, KeepItem, EnqueueOutput, Pause, OpenTemp, Fail, TaskStep,
           CheckRobots, Acquire, Sleep, Fetch, RunCallback, taskUnchanged, EndContext, ReadStream,
           vars, fileVars
    <2>3. main' = "renaming" => main = "renaming" /\ tmp' = tmp
      BY <1>2 DEF FailSetup, EnqueueStart, OnStart, CheckContext, ObserveDone, HandleTaskResult, TakesResult,
           ResultErr, ResultRobots, ResultBlocked, ResultRetry, ResultOk, HandleTaskError, RejectItem,
           KeepItem, EnqueueOutput, NextOutput, Pause, OpenTemp, Fail, Finish, TaskStep, CheckRobots,
           Acquire, Sleep, Fetch, RunCallback, taskUnchanged, EndContext, ReadStream, vars, fileVars
    <2> QED
      BY <1>0, <2>1, <2>2, <2>3, PlacesFrame
  <1>3. CASE Resume
    <2>1. /\ queue' = disk.requests /\ counter' = Cardinality(disk.requests)
          /\ disk # Absent /\ UNCHANGED disk /\ main' = "starting"
      BY <1>3 DEF Resume, Restore, fileVars
    <2> QED
      BY <1>0, <2>1 DEF PlacesInv, QueueOrdered, FilesOrdered, Ordered
  <1>4. CASE StartReadyTask
    <2>1. queue' \subseteq queue /\ UNCHANGED <<counter, disk>> /\ main' # "renaming"
      BY <1>4 DEF StartReadyTask, Dequeue, fileVars
    <2> QED
      BY <1>0, <2>1 DEF PlacesInv, QueueOrdered, FilesOrdered, Ordered
  <1>5. CASE WriteTemp \/ RenameTemp \/ Complete
    <2>1. QueueOrdered'
      BY <1>5 DEF WriteTemp, RenameTemp, Complete, schedVars, PlacesInv, QueueOrdered, Ordered
    <2>2. FilesOrdered'
      <3>1. CASE WriteTemp
        <4>1. UNCHANGED disk /\ (main' = "renaming" => tmp' = PauseSnapshot)
          BY <3>1 DEF WriteTemp, Finish
        <4>2. Ordered(PauseSnapshot.requests, Cardinality(PauseSnapshot.requests))
          BY PausePlaces DEF PlacesInv, RunInv, QueueOrdered
        <4> QED
          BY <4>1, <4>2 DEF PlacesInv, FilesOrdered, Ordered
      <3>2. CASE RenameTemp \/ Complete
        <4>1. /\ main' = "done"
              /\ disk' \in {disk, Absent} \/ (main = "renaming" /\ disk' = tmp)
          BY <3>2 DEF RenameTemp, Complete, Finish
        <4> QED
          BY <4>1 DEF PlacesInv, FilesOrdered, Ordered
      <3> QED
        BY <1>5, <3>1, <3>2
    <2> QED
      BY <1>0, <2>1, <2>2 DEF PlacesInv
  <1>6. CASE Rest
    BY <1>2, <1>6 DEF Rest
  <1> QED
    BY <1>1, <1>2, <1>3, <1>4, <1>5, <1>6 DEF Next, MainStep

LEMMA PlacesInvInit == Init => PlacesInv
  BY RunInvInit DEF Init, SchedulerInit, PlacesInv, QueueOrdered, FilesOrdered, Ordered

\* What a pause saves puts each request in flight before every queued request of its
\* priority: on resume, work that was begun goes on before work that was not.
\* (pauseSnapshot, Snapshot, Less)
THEOREM InFlightGoesFirst == Spec => InFlightFirst
  <1> DEFINE Place == disk' # disk /\ disk' # Absent =>
        \A t \in DOMAIN activeRequests, e \in queue :
            activeRequests[t].priority = e.request.priority =>
                \E a, b \in disk'.requests :
                    /\ a.request = activeRequests[t] /\ b.request = e.request
                    /\ Precedes(a, b)
  <1>1. ASSUME PlacesInv, Next
        PROVE  Place
    <2> SUFFICES ASSUME disk' # disk, disk' # Absent,
                        NEW t \in DOMAIN activeRequests, NEW e \in queue,
                        activeRequests[t].priority = e.request.priority
                 PROVE  \E a, b \in disk'.requests :
                            /\ a.request = activeRequests[t] /\ b.request = e.request
                            /\ Precedes(a, b)
      OBVIOUS
    <2>1. disk' = PauseSnapshot
      BY <1>1, DiskChanges DEF PlacesInv
    <2>2. /\ FrontPlace(t) \in disk'.requests /\ FrontPlace(t).request = activeRequests[t]
          /\ BackPlace(e) \in disk'.requests /\ BackPlace(e).request = e.request
      BY <2>1, PauseEntries
    <2>3. FrontPlace(t).order < BackPlace(e).order
      BY <1>1, PausePlaces DEF PlacesInv, RunInv, QueueOrdered
    <2>4. Precedes(FrontPlace(t), BackPlace(e))
      BY <2>2, <2>3 DEF Precedes
    <2> QED
      BY <2>2, <2>4
  <1>2. PlacesInv /\ [Next]_vars => [Place]_vars
    BY <1>1
  <1> QED
    BY <1>2, PlacesInvInit, PlacesInvStep, PTL DEF Spec, InFlightFirst
----------------------------------------------------------------------------
(***************************************************************************)
(* What success means.  Nothing is owed where a run succeeds, so what the  *)
(* filter knows is settled (NoRequestLost); and so are the start requests, *)
(* because a start request is owed or settled from the moment it was       *)
(* offered, also when the filter took it for a duplicate.                  *)
(***************************************************************************)
StartsOwed == \A i \in 1..cursor : Fingerprint(start[i]) \in OwedFingerprints \cup past.settled
\* A run that enqueues its start requests had nothing to restore.
StartsAfresh == main = "loading" /\ cursor > 0 /\ Checkpointing => disk = Absent
SuccessOwesNothing == main = "done" /\ runErr = "none" /\ ~paused => Owed = {}

SuccessInv == KeepInv /\ StartsOwed /\ StartsAfresh /\ SuccessOwesNothing

LEMMA SuccessFrame ==
    ASSUME SuccessInv, KeepInv', UNCHANGED <<start, cursor>>,
           OwedFingerprints \subseteq OwedFingerprints' \cup past'.settled,
           past.settled \subseteq past'.settled,
           main' = "loading" => main = "loading" /\ disk' = disk,
           main' = "done" /\ runErr' = "none" /\ ~paused' => Owed' = {}
    PROVE  SuccessInv'
  <1>1. StartsOwed'
    BY DEF SuccessInv, StartsOwed, Fingerprint
  <1>2. StartsAfresh' /\ SuccessOwesNothing'
    BY DEF SuccessInv, StartsAfresh, SuccessOwesNothing
  <1> QED
    BY <1>1, <1>2 DEF SuccessInv

\* Steps of a run that leave what is owed as it is, and do not end the run well.
LEMMA QuietSuccess ==
    ASSUME SuccessInv, KeepInv',
           \/ FailSetup \/ OnStart \/ CheckContext \/ ObserveDone \/ RejectItem \/ KeepItem
           \/ Pause \/ OpenTemp \/ WriteTemp \/ RenameTemp \/ Fail
    PROVE  SuccessInv'
  <1>1. UNCHANGED <<start, cursor, queue, activeRequests, past>>
    BY DEF FailSetup, OnStart, CheckContext, ObserveDone, RejectItem, KeepItem, Pause, OpenTemp, WriteTemp,
           RenameTemp, Fail, runVars, schedVars
  <1>2. main # "errored" /\ main' \notin {"errored", "loading"}
    BY DEF FailSetup, OnStart, CheckContext, ObserveDone, RejectItem, KeepItem, NextOutput, Pause, OpenTemp,
           WriteTemp, RenameTemp, Fail, Finish, Waiting, IsComplete, Launched
  <1>3. main' = "done" => runErr' # "none" \/ paused'
    <2>1. CASE RenameTemp
      BY <2>1 DEF RenameTemp, SuccessInv, KeepInv, RunInv, SavesThePause, Saving, runVars
    <2>2. CASE Fail
      BY <2>2, FinishFails DEF Fail
    <2>3. CASE Pause \/ WriteTemp
      BY <2>3, FinishFails DEF Pause, WriteTemp
    <2>4. CASE FailSetup \/ OnStart \/ CheckContext \/ ObserveDone \/ RejectItem \/ KeepItem \/ OpenTemp
      BY <2>4 DEF FailSetup, OnStart, CheckContext, ObserveDone, RejectItem, KeepItem, NextOutput, OpenTemp
    <2> QED
      BY <2>1, <2>2, <2>3, <2>4
  <1>4. OwedFingerprints' = OwedFingerprints
    BY <1>1, <1>2, OwedStays
  <1> QED
    BY <1>1, <1>2, <1>3, <1>4, SuccessFrame

\* The next start request is offered, or stops the run.
LEMMA StartSuccess ==
    ASSUME SuccessInv, KeepInv', EnqueueStart
    PROVE  SuccessInv'
  <1> DEFINE request == start[cursor + 1]
  <1>1. /\ UNCHANGED <<start, activeRequests, past, disk>> /\ main = "loading"
        /\ main' \in {"loading", "starting", "done"}
        /\ Checkpointing => disk = Absent
    BY DEF EnqueueStart, Finish, fileVars
  <1>2. CASE request.url \in Invalid
    <2>1. UNCHANGED <<queue, cursor>> /\ main' = "done" /\ runErr' # "none"
      BY <1>2, FinishFails DEF EnqueueStart, schedVars
    <2>2. OwedFingerprints' = OwedFingerprints
      BY <1>1, <2>1, OwedStays
    <2> QED
      BY <1>1, <2>1, <2>2, SuccessFrame
  <1>3. CASE request.url \notin Invalid
    <2>1. Offer(request) /\ cursor' = cursor + 1 /\ main' # "done"
      BY <1>3 DEF EnqueueStart
    <2>2. OwedFingerprints' = OwedFingerprints \cup (IF Accepts(request) THEN {Fingerprint(request)} ELSE {})
      BY <1>1, <2>1, OfferOwed
    <2>3. Fingerprint(request) \in OwedFingerprints' \cup past.settled
      BY <2>2 DEF Accepts, SuccessInv, KeepInv, NoRequestLost
    <2>4. cursor \in Nat /\ \A i \in 1..(cursor + 1) : i \in 1..cursor \/ i = cursor + 1
      BY DEF SuccessInv, KeepInv, RunInv, TypeInv, TypeOK
    <2>5. StartsOwed'
      <3>1. \A i \in 1..cursor : Fingerprint(start[i]) \in OwedFingerprints' \cup past.settled
        BY <2>2 DEF SuccessInv, StartsOwed
      <3> QED
        BY <1>1, <2>1, <2>3, <2>4, <3>1 DEF StartsOwed, Fingerprint
    <2> QED
      BY <1>1, <2>1, <2>5 DEF SuccessInv, StartsAfresh, SuccessOwesNothing
  <1> QED
    BY <1>2, <1>3

\* A link is offered, or not.
LEMMA LinkSuccess ==
    ASSUME SuccessInv, KeepInv', EnqueueOutput
    PROVE  SuccessInv'
  <1>1. /\ UNCHANGED <<start, cursor, activeRequests, past>>
        /\ main # "errored" /\ main' \notin {"errored", "loading", "done"}
    BY DEF EnqueueOutput, NextOutput
  <1>2. (\E r : Offer(r)) \/ UNCHANGED queue
    BY DEF EnqueueOutput, schedVars
  <1>3. OwedFingerprints \subseteq OwedFingerprints'
    BY <1>1, <1>2, OfferOwed, OwedStays
  <1> QED
    BY <1>1, <1>3, SuccessFrame

LEMMA SuccessInvStep == SuccessInv /\ [JudgedNext]_vars => SuccessInv'
  <1> SUFFICES ASSUME SuccessInv, [JudgedNext]_vars
               PROVE  SuccessInv'
    OBVIOUS
  <1>1. [Next]_vars
    BY JudgedStepIsAStep
  <1>2. KeepInv'
    BY KeepInvStep DEF SuccessInv
  <1>3. CASE Begin \/ Crash
    <2>1. cursor' = 0 /\ main' \in {"loading", "down"}
      BY <1>3 DEF Begin, Crash, FreshRun
    <2> QED
      BY <1>2, <2>1 DEF SuccessInv, StartsOwed, StartsAfresh, SuccessOwesNothing
  <1>4. CASE \/ FailSetup \/ OnStart \/ CheckContext \/ ObserveDone \/ RejectItem \/ KeepItem
             \/ Pause \/ OpenTemp \/ WriteTemp \/ RenameTemp \/ Fail
    BY <1>2, <1>4, QuietSuccess
  <1>5. CASE EnqueueStart
    BY <1>2, <1>5, StartSuccess
  <1>6. CASE EnqueueOutput
    BY <1>2, <1>6, LinkSuccess
  <1>7. CASE Resume
    <2>1. UNCHANGED <<start, cursor>> /\ main = "loading" /\ main' = "starting" /\ Checkpointing /\ disk # Absent
      BY <1>7 DEF Resume, runVars
    <2>2. cursor = 0
      BY <2>1 DEF SuccessInv, KeepInv, RunInv, TypeInv, TypeOK, StartsAfresh
    <2> QED
      BY <1>2, <2>1, <2>2 DEF SuccessInv, StartsOwed, StartsAfresh, SuccessOwesNothing
  <1>8. CASE StartReadyTask
    <2>1. UNCHANGED <<start, cursor, past>> /\ main' = "launching"
      BY <1>8 DEF StartReadyTask
    <2> QED
      BY <1>2, <1>8, <2>1, LaunchOwes, SuccessFrame DEF SuccessInv, KeepInv, RunInv
  <1>9. CASE HandleTaskResult
    <2>1. PICK t \in DOMAIN tasks : TakesResult(t)
      BY <1>9 DEF HandleTaskResult
    <2>2. UNCHANGED <<start, cursor>> /\ main = "launching" /\ main' \notin {"loading", "done"}
      BY <1>9, <2>1 DEF HandleTaskResult, Waiting, Launched, TakesResult, ResultErr, ResultRobots,
                        ResultBlocked, ResultRetry, ResultOk
    <2> QED
      BY <1>2, <2>1, <2>2, ResultOwes, SuccessFrame DEF SuccessInv
  <1>10. CASE HandleTaskError
    <2>1. UNCHANGED <<start, cursor>> /\ main' = "top"
      BY <1>10 DEF HandleTaskError
    <2> QED
      BY <1>2, <1>10, <2>1, ErrorOwes, SuccessFrame DEF SuccessInv
  <1>11. CASE Complete
    <2>1. /\ UNCHANGED <<start, cursor, queue, activeRequests, past>>
          /\ main = "launching" /\ main' = "done" /\ Owed = {}
      BY <1>11, CompleteOwesNothing
         DEF Complete, IsComplete, Launched, Finish, runVars, schedVars, SuccessInv, KeepInv
    <2>2. Owed' = Owed /\ OwedFingerprints' = OwedFingerprints
      BY <2>1, OwedStays DEF Owed
    <2> QED
      BY <1>2, <2>1, <2>2, SuccessFrame
  <1>12. CASE (\E t \in DOMAIN tasks : TaskStep(t)) \/ EndContext \/ ReadStream \/ UNCHANGED vars
    <2>1. UNCHANGED <<main, hand, start, cursor, queue, activeRequests, past, disk, runErr, paused>>
      BY <1>12 DEF TaskStep, CheckRobots, Acquire, Sleep, Fetch, RunCallback, taskUnchanged, EndContext,
                   ReadStream, vars, runVars, fileVars, schedVars
    <2>2. Owed' = Owed /\ OwedFingerprints' = OwedFingerprints
      BY <2>1, OwedStays DEF Owed
    <2> QED
      BY <1>2, <2>1, <2>2, SuccessFrame DEF SuccessInv, SuccessOwesNothing
  <1>13. CASE Rest
    BY <1>12, <1>13 DEF Rest
  <1> QED
    BY <1>1, <1>3, <1>4, <1>5, <1>6, <1>7, <1>8, <1>9, <1>10, <1>11, <1>12, <1>13 DEF Next, MainStep

LEMMA SuccessInvInit == Init => SuccessInv
  BY KeepInvInit DEF Init, SuccessInv, StartsOwed, StartsAfresh, SuccessOwesNothing

LEMMA SuccessIsDone ==
    ASSUME SuccessInv
    PROVE  SuccessMeansDone
  <1> SUFFICES ASSUME main = "done", runErr = "none", ~paused
               PROVE  /\ Owed = {} /\ seen \subseteq past.settled
                      /\ \A i \in 1..cursor : Fingerprint(start[i]) \in past.settled
    BY DEF SuccessMeansDone
  <1>1. Owed = {}
    BY DEF SuccessInv, SuccessOwesNothing
  <1>2. OwedFingerprints = {}
    BY <1>1 DEF OwedFingerprints
  <1> QED
    BY <1>1, <1>2 DEF SuccessInv, KeepInv, NoRequestLost, StartsOwed
----------------------------------------------------------------------------
(***************************************************************************)
(* The counters of the Result.  A task is counted when its result is       *)
(* handled, or stays in activeRequests: never both, because the code asks  *)
(* twice whether an error is the context's and gets the same answer (what  *)
(* HandIsKept and HandOnce say).  A push is queued or was launched, since  *)
(* no two pushes have the same place.                                      *)
(***************************************************************************)
PushesAccounted == counter = Cardinality(queue) + nextTaskID
InHand == IF main = "errored" /\ hand.task \notin DOMAIN activeRequests THEN 1 ELSE 0
Handled == stats.requests + stats.failed + stats.robotsDisallowed
LaunchesAccounted == nextTaskID = Handled + Cardinality(DOMAIN activeRequests) + InHand
NoneLaunched == main \in Early => nextTaskID = 0

BooksInv ==
    /\ KeepInv /\ OnceInv /\ PlacesInv
    /\ PushesAccounted /\ LaunchesAccounted /\ NoneLaunched

\* All that the invariants before this one keep.
LEMMA BooksBase ==
    ASSUME KeepInv, OnceInv, PlacesInv, [JudgedNext]_vars
    PROVE  KeepInv' /\ OnceInv' /\ PlacesInv'
  BY KeepInvStep, OnceInvStep, PlacesInvStep, JudgedStepIsAStep

\* The counters that say how a task ended.
LEMMA HandledType == TypeInv => Handled \in Nat
  BY DEF TypeInv, TypeOK, StatNames, Handled

LEMMA HandledCounts ==
    ASSUME TypeInv, NEW names, stats' = Count(names)
    PROVE  /\ names \cap {"requests", "failed", "robotsDisallowed"} = {} => Handled' = Handled
           /\ \A name \in {"requests", "failed", "robotsDisallowed"} :
                 names \cap {"requests", "failed", "robotsDisallowed"} = {name} => Handled' = Handled + 1
  <1>1. {"requests", "failed", "robotsDisallowed"} \subseteq StatNames
    BY DEF StatNames
  <1>2. /\ stats.requests \in Nat /\ stats.failed \in Nat /\ stats.robotsDisallowed \in Nat
    BY <1>1 DEF TypeInv, TypeOK
  <1>3. /\ stats'.requests = stats.requests + (IF "requests" \in names THEN 1 ELSE 0)
        /\ stats'.failed = stats.failed + (IF "failed" \in names THEN 1 ELSE 0)
        /\ stats'.robotsDisallowed = stats.robotsDisallowed + (IF "robotsDisallowed" \in names THEN 1 ELSE 0)
    BY <1>1 DEF Count
  <1> QED
    BY <1>2, <1>3 DEF Handled

\* The filter lets a request in with one push and one entry.
LEMMA OfferCounts ==
    ASSUME TypeInv, QueueOrdered, PushesAccounted, NEW r, Offer(r), UNCHANGED nextTaskID
    PROVE  PushesAccounted'
  <1>1. IsFiniteSet(queue) /\ counter \in Nat /\ nextTaskID \in Nat /\ Cardinality(queue) \in Nat
    BY FS_CardinalityType DEF TypeInv, TypeOK, SchedulerTypeOK
  <1>2. CASE Accepts(r)
    <2> DEFINE new == [request |-> r, order |-> counter + 1]
    <2>1. queue' = queue \cup {new} /\ counter' = counter + 1 /\ new.order = counter + 1
      BY <1>2 DEF Offer, Enqueue
    <2> HIDE DEF new
    <2>2. new \notin queue
      BY <1>1, <2>1 DEF QueueOrdered, Ordered
    <2>3. Cardinality(queue') = Cardinality(queue) + 1
      BY <1>1, <2>1, <2>2, FS_AddElement
    <2> QED
      BY <1>1, <2>1, <2>3 DEF PushesAccounted
  <1>3. CASE ~Accepts(r)
    BY <1>3 DEF Offer, schedVars, PushesAccounted
  <1> QED
    BY <1>2, <1>3

\* Steps that launch nothing and handle no task.
LEMMA BooksFrame ==
    ASSUME BooksInv, KeepInv', OnceInv', PlacesInv',
           UNCHANGED <<nextTaskID, activeRequests>>,
           (\E r : Offer(r)) \/ UNCHANGED <<queue, counter>>,
           \/ UNCHANGED stats
           \/ \E names : /\ stats' = Count(names)
                         /\ names \cap {"requests", "failed", "robotsDisallowed"} = {},
           main = "errored" \/ main' = "errored" => main' = main /\ hand' = hand,
           main' \in Early => main \in Early
    PROVE  BooksInv'
  <1>1. PushesAccounted'
    BY OfferCounts DEF BooksInv, PlacesInv, RunInv, PushesAccounted
  <1>2. Handled' = Handled
    BY HandledCounts DEF BooksInv, PlacesInv, RunInv, Handled
  <1>3. InHand' = InHand
    BY DEF InHand
  <1> QED
    BY <1>1, <1>2, <1>3 DEF BooksInv, LaunchesAccounted, NoneLaunched

LEMMA QuietBooks ==
    ASSUME BooksInv, KeepInv', OnceInv', PlacesInv',
           \/ FailSetup \/ EnqueueStart \/ OnStart \/ CheckContext \/ ObserveDone
           \/ RejectItem \/ KeepItem \/ EnqueueOutput
           \/ Pause \/ OpenTemp \/ WriteTemp \/ RenameTemp \/ Fail \/ Complete
           \/ (\E t \in DOMAIN tasks : TaskStep(t)) \/ EndContext \/ ReadStream \/ UNCHANGED vars
    PROVE  BooksInv'
  <1> DEFINE Verdicts == {"requests", "failed", "robotsDisallowed"}
  <1>1. /\ {} \cap Verdicts = {} /\ {"skipped"} \cap Verdicts = {} /\ {"items"} \cap Verdicts = {}
        /\ {"itemsDropped"} \cap Verdicts = {} /\ {"offsite"} \cap Verdicts = {}
    OBVIOUS
  <1> HIDE DEF Verdicts
  <1>2. CASE FailSetup \/ OnStart \/ CheckContext \/ ObserveDone \/ Pause \/ OpenTemp \/ WriteTemp
             \/ RenameTemp \/ Fail \/ Complete
    <2>1. UNCHANGED <<nextTaskID, activeRequests, queue, counter, stats>>
      BY <1>2 DEF FailSetup, OnStart, CheckContext, ObserveDone, Pause, OpenTemp, WriteTemp, RenameTemp,
                  Fail, Complete, runVars, schedVars
    <2>2. main # "errored" /\ main' # "errored" /\ (main' \in Early => main \in Early)
      BY <1>2 DEF FailSetup, OnStart, CheckContext, ObserveDone, Pause, OpenTemp, WriteTemp, RenameTemp,
                  Fail, Complete, Finish, Waiting, IsComplete, Launched, Early
    <2> QED
      BY <2>1, <2>2, BooksFrame
  <1>3. CASE EnqueueStart \/ EnqueueOutput \/ RejectItem \/ KeepItem
    <2>1. UNCHANGED <<nextTaskID, activeRequests>>
      BY <1>3 DEF EnqueueStart, EnqueueOutput, RejectItem, KeepItem
    <2>2. (\E r : Offer(r)) \/ UNCHANGED <<queue, counter>>
      BY <1>3 DEF EnqueueStart, EnqueueOutput, RejectItem, KeepItem, schedVars
    <2>3. UNCHANGED stats \/ \E names : stats' = Count(names) /\ names \cap Verdicts = {}
      BY <1>1, <1>3 DEF EnqueueStart, EnqueueOutput, RejectItem, KeepItem
    <2>4. main # "errored" /\ main' # "errored" /\ (main' \in Early => main \in Early)
      BY <1>3 DEF EnqueueStart, EnqueueOutput, RejectItem, KeepItem, NextOutput, Finish, Early
    <2> QED
      BY <2>1, <2>2, <2>3, <2>4, BooksFrame DEF Verdicts
  <1>4. CASE (\E t \in DOMAIN tasks : TaskStep(t)) \/ EndContext \/ ReadStream \/ UNCHANGED vars
    <2>1. UNCHANGED <<nextTaskID, activeRequests, queue, counter, stats, main, hand>>
      BY <1>4 DEF TaskStep, CheckRobots, Acquire, Sleep, Fetch, RunCallback, taskUnchanged, EndContext,
                  ReadStream, vars, runVars, schedVars
    <2> QED
      BY <2>1, BooksFrame
  <1> QED
    BY <1>2, <1>3, <1>4

\* A task launched leaves the queue for activeRequests.
LEMMA LaunchBooks ==
    ASSUME BooksInv, KeepInv', OnceInv', PlacesInv', StartReadyTask
    PROVE  BooksInv'
  <1> DEFINE id == nextTaskID + 1
  <1>1. PICK e \in queue : Dequeue(e) /\ activeRequests' = With(activeRequests, id, e.request)
    BY DEF StartReadyTask
  <1>2. /\ queue' = queue \ {e} /\ UNCHANGED <<counter, stats>> /\ nextTaskID' = nextTaskID + 1
        /\ main = "launching" /\ main' = "launching"
    BY <1>1 DEF StartReadyTask, Dequeue
  <1>3. /\ IsFiniteSet(queue) /\ IsFiniteSet(DOMAIN activeRequests)
        /\ counter \in Nat /\ nextTaskID \in Nat /\ id \notin DOMAIN activeRequests
        /\ Cardinality(queue) \in Nat /\ Cardinality(DOMAIN activeRequests) \in Nat
    <2>1. TypeInv
      BY DEF BooksInv, PlacesInv, RunInv
    <2>2. IsFiniteSet(queue) /\ IsFiniteSet(DOMAIN activeRequests)
      BY <2>1, TasksFinite DEF TypeInv
    <2>3. counter \in Nat /\ nextTaskID \in Nat /\ id \notin DOMAIN activeRequests
      BY <2>1 DEF TypeInv, TypeOK, SchedulerTypeOK
    <2> QED
      BY <2>2, <2>3, FS_CardinalityType
  <1>4. Cardinality(queue') = Cardinality(queue) - 1
    BY <1>1, <1>2, <1>3, FS_RemoveElement
  <1>5. DOMAIN activeRequests' = DOMAIN activeRequests \cup {id}
    BY <1>1 DEF With
  <1> HIDE DEF id
  <1>6. Cardinality(DOMAIN activeRequests') = Cardinality(DOMAIN activeRequests) + 1
    BY <1>3, <1>5, FS_AddElement
  <1>7. PushesAccounted'
    BY <1>2, <1>3, <1>4 DEF BooksInv, PushesAccounted
  <1>8. LaunchesAccounted'
    <2>1. InHand = 0 /\ InHand' = 0 /\ Handled' = Handled
      BY <1>2 DEF InHand, Handled
    <2>2. Handled \in Nat
      BY HandledType DEF BooksInv, PlacesInv, RunInv
    <2> QED
      BY <1>2, <1>3, <1>6, <2>1, <2>2 DEF BooksInv, LaunchesAccounted
  <1>9. NoneLaunched'
    BY <1>2 DEF NoneLaunched, Early
  <1> QED
    BY <1>7, <1>8, <1>9 DEF BooksInv
\* A result is counted, or its task is in hand.
LEMMA ResultBooks ==
    ASSUME BooksInv, KeepInv', OnceInv', PlacesInv', HandleTaskResult
    PROVE  BooksInv'
  <1>0. TypeInv
    BY DEF BooksInv, PlacesInv, RunInv
  <1>1. PICK t \in DOMAIN tasks : TakesResult(t)
    BY DEF HandleTaskResult
  <1>2. /\ main = "launching" /\ main' \in {"errored", "top", "outputs"}
        /\ UNCHANGED nextTaskID
        /\ (\E r : Offer(r)) \/ UNCHANGED <<queue, counter>>
    BY <1>1 DEF HandleTaskResult, TakesResult, Waiting, Launched, ResultErr, ResultRobots,
                ResultBlocked, ResultRetry, ResultOk, schedVars
  <1>3. PushesAccounted'
    BY <1>0, <1>2, OfferCounts DEF BooksInv, PlacesInv, PushesAccounted
  <1>4. /\ t \in DOMAIN activeRequests /\ IsFiniteSet(DOMAIN activeRequests)
        /\ Cardinality(DOMAIN activeRequests) \in Nat
    BY <1>0, TasksFinite, FS_CardinalityType DEF BooksInv, PlacesInv, RunInv, TasksAreActive
  <1>5. activeRequests' = Without(activeRequests, t)
          => /\ t \notin DOMAIN activeRequests'
             /\ Cardinality(DOMAIN activeRequests') = Cardinality(DOMAIN activeRequests) - 1
    <2> SUFFICES ASSUME activeRequests' = Without(activeRequests, t)
                 PROVE  /\ t \notin DOMAIN activeRequests'
                        /\ Cardinality(DOMAIN activeRequests') = Cardinality(DOMAIN activeRequests) - 1
      OBVIOUS
    <2>1. DOMAIN activeRequests' = DOMAIN activeRequests \ {t}
      BY DEF Without
    <2> QED
      BY <1>4, <2>1, FS_RemoveElement
  <1>6. InHand = 0 /\ Handled \in Nat /\ nextTaskID = Handled + Cardinality(DOMAIN activeRequests)
    BY <1>0, <1>2, <1>4, HandledType DEF InHand, BooksInv, LaunchesAccounted
  <1>7. LaunchesAccounted'
    <2>1. CASE ResultErr(t)
      <3>1. main' = "errored" /\ hand'.task = t /\ stats' = stats
        BY <2>1 DEF ResultErr
      <3>2. Handled' = Handled
        BY <3>1 DEF Handled
      <3>3. CASE activeRequests' = activeRequests
        BY <1>2, <1>4, <1>6, <3>1, <3>2, <3>3 DEF InHand, LaunchesAccounted
      <3>4. CASE activeRequests' = Without(activeRequests, t)
        BY <1>2, <1>4, <1>5, <1>6, <3>1, <3>2, <3>4 DEF InHand, LaunchesAccounted
      <3> QED
        BY <1>1, <3>3, <3>4 DEF TakesResult
    <2>2. CASE ResultRobots(t) \/ ResultBlocked(t) \/ ResultRetry(t) \/ ResultOk(t)
      <3>1. main' # "errored" /\ activeRequests' = Without(activeRequests, t)
        BY <1>1, <2>2 DEF TakesResult, StaysActive, ResultRobots, ResultBlocked, ResultRetry, ResultOk
      <3>2. Handled' = Handled + 1
        BY <1>0, <2>2, HandledCounts DEF ResultRobots, ResultBlocked, ResultRetry, ResultOk
      <3> QED
        BY <1>2, <1>4, <1>5, <1>6, <3>1, <3>2 DEF InHand, LaunchesAccounted
    <2> QED
      BY <1>1, <2>1, <2>2 DEF TakesResult
  <1>8. NoneLaunched'
    BY <1>2 DEF NoneLaunched, Early
  <1> QED
    BY <1>3, <1>7, <1>8 DEF BooksInv

\* The task in hand is counted exactly when it is not in flight any more.
LEMMA ErrorBooks ==
    ASSUME BooksInv, KeepInv', OnceInv', PlacesInv', HandleTaskError
    PROVE  BooksInv'
  <1>0. TypeInv
    BY DEF BooksInv, PlacesInv, RunInv
  <1>1. /\ UNCHANGED <<queue, counter, activeRequests, nextTaskID>>
        /\ main = "errored" /\ main' = "top" /\ InHand' = 0
    BY DEF HandleTaskError, schedVars, InHand
  <1>2. Cardinality(DOMAIN activeRequests) \in Nat /\ Handled \in Nat
    BY <1>0, TasksFinite, FS_CardinalityType, HandledType
  <1>3. Handled' = Handled + InHand
    <2>1. CASE IsContextErr(hand.err)
      <3>1. InHand = 0
        BY <1>1, <2>1 DEF BooksInv, KeepInv, HandIsKept, InHand
      <3>2. Handled' = Handled
        BY <2>1 DEF HandleTaskError, Handled
      <3> QED
        BY <1>2, <3>1, <3>2
    <2>2. CASE ~IsContextErr(hand.err)
      <3>1. InHand = 1
        BY <1>1, <2>2 DEF BooksInv, OnceInv, HandOnce, HandKeeps, InHand, IsContextErr
      <3>2. stats' = Count({"failed"})
        BY <2>2 DEF HandleTaskError
      <3>3. Handled' = Handled + 1
        BY <1>0, <3>2, HandledCounts
      <3> QED
        BY <3>1, <3>3
    <2> QED
      BY <2>1, <2>2
  <1>4. LaunchesAccounted'
    <2>1. InHand \in {0, 1}
      BY DEF InHand
    <2> QED
      BY <1>1, <1>2, <1>3, <2>1 DEF BooksInv, LaunchesAccounted
  <1> QED
    BY <1>1, <1>4 DEF BooksInv, PushesAccounted, NoneLaunched, Early

LEMMA FreshBooks ==
    ASSUME KeepInv', OnceInv', PlacesInv', FreshRun, main' \in {"loading", "down"}
    PROVE  BooksInv'
  <1>1. /\ queue' = {} /\ counter' = 0 /\ nextTaskID' = 0 /\ DOMAIN activeRequests' = {} /\ stats' = NoStats
    BY DEF FreshRun, NoTasks
  <1>2. Handled' = 0 /\ InHand' = 0 /\ Cardinality({}) = 0
    BY <1>1, FS_EmptySet DEF Handled, NoStats, StatNames, InHand
  <1> QED
    BY <1>1, <1>2 DEF BooksInv, PushesAccounted, LaunchesAccounted, NoneLaunched

LEMMA BooksInvStep == BooksInv /\ [JudgedNext]_vars => BooksInv'
  <1> SUFFICES ASSUME BooksInv, [JudgedNext]_vars
               PROVE  BooksInv'
    OBVIOUS
  <1>1. [Next]_vars
    BY JudgedStepIsAStep
  <1>2. KeepInv' /\ OnceInv' /\ PlacesInv'
    BY <1>1, BooksBase DEF BooksInv
  <1>3. CASE Begin \/ Crash
    BY <1>2, <1>3, FreshBooks DEF Begin, Crash
  <1>4. CASE \/ FailSetup \/ EnqueueStart \/ OnStart \/ CheckContext \/ ObserveDone
             \/ RejectItem \/ KeepItem \/ EnqueueOutput
             \/ Pause \/ OpenTemp \/ WriteTemp \/ RenameTemp \/ Fail \/ Complete
             \/ (\E t \in DOMAIN tasks : TaskStep(t)) \/ EndContext \/ ReadStream \/ UNCHANGED vars
    BY <1>2, <1>4, QuietBooks
  <1>5. CASE Resume
    <2>1. /\ queue' = disk.requests /\ counter' = Cardinality(disk.requests)
          /\ UNCHANGED <<nextTaskID, activeRequests, stats>> /\ main = "loading" /\ main' = "starting"
      BY <1>5 DEF Resume, Restore, runVars
    <2>2. nextTaskID = 0 /\ InHand = 0 /\ InHand' = 0 /\ Handled' = Handled
      BY <2>1 DEF BooksInv, NoneLaunched, Early, InHand, Handled
    <2>3. Cardinality(disk.requests) \in Nat
      BY <1>5, FS_CardinalityType DEF Resume, BooksInv, PlacesInv, RunInv, TypeInv
    <2> QED
      BY <1>2, <2>1, <2>2, <2>3 DEF BooksInv, PushesAccounted, LaunchesAccounted, NoneLaunched
  <1>6. CASE StartReadyTask
    BY <1>2, <1>6, LaunchBooks
  <1>7. CASE HandleTaskResult
    BY <1>2, <1>7, ResultBooks
  <1>8. CASE HandleTaskError
    BY <1>2, <1>8, ErrorBooks
  <1>9. CASE Rest
    BY <1>4, <1>9 DEF Rest
  <1> QED
    BY <1>1, <1>3, <1>4, <1>5, <1>6, <1>7, <1>8, <1>9 DEF Next, MainStep

LEMMA BooksInvInit == Init => BooksInv
  <1> SUFFICES ASSUME Init
               PROVE  BooksInv
    OBVIOUS
  <1>1. /\ queue = {} /\ counter = 0 /\ nextTaskID = 0 /\ DOMAIN activeRequests = {} /\ stats = NoStats
        /\ main = "down"
    BY DEF Init, SchedulerInit, NoTasks
  <1>2. Handled = 0 /\ InHand = 0 /\ Cardinality({}) = 0
    BY <1>1, FS_EmptySet DEF Handled, NoStats, StatNames, InHand
  <1> QED
    BY <1>1, <1>2, KeepInvInit, OnceInvInit, PlacesInvInit
       DEF BooksInv, PushesAccounted, LaunchesAccounted, NoneLaunched
----------------------------------------------------------------------------
(***************************************************************************)
(* Retries.  RetryCount travels: a retry adds one to it, Follow copies it  *)
(* to the links of a page, and a checkpoint saves and restores it.  The    *)
(* field is exported, so the bound is that of a caller that starts with    *)
(* requests within it.                                                     *)
(***************************************************************************)
Within(r) == r.retryCount <= MaxBlockedRetries
StartsWithinBudget == \A list \in Starts : \A i \in 1..Len(list) : Within(list[i])

AllWithin(list) == \A e \in list : Within(e.request)
RetriesWithin == \A t \in DOMAIN tasks : tasks[t].result.kind = "retry" => Within(tasks[t].result.retry)
FilesWithin ==
    /\ disk # Absent => AllWithin(disk.requests)
    /\ main = "renaming" => AllWithin(tmp.requests)

BudgetInv ==
    /\ RunInv /\ RetriesBounded /\ RetriesWithin /\ Within(parent) /\ FilesWithin
    /\ \A i \in 1..Len(start) : Within(start[i])

\* A request offered within the budget.
LEMMA OfferWithin ==
    ASSUME RetriesBounded, NEW r, Within(r), Offer(r),
           \A t \in DOMAIN activeRequests' : t \in DOMAIN activeRequests /\ activeRequests'[t] = activeRequests[t],
           main' # "errored"
    PROVE  RetriesBounded'
  <1>1. \A s \in Owed' : s \in Owed \/ s = r
    BY OfferOwes DEF Owed
  <1> QED
    BY <1>1 DEF RetriesBounded, Within

\* Steps that owe nothing new.
LEMMA BudgetFrame ==
    ASSUME BudgetInv, RunInv', Owed' \subseteq Owed,
           UNCHANGED <<tasks, parent, start, disk>>,
           main' = "renaming" => main = "renaming" /\ tmp' = tmp
    PROVE  BudgetInv'
  <1>1. RetriesBounded' /\ RetriesWithin' /\ Within(parent)' /\ FilesWithin'
    BY DEF BudgetInv, RetriesBounded, RetriesWithin, Within, FilesWithin, AllWithin
  <1> QED
    BY <1>1 DEF BudgetInv, Within

LEMMA QuietBudget ==
    ASSUME BudgetInv, RunInv',
           \/ FailSetup \/ OnStart \/ CheckContext \/ ObserveDone \/ HandleTaskError
           \/ RejectItem \/ KeepItem \/ Pause \/ OpenTemp \/ Fail \/ Complete
           \/ EndContext \/ ReadStream \/ UNCHANGED vars
    PROVE  BudgetInv'
  <1>1. UNCHANGED <<queue, activeRequests, tasks, parent, start>>
    BY DEF FailSetup, OnStart, CheckContext, ObserveDone, HandleTaskError, RejectItem, KeepItem, Pause,
           OpenTemp, Fail, Complete, EndContext, ReadStream, vars, runVars, schedVars
  <1>2. main' = "errored" => main = "errored" /\ hand' = hand
    BY DEF FailSetup, OnStart, CheckContext, ObserveDone, HandleTaskError, RejectItem, KeepItem, NextOutput,
           Pause, OpenTemp, Fail, Complete, Finish, EndContext, ReadStream, vars, runVars
  <1>3. Owed' \subseteq Owed
    BY <1>1, <1>2 DEF Owed
  <1>4. CASE Complete
    <2>1. main' = "done" /\ disk' \in {disk, Absent}
      BY <1>4 DEF Complete, Finish
    <2> QED
      BY <1>1, <1>3, <2>1
         DEF BudgetInv, RetriesBounded, RetriesWithin, Within, FilesWithin, AllWithin
  <1>5. CASE \/ FailSetup \/ OnStart \/ CheckContext \/ ObserveDone \/ HandleTaskError
             \/ RejectItem \/ KeepItem \/ Pause \/ OpenTemp \/ Fail
             \/ EndContext \/ ReadStream \/ UNCHANGED vars
    <2>1. UNCHANGED disk /\ (main' = "renaming" => main = "renaming" /\ tmp' = tmp)
      BY <1>5 DEF FailSetup, OnStart, CheckContext, ObserveDone, HandleTaskError, RejectItem, KeepItem,
                  NextOutput, Pause, OpenTemp, Fail, Finish, EndContext, ReadStream, vars, runVars, fileVars
    <2> QED
      BY <1>1, <1>3, <2>1, BudgetFrame
  <1> QED
    BY <1>4, <1>5

LEMMA EnqueueBudget ==
    ASSUME BudgetInv, RunInv', EnqueueStart \/ EnqueueOutput
    PROVE  BudgetInv'
  <1>1. /\ UNCHANGED <<activeRequests, tasks, parent, start, disk>>
        /\ main \notin {"errored", "renaming"} /\ main' \notin {"errored", "renaming"}
    BY DEF EnqueueStart, EnqueueOutput, NextOutput, Finish, fileVars
  <1>2. UNCHANGED queue \/ \E r : Within(r) /\ Offer(r)
    <2>1. CASE EnqueueStart
      <3>1. cursor + 1 \in 1..Len(start)
        BY <2>1, LenProperties DEF EnqueueStart, BudgetInv, RunInv, TypeInv, TypeOK
      <3>2. Within(start[cursor + 1])
        BY <3>1 DEF BudgetInv
      <3> QED
        BY <2>1, <3>2 DEF EnqueueStart, schedVars
    <2>2. CASE EnqueueOutput
      <3>1. \A link : Within(LinkRequest(link))
        <4>1. parent \in Request /\ MaxBlockedRetries \in Nat
          BY CrawlAssumption DEF BudgetInv, RunInv, TypeInv, TypeOK
        <4> QED
          BY <4>1 DEF LinkRequest, Within, Request, BudgetInv
      <3> QED
        BY <2>2, <3>1 DEF EnqueueOutput, schedVars
    <2> QED
      BY <2>1, <2>2
  <1>3. RetriesBounded'
    <2>1. CASE UNCHANGED queue
      <3>1. Owed' \subseteq Owed
        BY <1>1, <2>1 DEF Owed
      <3> QED
        BY <3>1 DEF BudgetInv, RetriesBounded
    <2>2. CASE \E r : Within(r) /\ Offer(r)
      BY <1>1, <2>2, OfferWithin DEF BudgetInv
    <2> QED
      BY <1>2, <2>1, <2>2
  <1> QED
    BY <1>1, <1>3 DEF BudgetInv, RetriesWithin, Within, FilesWithin, AllWithin

LEMMA LaunchBudget ==
    ASSUME BudgetInv, RunInv', StartReadyTask
    PROVE  BudgetInv'
  <1>1. PICK e \in queue :
          /\ Dequeue(e)
          /\ activeRequests' = With(activeRequests, nextTaskID + 1, e.request)
          /\ tasks' = With(tasks, nextTaskID + 1, NewTask(e.request))
    BY DEF StartReadyTask
  <1>2. queue' = queue \ {e} /\ UNCHANGED <<main, parent, start, disk>> /\ main = "launching"
    BY <1>1 DEF StartReadyTask, Dequeue, fileVars
  <1>3. Owed' \subseteq Owed
    BY <1>1, <1>2 DEF With, Owed
  <1>4. RetriesWithin'
    <2>1. \A t \in DOMAIN tasks' : tasks'[t] = NewTask(e.request) \/ (t \in DOMAIN tasks /\ tasks'[t] = tasks[t])
      BY <1>1 DEF With
    <2>2. NewTask(e.request).result.kind # "retry"
      BY DEF NewTask
    <2> QED
      BY <2>1, <2>2 DEF BudgetInv, RetriesWithin, Within
  <1> QED
    BY <1>2, <1>3, <1>4 DEF BudgetInv, RetriesBounded, Within, FilesWithin, AllWithin

LEMMA ResultBudget ==
    ASSUME BudgetInv, RunInv', HandleTaskResult
    PROVE  BudgetInv'
  <1>1. PICK t \in DOMAIN tasks : TakesResult(t)
    BY DEF HandleTaskResult
  <1>2. /\ tasks' = Without(tasks, t) /\ main' \in {"errored", "top", "outputs"} /\ UNCHANGED <<start, disk>>
        /\ main = "launching"
    BY <1>1 DEF HandleTaskResult, TakesResult, Waiting, Launched, ResultErr, ResultRobots,
                ResultBlocked, ResultRetry, ResultOk, fileVars
  <1>3. tasks[t].request \in Owed /\ Within(tasks[t].request)
    BY DEF BudgetInv, RunInv, TasksAreActive, Owed, RetriesBounded, Within
  <1>4. \A u \in DOMAIN activeRequests' : u \in DOMAIN activeRequests /\ activeRequests'[u] = activeRequests[u]
    BY <1>1 DEF TakesResult, Without
  <1>5. RetriesBounded'
    <2>1. CASE ResultRetry(t)
      <3>1. Within(tasks[t].result.retry) /\ Offer(tasks[t].result.retry) /\ main' = "top"
        BY <2>1 DEF ResultRetry, BudgetInv, RetriesWithin
      <3> QED
        BY <1>4, <3>1, OfferWithin DEF BudgetInv
    <2>2. CASE ResultErr(t) \/ ResultRobots(t) \/ ResultBlocked(t) \/ ResultOk(t)
      <3>1. UNCHANGED queue /\ (main' = "errored" => hand'.request = tasks[t].request)
        BY <2>2 DEF ResultErr, ResultRobots, ResultBlocked, ResultOk, schedVars
      <3>2. Owed' \subseteq Owed
        BY <1>3, <1>4, <3>1 DEF Owed
      <3> QED
        BY <3>2 DEF BudgetInv, RetriesBounded
    <2> QED
      BY <1>1, <2>1, <2>2 DEF TakesResult
  <1>6. RetriesWithin'
    BY <1>2 DEF Without, BudgetInv, RetriesWithin, Within
  <1>7. Within(parent)'
    BY <1>1, <1>3 DEF TakesResult, ResultErr, ResultRobots, ResultBlocked, ResultRetry, ResultOk,
                      BudgetInv, Within
  <1> QED
    BY <1>2, <1>5, <1>6, <1>7 DEF BudgetInv, Within, FilesWithin, AllWithin
\* A goroutine asks for a retry only while there is budget left for it.
LEMMA TaskStepBudget ==
    ASSUME BudgetInv, RunInv', NEW t \in DOMAIN tasks, TaskStep(t)
    PROVE  BudgetInv'
  <1>1. UNCHANGED <<queue, activeRequests, main, hand, parent, start, disk, tmp>>
    BY DEF TaskStep, CheckRobots, Acquire, Sleep, Fetch, RunCallback, taskUnchanged, schedVars, fileVars
  <1> DEFINE Fit(u) == tasks'[u].result.kind = "retry" => Within(tasks'[u].result.retry)
  <1>2. \A u \in DOMAIN tasks : tasks[u].result.kind = "retry" => Within(tasks[u].result.retry)
    BY DEF BudgetInv, RetriesWithin
  <1>3. ASSUME NEW step, Advance(t, step)
        PROVE  \A u \in DOMAIN tasks' : Fit(u)
    BY <1>2, <1>3 DEF Advance, BudgetInv, RunInv, TypeInv, TypeOK, Task
  <1>4. ASSUME NEW kind, NEW err, NEW retry, Return(t, kind, err, retry),
               kind = "retry" => Within(retry)
        PROVE  \A u \in DOMAIN tasks' : Fit(u)
    <2>1. DOMAIN tasks' = DOMAIN tasks /\ \A u \in DOMAIN tasks : u # t => tasks'[u] = tasks[u]
      BY <1>4 DEF Return
    <2>2. tasks'[t].result = [kind |-> kind, err |-> err, retry |-> retry]
      BY <1>4 DEF Return, BudgetInv, RunInv, TypeInv, TypeOK, Task
    <2>3. Fit(t)
      BY <1>4, <2>2
    <2>4. \A u \in DOMAIN tasks : u # t => Fit(u)
      BY <1>2, <2>1
    <2> QED
      BY <2>1, <2>3, <2>4
  <1>5. MayRetry(tasks[t].request) => \A filtered : Within(RetryOf(tasks[t].request, filtered))
    <2>1. tasks[t].request.retryCount \in Nat
      BY DEF BudgetInv, RunInv, TypeInv, TypeOK, Task, Request
    <2>2. MaxBlockedRetries \in Nat
      BY CrawlAssumption
    <2> QED
      BY <2>1, <2>2 DEF MayRetry, RetryOf, Within
  <1> HIDE DEF Fit
  <1>6. \A u \in DOMAIN tasks' : Fit(u)
    <2>1. CASE CheckRobots(t)
      BY <1>3, <1>4, <2>1 DEF CheckRobots
    <2>2. CASE Acquire(t)
      BY <1>3, <1>4, <2>2 DEF Acquire, ReturnErr
    <2>3. CASE Sleep(t)
      BY <1>3, <1>4, <2>3 DEF Sleep, ReturnErr
    <2>4. CASE Fetch(t)
      BY <1>3, <1>4, <1>5, <2>4 DEF Fetch, ReturnErr
    <2>5. CASE RunCallback(t)
      BY <1>3, <1>4, <2>5 DEF RunCallback, ReturnErr
    <2> QED
      BY <2>1, <2>2, <2>3, <2>4, <2>5 DEF TaskStep
  <1>7. Owed' = Owed
    BY <1>1 DEF Owed
  <1> QED
    BY <1>1, <1>6, <1>7
       DEF Fit, BudgetInv, RetriesBounded, RetriesWithin, Within, FilesWithin, AllWithin

\* A checkpoint is written from what is owed, and what is owed restored from it.
LEMMA FilesBudget ==
    ASSUME BudgetInv, RunInv', Resume \/ WriteTemp \/ RenameTemp
    PROVE  BudgetInv'
  <1>1. UNCHANGED <<activeRequests, tasks, parent, start>>
        /\ main # "errored" /\ main' \in {"starting", "renaming", "done"}
    BY DEF Resume, WriteTemp, RenameTemp, Finish, runVars
  <1>2. RetriesBounded' /\ FilesWithin'
    <2>1. CASE Resume
      <3>1. queue' = disk.requests /\ UNCHANGED disk /\ disk # Absent /\ main' = "starting"
        BY <2>1 DEF Resume, Restore, fileVars
      <3>2. \A r \in Owed' : r \in Owed \/ Within(r)
        BY <1>1, <3>1 DEF BudgetInv, FilesWithin, AllWithin, Owed
      <3> QED
        BY <3>1, <3>2 DEF BudgetInv, RetriesBounded, FilesWithin, AllWithin, Within
    <2>2. CASE WriteTemp \/ RenameTemp
      <3>1. Owed' = Owed
        BY <1>1, <2>2 DEF WriteTemp, RenameTemp, schedVars, Owed
      <3>2. AllWithin(PauseSnapshot.requests)
        <4>1. \A t \in DOMAIN activeRequests : Within(activeRequests[t])
          BY DEF BudgetInv, RetriesBounded, Owed, Within
        <4>2. \A e \in queue : Within(e.request)
          BY DEF BudgetInv, RetriesBounded, Owed, Within
        <4>3. \A x \in PauseSnapshot.requests :
                  \/ \E t \in DOMAIN activeRequests : x.request = activeRequests[t]
                  \/ \E e \in queue : x.request = e.request
          BY PauseEntries
        <4> QED
          BY <4>1, <4>2, <4>3 DEF AllWithin
      <3>3. /\ main' = "renaming" => tmp' = PauseSnapshot
            /\ disk' = disk \/ (main = "renaming" /\ disk' = tmp)
        BY <2>2 DEF WriteTemp, RenameTemp, Finish
      <3> QED
        BY <1>1, <3>1, <3>2, <3>3 DEF BudgetInv, RetriesBounded, FilesWithin, AllWithin, Within
    <2> QED
      BY <2>1, <2>2
  <1> QED
    BY <1>1, <1>2 DEF BudgetInv, RetriesWithin, Within

LEMMA FreshBudget ==
    ASSUME StartsWithinBudget, BudgetInv, RunInv', Begin \/ Crash
    PROVE  BudgetInv'
  <1>1. /\ queue' = {} /\ DOMAIN activeRequests' = {} /\ DOMAIN tasks' = {} /\ parent' = Blank
        /\ main' \in {"loading", "down"} /\ UNCHANGED disk /\ (start' \in Starts \/ start' = <<>>)
    BY DEF Begin, Crash, FreshRun, NoTasks, fileVars
  <1>2. Owed' = {}
    BY <1>1 DEF Owed
  <1>3. Within(Blank)
    <2>1. MaxBlockedRetries \in Nat
      BY CrawlAssumption
    <2> QED
      BY <2>1 DEF Blank, Within
  <1>4. \A i \in 1..Len(start') : Within(start'[i])
    BY <1>1, EmptySeq DEF StartsWithinBudget
  <1> QED
    BY <1>1, <1>2, <1>3, <1>4 DEF BudgetInv, RetriesBounded, RetriesWithin, Within, FilesWithin, AllWithin

LEMMA BudgetInvStep ==
    ASSUME StartsWithinBudget
    PROVE  BudgetInv /\ [Next]_vars => BudgetInv'
  <1> SUFFICES ASSUME BudgetInv, [Next]_vars
               PROVE  BudgetInv'
    OBVIOUS
  <1>0. RunInv'
    BY RunInvStep DEF BudgetInv
  <1>1. CASE Begin \/ Crash
    BY <1>0, <1>1, FreshBudget
  <1>2. CASE \/ FailSetup \/ OnStart \/ CheckContext \/ ObserveDone \/ HandleTaskError
             \/ RejectItem \/ KeepItem \/ Pause \/ OpenTemp \/ Fail \/ Complete
             \/ EndContext \/ ReadStream \/ UNCHANGED vars
    BY <1>0, <1>2, QuietBudget
  <1>3. CASE EnqueueStart \/ EnqueueOutput
    BY <1>0, <1>3, EnqueueBudget
  <1>4. CASE StartReadyTask
    BY <1>0, <1>4, LaunchBudget
  <1>5. CASE HandleTaskResult
    BY <1>0, <1>5, ResultBudget
  <1>6. ASSUME NEW t \in DOMAIN tasks, TaskStep(t) PROVE BudgetInv'
    BY <1>0, <1>6, TaskStepBudget
  <1>7. CASE Resume \/ WriteTemp \/ RenameTemp
    BY <1>0, <1>7, FilesBudget
  <1>8. CASE Rest
    BY <1>2, <1>8 DEF Rest
  <1> QED
    BY <1>1, <1>2, <1>3, <1>4, <1>5, <1>6, <1>7, <1>8 DEF Next, MainStep

LEMMA BudgetInvInit == Init => BudgetInv
  <1> SUFFICES ASSUME Init
               PROVE  BudgetInv
    OBVIOUS
  <1>1. /\ queue = {} /\ DOMAIN activeRequests = {} /\ DOMAIN tasks = {} /\ parent = Blank
        /\ main = "down" /\ disk = Absent /\ start = <<>>
    BY DEF Init, SchedulerInit, NoTasks
  <1>2. MaxBlockedRetries \in Nat
    BY CrawlAssumption
  <1>3. Within(Blank) /\ \A i \in 1..Len(start) : Within(start[i])
    BY <1>1, <1>2, EmptySeq DEF Blank, Within
  <1>4. Owed = {}
    BY <1>1 DEF Owed
  <1> QED
    BY <1>1, <1>3, <1>4, RunInvInit DEF BudgetInv, RetriesBounded, RetriesWithin, FilesWithin

\* While no context ends under the judgement of a failed request, and with start
\* requests within the retry budget, the accounts of every run add up: a task is
\* counted once or kept for the checkpoint, no retry goes beyond the budget across
\* pauses, and a run that reports success has settled all it ever accepted.
\* (handleTaskResult, handleTaskError, Enqueue, Restore, processRequest, run)
THEOREM WorkIsAccounted ==
    ASSUME StartsWithinBudget
    PROVE  JudgedSpec => []WorkAccounted
  <1>1. JudgedSpec => []SuccessInv
    BY SuccessInvInit, SuccessInvStep, PTL DEF JudgedSpec
  <1>2. JudgedSpec => []BooksInv
    BY BooksInvInit, BooksInvStep, PTL DEF JudgedSpec
  <1>3. JudgedSpec => []BudgetInv
    BY BudgetInvInit, BudgetInvStep, JudgedStepIsAStep, PTL DEF JudgedSpec
  <1>4. BooksInv => TasksAccounted
    BY DEF BooksInv, PushesAccounted, LaunchesAccounted, Handled, InHand, TasksAccounted
  <1>5. SuccessInv /\ BooksInv /\ BudgetInv => WorkAccounted
    BY <1>4, SuccessIsDone DEF BudgetInv, WorkAccounted
  <1> QED
    BY <1>1, <1>2, <1>3, <1>5, PTL
----------------------------------------------------------------------------
(***************************************************************************)
(* The crawl implements the Frontier: each step of a run, a pause, a       *)
(* failure or a crash is a step of the frontier or leaves it as it is.     *)
(***************************************************************************)
\* A run that has offered nothing knows nothing, and only a run with a checkpoint
\* directory has a checkpoint.
FreshKnowsNothing == main = "loading" /\ cursor = 0 => seen = {}
SavesIfAsked == ~Checkpointing => disk = Absent /\ main \notin Saving

FrontierInv == SuccessInv /\ OnceInv /\ FreshKnowsNothing /\ SavesIfAsked

LEMMA FrontierInvStep == FrontierInv /\ [JudgedNext]_vars => FrontierInv'
  <1> SUFFICES ASSUME FrontierInv, [JudgedNext]_vars
               PROVE  FrontierInv'
    OBVIOUS
  <1>0. [Next]_vars
    BY JudgedStepIsAStep
  <1>1. SuccessInv' /\ OnceInv'
    BY <1>0, SuccessInvStep, OnceInvStep DEF FrontierInv
  <1>2. FreshKnowsNothing'
    <2>1. CASE Begin
      BY <2>1 DEF Begin, FreshRun, FreshKnowsNothing
    <2>2. CASE EnqueueStart
      <3>1. main' = "loading" => cursor' = cursor + 1
        BY <2>2 DEF EnqueueStart, Finish
      <3>2. cursor \in Nat
        BY DEF FrontierInv, SuccessInv, KeepInv, RunInv, TypeInv, TypeOK
      <3> QED
        BY <3>1, <3>2 DEF FreshKnowsNothing
    <2>3. ASSUME ~Begin, ~EnqueueStart
          PROVE  main' = "loading" => UNCHANGED <<main, cursor, seen>>
      <3>1. CASE \/ FailSetup \/ Resume \/ OnStart \/ CheckContext \/ StartReadyTask \/ ObserveDone
                 \/ HandleTaskResult \/ HandleTaskError \/ RejectItem \/ KeepItem \/ EnqueueOutput
                 \/ Pause \/ OpenTemp \/ WriteTemp \/ RenameTemp \/ Fail \/ Complete \/ Crash
        BY <3>1 DEF FailSetup, Resume, OnStart, CheckContext, StartReadyTask, ObserveDone, HandleTaskResult,
             TakesResult, ResultErr, ResultRobots, ResultBlocked, ResultRetry, ResultOk, HandleTaskError,
             RejectItem, KeepItem, EnqueueOutput, NextOutput, Pause, OpenTemp, WriteTemp, RenameTemp, Fail,
             Complete, Crash, Finish
      <3>2. CASE (\E t \in DOMAIN tasks : TaskStep(t)) \/ EndContext \/ ReadStream \/ Rest \/ UNCHANGED vars
        BY <3>2 DEF TaskStep, CheckRobots, Acquire, Sleep, Fetch, RunCallback, taskUnchanged, EndContext,
             ReadStream, Rest, vars, runVars, schedVars
      <3> QED
        BY <1>0, <2>3, <3>1, <3>2 DEF Next, MainStep
    <2> QED
      BY <2>1, <2>2, <2>3 DEF FrontierInv, FreshKnowsNothing
  <1>3. SavesIfAsked'
    <2> SUFFICES ASSUME ~Checkpointing
                 PROVE  disk' = Absent /\ main' \notin Saving
      BY DEF SavesIfAsked
    <2>1. disk = Absent /\ main \notin Saving
      BY DEF FrontierInv, SavesIfAsked
    <2>2. disk' = Absent
      <3>1. disk' # disk => disk' = Absent \/ RenameTemp
        BY <1>0 DEF Next, MainStep, fileVars, Begin, FailSetup, Resume, EnqueueStart, OnStart, CheckContext,
               StartReadyTask, ObserveDone, HandleTaskResult, HandleTaskError, RejectItem, KeepItem,
               EnqueueOutput, Pause, OpenTemp, WriteTemp, Fail, Complete, TaskStep, CheckRobots, Acquire,
               Sleep, Fetch, RunCallback, taskUnchanged, EndContext, ReadStream, Crash, Rest, vars
      <3> QED
        BY <2>1, <3>1 DEF RenameTemp, Saving
    <2>3. main' \notin Saving
      <3>1. CASE Pause \/ OpenTemp \/ WriteTemp
        BY <2>1, <3>1 DEF Pause, IsPause, OpenTemp, WriteTemp, Saving
      <3>2. ASSUME ~Pause, ~OpenTemp, ~WriteTemp
            PROVE  main' \notin Saving
        <4>1. CASE \/ Begin \/ FailSetup \/ Resume \/ EnqueueStart \/ OnStart \/ CheckContext \/ StartReadyTask
                   \/ ObserveDone \/ HandleTaskResult \/ HandleTaskError \/ RejectItem \/ KeepItem
                   \/ EnqueueOutput \/ RenameTemp \/ Fail \/ Complete \/ Crash
          BY <2>1, <4>1
             DEF Begin, FailSetup, Resume, EnqueueStart, OnStart, CheckContext, StartReadyTask, ObserveDone,
                 HandleTaskResult, TakesResult, ResultErr, ResultRobots, ResultBlocked, ResultRetry, ResultOk,
                 HandleTaskError, RejectItem, KeepItem, EnqueueOutput, NextOutput, RenameTemp, Fail,
                 Complete, Crash, Finish, Saving
        <4>2. CASE (\E t \in DOMAIN tasks : TaskStep(t)) \/ EndContext \/ ReadStream \/ Rest \/ UNCHANGED vars
          BY <2>1, <4>2 DEF TaskStep, CheckRobots, Acquire, Sleep, Fetch, RunCallback, taskUnchanged,
                 EndContext, ReadStream, Rest, vars
        <4> QED
          BY <1>0, <3>2, <4>1, <4>2 DEF Next, MainStep
      <3> QED
        BY <3>1, <3>2
    <2> QED
      BY <2>2, <2>3
  <1> QED
    BY <1>1, <1>2, <1>3 DEF FrontierInv

LEMMA FrontierInvInit == Init => FrontierInv
  BY SuccessInvInit, OnceInvInit DEF Init, FrontierInv, FreshKnowsNothing, SavesIfAsked, Saving

\* The frontier's steps, in the crawl's terms.
FrontierStep == [CrawlFrontier!Next]_(CrawlFrontier!frontierVars)

\* Inside a run the frontier runs too, once something was offered or restored.
LEMMA RunningPhase ==
    ASSUME main \notin {"down", "done"}, main = "loading" => cursor # 0
    PROVE  FrontierPhase = "running" /\ FrontierPending = OwedFingerprints
  BY DEF FrontierPhase, FrontierPending, Running

\* A step inside a run: nothing moves, a page is discovered, or a page is settled.
LEMMA WorkStep ==
    ASSUME main \notin {"down", "done"}, main = "loading" => cursor # 0,
           main' \notin {"down", "done"}, main' = "loading" => cursor' # 0,
           disk' = disk,
           \/ OwedFingerprints' = OwedFingerprints
           \/ \E p \in Fingerprints : OwedFingerprints' = OwedFingerprints \cup {p}
           \/ \E p \in Fingerprints : p \in OwedFingerprints /\ OwedFingerprints' = OwedFingerprints \ {p}
    PROVE  FrontierStep
  <1>1. FrontierPhase = "running" /\ FrontierPending = OwedFingerprints
    BY RunningPhase
  <1>2. FrontierPhase' = "running" /\ FrontierPending' = OwedFingerprints'
    BY DEF FrontierPhase, FrontierPending, Running
  <1>3. FrontierSaved' = FrontierSaved
    BY DEF FrontierSaved, Fingerprint
  <1>4. CASE OwedFingerprints' = OwedFingerprints
    BY <1>1, <1>2, <1>3, <1>4 DEF FrontierStep, CrawlFrontier!frontierVars
  <1>5. ASSUME NEW p \in Fingerprints, OwedFingerprints' = OwedFingerprints \cup {p}
        PROVE  FrontierStep
    <2>1. CrawlFrontier!Discover(p)
      BY <1>1, <1>2, <1>3, <1>5 DEF CrawlFrontier!Discover
    <2> QED
      BY <2>1 DEF FrontierStep, CrawlFrontier!Next
  <1>6. ASSUME NEW p \in Fingerprints, p \in OwedFingerprints, OwedFingerprints' = OwedFingerprints \ {p}
        PROVE  FrontierStep
    <2>1. CrawlFrontier!Settle(p)
      BY <1>1, <1>2, <1>3, <1>6 DEF CrawlFrontier!Settle
    <2> QED
      BY <2>1 DEF FrontierStep, CrawlFrontier!Next
  <1> QED
    BY <1>4, <1>5, <1>6

\* A run that ends, or dies, and leaves its checkpoint alone.
LEMMA AbortStep ==
    ASSUME Running, ~Running', disk' = disk
    PROVE  FrontierStep
  <1>1. FrontierPhase # "idle" /\ FrontierPhase' = "idle" /\ FrontierPending' = {}
    BY DEF FrontierPhase, FrontierPending
  <1>2. FrontierSaved' = FrontierSaved
    BY DEF FrontierSaved, Fingerprint
  <1>3. CrawlFrontier!Abort
    BY <1>1, <1>2 DEF CrawlFrontier!Abort, CrawlFrontier!End
  <1> QED
    BY <1>3 DEF FrontierStep, CrawlFrontier!Next
LEMMA BeginStep ==
    ASSUME Begin
    PROVE  FrontierStep
  <1>1. /\ main \in {"down", "done"} /\ main' = "loading" /\ cursor' = 0 /\ disk' = disk
        /\ queue' = {} /\ DOMAIN activeRequests' = {}
    BY DEF Begin, FreshRun, NoTasks, fileVars
  <1>2. OwedFingerprints' = {}
    BY <1>1 DEF OwedFingerprints, Owed
  <1>3. FrontierPhase = "idle" /\ FrontierPhase' = "fresh"
    BY <1>1 DEF FrontierPhase, Running
  <1>4. FrontierPending = {} /\ FrontierPending' = {} /\ FrontierSaved' = FrontierSaved
    BY <1>1, <1>2 DEF FrontierPending, Running, FrontierSaved, Fingerprint
  <1>5. CrawlFrontier!Begin
    BY <1>3, <1>4 DEF CrawlFrontier!Begin
  <1> QED
    BY <1>5 DEF FrontierStep, CrawlFrontier!Next

LEMMA RecoverStep ==
    ASSUME FrontierInv, Resume
    PROVE  FrontierStep
  <1>1. /\ main = "loading" /\ main' = "starting" /\ UNCHANGED <<cursor, disk, activeRequests>>
        /\ disk # Absent /\ queue' = disk.requests /\ Checkpointing
    BY DEF Resume, Restore, runVars, fileVars
  <1>2. cursor = 0 /\ DOMAIN activeRequests' = {} /\ disk \in FileSnapshot
    BY <1>1 DEF FrontierInv, SuccessInv, StartsAfresh, KeepInv, RunInv, TypeInv, TypeOK,
                OnceInv, NoneInFlight, Early
  <1>3. OwedFingerprints' = {Fingerprint(e.request) : e \in disk.requests}
    <2>1. Owed' = {e.request : e \in disk.requests}
      BY <1>1, <1>2 DEF Owed
    <2> QED
      BY <2>1 DEF OwedFingerprints, Fingerprint
  <1>4. FrontierPhase = "fresh" /\ FrontierPhase' = "running"
    BY <1>1, <1>2 DEF FrontierPhase, Running
  <1>5. FrontierPending' = FrontierSaved /\ FrontierSaved' = FrontierSaved
    BY <1>1, <1>2, <1>3 DEF FrontierPending, Running, FrontierSaved, Fingerprint
  <1>6. FrontierSaved # Absent
    <2>1. \A e \in disk.requests : Fingerprint(e.request) \in Fingerprints
      BY <1>2, FingerprintType DEF FileSnapshot, Entry
    <2>2. FrontierSaved \in SUBSET Fingerprints
      BY <1>2, <2>1 DEF FrontierSaved
    <2> QED
      BY <2>2, CrawlAssumption
  <1>7. CrawlFrontier!Recover
    BY <1>4, <1>5, <1>6 DEF CrawlFrontier!Recover
  <1> QED
    BY <1>7 DEF FrontierStep, CrawlFrontier!Next
\* A start request is a page discovered, a duplicate, or the end of the run.
LEMMA StartRequestStep ==
    ASSUME FrontierInv, EnqueueStart
    PROVE  FrontierStep
  <1> DEFINE request == start[cursor + 1]
  <1>1. /\ main = "loading" /\ UNCHANGED <<activeRequests, disk>> /\ (Checkpointing => disk = Absent)
        /\ cursor \in Nat /\ cursor + 1 \in 1..Len(start)
    BY LenProperties DEF EnqueueStart, fileVars, FrontierInv, SuccessInv, KeepInv, RunInv, TypeInv, TypeOK
  <1>2. CASE request.url \in Invalid
    <2>1. main' = "done"
      BY <1>2 DEF EnqueueStart, Finish
    <2> QED
      BY <1>1, <2>1, AbortStep DEF Running
  <1>3. CASE request.url \notin Invalid
    <2>1. Offer(request) /\ cursor' = cursor + 1 /\ main' \in {"loading", "starting"}
      BY <1>3 DEF EnqueueStart
    <2>2. OwedFingerprints' = OwedFingerprints \cup (IF Accepts(request) THEN {Fingerprint(request)} ELSE {})
      BY <1>1, <2>1, OfferOwed
    <2>3. Fingerprint(request) \in Fingerprints
      <3>1. request \in Request
        BY <1>1, ElementOfSeq DEF FrontierInv, SuccessInv, KeepInv, RunInv, TypeInv, TypeOK
      <3> QED
        BY <3>1, FingerprintType
    <2>4. cursor' # 0
      BY <1>1, <2>1
    <2>5. CASE cursor # 0
      BY <1>1, <2>1, <2>2, <2>3, <2>4, <2>5, WorkStep
    <2>6. CASE cursor = 0
      <3>1. Accepts(request)
        BY <1>1, <2>6 DEF FrontierInv, FreshKnowsNothing, Accepts
      <3>2. FrontierSaved = Absent /\ FrontierSaved' = Absent
        BY <1>1, CrawlAssumption DEF FrontierInv, SavesIfAsked, FrontierSaved
      <3>3. /\ FrontierPhase = "fresh" /\ FrontierPending = OwedFingerprints
            /\ FrontierPhase' = "running" /\ FrontierPending' = OwedFingerprints'
        BY <1>1, <2>1, <2>4, <2>6 DEF FrontierPhase, FrontierPending, Running
      <3>4. CrawlFrontier!Discover(Fingerprint(request))
        BY <2>2, <3>1, <3>2, <3>3 DEF CrawlFrontier!Discover
      <3> QED
        BY <2>3, <3>4 DEF FrontierStep, CrawlFrontier!Next
    <2> QED
      BY <2>5, <2>6
  <1> QED
    BY <1>2, <1>3

\* A link is a page discovered, or nothing.
LEMMA LinkStep ==
    ASSUME FrontierInv, EnqueueOutput
    PROVE  FrontierStep
  <1>1. /\ UNCHANGED <<activeRequests, disk>> /\ main = "outputs" /\ main' \in {"top", "outputs"}
    BY DEF EnqueueOutput, NextOutput, fileVars
  <1>2. UNCHANGED queue \/ \E link \in Head(outputs).next : Offer(LinkRequest(link))
    BY DEF EnqueueOutput, schedVars
  <1>3. CASE UNCHANGED queue
    BY <1>1, <1>3, OwedStays, WorkStep
  <1>4. ASSUME NEW link \in Head(outputs).next, Offer(LinkRequest(link))
        PROVE  FrontierStep
    <2>1. outputs \in Seq(Output) /\ outputs # <<>> /\ parent \in Request
      BY <1>1 DEF FrontierInv, SuccessInv, KeepInv, RunInv, TypeInv, TypeOK
    <2>2. Head(outputs) \in Output
      BY <2>1, HeadTailProperties
    <2>3. link \in Link
      BY <2>2, <1>4 DEF Output
    <2>4. Fingerprint(LinkRequest(link)) \in Fingerprints
      BY <2>1, <2>3, FingerprintType DEF LinkRequest, Link, Request
    <2>5. OwedFingerprints' = OwedFingerprints
              \cup (IF Accepts(LinkRequest(link)) THEN {Fingerprint(LinkRequest(link))} ELSE {})
      BY <1>1, <1>4, OfferOwed
    <2> QED
      BY <1>1, <2>4, <2>5, WorkStep
  <1> QED
    BY <1>2, <1>3, <1>4

\* A result, or a failure, settles its page or leaves it owed.
LEMMA ResultStep ==
    ASSUME FrontierInv, HandleTaskResult \/ HandleTaskError
    PROVE  FrontierStep
  <1>1. PICK page \in Fingerprints :
          /\ OwedFingerprints' \subseteq OwedFingerprints
          /\ OwedFingerprints \subseteq OwedFingerprints' \cup {page}
          /\ page \in OwedFingerprints
    <2>1. CASE HandleTaskResult
      <3>1. PICK t \in DOMAIN tasks : TakesResult(t)
        BY <2>1 DEF HandleTaskResult
      <3>2. main = "launching"
        BY <2>1 DEF HandleTaskResult, Waiting, Launched
      <3>3. tasks[t].request \in Request
        BY DEF FrontierInv, SuccessInv, KeepInv, RunInv, TypeInv, TypeOK, Task
      <3> QED
        BY <3>1, <3>2, <3>3, FingerprintType, ResultOwes DEF FrontierInv, SuccessInv
    <2>2. CASE HandleTaskError
      <3>1. hand.request \in Request
        BY DEF FrontierInv, SuccessInv, KeepInv, RunInv, TypeInv, TypeOK
      <3> QED
        BY <2>2, <3>1, FingerprintType, ErrorOwes DEF FrontierInv, SuccessInv
    <2> QED
      BY <2>1, <2>2
  <1>2. /\ main \in {"launching", "errored"} /\ main' \in {"errored", "top", "outputs"}
        /\ disk' = disk
    BY DEF HandleTaskResult, HandleTaskError, TakesResult, ResultErr, ResultRobots, ResultBlocked,
           ResultRetry, ResultOk, Waiting, Launched, fileVars
  <1>3. OwedFingerprints' = OwedFingerprints \/ OwedFingerprints' = OwedFingerprints \ {page}
    BY <1>1
  <1> QED
    BY <1>1, <1>2, <1>3, WorkStep

\* Steps inside a run that move no request.
LEMMA InnerStep ==
    ASSUME FrontierInv,
           \/ OnStart \/ CheckContext \/ StartReadyTask \/ ObserveDone \/ RejectItem \/ KeepItem \/ OpenTemp
    PROVE  FrontierStep
  <1>1. /\ main \notin {"down", "done", "loading", "errored"}
        /\ main' \notin {"down", "done", "loading", "errored"}
        /\ disk' = disk
    BY DEF OnStart, CheckContext, StartReadyTask, ObserveDone, RejectItem, KeepItem, OpenTemp, NextOutput,
           Waiting, Launched, fileVars
  <1>2. OwedFingerprints' = OwedFingerprints
    <2>1. CASE StartReadyTask
      BY <2>1, LaunchOwes DEF FrontierInv, SuccessInv, KeepInv, RunInv
    <2>2. CASE OnStart \/ CheckContext \/ ObserveDone \/ RejectItem \/ KeepItem \/ OpenTemp
      BY <1>1, <2>2, OwedStays
         DEF OnStart, CheckContext, ObserveDone, RejectItem, KeepItem, OpenTemp, runVars, schedVars
    <2> QED
      BY <2>1, <2>2
  <1> QED
    BY <1>1, <1>2, WorkStep

\* Steps that change nothing the frontier sees.
LEMMA UnseenStep ==
    ASSUME \/ (\E t \in DOMAIN tasks : TaskStep(t)) \/ EndContext \/ ReadStream \/ UNCHANGED vars
    PROVE  FrontierStep
  <1>1. UNCHANGED <<main, hand, cursor, queue, activeRequests, disk>>
    BY DEF TaskStep, CheckRobots, Acquire, Sleep, Fetch, RunCallback, taskUnchanged, EndContext,
           ReadStream, vars, runVars, fileVars, schedVars
  <1>2. OwedFingerprints' = OwedFingerprints
    BY <1>1, OwedStays
  <1>3. UNCHANGED <<FrontierPhase, FrontierPending, FrontierSaved>>
    BY <1>1, <1>2 DEF FrontierPhase, FrontierPending, FrontierSaved, Running, Fingerprint
  <1> QED
    BY <1>3 DEF FrontierStep, CrawlFrontier!frontierVars

\* The end of a run: it suspends, finishes, or aborts.
LEMMA EndStep ==
    ASSUME FrontierInv, FailSetup \/ Pause \/ WriteTemp \/ RenameTemp \/ Fail \/ Complete
    PROVE  FrontierStep
  <1>1. Running /\ main # "errored" /\ UNCHANGED <<queue, activeRequests>>
    BY DEF FailSetup, Pause, WriteTemp, RenameTemp, Fail, Complete, IsComplete, Launched, Running,
           runVars, schedVars
  <1>2. CASE main' = "done" /\ disk' = disk
    BY <1>1, <1>2, AbortStep DEF Running
  <1>3. CASE main' # "done" /\ disk' = disk
    <2>1. main' \in {"saving", "renaming"} /\ main # "loading"
      BY <1>3 DEF FailSetup, Pause, WriteTemp, RenameTemp, Fail, Complete, Finish, IsComplete, Launched
    <2> QED
      BY <1>1, <1>3, <2>1, OwedStays, WorkStep DEF Running
  <1>4. CASE RenameTemp /\ disk' # disk
    <2>1. main = "renaming" /\ main' = "done" /\ disk' = PauseSnapshot
      BY <1>4 DEF RenameTemp, Finish, FrontierInv, SuccessInv, KeepInv, RunInv, SavesThePause
    <2>2. disk' \in FileSnapshot
      BY <2>1, PauseSnapshotType DEF FrontierInv, SuccessInv, KeepInv, RunInv
    <2>3. {Fingerprint(x.request) : x \in PauseSnapshot.requests} = OwedFingerprints
      <3>1. /\ \A x \in PauseSnapshot.requests :
                  \/ \E t \in DOMAIN activeRequests : x.request = activeRequests[t]
                  \/ \E e \in queue : x.request = e.request
            /\ \A t \in DOMAIN activeRequests : \E x \in PauseSnapshot.requests : x.request = activeRequests[t]
            /\ \A e \in queue : \E x \in PauseSnapshot.requests : x.request = e.request
        BY PauseEntries
      <3> QED
        BY <2>1, <3>1, OwedPlaces
    <2>4. FrontierSaved' = FrontierPending
      BY <2>1, <2>2, <2>3 DEF FrontierSaved, FrontierPending, Running, Fingerprint
    <2>5. FrontierPhase = "running" /\ FrontierPhase' = "idle" /\ FrontierPending' = {}
      BY <2>1 DEF FrontierPhase, FrontierPending, Running
    <2>6. CrawlFrontier!Suspend
      BY <2>4, <2>5 DEF CrawlFrontier!Suspend, CrawlFrontier!End
    <2> QED
      BY <2>6 DEF FrontierStep, CrawlFrontier!Next
  <1>5. CASE Complete /\ disk' # disk
    <2>1. main = "launching" /\ main' = "done" /\ disk' = Absent /\ IsComplete /\ stopErr = "none"
      BY <1>5 DEF Complete, Finish, IsComplete, Launched
    <2>2. OwedFingerprints = {}
      BY <2>1, CompleteOwesNothing DEF FrontierInv, SuccessInv, KeepInv, OwedFingerprints
    <2>3. FrontierSaved' = Absent
      BY <2>1, CrawlAssumption DEF FrontierSaved
    <2>4. /\ FrontierPhase = "running" /\ FrontierPhase' = "idle"
          /\ FrontierPending = {} /\ FrontierPending' = {}
      BY <2>1, <2>2 DEF FrontierPhase, FrontierPending, Running
    <2>5. CrawlFrontier!Finish
      BY <2>3, <2>4 DEF CrawlFrontier!Finish, CrawlFrontier!End
    <2> QED
      BY <2>5 DEF FrontierStep, CrawlFrontier!Next
  <1>6. disk' # disk => RenameTemp \/ Complete
    BY DEF FailSetup, Pause, WriteTemp, Fail, fileVars
  <1> QED
    BY <1>2, <1>3, <1>4, <1>5, <1>6

\* While no context ends under the judgement of a failed request, a crawl is a frontier
\* that survives its pauses: pages leave it one at a time and only when settled, a
\* pause saves all of it, a failure or crash spoils nothing saved, what is saved is
\* forgotten only by a run that finished everything, and a run with a checkpoint
\* starts from that and from nothing else.  (the run loop with Save, Load and Cleanup)
THEOREM CrawlImplementsFrontier == JudgedSpec => ImplementsFrontier
  <1>1. Init => CrawlFrontier!Init
    BY CrawlAssumption DEF Init, CrawlFrontier!Init, FrontierPhase, FrontierPending, FrontierSaved, Running
  <1>2. FrontierInv /\ [Next]_vars => FrontierStep
    <2> SUFFICES ASSUME FrontierInv, [Next]_vars
                 PROVE  FrontierStep
      OBVIOUS
    <2>1. CASE Crash
      BY <2>1, AbortStep DEF Crash, Running, fileVars
    <2>2. CASE \E t \in DOMAIN tasks : TaskStep(t)
      BY <2>2, UnseenStep
    <2>3. CASE Rest
      BY <2>3, UnseenStep DEF Rest
    <2> QED
      BY <2>1, <2>2, <2>3, BeginStep, RecoverStep, StartRequestStep, LinkStep, ResultStep, InnerStep,
         UnseenStep, EndStep DEF Next, MainStep
  <1>3. JudgedSpec => []FrontierInv
    BY FrontierInvInit, FrontierInvStep, PTL DEF JudgedSpec
  <1>4. JudgedSpec => [][CrawlFrontier!Next]_(CrawlFrontier!frontierVars)
    BY <1>2, <1>3, JudgedStepIsAStep, PTL DEF JudgedSpec, FrontierStep
  <1> QED
    BY <1>1, <1>4, PTL DEF JudgedSpec, ImplementsFrontier, CrawlFrontier!Spec
============================================================================
