------------------------------- MODULE Crawl -------------------------------
(***************************************************************************)
(* A crawl with checkpoints: spiders/crawl_runtime.go (the run goroutine), *)
(* Crawler.processRequest in spiders/crawler.go (one goroutine per request *)
(* in flight), spiders/checkpoint.go (the file both sides of a pause       *)
(* share) and the Scheduler.  Runs follow each other; each starts from the *)
(* checkpoint the one before it left, if it left one.  The context may end *)
(* and the process may die between any two steps.                          *)
(*                                                                         *)
(* The sites crawled, the sessions, the hooks and the reader of the item   *)
(* stream are the environment: what they may do is given by constants.     *)
(***************************************************************************)
EXTENDS Scheduler, Sequences

CONSTANTS
    Domains, DomainOf,      \* the host of each URL
    AllowedDomains,         \* normalised; {} allows every host
    Invalid,                \* URLs that url.Parse refuses
    Starts,                 \* the lists of start requests a run may be given
    Pages,                  \* Pages[u]: the outputs the callback yields for u
    ConcurrentRequests,     \* effective global cap
    PerDomain,              \* ConcurrentRequestsPerDomain; 0 is no limit
    MaxBlockedRetries,      \* effective
    Delay,                  \* is there a download delay to sleep through
    Checkpointing,          \* is CheckpointDir set
    StreamCapacity,         \* capacity of the item channel; 0 when not streaming
    Absent, Torn            \* checkpoint files: none, half written

CONSTANTS                   \* what the environment may do
    RobotsDenied,           \* URLs a robots.txt disallows
    Blockable,              \* URLs a site may answer with a blocked status
    Faults,                 \* error kinds a session or callback may return by itself
    MasksDeadline,          \* do sessions report an ended deadline as ErrRequestTimeout
    RetryHookMayFilter,     \* may RetryBlockedRequest clear DontFilter
    ItemHook,               \* what OnScrapedItem may do: "keep", "drop", "fail", or "ctx",
                            \* return the context's error once it has ended
    CtxEnds,                \* subset of {"canceled", "deadline"}: how the caller's context may end
    SetupFaults, IOFaults, MayCrash,    \* Sessions.Start or OnStart, the file system, the process
    MaxRuns                 \* bound on the number of runs

VARIABLES
    main,           \* where the run goroutine is
    start, cursor,  \* the start requests of the run, and how many are enqueued
    ctxErr,         \* r.ctx.Err()
    stopErr,        \* r.stopErr
    active, activeRequests, nextTaskID,
    tasks,          \* the request goroutines: step, request, result being built
    hand,           \* the failed task between the two halves of handleTaskResult
    parent, outputs,\* the request whose outputs are handled, and those left
    slots,          \* occupancy of each domain's limiter channel
    stream,         \* items in the stream's buffer
    stats, paused, runErr,      \* the Result and the error of the run
    disk, tmp,      \* checkpoint.json and checkpoint.json.tmp
    runs,           \* runs begun
    \* History variables, read by properties only.
    past, diskPast, \* what this crawl has dealt with; the same at the last save
    interrupted     \* fingerprints whose work the end of the context cut short

runVars == <<start, cursor, active, activeRequests, nextTaskID, tasks, hand, parent,
             outputs, slots, stats, paused, interrupted>>
fileVars == <<disk, tmp, diskPast>>
vars == <<schedVars, main, ctxErr, stopErr, stream, runErr, runs, past, runVars, fileVars>>

ErrKinds == {"canceled", "deadline", "timeout", "other"}
StopErrs == {"none", "canceled", "deadline", "hook", "url"}
RunErrs == StopErrs \cup {"setup", "io", "close"}

\* An output a callback yields; `next' holds its request, if it has one.  A
\* link made with Response.Follow inherits from the request it was found on.
Link == [url : Urls, priority : Int, dontFilter : BOOLEAN, follow : BOOLEAN]
Output == [item : BOOLEAN, next : {links \in SUBSET Link : \A x, y \in links : x = y}]

Steps == {"robots", "acquire", "delay", "fetch", "callback", "send"}
Kinds == {"none", "robots", "blocked", "retry", "ok", "err"}
TaskResult == [kind : Kinds, err : ErrKinds \cup {"none"}, retry : Request]
Task == [at : Steps, request : Request, result : TaskResult]
FileSnapshot == [requests : SUBSET Entry, seen : SUBSET Fingerprints]
\* History: the fingerprints whose outcome is in a Result, those of them that went
\* through the filter, and the URLs whose outputs were handled.
Past == [settled : SUBSET Fingerprints, fetched : SUBSET Fingerprints, visited : SUBSET Urls]

StatNames == {"requests", "failed", "robotsDisallowed", "skipped", "offsite", "blocked",
              "blockedRetries", "items", "itemsDropped"}
NoStats == [name \in StatNames |-> 0]
NoPast == [settled |-> {}, fetched |-> {}, visited |-> {}]
Blank == [url |-> CHOOSE u \in Urls : TRUE, priority |-> 0, dontFilter |-> FALSE, retryCount |-> 0]
NoTasks == [t \in {} |-> Blank]
Nobody == [task |-> 0, request |-> Blank, err |-> "none"]

ASSUME CrawlAssumption ==
    /\ DomainOf \in [Urls -> Domains]
    /\ AllowedDomains \subseteq Domains
    /\ Invalid \subseteq Urls
    /\ Urls # {}
    /\ Starts \subseteq Seq(Request) /\ <<>> \notin Starts
    /\ Pages \in [Urls -> Seq(Output)]
    /\ ConcurrentRequests \in Nat \ {0}
    /\ PerDomain \in Nat /\ MaxBlockedRetries \in Nat /\ StreamCapacity \in Nat
    /\ {Delay, Checkpointing, MasksDeadline, RetryHookMayFilter} \subseteq BOOLEAN
    /\ {SetupFaults, IOFaults, MayCrash} \subseteq BOOLEAN
    /\ RobotsDenied \subseteq Urls /\ Blockable \subseteq Urls
    /\ Faults \subseteq ErrKinds
    /\ ItemHook \subseteq {"keep", "drop", "fail", "ctx"}
    /\ CtxEnds \subseteq {"canceled", "deadline"}
    /\ MaxRuns \in Nat
    /\ Absent \notin FileSnapshot /\ Torn \notin FileSnapshot /\ Absent # Torn
    /\ \A pages \in SUBSET Fingerprints : pages # Absent

----------------------------------------------------------------------------
\* Helpers on maps: one key set, one key removed.
With(f, k, v) == [x \in DOMAIN f \cup {k} |-> IF x = k THEN v ELSE f[x]]
Without(f, k) == [x \in DOMAIN f \ {k} |-> f[x]]

\* r.stop: the first error wins and the run's context ends with it.
Stop(err) ==
    /\ stopErr' = IF stopErr = "none" THEN err ELSE stopErr
    /\ ctxErr' = IF stopErr = "none" /\ ctxErr = "none" THEN "canceled" ELSE ctxErr

\* finish: OnClose runs; its error is the run's only when there is no other.
Finish(err) ==
    /\ main' = "done"
    /\ runErr' \in IF err = "none" THEN {"none"} \cup (IF SetupFaults THEN {"close"} ELSE {})
                                   ELSE {err}

\* The counters named are incremented.
Count(names) == [name \in StatNames |-> stats[name] + (IF name \in names THEN 1 ELSE 0)]

\* History: r's result was handled; its fingerprint is settled unless a retry is queued.
Settle(r, settled, urls) ==
    past' = [settled |-> past.settled \cup settled,
             fetched |-> past.fetched \cup (IF r.dontFilter THEN {} ELSE {Fingerprint(r)}),
             visited |-> past.visited \cup urls]

FreshRun ==
    /\ queue' = {} /\ seen' = {} /\ counter' = 0
    /\ cursor' = 0 /\ ctxErr' = "none" /\ stopErr' = "none"
    /\ active' = 0 /\ activeRequests' = NoTasks /\ nextTaskID' = 0 /\ tasks' = NoTasks
    /\ hand' = Nobody /\ parent' = Blank /\ outputs' = <<>>
    /\ slots' = [d \in Domains |-> 0] /\ stream' = 0
    /\ stats' = NoStats /\ paused' = FALSE /\ runErr' = "none"
    /\ past' = NoPast /\ interrupted' = {}

Init ==
    /\ SchedulerInit
    /\ main = "down" /\ start = <<>> /\ cursor = 0 /\ ctxErr = "none" /\ stopErr = "none"
    /\ active = 0 /\ activeRequests = NoTasks /\ nextTaskID = 0 /\ tasks = NoTasks
    /\ hand = Nobody /\ parent = Blank /\ outputs = <<>>
    /\ slots = [d \in Domains |-> 0] /\ stream = 0
    /\ stats = NoStats /\ paused = FALSE /\ runErr = "none"
    /\ disk = Absent /\ tmp = Absent /\ runs = 0
    /\ past = NoPast /\ diskPast = NoPast /\ interrupted = {}

----------------------------------------------------------------------------
(***************************************************************************)
(* Setting a run up.                                                       *)
(***************************************************************************)
\* newCrawlRuntime; the process is new or the caller calls Run again.
Begin ==
    /\ main \in {"down", "done"} /\ runs < MaxRuns
    /\ FreshRun
    /\ start' \in Starts
    /\ main' = "loading" /\ runs' = runs + 1
    /\ UNCHANGED fileVars

\* Sessions.Start, the robots prefetch, Load or OnStart fails.
FailSetup ==
    /\ SetupFaults
    /\ main = "starting" \/ (main = "loading" /\ cursor = 0)
    /\ main' = "done" /\ runErr' = "setup"
    /\ UNCHANGED <<schedVars, ctxErr, stopErr, stream, runs, past, runVars, fileVars>>

\* restoreOrEnqueueStartRequests, with a checkpoint: the start requests are ignored.
Resume ==
    /\ main = "loading" /\ Checkpointing /\ disk # Absent
    /\ Restore(disk)
    /\ past' = diskPast
    /\ main' = "starting"
    /\ UNCHANGED <<ctxErr, stopErr, stream, runErr, runs, runVars, fileVars>>

\* ... and without one: the start requests are enqueued, one iteration a step.
EnqueueStart ==
    /\ main = "loading" /\ (Checkpointing => disk = Absent)
    /\ LET request == start[cursor + 1] IN
       IF request.url \in Invalid
       THEN /\ Finish("url")
            /\ UNCHANGED <<schedVars, cursor, stats>>
       ELSE /\ Offer(request)
            /\ stats' = IF Accepts(request) THEN stats ELSE Count({"skipped"})
            /\ cursor' = cursor + 1
            /\ main' = IF cursor' = Len(start) THEN "starting" ELSE "loading"
            /\ UNCHANGED runErr
    /\ UNCHANGED <<ctxErr, stopErr, stream, runs, past, start, active, activeRequests, nextTaskID,
                   tasks, hand, parent, outputs, slots, paused, interrupted, fileVars>>

\* OnStart succeeds.
OnStart ==
    /\ main = "starting" /\ main' = "top"
    /\ UNCHANGED <<schedVars, ctxErr, stopErr, stream, runErr, runs, past, runVars, fileVars>>

----------------------------------------------------------------------------
(***************************************************************************)
(* The loop of run: start what is ready, stop when complete, else wait.    *)
(***************************************************************************)
\* startReadyTasks looks at the context once, before it launches anything.
CheckContext ==
    /\ main = "top" /\ main' = "launching"
    /\ IF ctxErr # "none" THEN Stop(ctxErr) ELSE UNCHANGED <<ctxErr, stopErr>>
    /\ UNCHANGED <<schedVars, stream, runErr, runs, past, runVars, fileVars>>

\* Mutant: one goroutine too many.
CanLaunchOneMore == stopErr = "none" /\ active <= ConcurrentRequests /\ queue # {}
CanLaunch == stopErr = "none" /\ active < ConcurrentRequests /\ queue # {}

NewTask(request) ==
    [at |-> "robots", request |-> request,
     result |-> [kind |-> "none", err |-> "none", retry |-> request]]

StartReadyTask ==
    /\ main = "launching" /\ CanLaunch
    /\ \E e \in queue :
          /\ Dequeue(e)
          /\ activeRequests' = With(activeRequests, nextTaskID + 1, e.request)
          /\ tasks' = With(tasks, nextTaskID + 1, NewTask(e.request))
    /\ active' = active + 1 /\ nextTaskID' = nextTaskID + 1
    /\ UNCHANGED <<main, ctxErr, stopErr, stream, runErr, runs, past, start, cursor, hand, parent,
                   outputs, slots, stats, paused, interrupted, fileVars>>

Launched == main = "launching" /\ ~CanLaunch
\* Mutant: an empty queue is taken for the end.
IsCompleteQueueEmpty == Launched /\ (queue = {} \/ stopErr # "none")
\* isComplete; with nothing active the queue is empty or stopErr is set.
IsComplete == Launched /\ active = 0
Waiting == Launched /\ active # 0

\* The select of the loop, its ctx.Done branch (doneChannel is nil after a stop).
ObserveDone ==
    /\ Waiting /\ stopErr = "none" /\ ctxErr # "none"
    /\ Stop(ctxErr)
    /\ main' = "top"
    /\ UNCHANGED <<schedVars, stream, runErr, runs, past, runVars, fileVars>>

\* ... and its task branch, the first half of handleTaskResult: what each kind of
\* result does.
ResultErr(t) ==
    /\ tasks[t].result.kind = "err"
    /\ hand' = [task |-> t, request |-> tasks[t].request, err |-> tasks[t].result.err]
    /\ main' = "errored"
    /\ UNCHANGED <<schedVars, stats, past, parent, outputs>>

ResultRobots(t) ==
    /\ tasks[t].result.kind = "robots"
    /\ stats' = Count({"robotsDisallowed"})
    /\ Settle(tasks[t].request, {Fingerprint(tasks[t].request)}, {})
    /\ main' = "top"
    /\ UNCHANGED <<schedVars, hand, parent, outputs>>

ResultBlocked(t) ==
    /\ tasks[t].result.kind = "blocked"
    /\ stats' = Count({"requests", "blocked"})
    /\ Settle(tasks[t].request, {Fingerprint(tasks[t].request)}, {})
    /\ main' = "top"
    /\ UNCHANGED <<schedVars, hand, parent, outputs>>

ResultRetry(t) ==
    LET retry == tasks[t].result.retry IN
    /\ tasks[t].result.kind = "retry"
    /\ Offer(retry)
    /\ stats' = Count({"requests", "blocked", IF Accepts(retry) THEN "blockedRetries" ELSE "skipped"})
    /\ Settle(tasks[t].request, IF Accepts(retry) THEN {} ELSE {Fingerprint(tasks[t].request)}, {})
    /\ main' = "top"
    /\ UNCHANGED <<hand, parent, outputs>>

ResultOk(t) ==
    /\ tasks[t].result.kind = "ok"
    /\ stats' = Count({"requests"})
    /\ Settle(tasks[t].request, {Fingerprint(tasks[t].request)}, {tasks[t].request.url})
    /\ parent' = tasks[t].request
    /\ outputs' = Pages[tasks[t].request.url]
    /\ main' = IF outputs' = <<>> THEN "top" ELSE "outputs"
    /\ UNCHANGED <<schedVars, hand>>

\* errors.Is(err, r.ctx.Err())
IsContextErr(err) == ctxErr # "none" /\ err = ctxErr

\* Mutant: a failed task is done with, whatever its error.
KeepsNothing(t) == FALSE
\* A failed task stays in activeRequests when its error is the context's.
StaysActive(t) == tasks[t].result.kind = "err" /\ IsContextErr(tasks[t].result.err)

TakesResult(t) ==
    /\ tasks[t].at = "send"
    /\ tasks' = Without(tasks, t)
    /\ activeRequests' = IF StaysActive(t) THEN activeRequests ELSE Without(activeRequests, t)
    /\ ResultErr(t) \/ ResultRobots(t) \/ ResultBlocked(t) \/ ResultRetry(t) \/ ResultOk(t)

HandleTaskResult ==
    /\ Waiting
    /\ \E t \in DOMAIN tasks : TakesResult(t)
    /\ active' = active - 1
    /\ UNCHANGED <<ctxErr, stopErr, stream, runErr, runs, start, cursor, nextTaskID, slots,
                   paused, interrupted, fileVars>>

\* handleTaskError, which reads the context again.
HandleTaskError ==
    /\ main = "errored" /\ main' = "top"
    /\ IF IsContextErr(hand.err)
       THEN Stop(ctxErr) /\ UNCHANGED <<stats, past>>
       ELSE /\ stats' = Count({"failed"})
            /\ Settle(hand.request, {Fingerprint(hand.request)}, {})
            /\ UNCHANGED <<ctxErr, stopErr>>
    /\ hand' = Nobody
    /\ UNCHANGED <<schedVars, stream, runErr, runs, start, cursor, active, activeRequests, nextTaskID,
                   tasks, parent, outputs, slots, paused, interrupted, fileVars>>

----------------------------------------------------------------------------
(***************************************************************************)
(* handleOutput: the item of the first output, then its request.  A stop   *)
(* does not end the loop over the remaining outputs.                       *)
(***************************************************************************)
\* Mutant: a run that stopped skips the outputs left.
NextOutputUnlessStopped ==
    /\ outputs' = IF stopErr' # "none" THEN <<>> ELSE Tail(outputs)
    /\ main' = IF outputs' = <<>> THEN "top" ELSE "outputs"
NextOutput ==
    /\ outputs' = Tail(outputs)
    /\ main' = IF Tail(outputs) = <<>> THEN "top" ELSE "outputs"

\* OnScrapedItem refuses or drops the item: the output's request goes with it.
RejectItem ==
    /\ main = "outputs" /\ Head(outputs).item
    /\ \/ "fail" \in ItemHook /\ Stop("hook") /\ UNCHANGED stats
       \/ "ctx" \in ItemHook /\ ctxErr # "none" /\ Stop(ctxErr) /\ UNCHANGED stats
       \/ "drop" \in ItemHook /\ stats' = Count({"itemsDropped"}) /\ UNCHANGED <<ctxErr, stopErr>>
    /\ NextOutput
    /\ UNCHANGED <<schedVars, stream, runErr, runs, past, start, cursor, active, activeRequests,
                   nextTaskID, tasks, hand, parent, slots, paused, interrupted, fileVars>>

\* Mutant: the send waits for the reader and for nothing else.
SendItemOnly ==
    /\ IF StreamCapacity = 0 THEN UNCHANGED stream
                             ELSE stream < StreamCapacity /\ stream' = stream + 1
    /\ UNCHANGED <<ctxErr, stopErr>>
\* The item goes to the stream, if there is one; the end of the context frees a run
\* blocked on a full one.
SendItem ==
    \/ StreamCapacity = 0 /\ UNCHANGED <<stream, ctxErr, stopErr>>
    \/ stream < StreamCapacity /\ stream' = stream + 1 /\ UNCHANGED <<ctxErr, stopErr>>
    \/ StreamCapacity > 0 /\ ctxErr # "none" /\ Stop(ctxErr) /\ UNCHANGED stream

KeepItem ==
    /\ main = "outputs" /\ Head(outputs).item /\ "keep" \in ItemHook
    /\ SendItem
    /\ stats' = Count({"items"})
    /\ outputs' = <<[Head(outputs) EXCEPT !.item = FALSE]>> \o Tail(outputs)
    /\ UNCHANGED <<schedVars, main, runErr, runs, past, start, cursor, active, activeRequests,
                   nextTaskID, tasks, hand, parent, slots, paused, interrupted, fileVars>>

\* Response.Follow copies the request it was found on, its RetryCount included.
LinkRequest(link) ==
    IF link.follow
    THEN [parent EXCEPT !.url = link.url, !.dontFilter = FALSE]
    ELSE [url |-> link.url, priority |-> link.priority,
          dontFilter |-> link.dontFilter, retryCount |-> 0]

IsDomainAllowed(url) == AllowedDomains = {} \/ (url \notin Invalid /\ DomainOf[url] \in AllowedDomains)

EnqueueOutput ==
    /\ main = "outputs" /\ ~Head(outputs).item
    /\ \/ /\ Head(outputs).next = {}
          /\ UNCHANGED <<schedVars, stats, ctxErr, stopErr>>
       \/ \E link \in Head(outputs).next :
             \/ /\ ~IsDomainAllowed(link.url)
                /\ stats' = Count({"offsite"})
                /\ UNCHANGED <<schedVars, ctxErr, stopErr>>
             \/ /\ IsDomainAllowed(link.url) /\ link.url \in Invalid
                /\ Stop("url")
                /\ UNCHANGED <<schedVars, stats>>
             \/ /\ IsDomainAllowed(link.url) /\ link.url \notin Invalid
                /\ Offer(LinkRequest(link))
                /\ stats' = IF Accepts(LinkRequest(link)) THEN stats ELSE Count({"skipped"})
                /\ UNCHANGED <<ctxErr, stopErr>>
    /\ NextOutput
    /\ UNCHANGED <<stream, runErr, runs, past, start, cursor, active, activeRequests, nextTaskID,
                   tasks, hand, parent, slots, paused, interrupted, fileVars>>

----------------------------------------------------------------------------
(***************************************************************************)
(* The end of a run: pause, fail, or complete.                             *)
(***************************************************************************)
\* The in-flight requests in launch order, as a list; two lists joined.
InFlightList ==
    {[request |-> activeRequests[t],
      order |-> Cardinality({u \in DOMAIN activeRequests : u < t}) + 1] : t \in DOMAIN activeRequests}
Joined(first, second) ==
    first \cup {[request |-> e.request, order |-> Cardinality(first) + e.order] : e \in second}

\* Mutants: what is in flight is not saved, or is saved behind the queue.
PauseSnapshotQueueOnly == Snapshot
PauseSnapshotQueueFirst == [requests |-> Joined(Snapshot.requests, InFlightList), seen |-> Snapshot.seen]
\* pauseSnapshot: requests in flight first, then the queue.
PauseSnapshot == [requests |-> Joined(InFlightList, Snapshot.requests), seen |-> Snapshot.seen]

\* The context's end is what stopped the run, so it pauses.
IsPause == Checkpointing /\ stopErr = ctxErr

Pause ==
    /\ IsComplete /\ stopErr # "none" /\ IsPause
    /\ paused' = TRUE
    /\ \/ main' = "saving" /\ UNCHANGED runErr
       \/ IOFaults /\ Finish("io")      \* MkdirAll or MarshalIndent
    /\ UNCHANGED <<schedVars, ctxErr, stopErr, stream, runs, past, start, cursor, active,
                   activeRequests, nextTaskID, tasks, hand, parent, outputs, slots, stats,
                   interrupted, fileVars>>

\* Mutant: checkpoint.json itself is opened.
OpenCheckpoint ==
    /\ main = "saving" /\ main' = "writing"
    /\ disk' = Torn
    /\ UNCHANGED <<schedVars, ctxErr, stopErr, stream, runErr, runs, past, runVars, tmp, diskPast>>

\* Save, os.WriteFile: the temporary file is truncated, then filled.
OpenTemp ==
    /\ main = "saving" /\ main' = "writing"
    /\ tmp' = Torn
    /\ UNCHANGED <<schedVars, ctxErr, stopErr, stream, runErr, runs, past, runVars, disk, diskPast>>

WriteTemp ==
    /\ main = "writing"
    /\ \/ tmp' = PauseSnapshot /\ main' = "renaming" /\ UNCHANGED runErr
       \/ IOFaults /\ Finish("io") /\ UNCHANGED tmp
    /\ UNCHANGED <<schedVars, ctxErr, stopErr, stream, runs, past, runVars, disk, diskPast>>

\* Save, os.Rename.
RenameTemp ==
    /\ main = "renaming"
    /\ tmp' = Absent
    /\ \/ disk' = tmp /\ diskPast' = past /\ Finish("none")
       \/ IOFaults /\ Finish("io") /\ UNCHANGED <<disk, diskPast>>
    /\ UNCHANGED <<schedVars, ctxErr, stopErr, stream, runs, past, runVars>>

\* Mutant: a failed run cleans up behind itself.
FailForgets ==
    /\ IsComplete /\ stopErr # "none" /\ ~IsPause
    /\ Finish(stopErr)
    /\ disk' = Absent /\ diskPast' = NoPast
    /\ UNCHANGED <<schedVars, ctxErr, stopErr, stream, runs, past, runVars, tmp>>

\* Any other stop is the run's error; a checkpoint left by an earlier run stays.
Fail ==
    /\ IsComplete /\ stopErr # "none" /\ ~IsPause
    /\ Finish(stopErr)
    /\ UNCHANGED <<schedVars, ctxErr, stopErr, stream, runs, past, runVars, fileVars>>

Complete ==
    /\ IsComplete /\ stopErr = "none"
    /\ \/ ~Checkpointing /\ Finish("none") /\ UNCHANGED <<disk, diskPast>>
       \/ Checkpointing /\ disk' = Absent /\ diskPast' = NoPast /\ Finish("none")
       \/ Checkpointing /\ IOFaults /\ Finish("io") /\ UNCHANGED <<disk, diskPast>>
    /\ UNCHANGED <<schedVars, ctxErr, stopErr, stream, runs, past, runVars, tmp>>

----------------------------------------------------------------------------
(***************************************************************************)
(* A request goroutine: processRequest, then the send of its result.       *)
(***************************************************************************)
taskUnchanged == <<schedVars, main, ctxErr, stopErr, stream, runErr, runs, past, start, cursor, active,
                   activeRequests, nextTaskID, hand, parent, outputs, stats, paused, fileVars>>

IsAt(t, step) == t \in DOMAIN tasks /\ tasks[t].at = step
Advance(t, step) == tasks' = [tasks EXCEPT ![t].at = step]
Return(t, kind, err, retry) ==
    tasks' = [tasks EXCEPT ![t].at = "send",
                           ![t].result = [kind |-> kind, err |-> err, retry |-> retry]]
ReturnErr(t, err) == Return(t, "err", err, tasks[t].request)

TaskDomain(t) == DomainOf[tasks[t].request.url]
\* Mutant: the release is forgotten.
ReleaseNothing(t) == UNCHANGED slots
\* The deferred release; no slot is held when there is no limit.
Release(t) == slots' = IF PerDomain = 0 THEN slots ELSE [slots EXCEPT ![TaskDomain(t)] = @ - 1]
CutShort(t) == interrupted' = interrupted \cup {Fingerprint(tasks[t].request)}

\* robotsRequestPolicy.  A robots.txt that could not be fetched allows everything.
CheckRobots(t) ==
    /\ IsAt(t, "robots")
    /\ \/ tasks[t].request.url \in RobotsDenied
          /\ Return(t, "robots", "none", tasks[t].request)
       \/ Advance(t, "acquire")
    /\ UNCHANGED <<taskUnchanged, slots, interrupted>>

\* crawlerDomainLimiters.Acquire
Acquire(t) ==
    /\ IsAt(t, "acquire")
    /\ \/ /\ PerDomain = 0 \/ slots[TaskDomain(t)] < PerDomain
          /\ slots' = IF PerDomain = 0 THEN slots ELSE [slots EXCEPT ![TaskDomain(t)] = @ + 1]
          /\ Advance(t, IF Delay THEN "delay" ELSE "fetch")
          /\ UNCHANGED interrupted
       \/ /\ PerDomain > 0 /\ ctxErr # "none"
          /\ ReturnErr(t, ctxErr) /\ CutShort(t)
          /\ UNCHANGED slots
    /\ UNCHANGED taskUnchanged

Sleep(t) ==
    /\ IsAt(t, "delay")
    /\ \/ Advance(t, "fetch") /\ UNCHANGED <<slots, interrupted>>
       \/ ctxErr # "none" /\ ReturnErr(t, ctxErr) /\ Release(t) /\ CutShort(t)
    /\ UNCHANGED taskUnchanged

\* blockedRetryRequest; the hook may put the retry through the filter again.
RetryOf(r, filtered) ==
    [url |-> r.url, priority |-> r.priority - 1, dontFilter |-> ~filtered, retryCount |-> r.retryCount + 1]

\* Mutants: every ended context is reported as a timeout; one retry too many.
FetchErrMasked == "timeout"
MayRetryOnceMore(request) == request.retryCount <= MaxBlockedRetries

\* What a session's Fetch reports when the run's context ended under it.
FetchErr == IF ctxErr = "deadline" /\ MasksDeadline THEN "timeout" ELSE ctxErr

MayRetry(request) == request.retryCount < MaxBlockedRetries

\* Sessions.Fetch, then isBlocked and the retry hook on its response.
Fetch(t) ==
    LET request == tasks[t].request IN
    /\ IsAt(t, "fetch")
    /\ \/ Advance(t, "callback") /\ UNCHANGED <<slots, interrupted>>
       \/ /\ request.url \in Blockable /\ MayRetry(request)
          /\ \E filtered \in {FALSE, RetryHookMayFilter} :
                Return(t, "retry", "none", RetryOf(request, filtered))
          /\ Release(t) /\ UNCHANGED interrupted
       \/ /\ request.url \in Blockable /\ ~MayRetry(request)
          /\ Return(t, "blocked", "none", request)
          /\ Release(t) /\ UNCHANGED interrupted
       \/ \E err \in Faults : ReturnErr(t, err) /\ Release(t) /\ UNCHANGED interrupted
       \/ ctxErr # "none" /\ ReturnErr(t, FetchErr) /\ Release(t) /\ CutShort(t)
    /\ UNCHANGED taskUnchanged

RunCallback(t) ==
    /\ IsAt(t, "callback")
    /\ \/ Return(t, "ok", "none", tasks[t].request)
       \/ \E err \in Faults : ReturnErr(t, err)
    /\ Release(t)
    /\ UNCHANGED <<taskUnchanged, interrupted>>

TaskStep(t) == CheckRobots(t) \/ Acquire(t) \/ Sleep(t) \/ Fetch(t) \/ RunCallback(t)

----------------------------------------------------------------------------
(***************************************************************************)
(* The environment.                                                        *)
(***************************************************************************)
Running == main \notin {"down", "done"}

EndContext ==
    /\ Running /\ ctxErr = "none"
    /\ \E end \in CtxEnds : ctxErr' = end
    /\ UNCHANGED <<schedVars, main, stopErr, stream, runErr, runs, past, runVars, fileVars>>

ReadStream ==
    /\ stream > 0 /\ stream' = stream - 1
    /\ UNCHANGED <<schedVars, main, ctxErr, stopErr, runErr, runs, past, runVars, fileVars>>

Crash ==
    /\ MayCrash /\ Running
    /\ FreshRun
    /\ start' = <<>> /\ main' = "down"
    /\ UNCHANGED <<runs, fileVars>>

\* All the runs there are have ended.
Rest == ~Running /\ runs = MaxRuns /\ stream = 0 /\ UNCHANGED vars

MainStep ==
    \/ Resume \/ EnqueueStart \/ OnStart
    \/ CheckContext \/ StartReadyTask \/ ObserveDone \/ HandleTaskResult \/ HandleTaskError
    \/ RejectItem \/ KeepItem \/ EnqueueOutput
    \/ Pause \/ OpenTemp \/ WriteTemp \/ RenameTemp \/ Fail \/ Complete

Next ==
    \/ Begin \/ FailSetup
    \/ MainStep
    \/ \E t \in DOMAIN tasks : TaskStep(t)
    \/ EndContext \/ ReadStream \/ Crash \/ Rest

Spec == Init /\ [][Next]_vars

\* handleTaskResult and then handleTaskError compare a failed request's error with the
\* context's.  Between the two the context ends, and in the way the error says: sessions
\* that report no end of a context but that of their own run never let it happen.
EndsUnderJudgement ==
    /\ main = "errored" /\ main' = "errored"
    /\ ctxErr' # ctxErr /\ ctxErr' = hand.err

JudgedNext == Next /\ ~EndsUnderJudgement
JudgedSpec == Init /\ [][JudgedNext]_vars
----------------------------------------------------------------------------
(***************************************************************************)
(* Fairness.  The Go scheduler runs every goroutine that can run; a        *)
(* session's Fetch, a hook and a callback return.  Nothing makes a reader  *)
(* read, a context end or a process die.                                   *)
(***************************************************************************)
FairSpec ==
    /\ Spec
    /\ WF_vars(MainStep)
    /\ WF_vars(\E t \in DOMAIN tasks : TaskStep(t))

\* ... and with a caller of Stream that drains the item channel.
AttendedSpec == FairSpec /\ WF_vars(ReadStream)

\* ... or one whose context does not end under judgement.
JudgedFairSpec ==
    /\ JudgedSpec
    /\ WF_vars(MainStep)
    /\ WF_vars(\E t \in DOMAIN tasks : TaskStep(t))

----------------------------------------------------------------------------
TypeOK ==
    /\ SchedulerTypeOK
    /\ main \in {"down", "loading", "starting", "top", "launching", "errored", "outputs",
                 "saving", "writing", "renaming", "done"}
    /\ start \in Seq(Request) /\ cursor \in 0..Len(start)
    /\ main = "loading" => cursor < Len(start)
    /\ ctxErr \in {"none", "canceled", "deadline"} /\ stopErr \in StopErrs /\ runErr \in RunErrs
    /\ active \in Nat /\ nextTaskID \in Nat
    /\ DOMAIN activeRequests \subseteq 1..nextTaskID
    /\ \A t \in DOMAIN activeRequests : activeRequests[t] \in Request
    /\ DOMAIN tasks \subseteq 1..nextTaskID
    /\ \A t \in DOMAIN tasks : tasks[t] \in Task
    /\ hand \in [task : Nat, request : Request, err : ErrKinds \cup {"none"}]
    /\ parent \in Request
    /\ outputs \in Seq(Output) /\ (main = "outputs" => outputs # <<>>)
    /\ slots \in [Domains -> Int]
    /\ stream \in Nat
    /\ stats \in [StatNames -> Nat]
    /\ paused \in BOOLEAN
    /\ disk \in FileSnapshot \cup {Absent} /\ tmp \in FileSnapshot \cup {Absent, Torn}
    /\ runs \in Nat
    /\ past \in Past /\ diskPast \in Past /\ interrupted \subseteq Fingerprints

\* The requests a run still owes: queued, in flight, or failed and not yet judged.
Owed ==
    {e.request : e \in queue}
    \cup {activeRequests[t] : t \in DOMAIN activeRequests}
    \cup (IF main = "errored" THEN {hand.request} ELSE {})
OwedFingerprints == {Fingerprint(r) : r \in Owed}

\* No accepted request is ever lost: whatever fingerprint the filter would turn
\* away is still owed, or its outcome is in the Result of this run or of one
\* before the checkpoint it resumed.  (handleTaskResult, pauseSnapshot, Restore)
NoRequestLost == seen \subseteq OwedFingerprints \cup past.settled

\* The same of the file: a crash, a failure or a resume at any later time finds
\* every fingerprint of the checkpoint either pending in it or settled before it.
CheckpointComplete ==
    disk # Absent =>
        /\ disk \in FileSnapshot
        /\ disk.seen \subseteq {Fingerprint(e.request) : e \in disk.requests} \cup diskPast.settled

\* A filtered request is owed at most once and never again once its result was
\* handled, across pauses and resumes: completed pages are not replayed.
NoReplay ==
    LET filtered == {e \in queue : ~e.request.dontFilter}
        inFlight == {t \in DOMAIN activeRequests : ~activeRequests[t].dontFilter}
    IN  /\ \A a, b \in filtered :
              Fingerprint(a.request) = Fingerprint(b.request) => a = b
        /\ \A t, u \in inFlight :
              Fingerprint(activeRequests[t]) = Fingerprint(activeRequests[u]) => t = u
        /\ \A a \in filtered, t \in inFlight :
              Fingerprint(a.request) # Fingerprint(activeRequests[t])
        /\ \A a \in filtered : Fingerprint(a.request) \notin past.fetched
        /\ \A t \in inFlight : Fingerprint(activeRequests[t]) \notin past.fetched

\* A link that has not to be followed: its host or URL is refused, the filter does
\* not apply to it, or it is in `known', what the filter has seen.
LinkDone(link, known) ==
    \/ ~IsDomainAllowed(link.url) \/ link.url \in Invalid
    \/ link.dontFilter /\ ~link.follow
    \/ Canon[link.url] \in known

\* Every link of a page whose outputs were handled reached the filter, except those
\* still to be handled and those an item hook may have thrown away with their item:
\* a stop in the middle of a page's outputs does not swallow the links after it.
LinksFollowed ==
    \A u \in past.visited :
        \/ main = "outputs" /\ parent.url = u
        \/ \A i \in 1..Len(Pages[u]) :
              Pages[u][i].item \/ \A link \in Pages[u][i].next : LinkDone(link, seen)

\* A run that reports success left nothing undone: the start requests and all
\* that was ever accepted are settled, and nothing is in flight.
SuccessMeansDone ==
    main = "done" /\ runErr = "none" /\ ~paused =>
        /\ Owed = {}
        /\ seen \subseteq past.settled
        /\ \A i \in 1..cursor : Fingerprint(start[i]) \in past.settled

\* A pause keeps the work the end of the context cut short: it is in the
\* checkpoint, to be fetched again.
PauseKeepsInterrupted ==
    main = "done" /\ paused /\ runErr = "none" =>
        interrupted \subseteq {Fingerprint(e.request) : e \in disk.requests}

\* No goroutine outlives its run, whose sessions close when it returns, and no
\* more than the global cap are alive at any time.
TasksBounded ==
    /\ active = Cardinality(DOMAIN tasks)
    /\ active <= ConcurrentRequests
    /\ ~Running => active = 0

\* The requests of one host that sleep, fetch or parse at a time stay within the
\* limit, and every slot of a limiter is held by one of them.
InDomain(d) == {t \in DOMAIN tasks : tasks[t].at \in {"delay", "fetch", "callback"} /\ TaskDomain(t) = d}
DomainsBounded ==
    PerDomain > 0 => \A d \in Domains :
        /\ slots[d] = Cardinality(InDomain(d))
        /\ slots[d] <= PerDomain

\* Each launched task is accounted for exactly once: counted in the stats, or
\* kept for the checkpoint.  Each push is still queued or was launched.
TasksAccounted ==
    /\ counter = Cardinality(queue) + nextTaskID
    /\ nextTaskID = stats.requests + stats.failed + stats.robotsDisallowed
          + Cardinality(DOMAIN activeRequests)
          + (IF main = "errored" /\ hand.task \notin DOMAIN activeRequests THEN 1 ELSE 0)

\* A blocked request is retried, and followed, with its budget intact: no
\* request ever has more retries behind it than MaxBlockedRetries.
RetriesBounded == \A r \in Owed : r.retryCount <= MaxBlockedRetries

\* The counters and the work agree, up to the verdict of the run: nothing is counted
\* twice, forgotten or retried beyond its budget, and success means all is done.
WorkAccounted == SuccessMeansDone /\ TasksAccounted /\ RetriesBounded

\* The checkpoint is removed by a run that owes nothing and by no other step,
\* and replaced only as a whole by a run that pauses.
CheckpointOnlyForgottenWhenDone ==
    [][disk' # disk => IF disk' = Absent THEN Owed = {} ELSE paused /\ disk' = PauseSnapshot]_vars

\* On resume what was in flight goes before what was queued, inside a priority.
InFlightFirst ==
    [][disk' # disk /\ disk' # Absent =>
        \A t \in DOMAIN activeRequests, e \in queue :
            activeRequests[t].priority = e.request.priority =>
                \E a, b \in disk'.requests :
                    /\ a.request = activeRequests[t] /\ b.request = e.request
                    /\ Precedes(a, b)]_vars

\* The crawl as its callers may think of it: a frontier that survives pauses.
FrontierPhase ==
    IF ~Running THEN "idle" ELSE IF main = "loading" /\ cursor = 0 THEN "fresh" ELSE "running"
FrontierPending == IF Running THEN OwedFingerprints ELSE {}
FrontierSaved == IF disk \in FileSnapshot THEN {Fingerprint(e.request) : e \in disk.requests} ELSE disk

CrawlFrontier == INSTANCE Frontier WITH
    Pages <- Fingerprints,
    NoSave <- Absent,
    phase <- FrontierPhase,
    pending <- FrontierPending,
    saved <- FrontierSaved

\* Runs, pauses, failures and crashes together keep the frontier's promise.
ImplementsFrontier == CrawlFrontier!Spec

\* Once the context ends the run ends, whatever the reader of the stream does.
EndedContextEndsRun == (Running /\ ctxErr # "none") ~> ~Running

\* A run with an attentive reader ends by itself.
RunEnds == Running ~> ~Running
============================================================================
