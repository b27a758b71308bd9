--------------------------- MODULE SpiderSessions ---------------------------
(***************************************************************************)
(* The sessions a crawl fetches with (SessionManager, spiders/session.go), *)
(* from the start of a run to its end (spiders/crawl_runtime.go), and the  *)
(* documents its tasks judge URLs by (RobotsTxtManager, spiders/robots.go),*)
(* which are fetched over the same sessions.  The manager's mutex is held  *)
(* while sessions start and close, and free while they fetch; that of the  *)
(* robots manager is free while a document is fetched.                     *)
(***************************************************************************)
EXTENDS Naturals, FiniteSets

CONSTANTS
    SessionIds,     \* ids sessions are added under
    Tasks,          \* the requests that are processed
    Prefetching,    \* those whose document is only fetched ahead (prefetchRobots)
    SidOf,          \* the session a task asks for, or DefaultSid
    OriginOf,       \* robotsCacheKeyAndURL of a task's URL
    Documents,      \* what a site may answer for its robots.txt
    Empty,          \* the document that allows everything
    NoDocument,
    DefaultSid,     \* request.SID = ""
    Nobody,         \* nobody holds the manager's mutex
    Run,            \* the goroutine of the crawl
    MaxRuns         \* bound: how often the crawl is run over these sessions

VARIABLES
    registered, lazy, defaultId, started,   \* the SessionManager's
    holder,         \* who holds its mutex
    run, runs,      \* where the crawl is, and how often it was run
    todo,           \* the sessions Start or Close have yet to visit
    taskAt,         \* where each task is
    fetched,        \* the document a task has fetched
    cache,          \* the RobotsTxtManager's: the document of each origin
    judged,         \* history: the document each task judged its URL by
    open            \* the sessions' own: starts less closes

managerVars == <<registered, lazy, defaultId, started, holder, run, runs, todo, open>>
robotsVars == <<fetched, cache, judged>>
spiderVars == <<managerVars, taskAt, robotsVars>>

Origins == {OriginOf[t] : t \in Tasks}

ASSUME SpiderSessionsAssumption ==
    /\ Prefetching \subseteq Tasks /\ MaxRuns \in Nat \ {0}
    /\ SidOf \in [Tasks -> SessionIds \cup {DefaultSid}] /\ DefaultSid \notin SessionIds
    /\ Empty \in Documents /\ NoDocument \notin Documents
    /\ Run \notin Tasks /\ Nobody \notin Tasks \cup {Run}

SpiderInit ==
    /\ registered = {} /\ lazy = {} /\ defaultId = DefaultSid /\ started = {}
    /\ holder = Nobody /\ run = "new" /\ runs = 0 /\ todo = {}
    /\ taskAt = [t \in Tasks |-> "ready"]
    /\ fetched = [t \in Tasks |-> NoDocument] /\ judged = [t \in Tasks |-> NoDocument]
    /\ cache = [o \in Origins |-> NoDocument]
    /\ open = [id \in SessionIds |-> 0]

----------------------------------------------------------------------------
(* Sessions and the run *)

\* SessionManager.Add
AddSession(id, default, isLazy) ==
    /\ holder = Nobody /\ run = "new" /\ id \notin registered
    /\ registered' = registered \cup {id} /\ lazy' = IF isLazy THEN lazy \cup {id} ELSE lazy
    /\ defaultId' = IF default \/ defaultId = DefaultSid THEN id ELSE defaultId
    /\ UNCHANGED <<started, holder, run, runs, todo, open, taskAt, robotsVars>>

Session(t) == IF SidOf[t] = DefaultSid THEN defaultId ELSE SidOf[t]

MarkOpen(id) == started' = started \cup {id} /\ open' = [open EXCEPT ![id] = @ + 1]
MarkClosed(id) == started' = started \ {id} /\ open' = [open EXCEPT ![id] = @ - 1]

\* SessionManager.Start
BeginStart ==
    /\ run \in {"new", "ended", "failed"} /\ runs < MaxRuns /\ holder = Nobody
    /\ run' = "starting" /\ runs' = runs + 1 /\ holder' = Run
    /\ todo' = registered \ (lazy \cup started)
    /\ UNCHANGED <<registered, lazy, defaultId, started, open, taskAt, robotsVars>>
StartOne(id) ==
    /\ run = "starting" /\ id \in todo
    /\ \/ MarkOpen(id) /\ todo' = todo \ {id} /\ UNCHANGED <<holder, run>>
       \/ \* it fails: the run returns before it has deferred Close
          /\ run' = "failed" /\ holder' = Nobody /\ todo' = {} /\ UNCHANGED <<started, open>>
    /\ UNCHANGED <<registered, lazy, defaultId, runs, taskAt, robotsVars>>
Started ==
    /\ run = "starting" /\ todo = {} /\ run' = "prefetching" /\ holder' = Nobody
    /\ UNCHANGED <<registered, lazy, defaultId, started, runs, todo, open, taskAt, robotsVars>>

Prefetched ==
    /\ run = "prefetching" /\ \A t \in Prefetching : taskAt[t] = "done"
    /\ run' = "running"
    /\ UNCHANGED <<registered, lazy, defaultId, started, holder, runs, todo, open, taskAt, robotsVars>>

\* Mutant: the run does not wait for its tasks.
BeginCloseAtOnce ==
    /\ run \in {"prefetching", "running"} /\ holder = Nobody
    /\ run' = "closing" /\ holder' = Run /\ todo' = started
    /\ UNCHANGED <<registered, lazy, defaultId, started, runs, open, taskAt, robotsVars>>
\* The run is over, early or not, with nothing in flight: SessionManager.Close.
BeginClose ==
    /\ run \in {"prefetching", "running"} /\ holder = Nobody
    /\ \A t \in Tasks : taskAt[t] \in {"ready", "done"}
    /\ run' = "closing" /\ holder' = Run /\ todo' = started
    /\ UNCHANGED <<registered, lazy, defaultId, started, runs, open, taskAt, robotsVars>>
\* What closing fails with is kept for the caller; the others are closed too.
CloseOne(id) ==
    /\ run = "closing" /\ id \in todo
    /\ MarkClosed(id) /\ todo' = todo \ {id}
    /\ UNCHANGED <<registered, lazy, defaultId, holder, run, runs, taskAt, robotsVars>>
Closed ==
    /\ run = "closing" /\ todo = {} /\ run' = "ended" /\ holder' = Nobody
    /\ UNCHANGED <<registered, lazy, defaultId, started, runs, todo, open, taskAt, robotsVars>>

----------------------------------------------------------------------------
(* Tasks.  Each asks for its origin's document and then for its page. *)

MoveTask(t, place) == taskAt' = [taskAt EXCEPT ![t] = place]
Judge(t, document) ==
    /\ judged' = [judged EXCEPT ![t] = document]
    /\ MoveTask(t, IF t \in Prefetching THEN "done" ELSE "want page")

Begin(t) ==
    /\ taskAt[t] = "ready"
    /\ run = IF t \in Prefetching THEN "prefetching" ELSE "running"
    /\ MoveTask(t, "look up") /\ UNCHANGED <<managerVars, robotsVars>>

\* parserFor up to its fetch
LookUp(t) ==
    /\ taskAt[t] = "look up"
    /\ IF cache[OriginOf[t]] # NoDocument THEN Judge(t, cache[OriginOf[t]])
       ELSE MoveTask(t, "want document") /\ UNCHANGED judged
    /\ UNCHANGED <<managerVars, fetched, cache>>

\* What a task does with its session, for its document or for its page
Want(wanting) == IF wanting = "page" THEN "want page" ELSE "want document"
Starting(wanting) == IF wanting = "page" THEN "start page" ELSE "start document"
Fetching(wanting) == IF wanting = "page" THEN "fetch page" ELSE "fetch document"

\* Where a task goes whose session is not there or does not start: without the document
\* everything is allowed, without the page the task fails.
Fail(t, wanting) ==
    IF wanting = "page" THEN MoveTask(t, "done") /\ UNCHANGED fetched
    ELSE MoveTask(t, "store") /\ fetched' = [fetched EXCEPT ![t] = Empty]

\* Mutant: the mutex is not held while a session starts.
LockBriefly(t) == Nobody
\* SessionManager.Fetch up to the session's: a session that is not started is, under the lock.
Lock(t) == t
LockSession(t, wanting) ==
    /\ taskAt[t] = Want(wanting) /\ holder = Nobody
    /\ CASE Session(t) \notin registered -> Fail(t, wanting) /\ UNCHANGED holder
         [] Session(t) \in started -> MoveTask(t, Fetching(wanting)) /\ UNCHANGED <<holder, fetched>>
         [] OTHER -> MoveTask(t, Starting(wanting)) /\ holder' = Lock(t) /\ UNCHANGED fetched
    /\ UNCHANGED <<registered, lazy, defaultId, started, run, runs, todo, open, cache, judged>>
StartSession(t, wanting) ==
    /\ taskAt[t] = Starting(wanting)
    /\ \/ MarkOpen(Session(t)) /\ MoveTask(t, Fetching(wanting)) /\ UNCHANGED fetched
       \/ Fail(t, wanting) /\ UNCHANGED <<started, open>>
    /\ holder' = Nobody
    /\ UNCHANGED <<registered, lazy, defaultId, run, runs, todo, cache, judged>>

\* The session's Fetch returns, with the mutex free.  A failure or a status other than 200
\* makes an empty document.
FetchDocument(t) ==
    /\ taskAt[t] = "fetch document" /\ MoveTask(t, "store")
    /\ \E d \in Documents : fetched' = [fetched EXCEPT ![t] = d]
    /\ UNCHANGED <<managerVars, cache, judged>>
FetchPage(t) ==
    /\ taskAt[t] = "fetch page" /\ MoveTask(t, "done") /\ UNCHANGED <<managerVars, robotsVars>>

\* Mutant: what was fetched is stored and used whatever is in the cache.
StoreOwn(t) ==
    /\ taskAt[t] = "store"
    /\ cache' = [cache EXCEPT ![OriginOf[t]] = fetched[t]] /\ Judge(t, fetched[t])
    /\ UNCHANGED <<managerVars, fetched>>
\* parserFor after its fetch: the first that was stored stays, also an empty one.
Store(t) ==
    LET document == IF cache[OriginOf[t]] # NoDocument THEN cache[OriginOf[t]] ELSE fetched[t] IN
    /\ taskAt[t] = "store"
    /\ cache' = [cache EXCEPT ![OriginOf[t]] = document] /\ Judge(t, document)
    /\ UNCHANGED <<managerVars, fetched>>

RunStep ==
    \/ BeginStart \/ Started \/ Prefetched \/ BeginClose \/ Closed
    \/ \E id \in SessionIds : StartOne(id) \/ CloseOne(id)
TaskStep(t) ==
    \/ Begin(t) \/ LookUp(t) \/ FetchDocument(t) \/ Store(t) \/ FetchPage(t)
    \/ \E wanting \in {"document", "page"} : LockSession(t, wanting) \/ StartSession(t, wanting)

\* The runs are over and no task is in flight.
SpiderRest ==
    /\ run \in {"ended", "failed"} /\ runs = MaxRuns
    /\ \A t \in Tasks : taskAt[t] \in {"ready", "done"}
    /\ UNCHANGED spiderVars

SpiderNext ==
    \/ SpiderRest
    \/ \E id \in SessionIds, default, isLazy \in BOOLEAN : AddSession(id, default, isLazy)
    \/ RunStep
    \/ \E t \in Tasks : TaskStep(t)

SpiderSpec == SpiderInit /\ [][SpiderNext]_spiderVars

----------------------------------------------------------------------------
TaskPlaces == {"ready", "look up", "want document", "start document", "fetch document",
               "store", "want page", "start page", "fetch page", "done"}
SpiderTypeOK ==
    /\ registered \subseteq SessionIds /\ lazy \subseteq registered /\ started \subseteq registered
    /\ defaultId \in registered \cup {DefaultSid} /\ todo \subseteq registered
    /\ holder \in Tasks \cup {Nobody, Run} /\ runs \in 0..MaxRuns
    /\ run \in {"new", "starting", "prefetching", "running", "closing", "ended", "failed"}
    /\ taskAt \in [Tasks -> TaskPlaces]
    /\ fetched \in [Tasks -> Documents \cup {NoDocument}]
    /\ judged \in [Tasks -> Documents \cup {NoDocument}]
    /\ cache \in [Origins -> Documents \cup {NoDocument}]
    /\ open \in [SessionIds -> Nat]

\* However tasks race to the first use of a lazy session, a session is started once before
\* it is closed; what a task fetches with is open until it is done, and a run that ends
\* leaves none open.  (A run that fails to start its sessions leaves some.)
SessionsHeldOpen ==
    /\ SpiderTypeOK
    /\ \A id \in SessionIds : open[id] = IF id \in started THEN 1 ELSE 0
    /\ \A t \in Tasks : taskAt[t] \in {"fetch document", "fetch page"} => open[Session(t)] = 1
    /\ run = "ended" => started = {}

\* All the tasks of an origin judge by one document, those too that fetched another
\* because they asked at the same time.
OneDocumentPerOrigin ==
    \A t, u \in Tasks :
        OriginOf[t] = OriginOf[u] /\ NoDocument \notin {judged[t], judged[u]} => judged[t] = judged[u]
=============================================================================
