# Verification of goscrapling

TLA+ models of goscrapling, a Go port of the Scrapling scraping library: the
model-checking runs over them, and machine-checked proofs of the properties
that matter most. Line numbers refer to the source tree at the modelled commit.

## 1. The system

goscrapling is a library. A caller builds a `spiders.Crawler`, gives it
sessions (static HTTP or browser) and start requests, and gets items from
`Run` or `Stream`. Everything concurrent, stateful or persistent is in seven
places; the rest translates data by pure functions.

| Part | Code | State | Operations | Talks to |
|---|---|---|---|---|
| Crawl runtime | `spiders/crawl_runtime.go`, `crawler.go`, `blocked.go`, `result.go` | counters, in-flight map, stop error, stats, domain semaphores | set up, launch, handle a result, handle an output, pause, complete | request goroutines over the result channel, the scheduler, sessions, hooks, the item stream |
| Scheduler | `spiders/scheduler.go`, `request.go` | heap, seen set, push counter | Enqueue, Dequeue, Snapshot, Restore | only the run goroutine (and checkpoints) |
| Checkpoint | `spiders/checkpoint.go` | `checkpoint.json` and its `.tmp` | Save, Load, Cleanup | the next run, maybe of another process |
| Browser page pool | `engines/browser/browser_session.go` | page list, page states, channel of free pages, `closed` | Fetch (acquire, mark, release), Close, Stats | concurrent callers, the engine |
| Concurrent fetcher | `fetchers/fetcher_async.go` | job channel, shared results | Fetch | workers, the static fetcher |
| Session manager | `spiders/session.go` | sessions, started flags | Add, Start, Fetch, Close | the run and request goroutines |
| Robots cache, response cache, adaptive stores, MCP registry, proxy rotator | `spiders/robots.go`, `spiders/cache.go`, `core/storage`, `integrations/mcp`, `fetchers/proxy_rotator.go` | a map (and files) behind a mutex | get or fetch, put, load, save, open, close, next | concurrent callers, other processes |
| Static fetcher | `fetchers/fetcher.go`, `fetcher_safety.go` | none between calls | safety checks, attempts, retry delay, redirects, classification of errors | net/http |
| Options | `fetchers/fetcher_session.go`, `fetcher_options.go`, `spiders/session_adapters.go`, `engines/browser/browser_options.go` | none that lasts | merging of the layers of a request | both fetchers |
| Robots rules, links, templates | `spiders/robots.go`, `links.go`, `templates` | none that lasts | parsing, verdicts, extraction | crawl, spiders |
| Parser, relocation score | `parser`, `core/storage/score.go` | none that lasts; adaptive selections save to a store | traversal, search, generated selectors, relocation | adaptive stores |
| Translator, shell, tools, progress | `core/translator`, `internal/cli`, `integrations/gormes`, the roadmap tooling | none that lasts | pure functions over strings and documents | |

Hard behaviours, and where they bite, are listed in `PROJECT.json` under
`hazards`: the end of a context racing results and handovers, pauses with work
in flight, crashes in the middle of a save, a stop in the middle of a page's
outputs, retries that bypass the filter, full streams, semaphores on error
paths, a pool whose channel and lock are updated apart, a shared slice without
a lock.

What makes each part correct:

* *Crawl with checkpoints.* No accepted request is lost, over any sequence of
  runs, pauses, failures and crashes; none is done twice; success means that
  everything was done; limits hold; a run ends.
* *Scheduler.* One first-in first-out lane per priority, each filtered request
  once, and a restore that changes neither.
* *Page pool.* A page serves one call at a time, none leaks, at most
  `MaxPages` work, Close frees everybody, waiting calls are served.
* *Concurrent fetcher.* Each result is written once, all before the return,
  and what it says is what happened to its fetch.
* *Static fetcher.* Redirects of a safe fetch's attempts stay public, an ended context
  stops the retries, proxies are taken in turn.
* *Sessions of a crawl.* A task fetches over a session that is open; whatever a
  run started it closes; one origin has one robots.txt.
* *Files.* A file that replaces another is whole; a store disagrees with its
  file only by saves that failed; what was cleared does not come back.
* *Pure functions.* Each agrees with a reference definition, or keeps a law that
  relates it to another function, on all inputs up to a bound.

## 2. The modules

Data is abstract: a URL is a model value, `Canon` the canonical form its
fingerprint is built from, a page the list of the outputs its callback yields.

| Module | Models | Notes |
|---|---|---|
| `Scheduler` | `Scheduler`, `Request.Fingerprint` | the heap is a set of entries, since `Less` is total; operators only, used by `SchedulerEnv` and `Crawl` |
| `SchedulerEnv` | its callers | arbitrary offers, takes, and reloads from snapshots that lost fingerprints; its lanes, and that they are those of `SchedulerLanes` |
| `SchedulerLanes` | nothing in the code | the promise of the scheduler |
| `Crawl` | runtime, request goroutines, limiters, checkpoint file | several runs, one after the other; `EXTENDS Scheduler` |
| `Frontier` | nothing in the code | the promise of a crawl with checkpoints |
| `BrowserPool` | `BrowserSession` | one step per critical section or channel operation |
| `Limiter` | nothing in the code | the promise of a bounded pool |
| `FetchBatch` | `ConcurrentFetcher.Fetch` | one step per channel operation or write |
| `StaticFetch` | `Fetcher.do`, `ProxyRotator`, `checkRequestSafety` | one step per safety check, request, answer or timer |
| `ConcurrentFetch` | the two together | a worker's fetch of `FetchBatch` is a run of `StaticFetch`, under one context |
| `SessionRegistry` | the sessions of the MCP `Server` | one step per critical section, or per call of the factory or of a session |
| `SpiderSessions` | `SessionManager`, `RobotsTxtManager` | the manager's mutex is held while sessions start, free while they fetch |
| `SqliteStore` | `SQLiteStore`: `setup`, `Save`, `Load`, `Close` | one step per SQL statement; several handles on one file |
| `FileStore` | `FileStore`, `MemoryStore` | several stores on one path; a save is a change, a write and a rename |
| `ResponseCache` | `ResponseCacheManager` | several managers on one directory; a put is a write and a rename, a clear a listing and removals |
| `Robots` | `robotsTxtParser` and the reader of `fetcher_safety.go` | operators: parsing, groups, rules, delays |
| `Links`, `Templates` | `LinkExtractor`; crawl rules and sitemaps | operators over URLs as records |
| `Options`, `BrowserOptions` | the layers of options of static and browser fetches | operators up to the request that is sent |
| `Pages`, `Adaptive` | traversal, search, generated selectors; fingerprints, scores, adaptive selection | a page is the sequence of its elements |
| `Translation` | `CSSToXPath` | a selector is a sequence of symbols |
| `Shell` | curl commands, statements and strings of shell scripts | operators |
| `StaticTools` | `ResolveProvider`, `ResultContainer` | operators |
| `MCCrawl`, `MCBrowserPool`, `MCFetch`, `MCSessionHeaders` | | instances of one module |
| `Library` | `Robots`, `BrowserOptions` and `Adaptive`, as functions that are given one input | their inputs are constants; their laws |
| `MCLibrary` | | the scheduler and `Library`, whose inputs are in `MCDocuments` and `MCOptions` |
| `MCSessions`, `MCStores` | | three state machines each that share nothing |
| `MCOffline` | | `MCStores` and the other pure functions, whose inputs are in `MCLinks` and `MCTools` |
| `CrawlSafety`, `CrawlAccounts` | | the theorems on the crawl, the second upon the first |
| `SchedulerProofs`, `SessionsProofs`, `FetchProofs`, `StoreProofs`, `RobotsProofs`, `PagesProofs` | | the theorems on the scheduler, on what is shared by concurrent callers (pool, registry, sessions of a crawl), on fetches and the layers of their options, on files, on robots.txt and, upon its induction, on pages |

### How `Crawl` corresponds to the code

`main` is the position of the run goroutine: `loading`
(`restoreOrEnqueueStartRequests`), `starting` (`OnStart`), `top` and
`launching` (`startReadyTasks`, before and after its look at the context),
`errored` (between the two halves of the handling of a failed task),
`outputs` (the loop of lines 256-258), `saving`, `writing`, `renaming`
(`CheckpointManager.Save`), `done`; `down` is a process that is not running.
With `launching` and nothing to launch the goroutine is in its select.
`tasks` holds the request goroutines, each at one step of `processRequest`;
a task at `send` has its result ready for the unbuffered channel.
`active`, `activeRequests`, `nextTaskID`, `stopErr`, `stats` are the fields of
the runtime, `slots` the occupancy of the limiter channels, `stream` that of
the item channel, `disk` and `tmp` the two files.
`past`, `diskPast` and `interrupted` are history: what was settled and visited,
the same when the checkpoint was saved, and whose work the end of the context
cut short. No guard reads them.

A step of the run goroutine ends where another goroutine, the context or a
crash can be observed: `handleTaskResult` is two steps for a failed task
because it reads the context twice; each output is a step of its own, an item
and its link two; a save is three.

`ctxErr` is `r.ctx.Err()`. The context ends by itself (`EndContext`, by
cancellation or deadline) or because `r.stop` cancels it (`Stop`).

What the environment may do is given by constants: `Faults` (errors that
sessions and callbacks return by themselves), `MasksDeadline` (sessions report
an ended deadline as a request timeout, as the static fetcher does),
`Blockable`, `RobotsDenied`, `ItemHook`, `CtxEnds`, `SetupFaults`, `IOFaults`,
`MayCrash`.

Simplifications: the caller passes no `Scheduler`, so each run has a fresh
one; requests have no `Callback` of their own; `FollowOptions` are the
defaults; the retry hook changes only the filter flag; a robots lookup gives
the site's verdict without error; `Stats` has the counters the run goroutine
keeps; a request's metadata is left out.

### How `BrowserPool` corresponds to the code

`at[f]` is the position of one call of `Fetch`: `new` (the first select of
`acquirePage`), `lock` (its critical section), `wait` (its second select),
`mark` (`markPageBusy`), `fetch` (the engine), `release` and `return`
(`releasePage`, its critical section and its send). `available` is the
channel, `pages` and `state` are behind the mutex, `closed` stands for
`s.closed` and `s.done`, which one critical section sets. A page is named by
the call that created it.

### How `FetchBatch` corresponds to the code

`main` is the caller: `dispatch` (the loop with the select of line 75), `join`
(`wg.Wait`), `returned`. `worker[w]` is a goroutine: `idle` (in the range over
the channel), `check` (line 63), `fetch`, `exited`. The channel is unbuffered,
so `HandOver` is one joint step of caller and worker.

`ConcurrentFetch` replaces the worker's step `fetch` by `FetchOne(f)`, any step
of the fetch `f` it holds, and `FetchedOne(f)`, which writes the outcome of that
fetch; `over` of the fetches and `ended` of the batch are one context.

### How `StaticFetch` corresponds to the code

`phase[f]` is the position of one `Fetcher.do`: `idle`, `safety`
(`enforceFetchSafety`), `robots` (robots.txt is being asked for), `attempt` (the head
of the loop), `request` (client and server at work, with the redirects that
`CheckRedirect` lets pass), `body`,
`failed` (an attempt's error is being judged), `timer` (the retry delay),
`done`. `plan` is what the options say, `hops` the requests sent in this
attempt, `proxied` and `index` the rotator's choice, `lastErr` the error that the
next attempt or the caller gets. `asked`, `late` and `used` are history:
private hosts that were sent a request, and by what (an attempt or the question for
robots.txt), attempts begun after the context's end,
how often each proxy was taken. `maxRedirects` below zero (no limit) is left
out; bodies and cookies are data.

The question for robots.txt goes through the caller's client as it is: its redirects
(up to `ClientRedirects`, net/http's ten) are followed wherever they lead, its end is
not that of the fetch's context, and it takes no proxy. `BeginAttempt` is an attempt
whose request is sent, the proxy chosen by the transport as it is;
`EndBeforeSending` is one that ends before the transport has asked for a proxy, by the
context or the timeout, and its error is no proxy's.

### How `SpiderSessions` corresponds to the code

`holder` is who holds the manager's mutex, `run` the crawl: `new`, `starting`
(`Start`, one session per step), `prefetching`, `running`, `closing`, `ended`,
`failed`. `taskAt[t]` is one `Fetch` with its look into the robots cache:
`cache` is the manager's map, `fetched` the document a task has read
outside the lock, `judged` (history) the one it judged its URL by. `open` counts
starts less closes on the side of the session. A start that fails leaves the
sessions before it open, as the code does.

### How `FileStore` and `ResponseCache` correspond to the code

`values[h]` is the map of store `h`, `disk` the file (`Half` for one that was cut
short, which `OpenFile` refuses), `storeAt[h]` is `open`, `write` or `rename`
inside `writeLocked`. `acknowledged`, `failed` and `alone` are history.
`records` and `temps` are the files of the cache, named by fingerprint; a version
stands for a response, `Torn` for what two writers of one temporary file may
leave. `managerAt[m]` is the position of one call. `listed`, `forgotten`
and `shared` are history.

### How the pure functions correspond to the code

Strings are sequences of symbols where the code looks into them and model
values or strings where it compares them whole. A parser is a fold over
lines, tokens or symbols with the fields of the code's parser as its state. Real
numbers are whole: likeness and score components are in units of 1/60 (`Unit`),
enough for every quotient the bounded inputs give. CSS matching, regular
expressions, Unicode, XML and gzip are libraries and stay predicates of the
inputs or are left out.

### How `SessionRegistry` corresponds to the code

`at[c]` is the position of one tool call: for `OpenSession` `reserve`,
`create` (the factory runs), `store` or `clear`; for a fetch or a screenshot
`use` and, with a session of its own, `close`; for `CloseSession` `close`.
`sessions`, `opening` and `counter` are the fields of `Server`. A session is
named by the call that created it; `alive` and `closes` are the embedding
program's side. An id is one a caller makes up or the n of `session-n`, and a
caller may make up an n. `ListSessions`, the static tools and the checks of
arguments change nothing and are left out; ids are taken as trimmed.

### How `SqliteStore` corresponds to the code

`at[h]` is the position of one `NewSQLiteStore`: `new`, then the statement of
`setup` that comes next, then `open`, or `refused` (`ErrUnsupportedStoreSchema`)
or `failed`. `version[h]` is what it read, `file` is the shared database.
`use[u]` is one `Save` or `Load`: `check` with the read lock held, `exec` its
statement. A handle stands for its process: when it dies its uses go with it.
`given` is history: the file the first open found. Of the file there are its
version, its table and its journal mode: `Connect`, the first two PRAGMAs, switches it
to WAL before the version is read, in a file that is refused as well; the model has a
file system on which WAL works.

## 3. The runs

| Run | Instance | Shows |
|---|---|---|
| `library` | the scheduler with 3 URLs (2 of one fingerprint), 2 priorities, 5 pushes; or one bounded input of a pure function | lanes are kept and duplicates refused over any takes, saves and reloads; the laws of robots, options and pages |
| `crawl_pause` | 3 runs, 4 URLs, 2 goroutines, retries, crashes, setup and file errors, sessions that return `context.Canceled` of their own | nothing is lost or replayed; the file is always whole; the crawl implements `Frontier`; the end of the context ends the run though the stream is full and its reader gone |
| `crawl_hooks` | 2 runs, two starts, items that are kept, dropped, refused; a stream of one | a stop among a page's outputs swallows nothing; the checkpoint is forgotten only when done; in-flight work goes first |
| `crawl_limits` | 2 hosts, one slot each, robots, delays, retries, items, file errors, an attentive reader | no limit is exceeded, no slot leaks, and a run ends by itself |
| `fetching` | 3 requests, 2 workers, 2 proxies, a public host, a private address and a name that is private, 2 attempts, 2 redirects of an attempt and of robots.txt; five pairs of plans, the third request refused | each result once, before the return, and true; redirects of attempts stay public; no retry after the end; rotation is even; `Fetch` returns |
| `sessions` | pool: 3 calls on 2 pages; registry: 3 tool calls, a shared id and one that looks generated; crawl: 2 sessions, 3 tasks, 3 documents, 2 runs | exclusivity, no leak, `Limiter`, Close lets everybody return; reservations and ownership; sessions in use are open; one document per origin |
| `offline` | SQLite: 2 handles, 3 uses, every kind of file; JSON: 2 handles, 2 keys, 2 values; cache: 2 managers, 2 keys, 3 puts; failures and deaths at every step; or one bounded input of a pure function: pages of links, rules, sitemaps of up to six tokens, selectors, commands, scripts, results | the schema is sound and other files keep their version and tables; files are whole; divergence only by failed saves; a clear forgets; the laws of links and tools |
| `crawl_deadline` | static sessions, a deadline | **violated**: work cut short by a deadline is dropped from the pause |
| `crawl_own_cancel` | sessions that return `context.Canceled` of their own | **violated**: the context read twice loses a request |
| `pool_stranded` | engines that fail | **violated**: a waiting call stays blocked though the pool is empty |
| `sqlite_refused` | 2 handles | **violated**: a file of this store is refused |
| `options_panic` | sessions made with and without headers | **violated**: merging a header into none panics |

`library`, `sessions` and `offline` put machines that share no state side by side:
the first state chooses the one that runs (`input`, `machine`, `medium`), so a
behaviour of the run is a behaviour of that machine alone. In `library` and `offline`
a pure function is given one input, chosen by the step, and its law is an invariant
of the state after it; deadlock is therefore unchecked there, all the more as uses
of a store that was never opened have nothing to do.

Properties that gather several of one machine: `PoolSound` (a page serves one
call, none leaks, sends do not block), `RegistrySound` (reservations and
owners), `BatchSound` and `BatchSteps` (outcomes; one write, no fetch after the
end), `StoreSound` (schema; no use after Close), `WorkAccounted` (success means
done, tasks are accounted for, retries are bounded), `FileSound` (the JSON file is
whole; a store parts from it only by saves that failed). `SessionsHeldOpen`,
`RecordsWhole` and `ResultsHonest` include the types of their machine.

Bounds: `MaxRuns` 3 is one pause, one resume that pauses or crashes, and one
more that finds the file of either; two goroutines are enough for every
property on pairs of tasks; one retry distinguishes budget used and unused; a
stream of one is full after one item. `MaxOrder` bounds the pushes of the
scheduler. 3 calls on 2 pages give two users and one that waits or
comes later; 3 requests on 2 workers leave one that is handed over late, and two
fetches that share the rotator; 2 attempts are one and its retry, 2 redirects
the last that is followed and the one that is not; the first two requests of `fetching`
differ only in their numbers, so the plans of a pair come in one order. 3 tool
calls are two that open one id and one that uses or closes it. Three tasks are
two that race for a lazy session and one document, and one of another origin that only
prefetches. Two handles or managers are one that changes a file and one that looks
on; `MaxPuts` 3 is a put before, during and after a clear. Robots files have up to four lines, pages six elements, lists of
links three, sitemaps six tokens, selectors two branches of two steps, shell
words and scripts a few symbols of every class the reader distinguishes: enough for two groups, rules or
branches to compete in every order. The proofs have no bound.

### Fairness

`Crawl!FairSpec`: weak fairness of the run goroutine and of the request
goroutines, which is what the Go scheduler gives, with sessions, hooks and
callbacks that return (the code sets no bound on them). Nothing forces the
context to end, a reader to read (`AttendedSpec` adds one that does), or a
process to die. `crawl_pause` runs under `JudgedFairSpec`, the same of `JudgedSpec`
(section 4), with sessions that return `context.Canceled` of their own. `BrowserPool!FairSpec`: weak fairness of each call, so engines
return. No fairness is asked of the select that chooses among waiting
receivers: a waiter may lose to others only while others come, and calls are
finitely many; `MCSessions!MCSpec` asks it of the pool when it is the pool that
runs. `ConcurrentFetch!CFairSpec`: weak fairness of caller, workers and
fetches, whose requests, those for robots.txt included, are answered, fail or time
out; a request without a
`Timeout` has only its site and its context to end it, so this is asked of the
environment. Waits of retries end.

## 4. The proofs

All by TLAPS, for all values of the constants under the named assumption of each
module (`CanonAssumption`, `CrawlAssumption`, `PoolAssumption`, ...), which TLC
evaluates on the run's instance. That `Absent` is no set of fingerprints is a
part of `CrawlAssumption` that says only that model values differ from sets: a
missing file is no saved file. Three theorems have a hypothesis besides, named
where the theorem is described.

Each proof has one invariant that is inductive, a lemma per action that keeps
it, and a last temporal step. What the invariant adds to the property is the
argument:

### The crawl

* `CrawlSafety!TypeCorrect`: `Spec => []TypeOK`. The invariant is `TypeOK`
  with the finiteness of the queue and the in-flight map, which ordinals in
  snapshots need.
* `CrawlSafety!BoundedTasks`: `[]TasksBounded`, by `RunInv`: goroutines are
  counted by `active`, none runs when no run does, and in-flight requests
  outlive their goroutine only once the run is stopped.
* `CrawlSafety!CheckpointKept`: the action property on the checkpoint, from
  `RunInv`: when the run completes, nothing is queued and nothing in flight.
* `CrawlSafety!NothingLost` and `CheckpointsComplete`, of `JudgedSpec`: the crawl
  without one step, `EndsUnderJudgement`, in which the context ends, and in the
  way the error of the failed request in hand says, between the two comparisons
  of that error with the context's (`crawl_runtime.go:224` and `:278`). Sessions
  may return context errors of their own at any other moment. `KeepInv` relates
  the run and both files: what the filter knows is owed or settled; a failed task
  in hand has the context's error only if it is still in the in-flight map; a
  temporary file that is whole is the pause snapshot of the run that renames it.
  The step is the only way to lose a request: `crawl_own_cancel` is the
  counterexample with it.
* `CrawlSafety!HonestSessionsAreJudged`: under `SessionsReportTheirOwn` (no session
  or callback returns a context's error while the context is alive) every
  behaviour of `Spec` is one of `JudgedSpec`, so that all that is proved of the
  latter holds of it. `TellInv`: a context error on its way to the loop, or in
  hand, is the context's.
* `CrawlSafety!HostsBounded`: `DomainsBounded` is inductive with the types
  (`SlotsInv`), because it counts a slot for each place in `processRequest`
  between acquire and release.
* `CrawlSafety!NothingReplayed` and `QueuedOnce`, by `OnceInv`: a fingerprint that
  the filter has recorded is in at most one of four places, namely the queue, the
  in-flight map, the failed task in hand, and the fetched; the same of both
  files (`OnceIn`), so that a resume cannot bring a page back.
* `CrawlSafety!LinksAlwaysFollowed`, by `LinksInv`: the outputs left are a suffix of
  those of the page in hand and what came before them is done; the files carry
  this over a pause.
* `CrawlSafety!InterruptedAlwaysKept`, by `CutInv` and under `~MasksDeadline`: a page
  whose work was cut short stays in the in-flight map, and its goroutine brings
  the context's error, which a paused run keeps. `crawl_deadline` is the
  counterexample with `MasksDeadline`.
* `CrawlAccounts!InFlightGoesFirst`, by `PlacesInv`: no two entries of a queue or
  a file have one place, and places are at most the counter; with that, `Less` is
  total, and in a snapshot the rank of an entry in flight is below that of a queued
  one.
* `CrawlAccounts!WorkIsAccounted`, by three invariants: `SuccessInv` (start
  requests are owed or settled as they are enqueued, so that success owes
  nothing), `BooksInv` (pushes are the queue, the launched and the restored;
  launches are the handled, the in-flight and the one in hand) and `BudgetInv` (every
  request in the queue, in a task, on its way back or in a file is within the
  budget). It is a theorem of `JudgedSpec`, and asks `StartsWithinBudget`, that start
  requests have no more retries behind them than allowed: `RetryCount` is an
  exported field (`request.go:24`), which the library sets to nothing but the
  count of its own retries.
* `CrawlAccounts!CrawlImplementsFrontier`, of `JudgedSpec` too: the
  refinement, step by step. `FrontierPending` is what the run owes, and the lemmas
  `OfferOwed`, `OwedStays`, `DiskChanges` and `CompleteOwesNothing` say how that
  and the file change. `FrontierInv` adds that a run which restores knows no
  page before, and that a run without a directory never has a file.

### The others

* `SchedulerProofs!LanesAlwaysServed`: the scheduler implements `SchedulerLanes`. An
  entry's place in a set of entries is the number of those pushed before it; no two
  have one place and, by counting, none is free (`NthTakes`), so a lane is a
  sequence. A push takes the place after the last (`PushedLast`), a take frees the
  first (`TakenFirst`), and numbers that run as the old ones change nothing
  (`Renumbered`): the ranks by `Less` that a snapshot gives do, within a
  priority. `QueueInv` adds that orders are distinct and at most the counter.
  `FilteredAlwaysOnce` rests on the same invariant.
* `SessionsProofs`, the page pool: `PagesNotShared`, `PagesNotLost`, `SendsDoNotBlock`,
  together `PoolAlwaysSound`, and `PoolIsALimiter`, a refinement. The invariant
  adds to types and exclusivity that a call that has not passed the lock created no
  page, and `Bounded`: the pages kept, plus none for a page in error, are at most
  `MaxPages`; hence the channel has room and users fit.
* `FetchProofs`, the batch: `BatchComplete`, `NoSecondWrite`, `EndedMeansNoFetch`,
  together `BatchAlwaysSound` and `BatchStepsSound`. `Undecided` is the heart: an
  index has no result exactly while a worker holds it or the caller has still to
  hand it over, and `OneIndexEach` keeps the workers' indices apart.
* `FetchProofs`, the fetch: `RedirectsAlwaysPublic`, `EndedAlwaysStopsRetries`,
  `RotationAlwaysEven`. `PublicSound` follows the target from its check to the
  host that is asked; `LateSound` says which phases a late attempt can be in: no
  timer leads out of one; what the question for robots.txt asks is told apart
  (`RobotsAskedKeeps`); `RotationSound` gives each proxy's count by its
  position before or after the index.
* `FetchProofs`, the two composed: `ComposedIsBatch` and `ComposedIsFetches` show
  that each step of `ConcurrentFetch` is a step of the one machine and of the
  other, or leaves it alone, so that everything proved of either holds of both at
  work together; `ResultsAlwaysHonest` relates their states (`ToldRight`).
* `SessionsProofs`, the registry: `ReservationsHeld`, `NoSessionLost`, together
  `RegistryAlwaysSound`, and `NoEntryReplaced`. The three invariants are inductive
  together once `HandsSound` says that a call which has not made a session
  owns none and that the one it stores is its own.
* `SessionsProofs`, the sessions of a crawl: `SessionsAlwaysHeldOpen` and
  `OneDocumentAlways`. `HoldersSound` says whose the mutex is in each position of
  the run and the tasks; hence nobody starts a session that another starts, and
  a run that closes has no task on its way. `JudgedSound`: what a task judged by
  stays in the cache.
* `StoreProofs`, SQLite: `SchemaAlwaysSound`, `ClosedStoresUnused`, together
  `StoreAlwaysSound`, and `OtherFilesKept`. `Known` relates what each open
  has read to the file: a version once read stays, a stamp follows the table, and the
  journal mode is switched once an open has come past its first statement. What is
  claimed of a refused file is its version and tables (`UnsupportedKept`), since its
  journal mode does change.
* `StoreProofs`, the JSON store: `FileAlwaysSound`. `AloneSound`: of stores that
  follow each other at most one is open, and it has what the file has, but for the
  key it saves and what a failed save left.
* `StoreProofs`, the cache: `RecordsAlwaysWhole`, by `UnsharedSound` (a key that no
  two managers stored at once has one writer), and `ClearAlwaysForgets`, by
  `ClearSound` (what a Clear has listed is older than what is stored next).

Each of these modules also proves the types of its variables.

### The layers of options

Here nothing runs: these theorems of `FetchProofs` hold of every session, adapter and
request. Their hypotheses say what Go's types say (options are structs, so every
layer has every field and switch; lists are sequences) and, for headers, that each
name has a value, as `http.Header`'s `Set` and `Add` leave it (`Valued`).

* `RouteAlwaysNearest` (`RouteOfNearestLayer`): `AdapterGives` and `SentIs` reduce a
  fetch to its route and its headers; what remains is which of the four layers asks
  for anything, case by case.
* `HeaderAlwaysNearest` (`HeaderOfNearestLayer`): `NearestLayerHas` gives the values
  of four merged layers, name by name; a default keeps what is there.
* `ProxyAlwaysWhole`, `WaitAlwaysWhole`, `BrowserHeadersAlwaysKept`,
  `BlockedStaysBlocked` (`ProxyKeptWhole`, `WaitKeptWhole`, `BrowserHeadersKept`,
  `BlockedByAnyLayer`): the same for a browser, by `AskedIs` and `RequestIs`; `BlockedBeforeNavigated` finds the block
  among the steps done with the page.

`OptionsAlwaysRight` (`LibrarySpec => []OptionsRight`) gathers them: the state adds that
a function has been given an input of its own.

### robots.txt

The parser, the choice of a group, the merge and the verdict are folds, the matching
of patterns a recursive function; the laws hold of all files, agents and paths by
induction over their data. The library's induction theorems take an operator, so
`RobotsProofs` begins with induction for sets: a set of numbers that has 0 and, with
each number, the next has all (`SetInduction`, `UpTo`). From it come the functions
that a recursion defines (`RecursionExists`, `FoldExists`) and that a fold over a
sequence is a recursion that takes the elements in turn (`FoldIsRecursion`). Then each
fold has a lemma of its steps (`ParseSteps`, `MatchSteps`, `MergeSteps`, `BestSteps`,
`SafetySteps`) and an invariant that holds along them:

* `ReadSoFar`: after any line, the groups behind are what the directives say of
  their agent lines (`Says`), the open group has the agents a directive on the next line would be
  about (`Open`, which `OpenBefore` shows to be `AgentsOf`), and each
  agent and directive read is in one of them (`Covers`); hence `ParsedIs`.
* `AreBest`, `IsMergeOf`, `IsVerdictOf`: what the groups, the merged group and the best
  rule are by the sets of their elements, whatever the order. `MatchingServe` and
  `RulesServe`: the merged group has the rules of the lines to heed and no others.
* `MatchesIffFits`: the positions that a pattern's symbols can come to are those of its placings
  (`Ends`, `EndsNext`).
* `VerdictAlwaysRight`, `DelayAlwaysRight` (by `LatestIsLast`: the last delay of a group is the
  latest of its lines) and `ReadersAlwaysAgree` (by `ReadPlain`: on a plain file the
  other reader is active where an agent is open, and takes the same rules, and by
  `PlainLength`: without stars and anchors both count a pattern's symbols alike);
  `RobotsAlwaysRight` (`LibrarySpec => []RobotsRight`) gathers them.

`RobotsAssumption` types the input: names and paths are sequences of symbols, a delay
line has a number or a rate with a period that is not negative, and a configured
delay is not negative. TLC evaluates it on the files of the run.

### Pages

`PagesProofs` takes the induction from `RobotsProofs`. Its hypotheses are `IsPage`, what
the HTML parser makes of any text (one html, parents before children, elements in document
order, one head, body or frameset in html) with unique ids, and `IsPrint`, what a
saved fingerprint has; `PagesAssumption` says them of the inputs, and TLC evaluates it on those
of the run.

* `SelectorAlwaysFinds`: what is computed from parent to child exists and is computed
  so (`DescentExists`, `DescentIs`); the selector of an element is its own part under
  its parent's (`SelectorEnds`). `SelectsItself` goes down the parents.
  `SelectsNothingBefore`: an element selected before it would, by `PartTells`, have its tag
  and as many siblings of that tag before it, hence another parent, which the
  parent's selector would select before the parent.
* `SimilarAlwaysMutual`: every part of a likeness is symmetric.
* `ScannersAlwaysAgree`: both scanners go through one text in lockstep, and in the
  same state at its end.
* `ScoreBounds`: a score is between none and the full one, and full of a fingerprint
  with itself. It rests on the bounds of each component, the sequences' by induction
  over the table of the longest common subsequence (`SubsequenceBounds`).
* `RelocationAlwaysAgrees`: the loop of relocation keeps the first of the best so far
  (`FirstBest`); the diagnosis takes the one with none before it, and there is one
  (`NoneBefore`, `SomeIsBest`, `FirstBestIsOne`).
* `UnmovedAlwaysFound` and `SavedAlwaysComesBack` follow, with `FirstSelection` (what
  was saved is the fingerprint of the first found) and `BranchRelocates`.

`PagesAlwaysRight` (`LibrarySpec => []PagesRight`) gathers them.

### Only model-checked

* Liveness (`RunEnds`, `EndedContextEndsRun`, `PoolServes`, `BatchReturns`): the
  prover has no fairness and no ENABLED.
* `LinksRight`, `ToolsRight`: laws of parsers and readers, which are folds and recursive
  functions over their input, each with an induction of its own.

## 5. What the checks found

The runs marked violated, each a `findings` entry with the quoted promise:

1. A crawl over static sessions whose context ends by a deadline pauses
   without the requests in flight: `classifyRequestError` hides the deadline.
2. A request whose session returns `context.Canceled` by itself is lost when
   the crawl is cancelled between two reads of the context.
3. A browser fetch that waits for a page waits for ever when the fetches that
   hold the pages fail, although the pool is then empty.
4. A database file that was being set up, or whose set-up was cut short, is
   refused as one of an unsupported schema.
5. A fetcher session made without headers panics on the first request that
   has one: `mergeOptions` adds to a clone of no headers.

Seen in the models and not claimed as disagreements, because the repository
promises nothing of them:

* two JSON stores on one path take back each other's saves;
* a session that fails to start leaves those before it open;
* an item hook that returns the context's error ends the output without the
  link in it; request callbacks are not part of a checkpoint;
* an MCP fetch may use a session that another call has just closed, and a
  generated id may be one a caller made up;
* an adaptive selection with several matches may save some of them and fail;
* the robots.txt of a safe fetch is asked for without the fetch's context, and its
  redirects are not looked at (`RedirectsStayPublic` leaves them out);
* opening a database file of another schema switches its journal mode to WAL before
  the file is refused;
* results of several providers lose fields when the first of a key has none;
* the translator cuts at an operator inside a quoted value; the selectors the run
  checks have separators in quotes, but neither such operators nor escapes.

## 6. Not modelled, and the plan

`PROJECT.json` lists every component. Left out for good:

* formatting, printing and the parsing of flags; HTML, XML and regular-expression
  libraries; chromedp and the browser, hence the answers of the browser, the
  capture of its requests and the challenge heuristics;
* rendered evidence and the response toolbelt: values without state that are
  copied or printed;
* the expressions of the interactive shell, templates and field extraction of
  recipes, the browser tools, which pass calls on;
* the roadmap tooling, which is not part of the library.

The plan from here is proofs:

1. the laws of `Links` and the tools for every input, by the induction over data that
   `RobotsProofs` and `PagesProofs` use.
