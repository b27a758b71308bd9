---------------------------- MODULE BrowserPool ----------------------------
(***************************************************************************)
(* BrowserSession of engines/browser/browser_session.go: a pool of at most *)
(* MaxPages pages shared by concurrent calls of Fetch.  Free pages wait in *)
(* the buffered channel `available'; the list `pages', their states and    *)
(* `closed' are behind a mutex, so that one step is one critical section   *)
(* or one communication.                                                   *)
(*                                                                         *)
(* A page is named by the call that created it: a call creates at most     *)
(* one.  What the engine does with a page is the environment.              *)
(***************************************************************************)
EXTENDS Integers, Sequences, FiniteSets

CONSTANTS
    Fetches,        \* the calls of Fetch
    MaxPages,       \* effective bound on the pages
    EngineMayFail,  \* may an engine's Fetch fail by itself
    ContextsMayEnd, \* may the context of a call end
    MayClose,       \* may Close be called
    NoPage

VARIABLES
    at,         \* where each call is
    page,       \* the page it holds
    outcome,    \* what it returns
    ended,      \* the calls whose context has ended
    pages,      \* s.pages
    state,      \* the state of every page ever made
    available,  \* s.available, a channel of capacity MaxPages
    closed      \* s.closed; s.done is closed in the same critical section

callVars == <<at, page, outcome>>
poolVars == <<pages, state, available, closed>>
vars == <<callVars, ended, poolVars>>

Places == {"new", "lock", "wait", "mark", "fetch", "release", "return", "done"}
PageStates == {"ready", "busy", "error"}
Outcomes == {"none", "response", "engine error", "context error", "session closed"}

ASSUME PoolAssumption ==
    /\ IsFiniteSet(Fetches)
    /\ MaxPages \in Nat \ {0}
    /\ {EngineMayFail, ContextsMayEnd, MayClose} \subseteq BOOLEAN
    /\ NoPage \notin Fetches

Init ==
    /\ at = [f \in Fetches |-> "new"]
    /\ page = [f \in Fetches |-> NoPage]
    /\ outcome = [f \in Fetches |-> "none"]
    /\ ended = {}
    /\ pages = {} /\ state = [p \in {} |-> "ready"]
    /\ available = <<>> /\ closed = FALSE

----------------------------------------------------------------------------
Go(f, place) == at' = [at EXCEPT ![f] = place]
Answer(f, what) == Go(f, "done") /\ outcome' = [outcome EXCEPT ![f] = what]

\* A receive from the channel.
Receive(f) ==
    /\ available # <<>>
    /\ page' = [page EXCEPT ![f] = Head(available)]
    /\ available' = Tail(available)
    /\ Go(f, "mark")
    /\ UNCHANGED <<outcome, ended, pages, state, closed>>

\* acquirePage, its first select: a free page, or on to the mutex.
TryReceive(f) ==
    /\ at[f] = "new"
    /\ \/ Receive(f)
       \/ available = <<>> /\ Go(f, "lock") /\ UNCHANGED <<page, outcome, ended, poolVars>>

\* Mutant: the page taken is not checked against a Close since.
MarkPageBusyUnchecked(f) ==
    /\ at[f] = "mark" /\ Go(f, "fetch")
    /\ state' = [state EXCEPT ![page[f]] = "busy"]
    /\ UNCHANGED <<page, outcome, ended, pages, available, closed>>

\* markPageBusy
MarkPageBusy(f) ==
    /\ at[f] = "mark"
    /\ IF closed \/ state[page[f]] # "ready"
       THEN /\ Answer(f, "session closed")
            /\ page' = [page EXCEPT ![f] = NoPage]
            /\ UNCHANGED state
       ELSE /\ Go(f, "fetch")
            /\ state' = [state EXCEPT ![page[f]] = "busy"]
            /\ UNCHANGED <<page, outcome>>
    /\ UNCHANGED <<ended, pages, available, closed>>

\* cleanupErrorPagesLocked
Kept == {p \in pages : state[p] # "error"}
\* ... its critical section: clean up, then create a page if there is room.
CreatePage(f) ==
    /\ at[f] = "lock" /\ ~closed
    /\ Cardinality(Kept) < MaxPages
    /\ pages' = Kept \cup {f}
    /\ state' = [p \in DOMAIN state \cup {f} |-> IF p = f THEN "busy" ELSE state[p]]
    /\ page' = [page EXCEPT ![f] = f]
    /\ Go(f, "fetch")
    /\ UNCHANGED <<outcome, ended, available, closed>>

FindFull(f) ==
    /\ at[f] = "lock" /\ ~closed
    /\ Cardinality(Kept) >= MaxPages
    /\ pages' = Kept
    /\ Go(f, "wait")
    /\ UNCHANGED <<page, outcome, ended, state, available, closed>>

FindClosed(f) ==
    /\ at[f] = "lock" /\ closed
    /\ Answer(f, "session closed")
    /\ UNCHANGED <<page, ended, poolVars>>

\* Mutant: a waiter does not look at s.done.
WaitForPage(f) ==
    /\ at[f] = "wait"
    /\ \/ Receive(f)
       \/ f \in ended /\ Answer(f, "context error") /\ UNCHANGED <<page, ended, poolVars>>

\* ... its second select.
Wait(f) ==
    /\ at[f] = "wait"
    /\ \/ Receive(f)
       \/ /\ f \in ended /\ Answer(f, "context error")
          /\ UNCHANGED <<page, ended, poolVars>>
       \/ /\ closed /\ Answer(f, "session closed")
          /\ UNCHANGED <<page, ended, poolVars>>

\* BrowserFetcher.Fetch comes back, with an error if the call's context ended.
EngineReturns(f) ==
    /\ at[f] = "fetch"
    /\ \/ outcome' = [outcome EXCEPT ![f] = "response"]
       \/ /\ EngineMayFail \/ f \in ended
          /\ outcome' = [outcome EXCEPT ![f] = "engine error"]
    /\ Go(f, "release")
    /\ UNCHANGED <<page, ended, poolVars>>

\* Mutants of releasePage: a page in error is sent too; no page is sent; a page
\* in error stays with the call.
ReleaseAnyPage(f) ==
    /\ at[f] = "release" /\ Go(f, "return")
    /\ state' = [state EXCEPT ![page[f]] = IF outcome[f] = "response" THEN "ready" ELSE "error"]
    /\ UNCHANGED <<page, outcome, ended, pages, available, closed>>
ReleaseUnsent(f) ==
    /\ at[f] = "release"
    /\ state' = [state EXCEPT ![page[f]] = "ready"]
    /\ Go(f, "done") /\ page' = [page EXCEPT ![f] = NoPage]
    /\ UNCHANGED <<outcome, ended, pages, available, closed>>
ReleaseKept(f) ==
    /\ at[f] = "release"
    /\ state' = [state EXCEPT ![page[f]] = IF outcome[f] = "response" THEN "ready" ELSE "error"]
    /\ Go(f, IF outcome[f] = "response" THEN "return" ELSE "done")
    /\ UNCHANGED <<page, outcome, ended, pages, available, closed>>

\* releasePage, its critical section ...
ReleasePage(f) ==
    LET ok == outcome[f] = "response" IN
    /\ at[f] = "release"
    /\ IF closed THEN UNCHANGED state
       ELSE state' = [state EXCEPT ![page[f]] = IF ok THEN "ready" ELSE "error"]
    /\ IF ~closed /\ ok
       THEN Go(f, "return") /\ UNCHANGED page
       ELSE Go(f, "done") /\ page' = [page EXCEPT ![f] = NoPage]
    /\ UNCHANGED <<outcome, ended, pages, available, closed>>

\* Mutant: the page is released once more, by a deferred call say.
ReturnPageTwice(f) ==
    /\ at[f] = "return"
    /\ Len(available) < MaxPages /\ available' = Append(available, page[f])
    /\ Go(f, "release")
    /\ UNCHANGED <<page, outcome, ended, pages, state, closed>>

\* ... and the send of a ready page.
ReturnPage(f) ==
    /\ at[f] = "return"
    /\ \/ Len(available) < MaxPages /\ available' = Append(available, page[f])
       \/ closed /\ UNCHANGED available
    /\ Go(f, "done")
    /\ page' = [page EXCEPT ![f] = NoPage]
    /\ UNCHANGED <<outcome, ended, pages, state, closed>>

Close ==
    /\ MayClose /\ ~closed
    /\ closed' = TRUE /\ pages' = {}
    /\ UNCHANGED <<callVars, ended, state, available>>

EndContext(f) ==
    /\ ContextsMayEnd /\ f \notin ended /\ at[f] # "done"
    /\ ended' = ended \cup {f}
    /\ UNCHANGED <<callVars, poolVars>>

Step(f) ==
    \/ TryReceive(f) \/ MarkPageBusy(f) \/ CreatePage(f) \/ FindFull(f) \/ FindClosed(f)
    \/ Wait(f) \/ EngineReturns(f) \/ ReleasePage(f) \/ ReturnPage(f)

\* Every call has returned.
Rest == (\A f \in Fetches : at[f] = "done") /\ UNCHANGED vars

Next == Close \/ Rest \/ \E f \in Fetches : Step(f) \/ EndContext(f)

Spec == Init /\ [][Next]_vars

\* A goroutine that can run runs, and an engine's Fetch returns.
FairSpec == Spec /\ \A f \in Fetches : WF_vars(Step(f))
----------------------------------------------------------------------------
Elements(seq) == {seq[i] : i \in 1..Len(seq)}
Holding(places) == {page[f] : f \in {g \in Fetches : at[g] \in places}}

PoolTypeOK ==
    /\ at \in [Fetches -> Places]
    /\ page \in [Fetches -> Fetches \cup {NoPage}]
    /\ \A f \in Fetches : page[f] # NoPage <=> at[f] \in {"mark", "fetch", "release", "return"}
    /\ outcome \in [Fetches -> Outcomes]
    /\ ended \subseteq Fetches
    /\ pages \subseteq DOMAIN state /\ DOMAIN state \subseteq Fetches
    /\ \A p \in DOMAIN state : state[p] \in PageStates
    /\ available \in Seq(Fetches)
    /\ closed \in BOOLEAN

\* A page is in one place: in the hands of one call, or once in the channel.
PagesExclusive ==
    /\ \A f, g \in Fetches : page[f] = page[g] /\ page[f] # NoPage => f = g
    /\ \A f \in Fetches : page[f] \notin Elements(available)
    /\ \A i, j \in 1..Len(available) : available[i] = available[j] => i = j

\* No page leaks and none is counted wrongly by Stats: a busy page is one a call is
\* using, a ready page waits in the channel or is on its way from or to it.
PagesAccounted ==
    ~closed =>
        /\ {p \in pages : state[p] = "busy"} = Holding({"fetch", "release"})
        /\ {p \in pages : state[p] = "ready"} = Elements(available) \cup Holding({"mark", "return"})

\* releasePage never waits for room in the channel.
SendNeverBlocks == \A f \in Fetches : at[f] = "return" => Len(available) < MaxPages

\* The pool's books are right whatever calls, engines, contexts and Close do in between:
\* no page is shared, none is lost, and giving one back never waits.
\* (acquirePage, markPageBusy, releasePage, cleanupErrorPagesLocked)
PoolSound == PoolTypeOK /\ PagesExclusive /\ PagesAccounted /\ SendNeverBlocks

\* The calls whose engine is at work are a pool of MaxPages, which Close shuts: no
\* engine is called for a call that finds the session closed.
Pool == INSTANCE Limiter WITH
    Callers <- Fetches, Cap <- MaxPages,
    users <- {f \in Fetches : at[f] = "fetch"},
    shut <- closed
ImplementsLimiter == Pool!Spec

\* Close lets every call return, those that wait for a page included.
CloseFreesAll == closed ~> \A f \in Fetches : at[f] = "done"

\* A call that waits for a page gets out of the wait, unless an engine has failed.
WaitersServedBarringErrors ==
    \A f \in Fetches :
        at[f] = "wait" ~> (at[f] # "wait" \/ \E g \in Fetches : outcome[g] = "engine error")

\* Nobody waits for ever, unless an engine has failed: for a page, or after Close.
PoolServes == CloseFreesAll /\ WaitersServedBarringErrors

\* A call that waits for a page gets out of the wait, as long as engines answer.
WaitersServed == \A f \in Fetches : at[f] = "wait" ~> at[f] # "wait"
============================================================================
