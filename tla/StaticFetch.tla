----------------------------- MODULE StaticFetch -----------------------------
(***************************************************************************)
(* Fetcher.do of fetchers/fetcher.go: fetches that share a context and a   *)
(* proxy rotator each check that their target is safe, then try to send    *)
(* the request and follow its redirects until an attempt answers, fails    *)
(* for good or was the last.  The sites answer as they like.               *)
(***************************************************************************)
EXTENDS Naturals, FiniteSets

CONSTANTS
    Fetches,
    Proxies,            \* how many proxies the rotator has
    Hosts,
    Private,            \* hosts that are a private address, as the URL writes it
    PrivateNames,       \* hosts whose name is looked up as a private address
    Plans,              \* what fetches are asked to do
    DefaultRedirects,   \* 30 in the code
    DefaultAttempts,    \* defaultRetryAttempts
    ClientRedirects     \* the redirects the caller's own client follows: net/http's 10

VARIABLES
    phase,      \* where each fetch is
    plan,       \* its options
    attempt,    \* its attempt
    host, hops, \* the host asked now, and the requests sent in this attempt
    proxied,    \* does this attempt go through a proxy
    lastErr,    \* the kind of the last attempt's error
    outcome,
    index,      \* ProxyRotator.currentIndex
    over,       \* how the context ended
    asked,      \* history: the private hosts each fetch sent requests to, and for what
    late,       \* history: its attempts begun after the context's end
    used        \* history: how much oftener each proxy was taken than the one taken least

fetchVars == <<phase, plan, attempt, host, hops, proxied, lastErr, outcome, index, over, asked, late, used>>
localVars == <<host, hops, proxied>>
sharedVars == <<plan, index, over, asked, late, used>>

ASSUME FetchAssumption ==
    /\ IsFiniteSet(Fetches) /\ Proxies \in Nat \ {0}
    /\ Private \subseteq Hosts /\ PrivateNames \subseteq Hosts
    /\ {DefaultRedirects, DefaultAttempts, ClientRedirects} \subseteq Nat \ {0}
    /\ \A p \in Plans : p.start \in Hosts /\ {p.rotates, p.delays, p.blocks, p.robots} \subseteq BOOLEAN

\* maxRedirects 0 asks for the default; a negative one, no limit, is left out.
MaxRedirects(p) == IF p.maxRedirects = 0 THEN DefaultRedirects ELSE p.maxRedirects
\* retryAttempts
Attempts(p) == IF p.retries > 0 THEN p.retries ELSE DefaultAttempts

FetchInit ==
    /\ phase = [f \in Fetches |-> "idle"] /\ plan \in [Fetches -> Plans]
    /\ attempt = [f \in Fetches |-> 0]
    /\ host = [f \in Fetches |-> plan[f].start] /\ hops = [f \in Fetches |-> 0]
    /\ proxied = [f \in Fetches |-> FALSE]
    /\ lastErr = [f \in Fetches |-> "none"] /\ outcome = [f \in Fetches |-> "none"]
    /\ index = 0 /\ over = "no"
    /\ asked = [f \in Fetches |-> {}] /\ late = [f \in Fetches |-> 0]
    /\ used = [i \in 0..(Proxies - 1) |-> 0]

----------------------------------------------------------------------------
StartFetch(f) ==
    /\ phase[f] = "idle" /\ phase' = [phase EXCEPT ![f] = "safety"]
    /\ UNCHANGED <<attempt, lastErr, outcome, localVars, sharedVars>>

\* doAttempt returns, and do: what they kept is gone.
ForgetAttempt(f) ==
    /\ host' = [host EXCEPT ![f] = plan[f].start]
    /\ hops' = [hops EXCEPT ![f] = 0] /\ proxied' = [proxied EXCEPT ![f] = FALSE]
Done(f, kind) ==
    /\ phase' = [phase EXCEPT ![f] = "done"] /\ outcome' = [outcome EXCEPT ![f] = kind]
    /\ attempt' = [attempt EXCEPT ![f] = 0] /\ lastErr' = [lastErr EXCEPT ![f] = "none"]
    /\ ForgetAttempt(f)

NextAttempt(f) ==
    /\ phase' = [phase EXCEPT ![f] = "attempt"] /\ attempt' = [attempt EXCEPT ![f] = @ + 1]
    /\ lastErr' = [lastErr EXCEPT ![f] = "none"] /\ ForgetAttempt(f)
    /\ UNCHANGED <<outcome, sharedVars>>

\* A request goes out to host h, by an attempt or for robots.txt.
Ask(f, h, by) ==
    /\ host' = [host EXCEPT ![f] = h] /\ hops' = [hops EXCEPT ![f] = @ + 1]
    /\ asked' = [asked EXCEPT ![f] = @ \cup [by : {by}, host : {h} \cap Private]]

\* enforceFetchSafety: the target's address is checked, then its robots.txt is asked for,
\* with the caller's client as it is: no context, no proxy, and redirects of its own.
CheckSafety(f) ==
    /\ phase[f] = "safety"
    /\ IF plan[f].blocks /\ plan[f].start \in Private \cup PrivateNames
       THEN Done(f, "private address") /\ UNCHANGED sharedVars
       ELSE IF ~plan[f].robots THEN NextAttempt(f)
       ELSE /\ phase' = [phase EXCEPT ![f] = "robots"] /\ Ask(f, plan[f].start, "robots")
            /\ UNCHANGED <<plan, attempt, proxied, lastErr, outcome, index, over, late, used>>

\* robots.txt redirects: where to, the client does not look.
RedirectRobots(f, to) ==
    /\ phase[f] = "robots"
    /\ IF hops[f] >= ClientRedirects THEN Done(f, "robots") /\ UNCHANGED sharedVars
       ELSE /\ Ask(f, to, "robots")
            /\ UNCHANGED <<phase, plan, attempt, proxied, lastErr, outcome, index, over, late, used>>

\* checkRobotsAllowed returns: the path is allowed or not, or an error.
JudgeRobots(f) ==
    /\ phase[f] = "robots"
    /\ NextAttempt(f) \/ (Done(f, "robots") /\ UNCHANGED sharedVars)

\* Mutant: the rotator wraps around one too late, and then starts over.
RotateLate == IF index = Proxies THEN 0 ELSE index + 1
\* CyclicProxyRotation
Rotate == (index + 1) % Proxies

Taken(i) ==
    LET counts == [used EXCEPT ![i] = @ + 1] IN
    IF \E j \in DOMAIN counts : counts[j] = 0 THEN counts ELSE [j \in DOMAIN counts |-> counts[j] - 1]

\* doAttempt up to client.Do: the rotator moves on.
PrepareAttempt(f) ==
    /\ phase[f] = "attempt"
    /\ IF plan[f].rotates
       THEN index' = Rotate /\ used' = Taken(index % Proxies)
       ELSE UNCHANGED <<index, used>>
    /\ late' = [late EXCEPT ![f] = IF over = "no" THEN @ ELSE @ + 1]

\* The transport asks for the proxy and the request goes out.
BeginAttempt(f) ==
    /\ PrepareAttempt(f) /\ phase' = [phase EXCEPT ![f] = "request"]
    /\ proxied' = [proxied EXCEPT ![f] = plan[f].rotates]
    /\ Ask(f, plan[f].start, "attempt")
    /\ UNCHANGED <<plan, attempt, lastErr, outcome, over>>

\* classifyRequestError and isRetriableFetcherError: the request's timeout is final, but
\* not when a proxy's error or the reading of the body hides it.
Retriable(f, fault, whileReading) ==
    fault = "network" \/ (fault = "timeout" /\ (proxied[f] \/ whileReading))

FailAttempt(f, fault, whileReading) ==
    LET kind == IF proxied[f] /\ ~whileReading THEN "proxy" ELSE fault IN
    /\ IF Retriable(f, fault, whileReading)
       THEN /\ phase' = [phase EXCEPT ![f] = "failed"] /\ lastErr' = [lastErr EXCEPT ![f] = kind]
            /\ ForgetAttempt(f) /\ UNCHANGED <<attempt, outcome>>
       ELSE Done(f, kind)
    /\ UNCHANGED sharedVars

\* Mutant: only the client of the first attempt looks at the address.
PrivateRedirectFirst(f, to) == to # host[f] /\ to \in Private /\ attempt[f] = 1
\* isPrivateAddressRedirect: names are not looked up.
PrivateRedirect(f, to) == to # host[f] /\ to \in Private

\* Mutant: redirects are not counted.
RedirectForEver(f, to) ==
    /\ phase[f] = "request" /\ plan[f].policy # "none" /\ ~PrivateRedirect(f, to)
    /\ host' = [host EXCEPT ![f] = to]
    /\ UNCHANGED <<phase, attempt, hops, proxied, lastErr, outcome, sharedVars>>
\* The site redirects, and CheckRedirect decides.
Redirect(f, to) ==
    /\ phase[f] = "request"
    /\ IF plan[f].policy = "none" THEN Done(f, "response") /\ UNCHANGED sharedVars
       ELSE IF hops[f] >= MaxRedirects(plan[f]) THEN FailAttempt(f, "redirect", FALSE)
       ELSE IF plan[f].policy # "all" /\ PrivateRedirect(f, to)
       THEN FailAttempt(f, "private redirect", FALSE)
       ELSE /\ Ask(f, to, "attempt")
            /\ UNCHANGED <<phase, plan, attempt, proxied, lastErr, outcome, index, over, late, used>>

\* What client.Do or the reading of the body may fail with.
Faults == {"network", "timeout"} \cup (IF over = "canceled" THEN {"canceled"} ELSE {})

\* The context or the timeout ends the attempt before the transport has asked for the
\* proxy: nothing goes out, and no proxy is blamed.
EndBeforeSending(f) ==
    /\ PrepareAttempt(f)
    /\ \E fault \in Faults \ {"network"} : Done(f, fault)
    /\ UNCHANGED <<plan, over, asked>>

FailRequest(f) ==
    /\ phase[f] = "request" /\ \E fault \in Faults : FailAttempt(f, fault, FALSE)

Answer(f) ==
    /\ phase[f] = "request" /\ phase' = [phase EXCEPT ![f] = "body"]
    /\ UNCHANGED <<attempt, lastErr, outcome, localVars, sharedVars>>

ReadBody(f) ==
    /\ phase[f] = "body"
    /\ \/ (Done(f, "response") /\ UNCHANGED sharedVars)
       \/ \E fault \in Faults : FailAttempt(f, fault, TRUE)

GiveUp(f) == Done(f, IF lastErr[f] = "proxy" THEN "proxy" ELSE "retry exhausted") /\ UNCHANGED sharedVars

\* Mutant: the wait does not look at the context.
WaitRetryDelayBlind(f) ==
    /\ phase[f] = "failed"
    /\ IF attempt[f] >= Attempts(plan[f]) THEN GiveUp(f) ELSE NextAttempt(f)
\* waitRetryDelay, up to its timer
WaitRetryDelay(f) ==
    /\ phase[f] = "failed"
    /\ IF attempt[f] >= Attempts(plan[f]) THEN GiveUp(f)
       ELSE IF over # "no" THEN Done(f, "context") /\ UNCHANGED sharedVars
       ELSE IF ~plan[f].delays THEN NextAttempt(f)
       ELSE /\ phase' = [phase EXCEPT ![f] = "timer"]
            /\ UNCHANGED <<attempt, lastErr, outcome, localVars, sharedVars>>

\* The timer fires or the context has ended; when both, either is taken.
WakeUp(f) ==
    /\ phase[f] = "timer"
    /\ \/ NextAttempt(f)
       \/ (over # "no" /\ Done(f, "context") /\ UNCHANGED sharedVars)

EndFetchContext(how) ==
    /\ over = "no" /\ over' = how
    /\ UNCHANGED <<phase, plan, attempt, host, hops, proxied, lastErr, outcome, index, asked, late, used>>

FetchStep(f) ==
    \/ CheckSafety(f) \/ JudgeRobots(f)
    \/ BeginAttempt(f) \/ EndBeforeSending(f)
    \/ \E to \in Hosts : RedirectRobots(f, to) \/ Redirect(f, to)
    \/ FailRequest(f) \/ Answer(f) \/ ReadBody(f)
    \/ WaitRetryDelay(f) \/ WakeUp(f)

\* Fetches by themselves, whoever starts them.
FetchNext ==
    \/ \E how \in {"canceled", "deadline"} : EndFetchContext(how)
    \/ \E f \in Fetches : StartFetch(f) \/ FetchStep(f)
FetchSpec == FetchInit /\ [][FetchNext]_fetchVars

----------------------------------------------------------------------------
Kinds == {"response", "private address", "robots", "network", "timeout", "canceled", "proxy",
          "redirect", "private redirect", "context", "retry exhausted"}
FetchTypeOK ==
    /\ phase \in [Fetches -> {"idle", "safety", "robots", "attempt", "request", "body", "failed", "timer", "done"}]
    /\ plan \in [Fetches -> Plans] /\ attempt \in [Fetches -> Nat]
    /\ host \in [Fetches -> Hosts] /\ hops \in [Fetches -> Nat] /\ proxied \in [Fetches -> BOOLEAN]
    /\ lastErr \in [Fetches -> Kinds \cup {"none"}] /\ outcome \in [Fetches -> Kinds \cup {"none"}]
    /\ index \in 0..(Proxies - 1) /\ over \in {"no", "canceled", "deadline"}
    /\ asked \in [Fetches -> SUBSET [by : {"attempt", "robots"}, host : Private]] /\ late \in [Fetches -> Nat]
    /\ used \in [0..(Proxies - 1) -> Nat]

\* Where redirects are not followed everywhere, whatever chain of redirects and retries a
\* fetch went through, it sent requests to no private address but the one it was given, and
\* to none if it blocks them.  Only a fetch that obeys robots.txt may have been led to
\* another, and only by the redirects of robots.txt itself, never by an attempt.  A name
\* that stands for a private address is not recognised.
RedirectsStayPublic ==
    \A f \in Fetches : plan[f].policy # "all" =>
        \A r \in asked[f] :
            \/ r.host = plan[f].start /\ ~plan[f].blocks
            \/ r.by = "robots" /\ plan[f].robots

\* Once the context has ended a fetch begins at most the attempt it had decided on: no
\* error that hides the context's keeps it trying.
EndedContextStopsRetries == \A f \in Fetches : late[f] <= 1

\* Fetches that share a rotator take its proxies in turn, however their attempts mix.
RotationEven == \A i, j \in DOMAIN used : used[i] <= used[j] + 1
=============================================================================
