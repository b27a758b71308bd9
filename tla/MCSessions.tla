------------------------------ MODULE MCSessions ------------------------------
(***************************************************************************)
(* The three places that share sessions among concurrent callers: the page *)
(* pool of a browser session, the registry of the MCP server and the       *)
(* sessions of a crawl.  They share no state: a behaviour is one of any of *)
(* them, while the others stay as they begin.                              *)
(***************************************************************************)
EXTENDS BrowserPool, SessionRegistry, SpiderSessions

CONSTANTS f1, f2, f3, c1, c2, c3, shared, i1, i2, t1, t2, t3

VARIABLE machine    \* the one that runs

allVars == <<machine, vars, toolVars, spiderVars>>

\* Callers that agree on one id or make up "session-1".
MCGivenIds == {shared, 1}
\* Two tasks of one site want the lazy session at the same time as another is prefetched.
MCSidOf == [t \in {t1, t2, t3} |-> IF t = t1 THEN DefaultSid ELSE i2]
MCOriginOf == [t \in {t1, t2, t3} |-> IF t = t1 THEN "o" ELSE "p"]

MCInit == Init /\ RegistryInit /\ SpiderInit /\ machine \in {"pool", "registry", "spider"}

PoolRuns == machine = "pool" /\ Next /\ UNCHANGED <<machine, toolVars, spiderVars>>
RegistryRuns == machine = "registry" /\ RegistryNext /\ UNCHANGED <<machine, vars, spiderVars>>
SpiderRuns == machine = "spider" /\ SpiderNext /\ UNCHANGED <<machine, vars, toolVars>>
MCNext == PoolRuns \/ RegistryRuns \/ SpiderRuns

\* FairSpec of the pool, when it is the pool that runs.
MCSpec ==
    /\ MCInit /\ [][MCNext]_allVars
    /\ \A f \in Fetches : WF_vars(machine = "pool" /\ Step(f))
=============================================================================
