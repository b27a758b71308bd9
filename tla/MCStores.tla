------------------------------- MODULE MCStores -------------------------------
(***************************************************************************)
(* The three places that keep things on disk: the SQLite store, the JSON   *)
(* store and the cache of responses, each with two openers.  They share    *)
(* nothing: a behaviour is one of any of them.                             *)
(***************************************************************************)
EXTENDS SqliteStore, FileStore, ResponseCache

CONSTANTS h1, h2, u1, u2, u3

VARIABLE medium     \* the one that runs

allVars == <<medium, vars, fileVars, cacheVars>>

\* The first SQLite handle has two uses.
MCHandleOf == [u \in {u1, u2, u3} |-> IF u = u3 THEN h2 ELSE h1]

\* The SQLite file is of no account to the others: it is new then.
MCInit ==
    /\ Init /\ FileInit /\ CacheInit /\ medium \in {"sqlite", "file", "cache"}
    /\ medium = "sqlite" \/ file = [version |-> 0, table |-> FALSE, wal |-> FALSE]

SqliteRuns == medium = "sqlite" /\ Next /\ UNCHANGED <<medium, fileVars, cacheVars>>
FileRuns == medium = "file" /\ FileNext /\ UNCHANGED <<medium, vars, cacheVars>>
CacheRuns == medium = "cache" /\ CacheNext /\ UNCHANGED <<medium, vars, fileVars>>
MCNext == SqliteRuns \/ FileRuns \/ CacheRuns

MCSpec == MCInit /\ [][MCNext]_allVars
=============================================================================
