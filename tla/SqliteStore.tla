---------------------------- MODULE SqliteStore ----------------------------
(***************************************************************************)
(* SQLiteStore of core/storage/store_sqlite.go: handles on one database    *)
(* file, opened by goroutines or processes that do not know of each other, *)
(* and the calls of Save and Load that share a handle with its Close.  A   *)
(* statement is one step: it is atomic in SQLite, and outside any          *)
(* transaction in this code.  Any statement may fail.                      *)
(*                                                                         *)
(* The file is its user_version, whether table `storage' exists and        *)
(* whether its header says WAL; what the rows hold is SQLite's affair.     *)
(***************************************************************************)
EXTENDS Integers, FiniteSets

CONSTANTS
    Handles,        \* the calls of NewSQLiteStore
    Uses,           \* the calls of Save and Load
    HandleOf,       \* the handle each of them uses
    MayDie          \* may a process die

VARIABLES
    file,           \* user_version, the presence of the table and the journal mode
    given,          \* history: the file before the first open
    at,             \* where each open is
    version,        \* the user_version each open has read
    closed,         \* the handles with s.closed set
    use             \* where each use is

vars == <<file, given, at, version, closed, use>>

sqliteStoreSchemaVersion == 1
\* A schema of some other program or release.
OtherVersion == 2
Files == [version : {0, sqliteStoreSchemaVersion, OtherVersion}, table : BOOLEAN, wal : BOOLEAN]
Places == {"new", "version", "table", "create", "stamp", "open", "refused", "failed", "dead"}

ASSUME StoreAssumption ==
    /\ IsFiniteSet(Handles) /\ IsFiniteSet(Uses)
    /\ HandleOf \in [Uses -> Handles]
    /\ MayDie \in BOOLEAN

\* The file is new, of this store, or of another schema.
Ours(f) == f.version \in {0, sqliteStoreSchemaVersion} /\ (f.table <=> f.version # 0)
Unsupported(f) == f.version = OtherVersion \/ (f.version = 0 /\ f.table)
Init ==
    /\ file \in {f \in Files : Ours(f) \/ Unsupported(f)}
    /\ given = file
    /\ at = [h \in Handles |-> "new"] /\ version = [h \in Handles |-> 0]
    /\ closed = {}
    /\ use = [u \in Uses |-> "new"]

----------------------------------------------------------------------------
Go(h, from, to) == at[h] = from /\ at' = [at EXCEPT ![h] = to]

\* sql.Open and the two PRAGMAs: journal_mode is kept in the file, whoever's it is, and
\* busy_timeout in the connection.
Connect(h) ==
    /\ Go(h, "new", "version")
    /\ file' = [file EXCEPT !.wal = TRUE]
    /\ UNCHANGED <<version, closed>>

\* sqliteUserVersion
ReadVersion(h) ==
    /\ Go(h, "version", "table")
    /\ version' = [version EXCEPT ![h] = file.version]
    /\ UNCHANGED <<file, closed>>

\* Mutant: a table of an unversioned file is taken over.
AcceptsAnyTable(h) == version[h] \in {0, sqliteStoreSchemaVersion}
\* The verdict of setup on the version read and on the table found now.
Accepts(h) ==
    /\ version[h] = 0 => ~file.table
    /\ version[h] \in {0, sqliteStoreSchemaVersion}
\* sqliteTableExists
ReadTable(h) ==
    /\ IF Accepts(h) THEN Go(h, "table", "create") ELSE Go(h, "table", "refused")
    /\ UNCHANGED <<file, version, closed>>

\* Mutant: the version is stamped before the table is there.
StampFirst(h) ==
    /\ Go(h, "create", "stamp")
    /\ file' = [file EXCEPT !.version = sqliteStoreSchemaVersion]
    /\ UNCHANGED <<version, closed>>
\* CREATE TABLE IF NOT EXISTS
CreateTable(h) ==
    /\ IF version[h] = 0 THEN Go(h, "create", "stamp") ELSE Go(h, "create", "open")
    /\ file' = [file EXCEPT !.table = TRUE]
    /\ UNCHANGED <<version, closed>>

\* PRAGMA user_version = 1
StampVersion(h) ==
    /\ Go(h, "stamp", "open")
    /\ file' = [file EXCEPT !.version = sqliteStoreSchemaVersion]
    /\ UNCHANGED <<version, closed>>

\* A statement fails: NewSQLiteStore closes the database.  One that fails has done nothing.
FailOpen(h) ==
    /\ at[h] \in {"new", "version", "table", "create", "stamp"}
    /\ at' = [at EXCEPT ![h] = "failed"]
    /\ UNCHANGED <<file, version, closed>>

\* Mutant: Close does not wait for the uses in progress.
CloseAtOnce(h) ==
    /\ at[h] = "open" /\ h \notin closed
    /\ closed' = closed \cup {h}
    /\ UNCHANGED <<file, at, version>>
\* The uses that hold the read lock of h.
Readers(h) == {u \in Uses : HandleOf[u] = h /\ use[u] \in {"check", "exec"}}
\* Close, which waits for the read locks.
Close(h) ==
    /\ at[h] = "open" /\ h \notin closed
    /\ Readers(h) = {}
    /\ closed' = closed \cup {h}
    /\ UNCHANGED <<file, at, version>>

\* The process of the handle dies, its uses with it.
Die(h) ==
    /\ MayDie /\ at[h] \notin {"new", "refused", "failed", "dead"}
    /\ at' = [at EXCEPT ![h] = "dead"]
    /\ use' = [u \in Uses |-> IF HandleOf[u] = h THEN "done" ELSE use[u]]
    /\ UNCHANGED <<file, given, version, closed>>

\* Save and Load: the read lock; the check of s.closed under it; the statement.
Lock(u) ==
    /\ use[u] = "new" /\ at[HandleOf[u]] = "open"
    /\ use' = [use EXCEPT ![u] = "check"]
CheckClosed(u) ==
    /\ use[u] = "check"
    /\ use' = [use EXCEPT ![u] = IF HandleOf[u] \in closed THEN "done" ELSE "exec"]
Execute(u) ==
    /\ use[u] = "exec"
    /\ use' = [use EXCEPT ![u] = "done"]

OpenStep(h) ==
    \/ Connect(h) \/ ReadVersion(h) \/ ReadTable(h) \/ CreateTable(h) \/ StampVersion(h)
    \/ FailOpen(h) \/ Close(h)
UseStep(u) == Lock(u) \/ CheckClosed(u) \/ Execute(u)

Next ==
    \/ \E h \in Handles : OpenStep(h) /\ UNCHANGED <<given, use>>
    \/ \E h \in Handles : Die(h)
    \/ \E u \in Uses : UseStep(u) /\ UNCHANGED <<file, given, at, version, closed>>

Spec == Init /\ [][Next]_vars
----------------------------------------------------------------------------
StoreTypeOK ==
    /\ {file, given} \subseteq Files
    /\ at \in [Handles -> Places]
    /\ version \in [Handles -> {0, sqliteStoreSchemaVersion, OtherVersion}]
    /\ \A h \in closed : h \in Handles /\ at[h] \in {"open", "dead"}
    /\ use \in [Uses -> {"new", "check", "exec", "done"}]
    /\ \A u \in Uses : use[u] \in {"check", "exec"} => at[HandleOf[u]] = "open"

\* However opens interleave, fail or die, a file that carries the version of the
\* store has its table, and a store that was handed out stands on such a file.
\* (setup: CREATE TABLE comes before PRAGMA user_version)
SchemaSound ==
    /\ file.version = sqliteStoreSchemaVersion => file.table
    /\ \A h \in Handles : at[h] = "open" =>
          file = [version |-> sqliteStoreSchemaVersion, table |-> TRUE, wal |-> TRUE]

\* A file of another schema is refused by every open, and keeps its version and its tables.
\* It is not left as it was: an open that has run its first PRAGMA has switched it to WAL.
\* (setup: the PRAGMA comes before the version is looked at)
UnsupportedKept ==
    Unsupported(given) =>
        /\ file = [given EXCEPT !.wal = file.wal] /\ (given.wal => file.wal)
        /\ \A h \in Handles : at[h] \in {"version", "table", "refused"} => file.wal
        /\ (\A h \in Handles : at[h] = "new") => file = given
        /\ \A h \in Handles : at[h] \notin {"create", "stamp", "open"}

\* No statement runs on a database that was closed.
NoUseAfterClose == \A u \in Uses : use[u] = "exec" => HandleOf[u] \notin closed

\* Opens of one file by several processes, with failures and deaths in between, leave
\* a sound file and sound stores; a closed store is not used.
StoreSound == StoreTypeOK /\ SchemaSound /\ NoUseAfterClose

\* Only a file of another schema is refused.
OwnFileAccepted == \A h \in Handles : at[h] = "refused" => Unsupported(given)
============================================================================
