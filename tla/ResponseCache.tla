---------------------------- MODULE ResponseCache ----------------------------
(***************************************************************************)
(* The cache of responses on disk (spiders/cache.go).  A manager has a     *)
(* mutex; managers on one directory share its files, the temporary ones    *)
(* too, which are named after the request's fingerprint alone.             *)
(***************************************************************************)
EXTENDS Naturals, FiniteSets

CONSTANTS
    Managers,
    CacheKeys,      \* fingerprints of requests (no headers, no fragment)
    MaxPuts         \* bound: the records that are stored

VARIABLES
    records,        \* the files, by fingerprint: a version, Torn or 0 for none
    temps,          \* the temporary ones
    managerAt,      \* where each manager is in its call, and for which key
    managerKey,
    clearing,       \* the files Clear has listed and not removed
    stored,         \* the versions so far, and with that the version stored last
    listed,         \* history: the version stored last when a Clear read the directory
    forgotten,      \* history: the newest version that a finished Clear must have removed
    shared          \* history: keys that two managers have stored at once

cacheVars == <<records, temps, managerAt, managerKey, clearing, stored, listed, forgotten, shared>>

Torn == MaxPuts + 1

ASSUME CacheAssumption == MaxPuts \in Nat /\ CacheKeys # {}

CacheInit ==
    /\ records = [k \in CacheKeys |-> 0] /\ temps = [k \in CacheKeys |-> 0]
    /\ managerAt = [m \in Managers |-> "idle"]
    /\ managerKey = [m \in Managers |-> CHOOSE k \in CacheKeys : TRUE]
    /\ clearing = [m \in Managers |-> {}]
    /\ stored = 0 /\ listed = [m \in Managers |-> 0] /\ forgotten = 0 /\ shared = {}

Enter(m, place) == managerAt' = [managerAt EXCEPT ![m] = place]
Leave(m) == Enter(m, "idle")

Storing(k) == {m \in Managers : managerAt[m] \in {"write", "rename"} /\ managerKey[m] = k}

----------------------------------------------------------------------------
\* Put up to WriteFile, which empties the temporary file first
BeginPut(m, k) ==
    /\ managerAt[m] = "idle" /\ stored < MaxPuts /\ Enter(m, "write")
    /\ managerKey' = [managerKey EXCEPT ![m] = k]
    /\ temps' = [temps EXCEPT ![k] = Torn]
    /\ shared' = IF Storing(k) = {} THEN shared ELSE shared \cup {k}
    /\ UNCHANGED <<records, clearing, stored, listed, forgotten>>

\* Mutant: the record is written to its own file.
WriteRecordInPlace(m) ==
    /\ managerAt[m] = "write" /\ Enter(m, "rename")
    /\ records' = [records EXCEPT ![managerKey[m]] = Torn]
    /\ temps' = [temps EXCEPT ![managerKey[m]] = stored + 1]
    /\ UNCHANGED <<managerKey, clearing, stored, listed, forgotten, shared>>
\* Two that write at once leave it as it may be; a write that fails leaves a part.
WriteRecord(m) ==
    LET k == managerKey[m] IN
    /\ managerAt[m] = "write"
    /\ \/ Enter(m, "rename") /\ temps' = [temps EXCEPT ![k] = stored + 1]
       \/ Enter(m, "rename") /\ Storing(k) # {m} /\ UNCHANGED temps
       \/ Leave(m) /\ UNCHANGED temps
    /\ UNCHANGED <<records, managerKey, clearing, stored, listed, forgotten, shared>>

\* The rename fails when the other manager's took the file away.
RenameRecord(m) ==
    LET k == managerKey[m] IN
    /\ managerAt[m] = "rename" /\ Leave(m) /\ temps' = [temps EXCEPT ![k] = 0]
    /\ \/ /\ temps[k] # 0 /\ stored < MaxPuts /\ stored' = stored + 1
          /\ records' = [records EXCEPT ![k] = IF temps[k] = Torn THEN Torn ELSE stored + 1]
       \/ UNCHANGED <<records, stored>>
    /\ UNCHANGED <<managerKey, clearing, listed, forgotten, shared>>

\* Clear up to ReadDir: files that do not end in .json are left.
BeginClear(m) ==
    /\ managerAt[m] = "idle" /\ Enter(m, "clear")
    /\ clearing' = [clearing EXCEPT ![m] = {k \in CacheKeys : records[k] # 0}]
    /\ listed' = [listed EXCEPT ![m] = stored]
    /\ UNCHANGED <<records, temps, managerKey, stored, forgotten, shared>>
\* The first file that cannot be removed ends it, also one that is gone by now.
ClearOne(m, k) ==
    /\ managerAt[m] = "clear" /\ k \in clearing[m]
    /\ \/ /\ records[k] # 0 /\ records' = [records EXCEPT ![k] = 0]
          /\ clearing' = [clearing EXCEPT ![m] = @ \ {k}] /\ UNCHANGED managerAt
       \/ Leave(m) /\ clearing' = [clearing EXCEPT ![m] = {}] /\ UNCHANGED records
    /\ UNCHANGED <<temps, managerKey, stored, listed, forgotten, shared>>
\* Mutant: Clear answers that it is done while files are left.
Uncleared(m) == {}
LeftToClear(m) == clearing[m]
FinishClear(m) ==
    /\ managerAt[m] = "clear" /\ LeftToClear(m) = {} /\ Leave(m)
    /\ forgotten' = IF listed[m] > forgotten THEN listed[m] ELSE forgotten
    /\ clearing' = [clearing EXCEPT ![m] = {}]
    /\ UNCHANGED <<records, temps, managerKey, stored, listed, shared>>

\* The manager's process dies; another may take its place.
DieManager(m) ==
    /\ managerAt[m] # "idle" /\ Leave(m) /\ clearing' = [clearing EXCEPT ![m] = {}]
    /\ UNCHANGED <<records, temps, managerKey, stored, listed, forgotten, shared>>

CacheNext ==
    \E m \in Managers :
        \/ WriteRecord(m) \/ RenameRecord(m) \/ BeginClear(m) \/ FinishClear(m) \/ DieManager(m)
        \/ \E k \in CacheKeys : BeginPut(m, k) \/ ClearOne(m, k)

CacheSpec == CacheInit /\ [][CacheNext]_cacheVars

----------------------------------------------------------------------------
CacheTypeOK ==
    /\ records \in [CacheKeys -> 0..Torn] /\ temps \in [CacheKeys -> 0..Torn]
    /\ managerAt \in [Managers -> {"idle", "write", "rename", "clear"}]
    /\ managerKey \in [Managers -> CacheKeys] /\ clearing \in [Managers -> SUBSET CacheKeys]
    /\ stored \in 0..MaxPuts /\ listed \in [Managers -> 0..MaxPuts] /\ forgotten \in 0..MaxPuts
    /\ shared \subseteq CacheKeys

\* Types hold, and what Get finds is whole, whenever a process dies; but managers that store one request's
\* response at once share a temporary file and may leave a torn record for good.
RecordsWhole == CacheTypeOK /\ \A k \in CacheKeys : k \notin shared => records[k] # Torn

\* Once a Clear has succeeded Get answers nothing that was stored before it began.
ClearForgets == \A k \in CacheKeys : records[k] # 0 => records[k] > forgotten
=============================================================================
