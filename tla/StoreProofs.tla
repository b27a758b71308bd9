---------------------------- MODULE StoreProofs ----------------------------
(***************************************************************************)
(* What is kept on disk: the JSON store and the cache of responses, whose  *)
(* files are written aside and renamed into place, and the SQLite store,   *)
(* for any number of stores or managers on them, of keys and of values.    *)
(***************************************************************************)
EXTENDS SqliteStore, FileStore, ResponseCache, TLAPS

----------------------------------------------------------------------------
(* The JSON store *)

Busy(h) == storeAt[h] \in {"write", "rename"}

\* A save in progress has something to save.
SavingSound == \A h \in FileHandles : Busy(h) => values[h][saving[h]] \in Fingerprints

\* While stores follow each other, at most one is open, and but for the key it is saving
\* it has what the file has, or what a failed save left it with.
AloneSound ==
    alone =>
        /\ \A g, h \in FileHandles : storeAt[g] # "closed" /\ storeAt[h] # "closed" => g = h
        /\ \A h \in FileHandles, k \in Keys : storeAt[h] # "closed" =>
              \/ values[h][k] \in {disk[k]} \cup failed[k]
              \/ Busy(h) /\ saving[h] = k
        /\ \A k \in Keys : disk[k] = acknowledged[k] \/ disk[k] \in failed[k]

FileInv == FileTypeOK /\ disk \in Maps /\ SavingSound /\ AloneSound

LEMMA FileAtStart == ASSUME FileInit PROVE FileInv
  <1>1. Nothing \in Maps
    BY DEF Nothing, Maps
  <1>2. saving \in [FileHandles -> Keys]
    <2>1. (CHOOSE k \in Keys : TRUE) \in Keys
      BY FileAssumption
    <2> QED
      BY <2>1 DEF FileInit
  <1> QED
    BY <1>1, <1>2 DEF FileInit, FileInv, FileTypeOK, SavingSound, AloneSound, Busy, Nothing

LEMMA OpenKeeps == ASSUME FileInv, NEW h \in FileHandles, OpenFile(h) PROVE FileInv'
  BY DEF OpenFile, FileInv, FileTypeOK, SavingSound, AloneSound, Busy

LEMMA SaveKeeps ==
    ASSUME FileInv, NEW h \in FileHandles, NEW k \in Keys, NEW v \in Fingerprints, Save(h, k, v)
    PROVE  FileInv'
  <1> USE DEF FileInv, FileTypeOK
  <1>1. values' \in [FileHandles -> Maps]
    BY DEF Save, Maps
  <1>2. FileTypeOK' /\ disk' \in Maps
    BY <1>1 DEF Save
  <1>3. /\ \A g \in FileHandles : g # h => values'[g] = values[g]
        /\ values'[h][k] = v /\ \A j \in Keys : j # k => values'[h][j] = values[h][j]
    BY DEF Save, Maps
  <1>4. SavingSound'
    BY <1>3 DEF Save, SavingSound, Busy
  <1>5. AloneSound'
    BY <1>3 DEF Save, AloneSound, Busy
  <1> QED
    BY <1>2, <1>4, <1>5

\* A save that fails is kept in the store and not in the file.
LEMMA FailureKeeps == ASSUME FileInv, NEW h \in FileHandles, Busy(h), SaveFails(h) PROVE FileInv'
  BY DEF SaveFails, Failed, FileInv, FileTypeOK, SavingSound, AloneSound, Busy, Maps

LEMMA WriteKeeps == ASSUME FileInv, NEW h \in FileHandles, WriteTemp(h) PROVE FileInv'
  <1>1. CASE SaveFails(h)
    BY <1>1, FailureKeeps DEF WriteTemp, Busy
  <1>2. CASE storeAt' = [storeAt EXCEPT ![h] = "rename"]
             /\ UNCHANGED <<disk, values, saving, acknowledged, failed, alone>>
    BY <1>2 DEF WriteTemp, FileInv, FileTypeOK, SavingSound, AloneSound, Busy
  <1> QED
    BY <1>1, <1>2 DEF WriteTemp

\* The file takes the store's map, with the failed saves of other keys in it.
LEMMA RenameKeeps == ASSUME FileInv, NEW h \in FileHandles, RenameTemp(h) PROVE FileInv'
  <1>1. CASE SaveFails(h)
    BY <1>1, FailureKeeps DEF RenameTemp, Busy
  <1>2. CASE disk' = values[h] /\ Acknowledge(h)
    <2> USE DEF FileInv, FileTypeOK, Acknowledge
    <2> DEFINE s == saving[h]
    <2>1. storeAt[h] = "rename" /\ s \in Keys /\ values[h] \in Maps
      BY <1>2 DEF RenameTemp
    <2>2. FileTypeOK' /\ disk' \in Maps
      BY <1>2, <2>1 DEF Maps
    <2>3. SavingSound'
      BY <1>2, <2>1 DEF SavingSound, Busy
    <2>4. ASSUME alone', NEW k \in Keys PROVE disk'[k] = acknowledged'[k] \/ disk'[k] \in failed'[k]
      <3>1. CASE k = s
        BY <1>2, <2>1, <3>1 DEF Maps
      <3>2. CASE k # s
        BY <1>2, <2>1, <2>4, <3>2 DEF AloneSound, Maps
      <3> QED
        BY <3>1, <3>2
    <2>5. ASSUME alone' PROVE \A f, g \in FileHandles :
                              storeAt'[f] # "closed" /\ storeAt'[g] # "closed" => f = g
      BY <1>2, <2>1, <2>5 DEF AloneSound
    <2>6. ASSUME alone', NEW g \in FileHandles, NEW k \in Keys, storeAt'[g] # "closed"
          PROVE  values'[g][k] \in {disk'[k]} \cup failed'[k]
      BY <1>2, <2>1, <2>6 DEF AloneSound
    <2>7. AloneSound'
      BY <2>4, <2>5, <2>6 DEF AloneSound
    <2> QED
      BY <2>2, <2>3, <2>7
  <1> QED
    BY <1>1, <1>2 DEF RenameTemp

\* A store that ends in the middle of a save has failed to save.
LEMMA ExitKeeps == ASSUME FileInv, NEW h \in FileHandles, Exit(h) PROVE FileInv'
  <1>1. Nothing \in Maps
    BY DEF Nothing, Maps
  <1>2. CASE storeAt[h] = "open"
    BY <1>1, <1>2 DEF Exit, FileInv, FileTypeOK, SavingSound, AloneSound, Busy
  <1>3. CASE Busy(h)
    <2> USE DEF FileInv, FileTypeOK
    <2>1. failed' \in [Keys -> SUBSET Fingerprints] /\ \A k \in Keys : failed[k] \subseteq failed'[k]
      BY <1>3 DEF Exit, Failed, SavingSound, Busy
    <2>2. FileTypeOK' /\ disk' \in Maps
      BY <1>1, <2>1 DEF Exit
    <2>3. \A g \in FileHandles : storeAt'[g] = IF g = h THEN "closed" ELSE storeAt[g]
      BY DEF Exit
    <2>4. SavingSound'
      BY <2>3 DEF Exit, SavingSound, Busy
    <2>5. AloneSound'
      BY <2>1, <2>3 DEF Exit, AloneSound
    <2> QED
      BY <2>2, <2>4, <2>5
  <1> QED
    BY <1>2, <1>3 DEF Exit, FileInv, FileTypeOK, Busy

LEMMA FileInvariant == FileSpec => []FileInv
  <1>1. FileInv /\ [FileNext]_fileVars => FileInv'
    <2>1. FileInv /\ UNCHANGED fileVars => FileInv'
      BY DEF FileInv, FileTypeOK, SavingSound, AloneSound, Busy, fileVars
    <2> QED
      BY <2>1, OpenKeeps, SaveKeeps, WriteKeeps, RenameKeeps, ExitKeeps DEF FileNext
  <1> QED
    BY <1>1, FileAtStart, PTL DEF FileSpec

\* Whatever stores are open on a path and whenever they die, the file is whole, and of
\* stores that follow each other each parts from it only by saves that failed.
\* (NewFileStore, FileStore.Save, writeLocked)
THEOREM FileAlwaysSound == FileSpec => []FileSound
  <1>1. FileInv => FileSound
    <2>1. HalfFile \notin Maps
      BY FileAssumption DEF HalfFile, Maps
    <2> QED
      BY <2>1 DEF FileInv, FileSound, FileWhole, DivergesOnlyByFailedSaves, AloneSound, Busy
  <1> QED
    BY <1>1, FileInvariant, PTL

----------------------------------------------------------------------------
(* The cache of responses *)

\* A key that is not shared has one temporary file and one manager that writes it, and what
\* that manager is about to rename was written after fewer stores than there are by now.
AtRename(m) == temps[managerKey[m]] <= stored + 1
UnsharedSound ==
    /\ \A k \in CacheKeys \ shared : \A m, n \in Storing(k) : m = n
    /\ \A m \in Managers : managerAt[m] = "rename" /\ managerKey[m] \notin shared => AtRename(m)
    /\ \A k \in CacheKeys \ shared : records[k] # Torn

\* What a Clear has listed is older than what is stored next; what it has not, or has
\* removed, was stored after it began.
ClearSound ==
    /\ forgotten <= stored /\ \A m \in Managers : listed[m] <= stored
    /\ \A k \in CacheKeys : records[k] <= stored \/ records[k] = Torn
    /\ \A k \in CacheKeys : records[k] # 0 => records[k] > forgotten
    /\ \A m \in Managers : managerAt[m] = "clear" =>
          \A k \in CacheKeys \ clearing[m] : records[k] # 0 => records[k] > listed[m]

CacheInv == CacheTypeOK /\ UnsharedSound /\ ClearSound

LEMMA CacheAtStart == ASSUME CacheInit PROVE CacheInv
  <1>1. managerKey \in [Managers -> CacheKeys]
    <2>1. (CHOOSE k \in CacheKeys : TRUE) \in CacheKeys
      BY CacheAssumption
    <2> QED
      BY <2>1 DEF CacheInit
  <1>2. CacheTypeOK
    BY <1>1, CacheAssumption DEF CacheInit, CacheTypeOK, Torn
  <1>3. UnsharedSound
    BY <1>1, CacheAssumption DEF CacheInit, UnsharedSound, Storing, AtRename, Torn
  <1>4. ClearSound
    BY CacheAssumption DEF CacheInit, ClearSound
  <1> QED
    BY <1>2, <1>3, <1>4 DEF CacheInv

LEMMA PutBegins ==
    ASSUME CacheInv, NEW m \in Managers, NEW k \in CacheKeys, BeginPut(m, k)
    PROVE  CacheInv'
  <1> USE CacheAssumption DEF CacheInv, CacheTypeOK, BeginPut, Enter
  <1>1. CacheTypeOK'
    BY DEF Torn
  <1>2. /\ \A n \in Managers : managerAt'[n] = IF n = m THEN "write" ELSE managerAt[n]
        /\ \A n \in Managers : managerKey'[n] = IF n = m THEN k ELSE managerKey[n]
        /\ \A j \in CacheKeys : j # k => temps'[j] = temps[j]
    OBVIOUS
  <1>3. shared \subseteq shared' /\ (k \notin shared' => Storing(k) = {})
    OBVIOUS
  <1>4. \A j \in CacheKeys : Storing(j)' = IF j = k THEN Storing(j) \cup {m} ELSE Storing(j)
    BY <1>2 DEF Storing
  <1>5. \A n \in Managers : managerAt'[n] = "rename" /\ managerKey'[n] \notin shared' =>
            managerAt[n] = "rename" /\ managerKey'[n] = managerKey[n] /\ managerKey[n] # k
    BY <1>2, <1>3 DEF Storing
  <1>6. UnsharedSound'
    BY <1>2, <1>3, <1>4, <1>5 DEF UnsharedSound, AtRename, Torn
  <1>7. ClearSound'
    BY <1>2 DEF ClearSound, Torn
  <1> QED
    BY <1>1, <1>6, <1>7

LEMMA RecordWritten == ASSUME CacheInv, NEW m \in Managers, WriteRecord(m) PROVE CacheInv'
  <1> DEFINE k == managerKey[m]
  <1> USE CacheAssumption DEF CacheInv, CacheTypeOK
  <1>1. /\ managerAt[m] = "write" /\ k \in CacheKeys /\ m \in Storing(k)
        /\ UNCHANGED <<records, managerKey, clearing, stored, listed, forgotten, shared>>
        /\ temps' \in {temps, [temps EXCEPT ![k] = stored + 1]}
        /\ managerAt' \in {[managerAt EXCEPT ![m] = "rename"], [managerAt EXCEPT ![m] = "idle"]}
    BY DEF WriteRecord, Enter, Leave, Storing
  <1>2. CacheTypeOK'
    BY <1>1 DEF Torn
  <1>3. \A j \in CacheKeys : Storing(j)' \subseteq Storing(j)
    BY <1>1 DEF Storing
  <1>4. ASSUME NEW n \in Managers, managerAt'[n] = "rename", managerKey'[n] \notin shared'
        PROVE  AtRename(n)'
    <2>1. CASE n = m
      <3>1. Storing(k) = {m}
        BY <1>1, <1>4, <2>1 DEF UnsharedSound
      <3>2. temps' = [temps EXCEPT ![k] = stored + 1]
        BY <1>4, <2>1, <3>1 DEF WriteRecord, Enter, Leave
      <3> QED
        BY <1>1, <2>1, <3>2 DEF AtRename, Torn
    <2>2. CASE n # m
      <3>1. n \in Storing(managerKey[n]) /\ managerAt[n] = "rename" /\ managerKey[n] # k
        BY <1>1, <1>4, <2>2 DEF Storing, UnsharedSound
      <3> QED
        BY <1>1, <1>4, <3>1 DEF UnsharedSound, AtRename
    <2> QED
      BY <2>1, <2>2
  <1>5. UnsharedSound'
    BY <1>1, <1>3, <1>4 DEF UnsharedSound, Torn
  <1>6. ClearSound'
    BY <1>1 DEF ClearSound, Torn
  <1> QED
    BY <1>2, <1>5, <1>6

LEMMA RecordRenamed == ASSUME CacheInv, NEW m \in Managers, RenameRecord(m) PROVE CacheInv'
  <1> DEFINE k == managerKey[m]
  <1> USE CacheAssumption DEF CacheInv, CacheTypeOK
  <1>1. /\ managerAt[m] = "rename" /\ k \in CacheKeys /\ m \in Storing(k)
        /\ UNCHANGED <<managerKey, clearing, listed, forgotten, shared>>
        /\ temps' = [temps EXCEPT ![k] = 0] /\ managerAt' = [managerAt EXCEPT ![m] = "idle"]
    BY DEF RenameRecord, Enter, Leave, Storing
  <1>2. \A j \in CacheKeys : Storing(j)' \subseteq Storing(j)
    BY <1>1 DEF Storing
  <1>3. \A n \in Managers : managerAt'[n] = "rename" /\ managerKey'[n] \notin shared' =>
            n # m /\ managerAt[n] = "rename" /\ managerKey[n] # k
    <2>1. \A n \in Managers : managerAt[n] = "rename" => n \in Storing(managerKey[n])
      BY DEF Storing
    <2> QED
      BY <1>1, <2>1 DEF UnsharedSound
  <1>4. CASE UNCHANGED <<records, stored>>
    <2>1. CacheTypeOK'
      BY <1>1, <1>4 DEF Torn
    <2>2. UnsharedSound'
      BY <1>1, <1>2, <1>3, <1>4 DEF UnsharedSound, AtRename, Torn
    <2>3. ClearSound'
      BY <1>1, <1>4 DEF ClearSound, Torn
    <2> QED
      BY <2>1, <2>2, <2>3
  <1>5. CASE /\ temps[k] # 0 /\ stored < MaxPuts /\ stored' = stored + 1
             /\ records' = [records EXCEPT ![k] = IF temps[k] = Torn THEN Torn ELSE stored + 1]
    <2>1. CacheTypeOK'
      BY <1>1, <1>5 DEF Torn
    <2>2. k \notin shared => records'[k] # Torn
      BY <1>1, <1>5 DEF UnsharedSound, AtRename, Torn
    <2>3. UnsharedSound'
      BY <1>1, <1>2, <1>3, <1>5, <2>2 DEF UnsharedSound, AtRename, Torn
    <2>4. records'[k] > stored /\ (records'[k] = stored' \/ records'[k] = Torn)
      BY <1>1, <1>5 DEF Torn
    <2>5. ClearSound'
      BY <1>1, <1>5, <2>4 DEF ClearSound
    <2> QED
      BY <2>1, <2>3, <2>5
  <1> QED
    BY <1>4, <1>5 DEF RenameRecord

\* What a Clear does not list is not there.
LEMMA ClearBegins == ASSUME CacheInv, NEW m \in Managers, BeginClear(m) PROVE CacheInv'
  BY DEF BeginClear, Enter, CacheInv, CacheTypeOK, UnsharedSound, Storing, AtRename, ClearSound, Torn

LEMMA OneCleared ==
    ASSUME CacheInv, NEW m \in Managers, NEW k \in CacheKeys, ClearOne(m, k)
    PROVE  CacheInv'
  <1> USE CacheAssumption DEF CacheInv, CacheTypeOK, ClearOne, Enter, Leave
  <1>1. CacheTypeOK'
    BY DEF Torn
  <1>2. UnsharedSound'
    BY DEF UnsharedSound, Storing, AtRename, Torn
  <1>3. ClearSound'
    BY DEF ClearSound, Torn
  <1> QED
    BY <1>1, <1>2, <1>3

LEMMA ClearFinishes == ASSUME CacheInv, NEW m \in Managers, FinishClear(m) PROVE CacheInv'
  <1> USE CacheAssumption DEF CacheInv, CacheTypeOK, FinishClear, LeftToClear, Enter, Leave
  <1>1. CacheTypeOK'
    BY DEF Torn
  <1>2. UnsharedSound'
    BY DEF UnsharedSound, Storing, AtRename, Torn
  <1>3. ClearSound'
    BY DEF ClearSound, Torn
  <1> QED
    BY <1>1, <1>2, <1>3

LEMMA ManagerDies == ASSUME CacheInv, NEW m \in Managers, DieManager(m) PROVE CacheInv'
  <1> USE CacheAssumption DEF CacheInv, CacheTypeOK, DieManager, Enter, Leave
  <1>1. CacheTypeOK'
    BY DEF Torn
  <1>2. UnsharedSound'
    BY DEF UnsharedSound, Storing, AtRename, Torn
  <1>3. ClearSound'
    BY DEF ClearSound, Torn
  <1> QED
    BY <1>1, <1>2, <1>3

LEMMA CacheInvariant == CacheSpec => []CacheInv
  <1>1. CacheInv /\ [CacheNext]_cacheVars => CacheInv'
    <2>1. CacheInv /\ UNCHANGED cacheVars => CacheInv'
      BY DEF CacheInv, CacheTypeOK, UnsharedSound, Storing, AtRename, ClearSound, Torn, cacheVars
    <2> QED
      BY <2>1, PutBegins, RecordWritten, RecordRenamed, ClearBegins, OneCleared, ClearFinishes,
         ManagerDies DEF CacheNext
  <1> QED
    BY <1>1, CacheAtStart, PTL DEF CacheSpec

\* Whatever managers store, clear and die on a directory, a record is whole unless two of
\* them stored one request's response at once.
\* (ResponseCacheManager.Put)
THEOREM RecordsAlwaysWhole == CacheSpec => []RecordsWhole
  <1>1. CacheInv => RecordsWhole
    BY DEF CacheInv, UnsharedSound, RecordsWhole
  <1> QED
    BY <1>1, CacheInvariant, PTL

\* A Clear that has succeeded has removed everything that was stored before it began, also
\* if other managers stored and cleared meanwhile.
\* (ResponseCacheManager.Clear)
THEOREM ClearAlwaysForgets == CacheSpec => []ClearForgets
  <1>1. CacheInv => ClearForgets
    BY DEF CacheInv, ClearSound, ClearForgets
  <1> QED
    BY <1>1, CacheInvariant, PTL

----------------------------------------------------------------------------
(* The SQLite store: opens that do not know of each other, and uses. *)

\* What each open knows of the file: its journal mode, once the first PRAGMA has run; that
\* a version read is still there, unless it was none; that a stamp follows the table.
Switched == {"version", "table", "create", "stamp", "open", "refused"}
Known ==
    /\ \A h \in Handles : at[h] \in Switched => file.wal
    /\ given \in Files /\ (Ours(given) \/ Unsupported(given))
    /\ Unsupported(given) =>
          \A h \in Handles : at[h] = "table" => version[h] = given.version
    /\ Ours(given) =>
          /\ file.version \in {0, sqliteStoreSchemaVersion}
          /\ \A h \in Handles :
                /\ version[h] = 0 \/ version[h] = file.version
                /\ at[h] = "stamp" => file.table

StoreInv == StoreTypeOK /\ Known /\ SchemaSound /\ UnsupportedKept /\ NoUseAfterClose

LEMMA StoreInit == ASSUME Init PROVE StoreInv
  BY StoreAssumption DEF Init, StoreInv, StoreTypeOK, Known, SchemaSound, UnsupportedKept, NoUseAfterClose,
         Ours, Unsupported, Files, Places, Switched, sqliteStoreSchemaVersion, OtherVersion

\* Files that differ in the journal mode at most do not once it is switched.
LEMMA Switching ==
    ASSUME NEW f \in Files, NEW g \in Files, f = [g EXCEPT !.wal = f.wal]
    PROVE  [f EXCEPT !.wal = TRUE] = [g EXCEPT !.wal = TRUE]
  BY DEF Files

\* The opens.
LEMMA OpenPreserves ==
    ASSUME StoreInv, NEW h \in Handles, OpenStep(h), UNCHANGED <<given, use>>
    PROVE  StoreInv'
  <1> USE StoreAssumption
  <1> USE DEF StoreInv, StoreTypeOK, Known, SchemaSound, UnsupportedKept, NoUseAfterClose,
              Ours, Unsupported, Files, Places, Switched, sqliteStoreSchemaVersion, OtherVersion, Go
  <1>0. file = [version |-> file.version, table |-> file.table, wal |-> file.wal]
    OBVIOUS
  <1>1. CASE Connect(h)
    <2>1. /\ file' = [version |-> file.version, table |-> file.table, wal |-> TRUE]
          /\ at[h] = "new" /\ at' = [at EXCEPT ![h] = "version"]
          /\ UNCHANGED <<version, closed, given, use>>
      BY <1>0, <1>1 DEF Connect
    <2>2. /\ file' \in Files /\ file'.version = file.version /\ file'.table = file.table /\ file'.wal
          /\ \A g \in Handles : at'[g] = IF g = h THEN "version" ELSE at[g]
      BY <2>1
    <2>3. StoreTypeOK' /\ NoUseAfterClose'
      BY <2>1, <2>2
    <2>4. Known'
      BY <2>1, <2>2
    <2>5. SchemaSound'
      BY <2>1, <2>2
    <2>6. UnsupportedKept'
      <3>1. Unsupported(given) => file = [given EXCEPT !.wal = file.wal]
        OBVIOUS
      <3>2. Unsupported(given) => file' = [given EXCEPT !.wal = TRUE]
        BY <1>1, <3>1, Switching DEF Connect
      <3>3. at'[h] # "new"
        BY <2>2
      <3>4. Unsupported(given) => \A g \in Handles : at'[g] \notin {"create", "stamp", "open"}
        BY <2>2
      <3> QED
        BY <2>1, <2>2, <3>2, <3>3, <3>4
    <2> QED
      BY <2>3, <2>4, <2>5, <2>6
  <1>2. CASE ReadVersion(h)
    BY <1>2 DEF ReadVersion
  <1>3. CASE ReadTable(h)
    BY <1>3 DEF ReadTable, Accepts
  <1>4. CASE CreateTable(h)
    <2>1. Ours(given) /\ ~Unsupported(given) /\ at[h] = "create"
      BY <1>4 DEF CreateTable
    <2>2. /\ file' = [version |-> file.version, table |-> TRUE, wal |-> TRUE]
          /\ file'.version = file.version /\ file'.table /\ file'.wal /\ file' \in Files
          /\ at' = [at EXCEPT ![h] = IF version[h] = 0 THEN "stamp" ELSE "open"]
          /\ UNCHANGED <<version, closed, given, use>>
      BY <1>0, <1>4 DEF CreateTable
    <2>3. version[h] # 0 => file' = [version |-> sqliteStoreSchemaVersion, table |-> TRUE, wal |-> TRUE]
      BY <2>1, <2>2
    <2>4. StoreTypeOK' /\ NoUseAfterClose'
      BY <2>1, <2>2
    <2>5. Known'
      BY <2>1, <2>2
    <2>6. SchemaSound'
      <3>1. ASSUME NEW g \in Handles, g # h, at'[g] = "open"
            PROVE  file' = [version |-> sqliteStoreSchemaVersion, table |-> TRUE, wal |-> TRUE]
        <4>1. at[g] = "open"
          BY <2>2, <3>1
        <4>2. file.version = sqliteStoreSchemaVersion
          BY <4>1
        <4> QED
          BY <2>2, <4>2
      <3>2. at'[h] = "open" => version[h] # 0
        BY <2>2
      <3> QED
        BY <2>2, <2>3, <3>1, <3>2
    <2> QED
      BY <2>1, <2>2, <2>4, <2>5, <2>6
  <1>5. CASE StampVersion(h)
    BY <1>5, ZenonT(40) DEF StampVersion
  <1>6. CASE FailOpen(h)
    BY <1>6 DEF FailOpen
  <1>7. CASE Close(h)
    BY <1>7 DEF Close, Readers
  <1> QED
    BY <1>1, <1>2, <1>3, <1>4, <1>5, <1>6, <1>7 DEF OpenStep

\* A process that dies, and the uses of a store.
LEMMA UsePreserves ==
    ASSUME StoreInv,
           \/ \E h \in Handles : Die(h)
           \/ \E u \in Uses : UseStep(u) /\ UNCHANGED <<file, given, at, version, closed>>
    PROVE  StoreInv'
  <1> USE StoreAssumption
  <1> USE DEF StoreInv, StoreTypeOK, Known, SchemaSound, UnsupportedKept, NoUseAfterClose, Places, Switched
  <1>1. ASSUME NEW h \in Handles, Die(h) PROVE StoreInv'
    BY <1>1 DEF Die
  <1>2. ASSUME NEW u \in Uses, UseStep(u), UNCHANGED <<file, given, at, version, closed>> PROVE StoreInv'
    BY <1>2 DEF UseStep, Lock, CheckClosed, Execute
  <1> QED
    BY <1>1, <1>2

LEMMA StoreInvariant == Spec => []StoreInv
  <1>1. StoreInv /\ [Next]_vars => StoreInv'
    <2>1. StoreInv /\ UNCHANGED vars => StoreInv'
      BY DEF StoreInv, StoreTypeOK, Known, SchemaSound, UnsupportedKept, NoUseAfterClose, vars
    <2> QED
      BY <2>1, OpenPreserves, UsePreserves DEF Next
  <1> QED
    BY <1>1, StoreInit, PTL DEF Spec

\* Every variable keeps its type; only stores that were opened are used or closed.
THEOREM StoreTypeCorrect == Spec => []StoreTypeOK
  <1>1. StoreInv => StoreTypeOK
    BY DEF StoreInv
  <1> QED
    BY <1>1, StoreInvariant, PTL

\* A file that carries the version has the table, and every open store has both.
THEOREM SchemaAlwaysSound == Spec => []SchemaSound
  <1>1. StoreInv => SchemaSound
    BY DEF StoreInv
  <1> QED
    BY <1>1, StoreInvariant, PTL

\* A file of another schema is never opened and keeps its version and tables: the one
\* change of it is the journal mode, by an open that goes on to refuse it.
\* (setup)
THEOREM OtherFilesKept == Spec => []UnsupportedKept
  <1>1. StoreInv => UnsupportedKept
    BY DEF StoreInv
  <1> QED
    BY <1>1, StoreInvariant, PTL

\* Close waits for the statements in progress and no statement begins after it.
THEOREM ClosedStoresUnused == Spec => []NoUseAfterClose
  <1>1. StoreInv => NoUseAfterClose
    BY DEF StoreInv
  <1> QED
    BY <1>1, StoreInvariant, PTL

\* The file and the open stores are sound, and closed stores are not used.
\* (NewSQLiteStore, setup, Close)
THEOREM StoreAlwaysSound == Spec => []StoreSound
  BY StoreTypeCorrect, SchemaAlwaysSound, ClosedStoresUnused, PTL DEF StoreSound
============================================================================
