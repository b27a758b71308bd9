------------------------------ MODULE FileStore ------------------------------
(***************************************************************************)
(* The adaptive store in a JSON file (core/storage/store_file.go): each    *)
(* store has the whole map in memory, changes it and then writes all of it *)
(* to a temporary file that takes the file's place.  Stores on one path do *)
(* not know of each other.  MemoryStore (store.go) is a store whose writes *)
(* are left out.                                                           *)
(***************************************************************************)
EXTENDS FiniteSets

CONSTANTS
    FileHandles,    \* the stores opened on the path
    Keys,           \* domain and identifier
    Fingerprints,   \* what is saved
    NoFingerprint, Half

VARIABLES
    disk,           \* the map in the file, empty when there is none
    values,         \* the map of each store
    storeAt,        \* where each store is: the lock of a store is held while it saves
    saving,         \* the key it saves
    acknowledged,   \* history: the value of each key's last save that succeeded
    failed,         \* history: the values of each key's saves since, which did not
    alone           \* history: has only one store been open at a time

fileVars == <<disk, values, storeAt, saving, acknowledged, failed, alone>>

ASSUME FileAssumption ==
    /\ Keys # {}
    /\ NoFingerprint \notin Fingerprints /\ Half \notin Fingerprints \cup {NoFingerprint}

Nothing == [k \in Keys |-> NoFingerprint]
HalfFile == [k \in Keys |-> Half]

FileInit ==
    /\ disk = Nothing
    /\ values = [h \in FileHandles |-> Nothing] /\ storeAt = [h \in FileHandles |-> "closed"]
    /\ saving = [h \in FileHandles |-> CHOOSE k \in Keys : TRUE]
    /\ acknowledged = Nothing /\ failed = [k \in Keys |-> {}] /\ alone = TRUE

----------------------------------------------------------------------------
\* NewFileStore: load
OpenFile(h) ==
    /\ storeAt[h] = "closed" /\ disk # HalfFile
    /\ values' = [values EXCEPT ![h] = disk] /\ storeAt' = [storeAt EXCEPT ![h] = "open"]
    /\ alone' = (alone /\ \A g \in FileHandles : storeAt[g] = "closed")
    /\ UNCHANGED <<disk, saving, acknowledged, failed>>

\* Save: the map is changed first, then writeLocked begins.
Save(h, k, v) ==
    /\ storeAt[h] = "open"
    /\ values' = [values EXCEPT ![h][k] = v]
    /\ storeAt' = [storeAt EXCEPT ![h] = "write"] /\ saving' = [saving EXCEPT ![h] = k]
    /\ UNCHANGED <<disk, acknowledged, failed, alone>>

Failed(h) == failed' = [failed EXCEPT ![saving[h]] = @ \cup {values[h][saving[h]]}]
SaveFails(h) ==
    /\ Failed(h) /\ storeAt' = [storeAt EXCEPT ![h] = "open"]
    /\ UNCHANGED <<disk, values, saving, acknowledged, alone>>

\* Mutant: the file itself is written.
WriteInPlace(h) ==
    /\ storeAt[h] = "write" /\ disk' = HalfFile /\ storeAt' = [storeAt EXCEPT ![h] = "rename"]
    /\ UNCHANGED <<values, saving, acknowledged, failed, alone>>
WriteTemp(h) ==
    /\ storeAt[h] = "write"
    /\ \/ storeAt' = [storeAt EXCEPT ![h] = "rename"]
          /\ UNCHANGED <<disk, values, saving, acknowledged, failed, alone>>
       \/ SaveFails(h)

Acknowledge(h) ==
    /\ acknowledged' = [acknowledged EXCEPT ![saving[h]] = values[h][saving[h]]]
    /\ failed' = [failed EXCEPT ![saving[h]] = {}]
    /\ storeAt' = [storeAt EXCEPT ![h] = "open"] /\ UNCHANGED <<values, saving, alone>>

\* Mutant: what the rename answers is not looked at.
RenameUnchecked(h) ==
    /\ storeAt[h] = "rename" /\ disk' \in {disk, values[h]} /\ Acknowledge(h)
RenameTemp(h) ==
    /\ storeAt[h] = "rename"
    /\ \/ disk' = values[h] /\ Acknowledge(h)
       \/ SaveFails(h)

\* The process ends, whatever the store does; a store has nothing to close.
Exit(h) ==
    /\ storeAt[h] # "closed" /\ storeAt' = [storeAt EXCEPT ![h] = "closed"]
    /\ values' = [values EXCEPT ![h] = Nothing]
    /\ IF storeAt[h] = "open" THEN UNCHANGED failed ELSE Failed(h)
    /\ UNCHANGED <<disk, saving, acknowledged, alone>>

FileNext ==
    \E h \in FileHandles :
        \/ OpenFile(h) \/ WriteTemp(h) \/ RenameTemp(h) \/ Exit(h)
        \/ \E k \in Keys, v \in Fingerprints : Save(h, k, v)

FileSpec == FileInit /\ [][FileNext]_fileVars

----------------------------------------------------------------------------
Maps == [Keys -> Fingerprints \cup {NoFingerprint}]
FileTypeOK ==
    /\ disk \in Maps \cup {HalfFile} /\ acknowledged \in Maps
    /\ values \in [FileHandles -> Maps]
    /\ storeAt \in [FileHandles -> {"closed", "open", "write", "rename"}]
    /\ saving \in [FileHandles -> Keys]
    /\ failed \in [Keys -> SUBSET Fingerprints]
    /\ alone \in BOOLEAN

\* Whenever a process dies, the path has nothing or a whole file: the next store opens.
FileWhole == disk # HalfFile

\* Of stores that are used one after the other: the file has the value of each key's last
\* save that succeeded, or that of a failed one since, which a later save of another key
\* has taken along; and a store answers nothing else than the file but what failed.
DivergesOnlyByFailedSaves ==
    alone => \A k \in Keys :
        /\ disk[k] = acknowledged[k] \/ disk[k] \in failed[k]
        /\ \A h \in FileHandles : storeAt[h] = "open" => values[h][k] \in {disk[k]} \cup failed[k]

\* Types hold, the file is whole, and a store and its file part only by saves that failed.
\* (NewFileStore, FileStore.Save, writeLocked)
FileSound == FileTypeOK /\ FileWhole /\ DivergesOnlyByFailedSaves
=============================================================================
