------------------------------ MODULE VersionedKV ------------------------------
(****************************************************************************)
(* The versioned key-value interface every backend implements, and the in-  *)
(* memory implementation of it (MemoryKVStore, which FileKVStore and the    *)
(* Redis adapter repeat).  A store is a function from keys to what Get      *)
(* returns; each operator is one call, made under the store's mutex, so a   *)
(* caller uses one of them per step.                                        *)
(****************************************************************************)
EXTENDS Integers

CONSTANTS Key,      \* the keys (object ids)
          Value,    \* the values a key can hold
          Empty     \* the empty string, the value of a default-made entry

\* What Get returns for a key that has no entry.
Absent == [exists |-> FALSE, version |-> 0, value |-> Empty]

Stored(value, version) == [exists |-> TRUE, version |-> version, value |-> value]

VersionedValue == [exists : BOOLEAN, version : Nat, value : Value]

\* Mutant of Put: the version stays.
PutSameVersion(store, k, value) ==
    [store EXCEPT ![k] = Stored(value, store[k].version)]

\* Put: the entry is made when missing, its version goes up by one.
Put(store, k, value) ==
    [store EXCEPT ![k] = Stored(value, store[k].version + 1)]

VersionIs(store, k, version) == store[k].version = version

\* PutIfVersion reads the entry with values_[key]: on a missing key a failed
\* call leaves a default-made entry behind, which then exists at version 0.
PutIfVersion(store, k, expected, value) ==
    IF VersionIs(store, k, expected)
    THEN Put(store, k, value)
    ELSE [store EXCEPT ![k].exists = TRUE]

\* DeleteIfVersion erases the entry, and its version with it.
DeleteIfVersion(store, k, expected) ==
    IF VersionIs(store, k, expected) THEN [store EXCEPT ![k] = Absent] ELSE store

\* checks is a function from the checked keys to the expected versions.
ChecksHold(store, checks) ==
    \A k \in DOMAIN checks : VersionIs(store, k, checks[k])

\* The writing half of BatchPutIfVersion, once every check has passed; a write
\* batch is a sequence of [key, value] whose keys are distinct.
WriteOp == [key : Key, value : Value]

KeysOf(writes) == {writes[i].key : i \in DOMAIN writes}

\* Mutant of BatchPut: the versions stay.
BatchPutSameVersions(store, writes) ==
    [k \in DOMAIN store |->
        IF k \in KeysOf(writes)
        THEN Stored(writes[CHOOSE j \in DOMAIN writes : writes[j].key = k].value, store[k].version)
        ELSE store[k]]

\* Mutant of BatchPut: only the first write is made.
BatchPutFirst(store, writes) ==
    [k \in DOMAIN store |->
        IF writes # <<>> /\ writes[1].key = k
        THEN Stored(writes[1].value, store[k].version + 1) ELSE store[k]]

BatchPut(store, writes) ==
    [k \in DOMAIN store |->
        IF k \in KeysOf(writes)
        THEN LET i == CHOOSE j \in DOMAIN writes : writes[j].key = k
             IN  Stored(writes[i].value, store[k].version + 1)
        ELSE store[k]]
================================================================================
