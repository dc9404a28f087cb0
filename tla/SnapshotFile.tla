------------------------------ MODULE SnapshotFile ------------------------------
(****************************************************************************)
(* FileKVStore: the versioned store kept in one snapshot file.  Every       *)
(* change is made in memory and then written out whole: a journal marks     *)
(* that a replacement is under way, the new snapshot goes to a temporary    *)
(* file, a rename puts it in place and the journal is removed.  The next    *)
(* process first finishes or cleans up a replacement it finds interrupted.  *)
(*                                                                          *)
(* The store's mutex is held through all of it, so calls do not interleave; *)
(* but the process may crash before any step, and any of the file           *)
(* operations may fail, which makes the call return false.                  *)
(*                                                                          *)
(* A file holds lines, one per key.  A file that is still being written     *)
(* holds some of its lines; lines are taken to be written whole.            *)
(****************************************************************************)
EXTENDS Integers, FiniteSets

CONSTANTS Key, Value, Empty,
          PutValues,   \* the values that callers write
          MaxVersion,  \* bound: a key is changed up to this version
          MaxCrashes,  \* bound: crashes
          MaxFailures  \* bound: file operations that fail

INSTANCE VersionedKV

ASSUME ValueAssumption == Empty \in Value /\ PutValues \subseteq Value

VARIABLES values,   \* the map in memory, as what Get returns
          path,     \* the snapshot file
          temp,     \* the temporary file
          journal,  \* the journal file exists
          pc,       \* the next file operation, "idle" between calls, or "down"
          acked,    \* history: the values when a call last returned true
          pending,  \* history: the values calls have tried to write since then
          changed,  \* history: the keys those calls change
          torn,     \* history: a half-written temporary file was left to a recovery
          short,    \* history: a recovery or a load has failed
          crashes, failures

disk == <<path, temp, journal>>
damage == <<torn, short>>
history == <<acked, pending, changed>>
bounds == <<crashes, failures>>
vars == <<values, disk, pc, history, damage, bounds>>

Nothing == [k \in Key |-> Absent]

\* A file: does not exist, or has some lines, and all of them if whole.
NoFile == [exists |-> FALSE, lines |-> Nothing, whole |-> FALSE]
FileWith(lines, whole) == [exists |-> TRUE, lines |-> lines, whole |-> whole]

\* Mutant of Keep: the keys that are left out are lost from the map's domain.
KeepOnly(map, keys) == [k \in keys |-> map[k]]

Keep(map, keys) == [k \in Key |-> IF k \in keys THEN map[k] ELSE Absent]
Present(map) == {k \in Key : map[k].exists}

Init ==
    /\ values = Nothing
    /\ path = NoFile /\ temp = NoFile /\ journal = FALSE
    /\ pc = "idle"
    /\ acked = Nothing /\ pending = {} /\ changed = {}
    /\ torn = FALSE /\ short = FALSE
    /\ crashes = 0 /\ failures = 0

--------------------------------------------------------------------------------
(* Calls: the change in memory, and the start of PersistToDisk.              *)

Persist(map, keys) ==
    /\ pc = "idle"
    /\ values' = map
    /\ pending' = pending \cup {map}
    /\ changed' = changed \cup keys
    /\ pc' = "writeJournal"
    /\ UNCHANGED <<disk, acked, damage, bounds>>

CallPut(k, v) ==
    /\ values[k].version < MaxVersion
    /\ Persist(Put(values, k, v), {k})

\* PutIfVersion with the wrong version writes nothing, but leaves an entry.
CallPutIfVersion(k, expected, v) ==
    /\ values[k].version < MaxVersion
    /\ \/ VersionIs(values, k, expected) /\ Persist(PutIfVersion(values, k, expected, v), {k})
       \/ /\ ~VersionIs(values, k, expected) /\ pc = "idle"
          /\ values' = PutIfVersion(values, k, expected, v)
          /\ UNCHANGED <<disk, pc, history, damage, bounds>>

CallDeleteIfVersion(k, expected) ==
    /\ VersionIs(values, k, expected)
    /\ Persist(DeleteIfVersion(values, k, expected), {k})

\* A batch that writes v to all the given keys at once.
CallBatch(keys, v) ==
    /\ \A k \in keys : values[k].version < MaxVersion
    /\ Persist([k \in Key |-> IF k \in keys THEN Stored(v, values[k].version + 1) ELSE values[k]],
               keys)

--------------------------------------------------------------------------------
(* PersistToDisk.                                                            *)

Step(from, to) == pc = from /\ pc' = to

\* A file operation fails: the call returns false, and everything written so
\* far stays, the change in memory too.
Fail ==
    /\ pc \in {"writeJournal", "openTemp", "fillTemp", "rename", "removeJournal"}
    /\ failures < MaxFailures
    /\ failures' = failures + 1
    /\ pc' = "idle"
    /\ UNCHANGED <<values, disk, history, damage, crashes>>

WriteJournal ==
    /\ Step("writeJournal", "openTemp")
    /\ journal' = TRUE
    /\ UNCHANGED <<values, path, temp, history, damage, bounds>>

\* Opening the temporary file empties it.
OpenTemp ==
    /\ Step("openTemp", "fillTemp")
    /\ temp' = FileWith(Nothing, Present(values) = {})
    /\ UNCHANGED <<values, path, journal, history, damage, bounds>>

WriteSomeLines(keys) ==
    /\ pc = "fillTemp"
    /\ temp' = FileWith(Keep(values, keys), FALSE)
    /\ UNCHANGED <<values, path, journal, pc, history, damage, bounds>>

\* Mutant of FillTemp: the rename follows whatever was written.
FillTempUnchecked ==
    /\ Step("fillTemp", "rename")
    /\ UNCHANGED <<values, disk, history, damage, bounds>>

FillTemp ==
    /\ Step("fillTemp", "rename")
    /\ temp' = FileWith(values, TRUE)
    /\ UNCHANGED <<values, path, journal, history, damage, bounds>>

RenameTemp ==
    /\ Step("rename", "removeJournal")
    /\ path' = temp
    /\ temp' = NoFile
    /\ UNCHANGED <<values, journal, history, damage, bounds>>

\* The call returns true.
RemoveJournal ==
    /\ Step("removeJournal", "idle")
    /\ journal' = FALSE
    /\ acked' = values
    /\ pending' = {} /\ changed' = {}
    /\ UNCHANGED <<values, path, temp, damage, bounds>>

--------------------------------------------------------------------------------
(* Crash, Reload, RecoverIfNeeded and LoadFromDisk.                          *)

LeftTorn == torn' = (torn \/ (temp.exists /\ ~temp.whole))

Crash ==
    /\ pc # "down" /\ crashes < MaxCrashes
    /\ crashes' = crashes + 1
    /\ pc' = "down"
    /\ values' = Nothing
    /\ LeftTorn
    /\ UNCHANGED <<disk, history, short, failures>>

\* A live store is emptied and loaded again, through the same recovery.
Reload ==
    /\ Step("idle", "recoverTemp")
    /\ values' = Nothing
    /\ LeftTorn
    /\ UNCHANGED <<disk, history, short, bounds>>

\* Mutant of RecoveredPath: a journal alone is taken for an unfinished rename.
RecoveredPathByJournal == IF journal THEN temp ELSE path

RecoveredPath == IF journal /\ temp.exists THEN temp ELSE path

\* A temporary file next to a journal is put in place; one without is removed.
RecoverTemp ==
    /\ pc \in {"down", "recoverTemp"} /\ pc' = "recoverJournal"
    /\ path' = RecoveredPath
    /\ temp' = NoFile
    /\ UNCHANGED <<values, journal, history, damage, bounds>>

RecoverJournal ==
    /\ Step("recoverJournal", "load")
    /\ journal' = FALSE
    /\ UNCHANGED <<values, path, temp, history, damage, bounds>>

\* The rename or a removal fails: nothing is loaded.  The constructor does not
\* look at the result, so the store is in use, and empty.
RecoverFails ==
    /\ \/ pc \in {"down", "recoverTemp"} /\ temp.exists
       \/ pc = "recoverJournal" /\ journal
    /\ failures < MaxFailures
    /\ failures' = failures + 1
    /\ short' = TRUE
    /\ pc' = "idle"
    /\ UNCHANGED <<values, disk, history, torn, crashes>>

\* Loading stops at a line whose value is empty, since no third field can be
\* read from it; the lines before it, in the hash map's order, are loaded.
Stopping == {k \in Present(path.lines) : path.lines[k].value = Empty}

Loads(keys) ==
    IF Stopping = {} THEN keys = Present(path.lines)
    ELSE keys \subseteq Present(path.lines) \ Stopping

Load(keys) ==
    /\ Step("load", "idle")
    /\ Loads(keys)
    /\ values' = Keep(path.lines, keys)
    /\ short' = (short \/ Stopping # {})
    /\ UNCHANGED <<disk, history, torn, bounds>>

Next ==
    \/ \E k \in Key, v \in PutValues : CallPut(k, v)
    \/ \E k \in Key, v \in PutValues, n \in 0 .. MaxVersion : CallPutIfVersion(k, n, v)
    \/ \E k \in Key, n \in 0 .. MaxVersion : CallDeleteIfVersion(k, n)
    \/ \E keys \in SUBSET Key, v \in PutValues : CallBatch(keys, v)
    \/ WriteJournal \/ OpenTemp \/ FillTemp \/ RenameTemp \/ RemoveJournal \/ Fail
    \/ \E keys \in SUBSET Key : WriteSomeLines(keys) \/ Load(keys)
    \/ Crash \/ Reload \/ RecoverTemp \/ RecoverJournal \/ RecoverFails

Spec == Init /\ [][Next]_vars

--------------------------------------------------------------------------------

\* Memory and files are what the code's types say.
TypeOK ==
    /\ \A map \in {values, path.lines, temp.lines, acked} : map \in [Key -> VersionedValue]
    /\ \A file \in {path, temp} : file.exists \in BOOLEAN /\ file.whole \in BOOLEAN
    /\ journal \in BOOLEAN

\* What a new process loads is what the last call that returned true had
\* written, or what a later call was writing: never less, never a mixture.
\* (Entries that no write has filled do not count.)
Written(map) == Keep(map, {k \in Key : map[k].version > 0})
Restored == Written(values') \in {Written(map) : map \in {acked} \cup pending}

Loaded == pc = "load" /\ pc' = "idle"

\* So it is, at a start and at a Reload, unless a half-written temporary file was
\* left behind or a line of the snapshot cannot be parsed back.
RestoresAWrite == [][(Loaded /\ ~torn /\ Stopping = {}) => Restored]_vars

\* So it is whenever the process crashed: the journal and the temporary file
\* let the restart finish or clean up the interrupted replacement.
SurvivesCrash == [][(Loaded /\ Stopping = {}) => Restored]_vars

\* A call that returns true has not undone an earlier one: on every key that no
\* call has tried to change since, the store is as it was acknowledged last,
\* through any crashes, failed calls and reloads - unless a recovery or a load
\* failed, after which the next call makes what is missing permanent.
KeepsAcknowledged ==
    [][(acked' # acked /\ ~torn /\ ~short) =>
        \A k \in Key \ changed : Written(acked')[k] = Written(acked)[k]]_vars

\* While nothing stopped in the middle of a temporary file, what is in place is
\* a whole snapshot at every moment, so a reader of the file never meets part
\* of a change: neither one write of a batch without the others nor fewer keys.
SnapshotIsWhole ==
    ~torn => (path.exists => path.whole /\ path.lines \in {acked} \cup pending)
=================================================================================
