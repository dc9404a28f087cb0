----------------------------- MODULE SnapshotProofs -----------------------------
(****************************************************************************)
(* SnapshotFile for any keys and values, any number of calls, crashes and   *)
(* failing file operations: what is in place is a whole snapshot, a load    *)
(* restores a write, and an acknowledged write is kept.                     *)
(****************************************************************************)
EXTENDS SnapshotFile, TLAPS

Map == [Key -> VersionedValue]

\* The maps the store keeps: a key without an entry has no version.
ProperMap == {m \in Map : \A k \in Key : m[k].exists \/ m[k] = Absent}

File == [exists : BOOLEAN, lines : ProperMap, whole : BOOLEAN]

Persisting == {"writeJournal", "openTemp", "fillTemp", "rename", "removeJournal"}
Recovering == {"down", "recoverTemp"}
Labels == Persisting \cup Recovering \cup {"idle", "recoverJournal", "load"}

TypeInv ==
    /\ values \in ProperMap /\ acked \in ProperMap /\ pending \subseteq ProperMap
    /\ path \in File /\ temp \in File /\ journal \in BOOLEAN
    /\ pc \in Labels
    /\ changed \subseteq Key
    /\ torn \in BOOLEAN /\ short \in BOOLEAN

\* The last acknowledged map, and those that calls have tried to write since.
Legitimate == {acked} \cup pending

\* A call that is writing has announced its map; the temporary file is all of
\* it when it is renamed, and the snapshot is when the call returns.
CallInv ==
    /\ pc \in Persisting => values \in pending
    /\ pc = "rename" => temp = FileWith(values, TRUE)
    /\ pc = "removeJournal" => temp = NoFile /\ path = FileWith(values, TRUE)

\* The files: what is whole was tried or acknowledged, and only a file that
\* was left half-written, which `torn` records, is anything else.
DiskInv ==
    /\ temp.exists /\ temp.whole => temp.lines \in Legitimate
    /\ (pc \in Recovering /\ temp.exists /\ ~torn) => temp.whole
    /\ ~torn => (path.exists => path.whole) /\ path.lines \in Legitimate

\* On a key that no call has tried to change since the last acknowledgement,
\* every map that may be restored, and the one in memory, is as acknowledged.
Same(m, n, k) == Written(m)[k] = Written(n)[k]

KeptInv ==
    (~torn /\ ~short) =>
        \A k \in Key \ changed :
            /\ \A m \in pending : Same(m, acked, k)
            /\ pc \in Persisting \cup {"idle"} => Same(values, acked, k)

IInv == TypeInv /\ CallInv /\ DiskInv /\ KeptInv

--------------------------------------------------------------------------------
(* The maps.                                                                 *)

\* The empty map is one the store may keep.
LEMMA NothingProper == Nothing \in ProperMap
BY ValueAssumption DEF Nothing, ProperMap, Map, Absent, VersionedValue

\* Changing one key to an entry that exists, or erasing it, leaves a proper map.
LEMMA UpdateProper ==
    ASSUME NEW m \in ProperMap, NEW k \in Key,
           NEW e \in VersionedValue, e.exists \/ e = Absent
    PROVE  [m EXCEPT ![k] = e] \in ProperMap
BY DEF ProperMap, Map

\* Leaving out some keys leaves a proper map.
LEMMA KeepProper ==
    ASSUME NEW m \in ProperMap, NEW keys
    PROVE  Keep(m, keys) \in ProperMap
BY ValueAssumption DEF Keep, ProperMap, Map, Absent, VersionedValue

\* What Written is on a key.
LEMMA WrittenAt ==
    ASSUME NEW m \in ProperMap, NEW k \in Key
    PROVE  Written(m)[k] = IF m[k].version > 0 THEN m[k] ELSE Absent
BY DEF Written, Keep

\* The lines of a file, loaded back, are what was written.
LEMMA KeepPresentIsWritten ==
    ASSUME NEW m \in ProperMap
    PROVE  Written(Keep(m, Present(m))) = Written(m)
<1> DEFINE n == Keep(m, Present(m))
<1>1. ASSUME NEW k \in Key PROVE n[k] = m[k]
  BY DEF Keep, Present, ProperMap
<1>2. n = m
  BY <1>1 DEF Keep, ProperMap, Map
<1> QED BY <1>2

\* A map with no entries is the empty one.
LEMMA NonePresent ==
    ASSUME NEW m \in ProperMap, Present(m) = {}
    PROVE  m = Nothing
BY DEF Present, Nothing, ProperMap, Map

--------------------------------------------------------------------------------
(* The calls.                                                                *)

Calls ==
    \/ \E k \in Key, v \in PutValues : CallPut(k, v)
    \/ \E k \in Key, v \in PutValues, n \in 0 .. MaxVersion : CallPutIfVersion(k, n, v)
    \/ \E k \in Key, n \in 0 .. MaxVersion : CallDeleteIfVersion(k, n)
    \/ \E keys \in SUBSET Key, v \in PutValues : CallBatch(keys, v)

\* A call that writes, and changes no keys but the given ones.
Writes(map, keys) ==
    /\ Persist(map, keys)
    /\ \A k \in Key \ keys : map[k] = values[k]

\* A call that is refused, and leaves an entry for its key behind.
Refused(k) ==
    /\ pc = "idle"
    /\ values' = [values EXCEPT ![k].exists = TRUE]
    /\ UNCHANGED <<disk, pc, history, damage, bounds>>

\* Every call is of one of these two kinds.
LEMMA CallCases ==
    ASSUME TypeInv, Calls
    PROVE  \/ \E map \in ProperMap, keys \in SUBSET Key : Writes(map, keys)
           \/ \E k \in Key : Refused(k)
<1> USE DEF TypeInv
<1>1. \A k \in Key : values[k].version \in Nat
  BY DEF ProperMap, Map, VersionedValue
<1>2. ASSUME NEW k \in Key, NEW v \in PutValues
      PROVE  /\ Put(values, k, v) \in ProperMap
             /\ \A j \in Key \ {k} : Put(values, k, v)[j] = values[j]
  <2>1. Stored(v, values[k].version + 1) \in VersionedValue /\ Stored(v, values[k].version + 1).exists
    BY <1>1, ValueAssumption DEF Stored, VersionedValue
  <2> QED BY <2>1, UpdateProper DEF Put, ProperMap, Map
<1>3. ASSUME NEW k \in Key, NEW v \in PutValues, CallPut(k, v)
      PROVE  \E map \in ProperMap, keys \in SUBSET Key : Writes(map, keys)
  <2>1. Writes(Put(values, k, v), {k})
    BY <1>2, <1>3 DEF CallPut, Writes
  <2> QED BY <1>2, <2>1
<1>4. ASSUME NEW k \in Key, NEW v \in PutValues, NEW n \in 0 .. MaxVersion, CallPutIfVersion(k, n, v)
      PROVE  \/ \E map \in ProperMap, keys \in SUBSET Key : Writes(map, keys)
             \/ Refused(k)
  <2>1. CASE VersionIs(values, k, n)
    <3>1. Writes(Put(values, k, v), {k})
      BY <1>2, <1>4, <2>1 DEF CallPutIfVersion, PutIfVersion, Writes
    <3> QED BY <1>2, <3>1
  <2>2. CASE ~VersionIs(values, k, n)
    BY <1>4, <2>2 DEF CallPutIfVersion, PutIfVersion, Refused
  <2> QED BY <2>1, <2>2
<1>5. ASSUME NEW k \in Key, NEW n \in 0 .. MaxVersion, CallDeleteIfVersion(k, n)
      PROVE  \E map \in ProperMap, keys \in SUBSET Key : Writes(map, keys)
  <2> DEFINE map == [values EXCEPT ![k] = Absent]
  <2>1. Absent \in VersionedValue
    BY ValueAssumption DEF Absent, VersionedValue
  <2>2. map \in ProperMap
    BY <2>1, UpdateProper
  <2>3. Writes(map, {k})
    BY <1>5 DEF CallDeleteIfVersion, DeleteIfVersion, Writes, ProperMap, Map
  <2> QED BY <2>2, <2>3
<1>6. ASSUME NEW keys \in SUBSET Key, NEW v \in PutValues, CallBatch(keys, v)
      PROVE  \E map \in ProperMap, ks \in SUBSET Key : Writes(map, ks)
  <2> DEFINE map == [k \in Key |-> IF k \in keys THEN Stored(v, values[k].version + 1) ELSE values[k]]
  <2>1. \A k \in Key : Stored(v, values[k].version + 1) \in VersionedValue /\ Stored(v, values[k].version + 1).exists
    BY <1>1, ValueAssumption DEF Stored, VersionedValue
  <2>2. map \in ProperMap
    BY <2>1 DEF ProperMap, Map
  <2>3. Writes(map, keys)
    BY <1>6 DEF CallBatch, Writes
  <2> QED BY <2>2, <2>3
<1> QED BY <1>3, <1>4, <1>5, <1>6 DEF Calls

--------------------------------------------------------------------------------
(* Types.                                                                    *)

\* What a file may be.
LEMMA FileTypes ==
    /\ NoFile \in File
    /\ \A m \in ProperMap, whole \in BOOLEAN : FileWith(m, whole) \in File
BY NothingProper DEF NoFile, FileWith, File

\* A refused call changes no entry that a write has made.
LEMMA RefusedProper ==
    ASSUME TypeInv, NEW k \in Key, Refused(k)
    PROVE  values' \in ProperMap /\ \A j \in Key : Written(values')[j] = Written(values)[j]
<1>1. values \in ProperMap
  BY DEF TypeInv
<1>2. [values[k] EXCEPT !.exists = TRUE] \in VersionedValue /\ [values[k] EXCEPT !.exists = TRUE].exists
  BY <1>1 DEF ProperMap, Map, VersionedValue
<1>3. values' = [values EXCEPT ![k] = [values[k] EXCEPT !.exists = TRUE]]
  BY DEF Refused
<1>4. values' \in ProperMap
  BY <1>1, <1>2, <1>3, UpdateProper
<1>5. \A j \in Key : values[j].version > 0 => values'[j] = values[j]
  BY <1>1, <1>3 DEF ProperMap, Map, VersionedValue, Absent
<1>6. \A j \in Key : values'[j].version = values[j].version
  BY <1>1, <1>3 DEF ProperMap, Map, VersionedValue
<1> QED BY <1>1, <1>4, <1>5, <1>6, WrittenAt

\* Every step keeps the types.
LEMMA TypeStep == TypeInv /\ [Next]_vars => TypeInv'
<1> SUFFICES ASSUME TypeInv, [Next]_vars PROVE TypeInv'
  OBVIOUS
<1> USE DEF TypeInv, disk, damage, history, bounds, Labels, Persisting, Recovering
<1>1. ASSUME NEW map \in ProperMap, NEW keys \in SUBSET Key, Writes(map, keys)
      PROVE  TypeInv'
  BY <1>1 DEF Writes, Persist
<1>2. ASSUME NEW k \in Key, Refused(k)
      PROVE  TypeInv'
  BY <1>2, RefusedProper DEF Refused
<1>3. CASE Calls
  BY <1>1, <1>2, <1>3, CallCases
<1>4. CASE WriteJournal
  BY <1>4 DEF WriteJournal, Step
<1>5. CASE OpenTemp
  <2>1. temp' \in File
    BY <1>5, FileTypes, NothingProper DEF OpenTemp
  <2> QED BY <1>5, <2>1 DEF OpenTemp, Step
<1>6. CASE FillTemp
  <2>1. temp' \in File
    BY <1>6, FileTypes DEF FillTemp
  <2> QED BY <1>6, <2>1 DEF FillTemp, Step
<1>7. CASE RenameTemp
  BY <1>7, FileTypes DEF RenameTemp, Step
<1>8. CASE RemoveJournal
  BY <1>8 DEF RemoveJournal, Step
<1>9. CASE Fail
  BY <1>9 DEF Fail
<1>10. ASSUME NEW keys \in SUBSET Key, WriteSomeLines(keys)
       PROVE  TypeInv'
  <2>1. temp' \in File
    BY <1>10, FileTypes, KeepProper DEF WriteSomeLines
  <2> QED BY <1>10, <2>1 DEF WriteSomeLines
<1>11. ASSUME NEW keys \in SUBSET Key, Load(keys)
       PROVE  TypeInv'
  <2>1. path.lines \in ProperMap
    BY DEF File
  <2>2. values' \in ProperMap
    BY <1>11, <2>1, KeepProper DEF Load
  <2> QED BY <1>11, <2>2 DEF Load, Step
<1>12. CASE Crash
  BY <1>12, NothingProper DEF Crash, LeftTorn, File
<1>13. CASE Reload
  BY <1>13, NothingProper DEF Reload, LeftTorn, File, Step
<1>14. CASE RecoverTemp
  BY <1>14, FileTypes DEF RecoverTemp, RecoveredPath
<1>15. CASE RecoverJournal
  BY <1>15 DEF RecoverJournal, Step
<1>16. CASE RecoverFails
  BY <1>16 DEF RecoverFails
<1>17. CASE UNCHANGED vars
  BY <1>17 DEF vars
<1> QED BY <1>3, <1>4, <1>5, <1>6, <1>7, <1>8, <1>9, <1>10, <1>11, <1>12, <1>13, <1>14,
           <1>15, <1>16, <1>17 DEF Next, Calls

--------------------------------------------------------------------------------
(* The parts of the invariant.                                               *)

\* Every step keeps what is known of a call that is writing.
LEMMA CallStep == IInv /\ [Next]_vars => CallInv'
<1> SUFFICES ASSUME IInv, [Next]_vars PROVE CallInv'
  OBVIOUS
<1> USE DEF IInv, CallInv, disk, damage, history, bounds, Persisting
<1>0. TypeInv
  OBVIOUS
<1>1. ASSUME NEW map \in ProperMap, NEW keys \in SUBSET Key, Writes(map, keys)
      PROVE  CallInv'
  BY <1>1 DEF Writes, Persist
<1>2. ASSUME NEW k \in Key, Refused(k)
      PROVE  CallInv'
  BY <1>2 DEF Refused
<1>3. CASE Calls
  BY <1>0, <1>1, <1>2, <1>3, CallCases
<1>4. CASE WriteJournal
  BY <1>4 DEF WriteJournal, Step
<1>5. CASE OpenTemp
  BY <1>5 DEF OpenTemp, Step
<1>6. CASE FillTemp
  BY <1>6 DEF FillTemp, Step
<1>7. CASE RenameTemp
  BY <1>7 DEF RenameTemp, Step
<1>8. CASE RemoveJournal
  BY <1>8 DEF RemoveJournal, Step
<1>9. CASE Fail
  BY <1>9 DEF Fail
<1>10. ASSUME NEW keys \in SUBSET Key, WriteSomeLines(keys)
       PROVE  CallInv'
  BY <1>10 DEF WriteSomeLines
<1>11. ASSUME NEW keys \in SUBSET Key, Load(keys)
       PROVE  CallInv'
  BY <1>11 DEF Load, Step
<1>12. CASE Crash
  BY <1>12 DEF Crash
<1>13. CASE Reload
  BY <1>13 DEF Reload, Step
<1>14. CASE RecoverTemp
  BY <1>14 DEF RecoverTemp
<1>15. CASE RecoverJournal
  BY <1>15 DEF RecoverJournal, Step
<1>16. CASE RecoverFails
  BY <1>16 DEF RecoverFails
<1>17. CASE UNCHANGED vars
  BY <1>17 DEF vars
<1> QED BY <1>3, <1>4, <1>5, <1>6, <1>7, <1>8, <1>9, <1>10, <1>11, <1>12, <1>13, <1>14,
           <1>15, <1>16, <1>17 DEF Next, Calls

\* Every step keeps what is known of the files.  The step that matters is the
\* recovery: it puts the temporary file in place, and may only do so whole.
LEMMA DiskStep == IInv /\ [Next]_vars => DiskInv'
<1> SUFFICES ASSUME IInv, [Next]_vars PROVE DiskInv'
  OBVIOUS
<1> USE DEF IInv, DiskInv, Legitimate, disk, damage, history, bounds
<1>0. TypeInv /\ CallInv
  OBVIOUS
<1>1. ASSUME NEW map \in ProperMap, NEW keys \in SUBSET Key, Writes(map, keys)
      PROVE  DiskInv'
  BY <1>1 DEF Writes, Persist, Recovering
<1>2. ASSUME NEW k \in Key, Refused(k)
      PROVE  DiskInv'
  BY <1>2 DEF Refused
<1>3. CASE Calls
  BY <1>0, <1>1, <1>2, <1>3, CallCases
<1>4. CASE WriteJournal
  BY <1>4 DEF WriteJournal, Step, Recovering
<1>5. CASE OpenTemp
  <2>1. values \in pending
    BY <1>0, <1>5 DEF CallInv, OpenTemp, Step, Persisting
  <2>2. Present(values) = {} => values = Nothing
    BY <1>0, NonePresent DEF TypeInv
  <2>3. temp'.whole => temp'.lines \in pending
    BY <1>5, <2>1, <2>2 DEF OpenTemp, FileWith
  <2> QED BY <1>5, <2>3 DEF OpenTemp, Step, Recovering
<1>6. CASE FillTemp
  <2>1. values \in pending
    BY <1>0, <1>6 DEF CallInv, FillTemp, Step, Persisting
  <2> QED BY <1>6, <2>1 DEF FillTemp, Step, FileWith, Recovering
<1>7. CASE RenameTemp
  BY <1>0, <1>7 DEF RenameTemp, Step, NoFile, FileWith, Recovering, CallInv, Persisting
<1>8. CASE RemoveJournal
  BY <1>0, <1>8 DEF RemoveJournal, Step, NoFile, FileWith, Recovering, CallInv
<1>9. CASE Fail
  BY <1>9 DEF Fail, Recovering
<1>10. ASSUME NEW keys \in SUBSET Key, WriteSomeLines(keys)
       PROVE  DiskInv'
  BY <1>10 DEF WriteSomeLines, FileWith, Recovering
<1>11. ASSUME NEW keys \in SUBSET Key, Load(keys)
       PROVE  DiskInv'
  BY <1>11 DEF Load, Step, Recovering
<1>12. CASE Crash
  BY <1>12 DEF Crash, LeftTorn
<1>13. CASE Reload
  BY <1>13 DEF Reload, LeftTorn, Step
<1>14. CASE RecoverTemp
  BY <1>14 DEF RecoverTemp, RecoveredPath, NoFile, Recovering
<1>15. CASE RecoverJournal
  BY <1>15 DEF RecoverJournal, Step, Recovering
<1>16. CASE RecoverFails
  BY <1>16 DEF RecoverFails, Recovering
<1>17. CASE UNCHANGED vars
  BY <1>17 DEF vars
<1> QED BY <1>3, <1>4, <1>5, <1>6, <1>7, <1>8, <1>9, <1>10, <1>11, <1>12, <1>13, <1>14,
           <1>15, <1>16, <1>17 DEF Next, Calls

\* Every step keeps the acknowledged writes on the keys no call has changed.
LEMMA KeptStep == IInv /\ [Next]_vars => KeptInv'
<1> SUFFICES ASSUME IInv, [Next]_vars, (~torn /\ ~short)', NEW k \in Key \ changed'
             PROVE  (/\ \A m \in pending : Same(m, acked, k)
                     /\ pc \in Persisting \cup {"idle"} => Same(values, acked, k))'
  BY DEF KeptInv
<1> DEFINE Goal ==
        (/\ \A m \in pending : Same(m, acked, k)
         /\ pc \in Persisting \cup {"idle"} => Same(values, acked, k))'
<1> USE DEF IInv, KeptInv, Same, disk, damage, history, bounds
<1>0. TypeInv /\ CallInv /\ DiskInv
  OBVIOUS
<1>1. ASSUME NEW map \in ProperMap, NEW keys \in SUBSET Key, Writes(map, keys)
      PROVE  Goal
  <2>1. k \notin changed /\ map[k] = values[k] /\ ~torn /\ ~short
    BY <1>1 DEF Writes, Persist
  <2>2. Written(map)[k] = Written(values)[k]
    BY <2>1, <1>0, WrittenAt DEF TypeInv
  <2>3. Same(values, acked, k)
    BY <1>1, <2>1 DEF Writes, Persist
  <2> QED BY <1>1, <2>1, <2>2, <2>3 DEF Writes, Persist
<1>2. ASSUME NEW j \in Key, Refused(j)
      PROVE  Goal
  <2>1. Written(values')[k] = Written(values)[k]
    BY <1>0, <1>2, RefusedProper
  <2> QED BY <1>2, <2>1 DEF Refused
<1>3. CASE Calls
  BY <1>0, <1>1, <1>2, <1>3, CallCases
<1>4. CASE WriteJournal
  BY <1>4 DEF WriteJournal, Step, Persisting
<1>5. CASE OpenTemp
  BY <1>5 DEF OpenTemp, Step, Persisting
<1>6. CASE FillTemp
  BY <1>6 DEF FillTemp, Step, Persisting
<1>7. CASE RenameTemp
  BY <1>7 DEF RenameTemp, Step, Persisting
<1>8. CASE RemoveJournal
  BY <1>8 DEF RemoveJournal, Step
<1>9. CASE Fail
  BY <1>9 DEF Fail, Persisting
<1>10. ASSUME NEW keys \in SUBSET Key, WriteSomeLines(keys)
       PROVE  Goal
  BY <1>10 DEF WriteSomeLines
<1>11. ASSUME NEW keys \in SUBSET Key, Load(keys)
       PROVE  Goal
  <2>1. ~torn /\ ~short /\ Stopping = {} /\ UNCHANGED <<acked, pending, changed>>
    BY <1>11 DEF Load
  <2>2. path.lines \in ProperMap
    BY <1>0 DEF TypeInv, File
  <2>3. values' = Keep(path.lines, Present(path.lines))
    BY <1>11, <2>1 DEF Load, Loads
  <2>4. Written(values') = Written(path.lines)
    BY <2>2, <2>3, KeepPresentIsWritten
  <2>5. path.lines \in Legitimate
    BY <2>1 DEF DiskInv
  <2>6. Written(path.lines)[k] = Written(acked)[k]
    BY <2>1, <2>5 DEF Legitimate
  <2> QED BY <2>1, <2>4, <2>6
<1>12. CASE Crash
  BY <1>12 DEF Crash, LeftTorn, Persisting
<1>13. CASE Reload
  BY <1>13 DEF Reload, LeftTorn, Step, Persisting
<1>14. CASE RecoverTemp
  BY <1>14 DEF RecoverTemp, Persisting
<1>15. CASE RecoverJournal
  BY <1>15 DEF RecoverJournal, Step, Persisting
<1>16. CASE RecoverFails
  BY <1>16 DEF RecoverFails
<1>17. CASE UNCHANGED vars
  BY <1>17 DEF vars
<1> QED BY <1>3, <1>4, <1>5, <1>6, <1>7, <1>8, <1>9, <1>10, <1>11, <1>12, <1>13, <1>14,
           <1>15, <1>16, <1>17 DEF Next, Calls

--------------------------------------------------------------------------------

\* The invariant holds at the start.
LEMMA InitInv == Init => IInv
<1> SUFFICES ASSUME Init PROVE IInv
  OBVIOUS
<1> USE NothingProper, FileTypes DEF Init
<1>1. TypeInv
  BY DEF TypeInv, Labels
<1>2. CallInv
  BY DEF CallInv, Persisting
<1>3. DiskInv
  BY DEF DiskInv, NoFile, Legitimate
<1>4. KeptInv
  BY DEF KeptInv, Same
<1> QED BY <1>1, <1>2, <1>3, <1>4 DEF IInv

\* The invariant is one of the specification.
LEMMA Invariance == Spec => []IInv
<1>1. IInv /\ [Next]_vars => IInv'
  BY TypeStep, CallStep, DiskStep, KeptStep DEF IInv
<1> QED BY <1>1, InitInv, PTL DEF Spec

\* Memory and files have the code's types in every state (FileKVStore's members
\* and its three files).
THEOREM TypeOKHolds == Spec => []TypeOK
<1>1. IInv => TypeOK
  BY DEF IInv, TypeInv, TypeOK, File, ProperMap, Map
<1> QED BY <1>1, Invariance, PTL

\* Unless a half-written temporary file was left to a recovery, the snapshot in
\* place is at every moment all of one map that a call has written
\* (PersistToDisk replaces it by a rename, RecoverIfNeeded finishes the rename).
THEOREM SnapshotIsWholeHolds == Spec => []SnapshotIsWhole
<1>1. IInv => SnapshotIsWhole
  BY DEF IInv, DiskInv, SnapshotIsWhole, Legitimate
<1> QED BY <1>1, Invariance, PTL

\* What a start or a Reload loads is the map of the last call that returned
\* true or of one that was tried since (RecoverIfNeeded and LoadFromDisk).
THEOREM RestoresAWriteHolds == Spec => RestoresAWrite
<1>1. ASSUME IInv, [Next]_vars, Loaded, ~torn, Stopping = {}
      PROVE  Restored
  <2>1. PICK keys \in SUBSET Key : Load(keys)
    <3>1. pc = "load" /\ pc' = "idle"
      BY <1>1 DEF Loaded
    <3>2. pc' # pc
      BY <3>1
    <3>3. ~Calls
      BY <3>1 DEF Calls, CallPut, CallPutIfVersion, CallDeleteIfVersion, CallBatch, Persist
    <3>4. ~(WriteJournal \/ OpenTemp \/ FillTemp \/ RenameTemp \/ RemoveJournal \/ Fail)
      BY <3>1 DEF WriteJournal, OpenTemp, FillTemp, RenameTemp, RemoveJournal, Fail, Step
    <3>5. ~(Crash \/ Reload \/ RecoverTemp \/ RecoverJournal \/ RecoverFails)
      BY <3>1 DEF Crash, Reload, RecoverTemp, RecoverJournal, RecoverFails, Step
    <3>6. \A keys \in SUBSET Key : ~WriteSomeLines(keys)
      BY <3>1 DEF WriteSomeLines
    <3>7. ~UNCHANGED vars
      BY <3>2 DEF vars
    <3> QED BY <1>1, <3>3, <3>4, <3>5, <3>6, <3>7 DEF Next, Calls
  <2>2. path.lines \in ProperMap /\ path.lines \in Legitimate
    BY <1>1 DEF IInv, TypeInv, File, DiskInv
  <2>3. values' = Keep(path.lines, Present(path.lines))
    BY <1>1, <2>1 DEF Load, Loads
  <2>4. Written(values') = Written(path.lines)
    BY <2>2, <2>3, KeepPresentIsWritten
  <2> QED BY <2>2, <2>4 DEF Restored, Legitimate
<1>2. IInv /\ [Next]_vars => [(Loaded /\ ~torn /\ Stopping = {}) => Restored]_vars
  BY <1>1
<1> QED BY <1>2, Invariance, PTL DEF Spec, RestoresAWrite

\* A call that returns true leaves every key that no call has tried to change as
\* it was last acknowledged, through crashes, failed calls and reloads, as long
\* as no recovery or load has failed (FileKVStore as a whole).
THEOREM KeepsAcknowledgedHolds == Spec => KeepsAcknowledged
<1> DEFINE A == (acked' # acked /\ ~torn /\ ~short) =>
                    \A k \in Key \ changed : Written(acked')[k] = Written(acked)[k]
<1>1. ASSUME IInv, [Next]_vars, acked' # acked, ~torn, ~short, NEW k \in Key \ changed
      PROVE  Written(acked')[k] = Written(acked)[k]
  <2>1. RemoveJournal
    <3> USE <1>1 DEF history, disk
    <3>1. ~Calls
      BY DEF Calls, CallPut, CallPutIfVersion, CallDeleteIfVersion, CallBatch, Persist
    <3>2. ~(WriteJournal \/ OpenTemp \/ FillTemp \/ RenameTemp \/ Fail)
      BY DEF WriteJournal, OpenTemp, FillTemp, RenameTemp, Fail
    <3>3. ~(Crash \/ Reload \/ RecoverTemp \/ RecoverJournal \/ RecoverFails)
      BY DEF Crash, Reload, RecoverTemp, RecoverJournal, RecoverFails
    <3>4. \A keys \in SUBSET Key : ~WriteSomeLines(keys) /\ ~Load(keys)
      BY DEF WriteSomeLines, Load
    <3>5. ~UNCHANGED vars
      BY DEF vars
    <3> QED BY <3>1, <3>2, <3>3, <3>4, <3>5 DEF Next, Calls
  <2>2. acked' = values /\ Same(values, acked, k)
    BY <1>1, <2>1 DEF RemoveJournal, Step, IInv, KeptInv, Persisting
  <2> QED BY <2>2 DEF Same
<1>2. IInv /\ [Next]_vars => [A]_vars
  BY <1>1
<1> QED BY <1>2, Invariance, PTL DEF Spec, KeepsAcknowledged
=================================================================================
