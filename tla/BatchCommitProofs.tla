---------------------------- MODULE BatchCommitProofs ----------------------------
(****************************************************************************)
(* What the atomic batch makes of the version checks: with a backend that   *)
(* supports it, a commit is based on current reads, loses no update, and    *)
(* replays the winner's intents on what the store holds at that instant.    *)
(****************************************************************************)
EXTENDS AgentTxnProofs

\* The buffer lists every object once.
OrderIsInjective(b) == \A m, n \in DOMAIN b.order : b.order[m] = b.order[n] => m = n
OnceInv == \A t \in Txn, i \in BranchIds : OrderIsInjective(branches[t][i])

\* Nothing is resolved before the reads are validated.
NoWritesYet == \A t \in Txn : phase[t] \in {"running", "validating"} => writes[t] = <<>>

\* Every read of the winner is still among the checks at the version it was read
\* at, unless the object is written; then the check of the write has replaced it.
ReadsChecked(t) ==
    \A n \in DOMAIN Winner(t).reads :
        LET read == Winner(t).reads[n]
        IN  \/ read.object \in KeysOf(writes[t])
            \/ read.object \in DOMAIN checks[t] /\ checks[t][read.object] = read.version

\* Every resolved write comes from a buffer entry already passed, and is checked
\* at a version at which resolving it again would give the same value.
WriteChecked(t, write) ==
    LET k == write.key
    IN  /\ \E m \in DOMAIN Winner(t).order : m < cursor[t] /\ Winner(t).order[m] = k
        /\ k \in DOMAIN checks[t]
        /\ checks[t][k] <= store[k].version
        /\ store[k].version = checks[t][k] => write.value = ResolvedWrite(t, k).value
        /\ ~Rebased(Winner(t), k) => checks[t][k] = Winner(t).entries[k].base_version

ResolvingInv ==
    \A t \in Txn : phase[t] = "resolving" =>
        ReadsChecked(t) /\ \A n \in DOMAIN writes[t] : WriteChecked(t, writes[t][n])

BatchInv == StoreInv /\ VersionsPinValues /\ OnceInv /\ NoWritesYet /\ ResolvingInv

--------------------------------------------------------------------------------
(* The buffer lists every object once.                                       *)

\* Upsert appends an object to the order only when it is not there.
LEMMA UpsertOnce ==
    ASSUME NEW b \in BranchContext, OrderIsBuffered(b), OrderIsInjective(b),
           NEW k \in Key, NEW entry \in CacheEntry
    PROVE  OrderIsInjective(Upsert(b, k, entry))
<1>1. b.order \in Seq(Key)
  BY DEF BranchContext
<1>2. Upsert(b, k, entry).order = IF IsBuffered(b, k) THEN b.order ELSE Append(b.order, k)
  BY DEF Upsert, BranchContext
<1>3. CASE IsBuffered(b, k)
  BY <1>2, <1>3 DEF OrderIsInjective
<1>4. CASE ~IsBuffered(b, k)
  <2>1. \A n \in DOMAIN b.order : b.order[n] # k
    BY <1>4 DEF OrderIsBuffered, IsBuffered
  <2>2. OrderIsInjective(b)
    OBVIOUS
  <2> QED BY <1>1, <1>2, <1>4, <2>1, <2>2 DEF OrderIsInjective
<1> QED BY <1>3, <1>4

\* So does BufferWrite.
LEMMA BufferWriteOnce ==
    ASSUME NEW b \in BranchContext, OrderIsBuffered(b), OrderIsInjective(b),
           NEW intent \in WriteIntent, NEW s \in Store
    PROVE  OrderIsInjective(BufferWrite(b, intent, s))
<1> DEFINE c == Upsert(b, intent.object, EntryAfter(b, intent, s))
<1>1. c \in BranchContext /\ OrderIsInjective(c)
  BY UpsertOnce, UpsertType, EntryAfterType DEF WriteIntent
<1>2. BufferWrite(b, intent, s) = [c EXCEPT !.status = "Running", !.intents = Append(@, intent)]
  BY DEF BufferWrite
<1> HIDE DEF c
<1>3. BufferWrite(b, intent, s).order = c.order
  BY <1>1, <1>2 DEF BranchContext
<1> QED BY <1>1, <1>3 DEF OrderIsInjective

\* Every step keeps OnceInv.
LEMMA OnceNext == TypeInv /\ OnceInv /\ [Next]_vars => OnceInv'
<1> SUFFICES ASSUME TypeInv, OnceInv, [Next]_vars, NEW t \in Txn, NEW i \in BranchIds
             PROVE  OrderIsInjective(branches'[t][i])
  BY DEF OnceInv, OrderIsInjective
<1> DEFINE b == branches[t][i]
           c == branches'[t][i]
<1>1. b \in BranchContext /\ OrderIsBuffered(b) /\ OrderIsInjective(b) /\ store \in Store
  BY DEF TypeInv, BranchTypeInv, OrderInv, OnceInv, StoreTypeInv
<1>2. \/ SeesNothingNew(b, c)
      \/ \E k \in Key : c = ReadObject(b, k, store)
      \/ \E intent \in Intents : c = BufferWrite(b, intent, store)
  BY BranchChanges
<1> HIDE DEF b, c
<1>3. CASE SeesNothingNew(b, c)
  <2>1. c.order = b.order \/ c.order = <<>>
    BY <1>3 DEF SeesNothingNew
  <2>2. OrderIsInjective(c)
    BY <1>1, <2>1 DEF OrderIsInjective
  <2> QED BY <2>2 DEF c
<1>4. ASSUME NEW k \in Key, c = ReadObject(b, k, store)
      PROVE  OrderIsInjective(c)
  BY <1>1, <1>4 DEF ReadObject, BranchContext, OrderIsInjective
<1>5. ASSUME NEW intent \in Intents, c = BufferWrite(b, intent, store)
      PROVE  OrderIsInjective(c)
  BY <1>1, <1>5, BufferWriteOnce, IntentsAssumption
<1> QED BY <1>2, <1>3, <1>4, <1>5 DEF c

--------------------------------------------------------------------------------
(* The checks that CheckReads and ResolveEntry collect.                      *)

\* Every step keeps NoWritesYet.
LEMMA NoWritesYetNext == TypeInv /\ NoWritesYet /\ [Next]_vars => NoWritesYet'
<1> SUFFICES ASSUME TypeInv, NoWritesYet, [Next]_vars,
                    NEW t \in Txn, phase'[t] \in {"running", "validating"}
             PROVE  writes'[t] = <<>>
  BY DEF NoWritesYet
<1> USE DEF TypeInv, BranchTypeInv, CommitTypeInv
<1>1. ASSUME NEW u \in Txn, BranchStep(u)
      PROVE  UNCHANGED writes /\ phase[t] \in {"running", "validating"}
  BY <1>1 DEF BranchStep, Read, Write, Stage, AbortTask, CommitTask, Abort
<1>2. ASSUME NEW u \in Txn, ResolveEntry(u)
      PROVE  writes'[t] = writes[t] /\ phase[t] \in {"running", "validating"}
  BY <1>2 DEF ResolveEntry, Abort
<1>3. ASSUME NEW u \in Txn, CommitStep(u), ~ResolveEntry(u)
      PROVE  UNCHANGED writes /\ phase[t] \in {"running", "validating"}
  <2>1. CASE ValidateRead(u) \/ CheckReads(u) \/ BatchCommit(u)
    BY <2>1 DEF ValidateRead, CheckReads, BatchCommit, Finish, Abort
  <2>2. CASE StartWrites(u) \/ CheckWrite(u) \/ PutWrite(u) \/ FinishWrites(u)
    BY <2>2 DEF StartWrites, CheckWrite, PutWrite, FinishWrites, Finish
  <2>3. CASE UndoWrite(u) \/ FinishUndo(u)
    BY <2>3 DEF UndoWrite, UndoFails, FinishUndo, Abort
  <2> QED BY <1>3, <2>1, <2>2, <2>3 DEF CommitStep
<1>4. (\E k \in Key, v \in PutValues : ExternalPut(k, v)) \/ UNCHANGED vars
          => UNCHANGED <<writes, phase>>
  BY DEF ExternalPut, txnVars, vars
<1>5. writes'[t] = writes[t] /\ phase[t] \in {"running", "validating"}
  BY <1>1, <1>2, <1>3, <1>4 DEF Next
<1> QED BY <1>5 DEF NoWritesYet

\* Once the reads agree, the checks made of them hold every one of them.
LEMMA ReadChecksHoldReads ==
    ASSUME NEW reads \in Seq(ReadRecord), ReadsAgree(reads), NEW n \in DOMAIN reads
    PROVE  /\ reads[n].object \in DOMAIN ReadChecks(reads)
           /\ ReadChecks(reads)[reads[n].object] = reads[n].version
<1> DEFINE k == reads[n].object
           m == CHOOSE i \in DOMAIN reads : reads[i].object = k
<1>1. m \in DOMAIN reads /\ reads[m].object = k
  OBVIOUS
<1>2. k \in DOMAIN ReadChecks(reads) /\ ReadChecks(reads)[k] = reads[m].version
  BY DEF ReadChecks
<1>3. reads[m].version = reads[n].version
  <2> HIDE DEF m
  <2> QED BY <1>1 DEF ReadsAgree
<1> QED BY <1>2, <1>3

\* A step that is not t's own, or adds nothing to what t collects, leaves what t
\* has collected in order.
LEMMA ReadsCheckedSame ==
    ASSUME NEW t \in Txn, ReadsChecked(t),
           branches'[t] = branches[t], winner'[t] = winner[t],
           checks'[t] = checks[t], writes'[t] = writes[t]
    PROVE  ReadsChecked(t)'
BY DEF ReadsChecked, Winner

\* A resolved write stays checked when the store advances and its transaction stands still.
LEMMA WriteCheckedSame ==
    ASSUME NEW t \in Txn, NEW write \in WriteOp, WriteChecked(t, write),
           branches'[t] = branches[t], winner'[t] = winner[t],
           checks'[t] = checks[t], cursor'[t] = cursor[t],
           checks[t][write.key] \in Nat,
           store \in Store, store' \in Store, Advances(store[write.key], store'[write.key])
    PROVE  WriteChecked(t, write)'
<1> DEFINE k == write.key
<1>1. k \in Key /\ store[k].version \in Nat /\ store'[k].version \in Nat
  BY DEF WriteOp, Store, VersionedValue
<1>2. Winner(t)' = Winner(t)
  BY DEF Winner
<1>3. store'[k].version = checks[t][k] => ResolvedWrite(t, k)' = ResolvedWrite(t, k)
  <2> SUFFICES ASSUME store'[k].version = checks[t][k] PROVE store'[k].value = store[k].value
    BY <1>2 DEF ResolvedWrite
  <2> QED BY <1>1 DEF WriteChecked, Advances
<1>4. checks'[t][k] <= store'[k].version
  BY <1>1 DEF WriteChecked, Advances
<1>5. store'[k].version = checks'[t][k] => write.value = ResolvedWrite(t, k)'.value
  BY <1>1, <1>3, <1>4 DEF WriteChecked, Advances
<1>6. /\ \E m \in DOMAIN Winner(t)'.order : m < cursor'[t] /\ Winner(t)'.order[m] = k
      /\ k \in DOMAIN checks'[t]
      /\ ~Rebased(Winner(t)', k) => checks'[t][k] = Winner(t)'.entries[k].base_version
  BY <1>2 DEF WriteChecked
<1> QED BY <1>4, <1>5, <1>6 DEF WriteChecked

\* Whoever else takes a step, a transaction that is resolving stays as it is.
LEMMA ResolvingUndisturbed ==
    ASSUME TypeInv, [Next]_vars, NEW t \in Txn, phase'[t] = "resolving",
           ~ResolveEntry(t), ~CheckReads(t)
    PROVE  /\ phase[t] = "resolving"
           /\ branches'[t] = branches[t] /\ winner'[t] = winner[t]
           /\ checks'[t] = checks[t] /\ writes'[t] = writes[t] /\ cursor'[t] = cursor[t]
<1> USE DEF TypeInv, BranchTypeInv, CommitTypeInv
<1> DEFINE Same == /\ phase[t] = "resolving"
                   /\ branches'[t] = branches[t] /\ winner'[t] = winner[t]
                   /\ checks'[t] = checks[t] /\ writes'[t] = writes[t] /\ cursor'[t] = cursor[t]
<1>1. ASSUME NEW u \in Txn, BranchStep(u)
      PROVE  Same
  BY <1>1 DEF BranchStep, Read, Write, Stage, AbortTask, CommitTask, Abort
<1>2. ASSUME NEW u \in Txn, CommitStep(u)
      PROVE  Same
  <2>1. CASE ValidateRead(u)
    BY <2>1 DEF ValidateRead, Abort
  <2>2. CASE CheckReads(u)
    BY <2>2 DEF CheckReads, Abort
  <2>3. CASE ResolveEntry(u)
    <3>1. u # t
      BY <2>3
    <3>2. cursor'[t] = cursor[t]
      BY <2>3, <3>1 DEF ResolveEntry
    <3>3. checks'[t] = checks[t]
      BY <2>3, <3>1 DEF ResolveEntry
    <3>4. writes'[t] = writes[t]
      BY <2>3, <3>1 DEF ResolveEntry
    <3>5. UNCHANGED <<phase, branches>> \/ Abort(u)
      BY <2>3 DEF ResolveEntry
    <3>6. phase[t] = "resolving" /\ branches'[t] = branches[t]
      BY <3>1, <3>5 DEF Abort
    <3> QED BY <2>3, <3>2, <3>3, <3>4, <3>6 DEF ResolveEntry
  <2>4. CASE BatchCommit(u)
    BY <2>4 DEF BatchCommit, Finish, Abort
  <2>5. CASE StartWrites(u) \/ CheckWrite(u) \/ PutWrite(u)
    BY <2>5 DEF StartWrites, CheckWrite, PutWrite
  <2>6. CASE FinishWrites(u) \/ UndoWrite(u) \/ FinishUndo(u)
    BY <2>6 DEF FinishWrites, UndoWrite, UndoFails, FinishUndo, Finish, Abort
  <2> QED BY <1>2, <2>1, <2>2, <2>3, <2>4, <2>5, <2>6 DEF CommitStep
<1>3. (\E k \in Key, v \in PutValues : ExternalPut(k, v)) \/ UNCHANGED vars => Same
  BY DEF ExternalPut, txnVars, vars
<1> QED BY <1>1, <1>2, <1>3 DEF Next

\* CheckReads: the checks are the reads, and nothing is written yet.
LEMMA CheckReadsResolving ==
    ASSUME TypeInv, NoWritesYet, NEW t \in Txn, CheckReads(t), phase'[t] = "resolving"
    PROVE  ReadsChecked(t)' /\ writes'[t] = <<>>
<1> USE DEF TypeInv, BranchTypeInv, CommitTypeInv
<1> DEFINE reads == Winner(t).reads
<1>1. phase[t] = "validating" /\ writes'[t] = <<>>
  BY DEF CheckReads, NoWritesYet
<1>2. ReadsAgree(reads) /\ checks'[t] = ReadChecks(reads) /\ UNCHANGED <<branches, winner>>
  BY <1>1 DEF CheckReads, Abort
<1>3. Winner(t) \in BranchContext
  BY <1>1 DEF WinnerInv, Committing, Winner
<1>4. reads \in Seq(ReadRecord) /\ Winner(t)' = Winner(t)
  BY <1>2, <1>3 DEF BranchContext, Winner
<1>5. \A n \in DOMAIN reads :
          reads[n].object \in DOMAIN checks'[t] /\ checks'[t][reads[n].object] = reads[n].version
  BY <1>2, <1>4, ReadChecksHoldReads
<1> QED BY <1>1, <1>4, <1>5 DEF ReadsChecked

\* ResolveEntry: the entry at the cursor is passed, and perhaps resolved.
LEMMA ResolveEntryCases ==
    ASSUME TypeInv, NEW t \in Txn, ResolveEntry(t), phase'[t] = "resolving"
    PROVE  LET k == Winner(t).order[cursor[t]]
           IN  /\ HasIntent(Winner(t), k)
               /\ UNCHANGED <<store, phase, branches, winner>>
               /\ cursor'[t] = cursor[t] + 1
               /\ \/ checks'[t] = checks[t] /\ writes'[t] = writes[t]
                  \/ /\ checks'[t] = [j \in DOMAIN checks[t] \cup {k} |->
                                         IF j = k THEN ExpectedVersion(t, k) ELSE checks[t][j]]
                     /\ writes'[t] = Append(writes[t], [key |-> k, value |-> ResolvedWrite(t, k).value])
<1> USE DEF TypeInv, BranchTypeInv, CommitTypeInv
<1> DEFINE k == Winner(t).order[cursor[t]]
<1>1. EntryAccepted(t, k)
  BY DEF ResolveEntry, Abort
<1>2. /\ HasIntent(Winner(t), k)
      /\ UNCHANGED <<store, phase, branches, winner>>
      /\ cursor' = [cursor EXCEPT ![t] = @ + 1]
  BY <1>1 DEF ResolveEntry, EntryAccepted
<1>3. CASE ResolvedWrite(t, k).should_write
  <2>1. checks' = [checks EXCEPT ![t] =
            [j \in DOMAIN @ \cup {k} |-> IF j = k THEN ExpectedVersion(t, k) ELSE @[j]]]
    BY <1>1, <1>3 DEF ResolveEntry
  <2>2. writes' = [writes EXCEPT ![t] = Append(@, [key |-> k, value |-> ResolvedWrite(t, k).value])]
    BY <1>1, <1>3 DEF ResolveEntry
  <2> QED BY <1>2, <2>1, <2>2
<1>4. CASE ~ResolvedWrite(t, k).should_write
  <2>1. UNCHANGED <<checks, writes>>
    BY <1>1, <1>4 DEF ResolveEntry
  <2> QED BY <1>2, <2>1
<1> QED BY <1>3, <1>4

\* What was read or buffered is not newer than the store.
LEMMA ExpectedNotNewer ==
    ASSUME AtomicBatch, BatchInv, NEW t \in Txn, winner[t] \in BranchIds,
           NEW k \in Key, k \in DOMAIN Winner(t).entries
    PROVE  ExpectedVersion(t, k) <= store[k].version
<1>1. KeepsVersions(k) /\ store[k].version \in Nat
  BY DEF KeepsVersions, BatchInv, StoreInv, TypeInv, StoreTypeInv, Store, VersionedValue
<1>2. Pins(k, Winner(t).entries[k].base_version, Winner(t).entries[k].base_value)
  BY <1>1 DEF BatchInv, VersionsPinValues, Winner
<1> QED BY <1>1, <1>2 DEF ExpectedVersion, Pins

\* What a check and a write look like after ResolveEntry has passed object k, as
\* far as an earlier or the new write is concerned.
LEMMA PassedWriteChecked ==
    ASSUME NEW t \in Txn, NEW k \in Key, NEW write \in WriteOp, write.key # k,
           WriteChecked(t, write),
           UNCHANGED <<store, branches, winner>>,
           cursor[t] \in Nat, cursor'[t] = cursor[t] + 1, Winner(t).order \in Seq(Key),
           \/ checks'[t] = checks[t]
           \/ checks'[t] = [j \in DOMAIN checks[t] \cup {k} |->
                                IF j = k THEN ExpectedVersion(t, k) ELSE checks[t][j]]
    PROVE  WriteChecked(t, write)'
<1>1. Winner(t)' = Winner(t) /\ ResolvedWrite(t, write.key)' = ResolvedWrite(t, write.key)
  BY DEF Winner, ResolvedWrite
<1>2. write.key \in DOMAIN checks'[t] /\ checks'[t][write.key] = checks[t][write.key]
  BY DEF WriteChecked
<1>3. \A m \in DOMAIN Winner(t).order : m < cursor[t] => m < cursor'[t]
  OBVIOUS
<1> QED BY <1>1, <1>2, <1>3 DEF WriteChecked

\* The write just resolved is checked at the version it was resolved from.
LEMMA NewWriteChecked ==
    ASSUME AtomicBatch, BatchInv, NEW t \in Txn, winner[t] \in BranchIds,
           NEW k \in Key, k \in DOMAIN Winner(t).entries,
           cursor[t] \in DOMAIN Winner(t).order, k = Winner(t).order[cursor[t]],
           NEW write \in WriteOp, write.key = k, write.value = ResolvedWrite(t, k).value,
           UNCHANGED <<store, branches, winner>>,
           cursor[t] \in Nat, cursor'[t] = cursor[t] + 1,
           checks'[t] = [j \in DOMAIN checks[t] \cup {k} |->
                                IF j = k THEN ExpectedVersion(t, k) ELSE checks[t][j]]
    PROVE  WriteChecked(t, write)'
<1>1. Winner(t)' = Winner(t) /\ ResolvedWrite(t, k)' = ResolvedWrite(t, k)
  BY DEF Winner, ResolvedWrite
<1>2. k \in DOMAIN checks'[t] /\ checks'[t][k] = ExpectedVersion(t, k)
  OBVIOUS
<1>3. checks'[t][k] <= store'[k].version
  BY <1>2, ExpectedNotNewer
<1>4. ~Rebased(Winner(t), k) => checks'[t][k] = Winner(t).entries[k].base_version
  BY <1>2 DEF ExpectedVersion
<1>5. \E m \in DOMAIN Winner(t).order : m < cursor'[t] /\ Winner(t).order[m] = k
  OBVIOUS
<1> QED BY <1>1, <1>2, <1>3, <1>4, <1>5 DEF WriteChecked

\* Resolving an entry keeps ResolvingInv for its transaction.
LEMMA ResolveEntryResolving ==
    ASSUME AtomicBatch, BatchInv, NEW t \in Txn, ResolveEntry(t), phase'[t] = "resolving"
    PROVE  ReadsChecked(t)' /\ \A n \in DOMAIN writes'[t] : WriteChecked(t, writes[t][n])'
<1>1. TypeInv /\ phase[t] = "resolving" /\ cursor[t] <= Len(Winner(t).order)
  BY DEF BatchInv, StoreInv, ResolveEntry
<1>2. winner[t] \in BranchIds
  BY <1>1 DEF TypeInv, WinnerInv, Committing
<1>3. PICK k : k = Winner(t).order[cursor[t]]
  OBVIOUS
<1>4. /\ Winner(t) \in BranchContext /\ k \in Key /\ k \in DOMAIN Winner(t).entries
      /\ OrderIsInjective(Winner(t)) /\ cursor[t] \in DOMAIN Winner(t).order
      /\ Winner(t).order \in Seq(Key) /\ cursor[t] \in Nat
  <2>1. Winner(t) \in BranchContext /\ k \in Key /\ k \in DOMAIN Winner(t).entries
    BY <1>1, <1>3, ResolvingEntry
  <2>2. OrderIsInjective(Winner(t))
    BY <1>2 DEF BatchInv, OnceInv, Winner
  <2>3. Winner(t).order \in Seq(Key) /\ cursor[t] \in Nat \ {0}
    BY <1>1, <2>1 DEF BranchContext, TypeInv, CommitTypeInv
  <2> QED BY <1>1, <2>1, <2>2, <2>3
<1>5. /\ HasIntent(Winner(t), k)
      /\ UNCHANGED <<store, branches, winner>>
      /\ cursor'[t] = cursor[t] + 1
      /\ \/ checks'[t] = checks[t] /\ writes'[t] = writes[t]
         \/ /\ checks'[t] = [j \in DOMAIN checks[t] \cup {k} |->
                                IF j = k THEN ExpectedVersion(t, k) ELSE checks[t][j]]
            /\ writes'[t] = Append(writes[t], [key |-> k, value |-> ResolvedWrite(t, k).value])
  BY <1>1, <1>3, ResolveEntryCases
<1>6. PICK new : new = [key |-> k, value |-> ResolvedWrite(t, k).value]
  OBVIOUS
<1>7. writes[t] \in Seq(WriteOp) /\ new \in WriteOp /\ new.key = k /\ new.value = ResolvedWrite(t, k).value
  <2>1. ResolvedWrite(t, k).value \in Value
    BY <1>1, <1>4, <1>5, ResolvedTypes
  <2> QED BY <1>1, <1>4, <1>6, <2>1 DEF WriteOp, TypeInv, CommitTypeInv
<1>8. ReadsChecked(t) /\ \A n \in DOMAIN writes[t] : WriteChecked(t, writes[t][n])
  BY <1>1 DEF BatchInv, ResolvingInv
\* An entry passed before is another object's, so its check is still there.
<1>9. ASSUME NEW write \in WriteOp, NEW n \in DOMAIN writes[t], write = writes[t][n]
      PROVE  WriteChecked(t, write)'
  <2>1. WriteChecked(t, write)
    BY <1>8, <1>9
  <2>2. write.key # k
    BY <1>3, <1>4, <2>1 DEF WriteChecked, OrderIsInjective
  <2> QED BY <1>4, <1>5, <2>1, <2>2, PassedWriteChecked
<1>10. CASE checks'[t] = checks[t] /\ writes'[t] = writes[t]
  <2>1. ReadsChecked(t)'
    BY <1>5, <1>8, <1>10 DEF ReadsChecked, Winner
  <2>2. ASSUME NEW n \in DOMAIN writes'[t]
        PROVE  WriteChecked(t, writes[t][n])'
    <3>1. PICK write \in WriteOp : write = writes[t][n]
      BY <1>7, <1>10
    <3>2. WriteChecked(t, write)'
      BY <1>9, <1>10, <3>1
    <3> QED BY <1>10, <3>1, <3>2 DEF WriteChecked
  <2> QED BY <2>1, <2>2
<1>11. CASE /\ checks'[t] = [j \in DOMAIN checks[t] \cup {k} |->
                                 IF j = k THEN ExpectedVersion(t, k) ELSE checks[t][j]]
            /\ writes'[t] = Append(writes[t], new)
  <2>1. KeysOf(writes'[t]) = KeysOf(writes[t]) \cup {k}
    BY <1>7, <1>11 DEF KeysOf
  <2>2. Winner(t)' = Winner(t)
    BY <1>5 DEF Winner
  <2>3. ReadsChecked(t)'
    BY <1>8, <1>11, <2>1, <2>2 DEF ReadsChecked
  <2>4. WriteChecked(t, new)'
    BY <1>2, <1>3, <1>4, <1>5, <1>7, <1>11, NewWriteChecked
  <2>5. ASSUME NEW n \in DOMAIN writes'[t]
        PROVE  WriteChecked(t, writes[t][n])'
    <3>1. PICK write \in WriteOp : write = writes'[t][n]
      BY <1>7, <1>11
    <3>2. write = new \/ \E m \in DOMAIN writes[t] : write = writes[t][m]
      BY <1>7, <1>11, <3>1
    <3>3. WriteChecked(t, write)'
      BY <1>9, <2>4, <3>2
    <3> QED BY <3>1, <3>3 DEF WriteChecked
  <2> QED BY <2>3, <2>5
<1> QED BY <1>5, <1>6, <1>10, <1>11

\* Every step keeps ResolvingInv.
LEMMA ResolvingNext == AtomicBatch /\ BatchInv /\ [Next]_vars => ResolvingInv'
<1> SUFFICES ASSUME AtomicBatch, BatchInv, [Next]_vars, NEW t \in Txn, phase'[t] = "resolving"
             PROVE  ReadsChecked(t)' /\ \A n \in DOMAIN writes'[t] : WriteChecked(t, writes[t][n])'
  BY DEF ResolvingInv
<1>1. StoreInv /\ TypeInv /\ store \in Store /\ store' \in Store
  BY StoreInvNext DEF BatchInv, StoreInv, TypeInv, StoreTypeInv
<1>2. CASE ResolveEntry(t)
  BY <1>2, ResolveEntryResolving
<1>3. CASE CheckReads(t)
  <2>1. ReadsChecked(t)' /\ writes'[t] = <<>>
    BY <1>1, <1>3, CheckReadsResolving DEF BatchInv
  <2> QED BY <2>1
<1>4. CASE ~ResolveEntry(t) /\ ~CheckReads(t)
  <2>1. /\ phase[t] = "resolving"
        /\ branches'[t] = branches[t] /\ winner'[t] = winner[t]
        /\ checks'[t] = checks[t] /\ writes'[t] = writes[t] /\ cursor'[t] = cursor[t]
    BY <1>1, <1>4, ResolvingUndisturbed
  <2>2. ReadsChecked(t) /\ \A n \in DOMAIN writes[t] : WriteChecked(t, writes[t][n])
    BY <2>1 DEF BatchInv, ResolvingInv
  <2>3. ReadsChecked(t)'
    BY <2>1, <2>2, ReadsCheckedSame
  <2>4. ASSUME NEW n \in DOMAIN writes'[t]
        PROVE  WriteChecked(t, writes[t][n])'
    <3>1. writes[t] \in Seq(WriteOp) /\ checks[t] \in VersionChecks
      BY <1>1 DEF TypeInv, CommitTypeInv
    <3>2. PICK write \in WriteOp : write = writes[t][n]
      BY <2>1, <3>1
    <3>3. WriteChecked(t, write) /\ write.key \in Key
      BY <2>1, <2>2, <3>2 DEF WriteOp
    <3>4. checks[t][write.key] \in Nat
      BY <3>1, <3>3, VersionChecksDef DEF WriteChecked
    <3>5. Advances(store[write.key], store'[write.key])
      BY <1>1, <3>3, StoreAdvances DEF KeepsVersions
    <3>6. WriteChecked(t, write)'
      BY <1>1, <2>1, <3>3, <3>4, <3>5, WriteCheckedSame
    <3> QED BY <2>1, <3>2, <3>6 DEF WriteChecked
  <2> QED BY <2>3, <2>4
<1> QED BY <1>2, <1>3, <1>4

\* BatchInv holds at the start.
LEMMA BatchInvInit == Init => BatchInv
<1> SUFFICES ASSUME Init PROVE BatchInv
  OBVIOUS
<1>1. StoreInv /\ VersionsPinValues
  BY InitType, StoreInvInit
<1>2. OnceInv
  BY DEF Init, OnceInv, OrderIsInjective, CreateBranch
<1>3. NoWritesYet /\ ResolvingInv
  BY DEF Init, NoWritesYet, ResolvingInv
<1> QED BY <1>1, <1>2, <1>3 DEF BatchInv

\* Every step keeps BatchInv, on a store with an atomic batch.
LEMMA BatchInvNext == AtomicBatch /\ BatchInv /\ [Next]_vars => BatchInv'
<1> SUFFICES ASSUME AtomicBatch, BatchInv, [Next]_vars PROVE BatchInv'
  OBVIOUS
<1>1. StoreInv' /\ VersionsPinValues'
  BY StoreInvNext, VersionsPinNext DEF BatchInv
<1>2. OnceInv' /\ NoWritesYet'
  BY OnceNext, NoWritesYetNext DEF BatchInv, StoreInv
<1> QED BY <1>1, <1>2, ResolvingNext DEF BatchInv

--------------------------------------------------------------------------------
(* The commit.                                                               *)

\* With an atomic batch a transaction commits by BatchCommit, whose checks hold.
LEMMA CommitIsBatch ==
    ASSUME AtomicBatch, BatchInv, [Next]_vars, NEW t \in Txn, Commits(t)
    PROVE  Resolved(t) /\ ChecksHold(store, checks[t]) /\ store' = BatchPut(store, writes[t])
<1> USE DEF Commits
<1>1. TypeInv /\ phase[t] # "checking"
  BY DEF BatchInv, StoreInv, BatchPhaseInv
<1> USE DEF TypeInv, BranchTypeInv
<1>2. ASSUME NEW u \in Txn, BranchStep(u)
      PROVE  FALSE
  BY <1>1, <1>2 DEF BranchStep, Read, Write, Stage, AbortTask, CommitTask, Abort
<1>3. ASSUME NEW u \in Txn, BatchCommit(u)
      PROVE  u = t /\ Resolved(t) /\ ChecksHold(store, checks[t]) /\ store' = BatchPut(store, writes[t])
  BY <1>1, <1>3 DEF BatchCommit, Finish, Abort
<1>4. ASSUME NEW u \in Txn, CommitStep(u), ~BatchCommit(u)
      PROVE  FALSE
  <2>1. CASE ValidateRead(u) \/ CheckReads(u) \/ ResolveEntry(u)
    BY <1>1, <2>1 DEF ValidateRead, CheckReads, ResolveEntry, Abort
  <2>2. CASE StartWrites(u) \/ CheckWrite(u) \/ PutWrite(u) \/ FinishWrites(u)
    BY <1>1, <2>2 DEF StartWrites, CheckWrite, PutWrite, FinishWrites, Finish
  <2>3. CASE UndoWrite(u) \/ FinishUndo(u)
    BY <1>1, <2>3 DEF UndoWrite, UndoFails, FinishUndo, Abort
  <2> QED BY <1>4, <2>1, <2>2, <2>3 DEF CommitStep
<1>5. (\E k \in Key, v \in PutValues : ExternalPut(k, v)) \/ UNCHANGED vars => FALSE
  BY <1>1 DEF ExternalPut, txnVars, vars
<1> QED BY <1>2, <1>3, <1>4, <1>5 DEF Next

\* The bases and reads of a winner are pinned to their versions.
LEMMA WinnerPinned ==
    ASSUME AtomicBatch, BatchInv, NEW t \in Txn, Resolved(t)
    PROVE  /\ \A n \in DOMAIN Winner(t).reads :
                  LET read == Winner(t).reads[n]
                  IN  Pins(read.object, read.version, read.seen)
           /\ \A k \in DOMAIN Winner(t).entries :
                  Pins(k, Winner(t).entries[k].base_version, Winner(t).entries[k].base_value)
<1>1. winner[t] \in BranchIds
  BY DEF BatchInv, StoreInv, TypeInv, WinnerInv, Committing, Resolved
<1> QED BY <1>1 DEF BatchInv, VersionsPinValues, KeepsVersions, Winner

\* With an atomic batch, what a winner's strict reads returned is what the store
\* holds when it commits: the window between ValidateWinner and the batch, in
\* which other clients write, is closed by the versions checked in the batch.
THEOREM ReadsCurrentAtCommitHolds ==
    ASSUME AtomicBatch
    PROVE  Spec => ReadsCurrentAtCommit
<1> DEFINE Current(t) ==
        \A n \in DOMAIN Winner(t).reads :
            LET read == Winner(t).reads[n]
            IN  (~Rebased(Winner(t), read.object) /\ read.object \notin KeysOf(writes[t]))
                    => store[read.object].value = read.seen
<1>1. ASSUME BatchInv, [Next]_vars, NEW t \in Txn, Commits(t)
      PROVE  Current(t)
  <2>1. Resolved(t) /\ ChecksHold(store, checks[t])
    BY <1>1, CommitIsBatch
  <2>2. ReadsChecked(t)
    BY <1>1, <2>1 DEF BatchInv, ResolvingInv, Resolved
  <2>3. ASSUME NEW n \in DOMAIN Winner(t).reads, Winner(t).reads[n].object \notin KeysOf(writes[t])
        PROVE  store[Winner(t).reads[n].object].version = Winner(t).reads[n].version
    BY <2>1, <2>2, <2>3 DEF ReadsChecked, ChecksHold, VersionIs
  <2> QED BY <1>1, <2>1, <2>3, WinnerPinned DEF Pins
<1>2. BatchInv /\ [Next]_vars => [\A t \in Txn : Commits(t) => Current(t)]_vars
  BY <1>1
<1> QED BY <1>2, BatchInvInit, BatchInvNext, PTL DEF Spec, ReadsCurrentAtCommit

\* With an atomic batch no update is lost: each value a commit writes is what the
\* policy makes of the very value it replaces, and a strict write replaces the
\* value the branch took as its base.
THEOREM NoLostUpdateHolds ==
    ASSUME AtomicBatch
    PROVE  Spec => NoLostUpdate
<1> DEFINE NotLost(t) ==
        \A n \in DOMAIN writes[t] :
            LET k == writes[t][n].key
            IN  /\ writes[t][n].value = ResolvedWrite(t, k).value
                /\ ~Rebased(Winner(t), k) => store[k].value = Winner(t).entries[k].base_value
<1>1. ASSUME BatchInv, [Next]_vars, NEW t \in Txn, Commits(t)
      PROVE  NotLost(t)
  <2>1. Resolved(t) /\ ChecksHold(store, checks[t])
    BY <1>1, CommitIsBatch
  <2>2. \A n \in DOMAIN writes[t] : WriteChecked(t, writes[t][n])
    BY <1>1, <2>1 DEF BatchInv, ResolvingInv, Resolved
  <2>3. ASSUME NEW n \in DOMAIN writes[t]
        PROVE  LET k == writes[t][n].key
               IN  /\ writes[t][n].value = ResolvedWrite(t, k).value
                   /\ ~Rebased(Winner(t), k) => store[k].value = Winner(t).entries[k].base_value
    <3> DEFINE k == writes[t][n].key
    <3>1. WriteChecked(t, writes[t][n])
      BY <2>2
    <3>2. store[k].version = checks[t][k]
      BY <2>1, <3>1 DEF WriteChecked, ChecksHold, VersionIs
    <3>3. writes[t][n].value = ResolvedWrite(t, k).value
      BY <3>1, <3>2 DEF WriteChecked
    <3>4. k \in DOMAIN Winner(t).entries
      <4>1. OrderIsBuffered(Winner(t))
        BY <1>1, <2>1 DEF BatchInv, StoreInv, TypeInv, OrderInv, WinnerInv, Committing, Resolved, Winner
      <4> QED BY <3>1, <4>1 DEF WriteChecked, OrderIsBuffered
    <3>5. ~Rebased(Winner(t), k) => store[k].value = Winner(t).entries[k].base_value
      BY <1>1, <2>1, <3>1, <3>2, <3>4, WinnerPinned DEF WriteChecked, Pins
    <3> QED BY <3>3, <3>5
  <2> QED BY <2>3
<1>2. BatchInv /\ [Next]_vars => [\A t \in Txn : Commits(t) => NotLost(t)]_vars
  BY <1>1
<1> QED BY <1>2, BatchInvInit, BatchInvNext, PTL DEF Spec, NoLostUpdate

--------------------------------------------------------------------------------
(* The replay of a branch's intents on an object.                            *)

\* One step of it.
NextReplayed(b, k, start, value, n) ==
    IF b.intents[n].object = k THEN BufferedValue(start, value, b.intents[n]) ELSE value

\* The values after the first m intents.
ReplaySteps(b, k, start, m, f) ==
    f = [n \in 0 .. m |-> IF n = 0 THEN start
                          ELSE IF b.intents[n].object = k
                               THEN BufferedValue(start, f[n - 1], b.intents[n])
                               ELSE f[n - 1]]

\* Any number of intents can be replayed.
LEMMA ReplayStepsExist ==
    ASSUME NEW b, NEW k, NEW start, NEW m \in Nat
    PROVE  \E f : ReplaySteps(b, k, start, m, f)
<1> DEFINE S == {n \in 0 .. m : ~\E f : ReplaySteps(b, k, start, n, f)}
<1>1. SUFFICES ASSUME S # {} PROVE FALSE
  OBVIOUS
<1>2. PICK n \in S : \A j \in S : n <= j
  <2> HIDE DEF S
  <2>1. S \in SUBSET (0 .. m)
    BY DEF S
  <2> QED BY <1>1, <2>1, LeastIndex
<1>3. CASE n = 0
  <2> DEFINE f == [i \in 0 .. 0 |-> start]
  <2>1. ReplaySteps(b, k, start, 0, f)
    BY DEF ReplaySteps
  <2> QED BY <1>2, <1>3, <2>1
<1>4. CASE n # 0
  <2>1. n \in Nat /\ n - 1 \in 0 .. m /\ n - 1 \notin S
    BY <1>2, <1>4
  <2>2. PICK g : ReplaySteps(b, k, start, n - 1, g)
    BY <2>1
  <2> DEFINE f == [i \in 0 .. n |-> IF i = n THEN NextReplayed(b, k, start, g[n - 1], n) ELSE g[i]]
  <2>3. \A i \in 0 .. (n - 1) :
            f[i] = g[i] /\ g[i] = IF i = 0 THEN start ELSE NextReplayed(b, k, start, g[i - 1], i)
    BY <2>1, <2>2 DEF ReplaySteps, NextReplayed
  <2>4. f[n] = NextReplayed(b, k, start, f[n - 1], n)
    BY <2>1, <2>3
  <2>5. \A i \in 0 .. n : f[i] = IF i = 0 THEN start ELSE NextReplayed(b, k, start, f[i - 1], i)
    <3> SUFFICES ASSUME NEW i \in 0 .. n
                 PROVE  f[i] = IF i = 0 THEN start ELSE NextReplayed(b, k, start, f[i - 1], i)
      OBVIOUS
    <3>1. CASE i = n
      BY <1>4, <2>4, <3>1
    <3>2. CASE i # n
      <4>1. i \in 0 .. (n - 1) /\ (i # 0 => i - 1 \in 0 .. (n - 1))
        BY <2>1, <3>2
      <4> HIDE DEF f
      <4> QED BY <2>3, <4>1
    <3> QED BY <3>1, <3>2
  <2>6. ReplaySteps(b, k, start, n, f)
    <3>1. f = [i \in 0 .. n |-> f[i]]
      OBVIOUS
    <3> HIDE DEF f
    <3> QED BY <2>5, <3>1 DEF ReplaySteps, NextReplayed
  <2> QED BY <1>2, <2>6
<1> QED BY <1>3, <1>4

\* Replay is what the last of the steps leaves.
LEMMA ReplayIsSteps ==
    ASSUME NEW b, NEW k, NEW start, Len(b.intents) \in Nat
    PROVE  \E f : /\ Replay(b, k, start) = f[Len(b.intents)]
                  /\ f[0] = start
                  /\ \A n \in 1 .. Len(b.intents) : f[n] = NextReplayed(b, k, start, f[n - 1], n)
<1> DEFINE m == Len(b.intents)
           v == CHOOSE f : ReplaySteps(b, k, start, m, f)
<1>1. Replay(b, k, start) = v[m]
  BY DEF Replay, ReplaySteps
<1>2. ReplaySteps(b, k, start, m, v)
  <2> HIDE DEF m
  <2>1. \E f : ReplaySteps(b, k, start, m, f)
    BY ReplayStepsExist DEF m
  <2> QED BY <2>1
<1> HIDE DEF v
<1>3. v[0] = start /\ \A n \in 1 .. m : v[n] = NextReplayed(b, k, start, v[n - 1], n)
  BY <1>2 DEF ReplaySteps, NextReplayed
<1> QED BY <1>1, <1>3

\* An object without intents is left alone.
LEMMA ReplayNone ==
    ASSUME NEW b \in BranchContext, NEW k, NEW start, ~HasIntent(b, k)
    PROVE  Replay(b, k, start) = start
<1> DEFINE m == Len(b.intents)
<1>1. m \in Nat /\ \A n \in 1 .. m : b.intents[n].object # k
  BY DEF BranchContext, HasIntent, IntentsOn
<1>2. PICK f : /\ Replay(b, k, start) = f[m]
               /\ f[0] = start
               /\ \A n \in 1 .. m : f[n] = NextReplayed(b, k, start, f[n - 1], n)
  BY <1>1, ReplayIsSteps
<1> HIDE DEF m
<1>3. \A n \in 1 .. m : f[n] = f[n - 1]
  BY <1>1, <1>2 DEF NextReplayed
<1> DEFINE S == {n \in 0 .. m : f[n] # start}
<1>4. ASSUME S # {} PROVE FALSE
  <2>1. PICK n \in S : \A j \in S : n <= j
    <3> HIDE DEF S
    <3>1. S \in SUBSET (0 .. m)
      BY DEF S
    <3> QED BY <1>1, <1>4, <3>1, LeastIndex
  <2>2. n # 0 /\ n \in 1 .. m /\ n - 1 \in 0 .. m /\ n - 1 \notin S
    BY <1>1, <1>2, <2>1
  <2> QED BY <1>3, <2>1, <2>2
<1> QED BY <1>1, <1>2, <1>4

\* One more intent is one more step.
LEMMA ReplayAppend ==
    ASSUME NEW b \in BranchContext, NEW c \in BranchContext, NEW intent \in WriteIntent,
           c.intents = Append(b.intents, intent), NEW k, NEW start
    PROVE  Replay(c, k, start) = IF intent.object = k
                                 THEN BufferedValue(start, Replay(b, k, start), intent)
                                 ELSE Replay(b, k, start)
<1> DEFINE m == Len(b.intents)
<1>1. /\ m \in Nat /\ Len(c.intents) = m + 1 /\ c.intents[m + 1] = intent
      /\ \A n \in 1 .. m : c.intents[n] = b.intents[n]
  BY DEF BranchContext
<1>2. PICK f : /\ Replay(b, k, start) = f[m]
               /\ f[0] = start
               /\ \A n \in 1 .. m : f[n] = NextReplayed(b, k, start, f[n - 1], n)
  BY <1>1, ReplayIsSteps
<1>3. PICK g : /\ Replay(c, k, start) = g[m + 1]
               /\ g[0] = start
               /\ \A n \in 1 .. (m + 1) : g[n] = NextReplayed(c, k, start, g[n - 1], n)
  BY <1>1, ReplayIsSteps
<1> HIDE DEF m
<1> DEFINE S == {n \in 0 .. m : f[n] # g[n]}
<1>4. ASSUME S # {} PROVE FALSE
  <2>1. PICK n \in S : \A j \in S : n <= j
    <3> HIDE DEF S
    <3>1. S \in SUBSET (0 .. m)
      BY DEF S
    <3> QED BY <1>1, <1>4, <3>1, LeastIndex
  <2>2. n # 0 /\ n \in 1 .. m /\ n \in 1 .. (m + 1) /\ n - 1 \in 0 .. m /\ n - 1 \notin S
    BY <1>1, <1>2, <1>3, <2>1
  <2>3. f[n - 1] = g[n - 1] /\ c.intents[n] = b.intents[n]
    BY <1>1, <2>2
  <2>4. f[n] = NextReplayed(b, k, start, f[n - 1], n)
    BY <1>2, <2>2
  <2>5. g[n] = NextReplayed(c, k, start, g[n - 1], n)
    BY <1>3, <2>2
  <2>6. f[n] = g[n]
    BY <2>3, <2>4, <2>5 DEF NextReplayed
  <2> QED BY <2>1, <2>6
<1>5. f[m] = g[m]
  BY <1>1, <1>4
<1>6. m + 1 \in 1 .. (m + 1) /\ (m + 1) - 1 = m
  BY <1>1
<1>7. g[m + 1] = NextReplayed(c, k, start, g[m], m + 1)
  BY <1>3, <1>6
<1> QED BY <1>1, <1>2, <1>3, <1>5, <1>7 DEF NextReplayed

--------------------------------------------------------------------------------
(* A replay on the base and a replay on another value, by the kind of intent. *)

\* The entry holds what the intents make of its base, and value is what they make
\* of start.  Overwrites and Cas forget what they are applied to; appends leave
\* the same tail, and deltas add the same number.
Parallel(entry, type, start, value) ==
    CASE type = "Read" -> value = start
      [] type \in {"Overwrite", "Cas"} -> value = entry.current_value
      [] type = "Append" ->
            \E tail \in Value : /\ entry.current_value = entry.base_value \o tail
                                /\ value = start \o tail
      [] type = "Delta" ->
            \A m, n \in Int : (entry.base_value = Numeral(m) /\ start = Numeral(n)) =>
                \E d \in Int : /\ entry.current_value = Numeral(m + d)
                               /\ value = Numeral(n + d)

\* A numeral is one integer.
LEMMA IsIntNumeral ==
    ASSUME NEW v \in Value
    PROVE  IsInt(v) <=> \E n \in Int : v = Numeral(n)
<1>1. ASSUME IsInt(v) PROVE v[1] \in Int /\ v = Numeral(v[1])
  BY <1>1 DEF IsInt, Value, Chunk, Numeral
<1>2. ASSUME NEW n \in Int, v = Numeral(n) PROVE IsInt(v)
  BY <1>2, TextAssumption DEF IsInt, Numeral
<1> QED BY <1>1, <1>2

\* Numerals are told apart by their integers.
LEMMA NumeralOf ==
    ASSUME NEW n \in Int
    PROVE  Numeral(n) \in Value /\ IntOf(Numeral(n)) = n /\ IsInt(Numeral(n))
BY TextAssumption DEF Numeral, Value, Chunk, IntOf, IsInt

\* Concatenation is associative.
LEMMA ConcatAssociates ==
    ASSUME NEW x \in Value, NEW y \in Value, NEW z \in Value
    PROVE  (x \o y) \o z = x \o (y \o z)
<1>1. x \in Seq(Chunk) /\ y \in Seq(Chunk) /\ z \in Seq(Chunk)
  BY DEF Value
<1> QED BY <1>1

\* A tail can be told from what it was appended to.
LEMMA TailSuffix ==
    ASSUME NEW base \in Value, NEW tail \in Value
    PROVE  HasPrefix(base \o tail, base) /\ Suffix(base \o tail, base) = tail
<1>1. /\ base \in Seq(Chunk) /\ tail \in Seq(Chunk) /\ base \o tail \in Seq(Chunk)
      /\ Len(base \o tail) = Len(base) + Len(tail)
  BY DEF Value
<1>2. SubSeq(base \o tail, 1, Len(base)) = base
  BY <1>1
<1>3. SubSeq(base \o tail, Len(base) + 1, Len(base \o tail)) = tail
  BY <1>1
<1> QED BY <1>1, <1>2, <1>3 DEF HasPrefix, Suffix

\* Before the first intent the entry holds its base.
LEMMA ParallelStart ==
    ASSUME NEW entry \in CacheEntry, NEW start \in Value, entry.current_value = entry.base_value,
           NEW type \in {"Read", "Append", "Delta"}
    PROVE  Parallel(entry, type, start, start)
<1>1. entry.base_value \in Value
  BY DEF CacheEntry
<1>2. CASE type = "Read"
  BY <1>2 DEF Parallel
<1>3. CASE type = "Append"
  <2>1. Empty \in Value /\ entry.base_value = entry.base_value \o Empty /\ start = start \o Empty
    BY <1>1 DEF Empty, Value
  <2> QED BY <1>3, <2>1 DEF Parallel
<1>4. CASE type = "Delta"
  <2>1. \A m \in Int : m = m + 0
    OBVIOUS
  <2> QED BY <1>4, <2>1 DEF Parallel
<1> QED BY <1>2, <1>3, <1>4

\* One more intent of the same kind keeps the two in parallel.
LEMMA ParallelNext ==
    ASSUME NEW entry \in CacheEntry, NEW intent \in WriteIntent, NEW start \in Value, NEW value,
           Parallel(entry, intent.type, start, value) \/ intent.type \in {"Overwrite", "Cas"},
           NEW next \in CacheEntry, next.base_value = entry.base_value,
           next.current_value = BufferedValue(entry.base_value, entry.current_value, intent)
    PROVE  Parallel(next, intent.type, start, BufferedValue(start, value, intent))
<1>1. /\ entry.base_value \in Value /\ entry.current_value \in Value
      /\ intent.payload \in Value /\ intent.type \in IntentType
  BY DEF CacheEntry, WriteIntent
<1>2. CASE intent.type = "Read"
  BY <1>2 DEF Parallel, BufferedValue
<1>3. CASE intent.type \in {"Overwrite", "Cas"}
  BY <1>3 DEF Parallel, BufferedValue
<1>4. CASE intent.type = "Append"
  <2>1. PICK tail \in Value : /\ entry.current_value = entry.base_value \o tail
                              /\ value = start \o tail
    BY <1>4 DEF Parallel
  <2>2. next.current_value = (entry.base_value \o tail) \o intent.payload
    BY <1>4, <2>1 DEF BufferedValue
  <2>3. BufferedValue(start, value, intent) = (start \o tail) \o intent.payload
    BY <1>4, <2>1 DEF BufferedValue
  <2>4. tail \o intent.payload \in Value
    BY <1>1 DEF Value
  <2>5. next.current_value = next.base_value \o (tail \o intent.payload)
    <3>1. (entry.base_value \o tail) \o intent.payload = entry.base_value \o (tail \o intent.payload)
      BY <1>1, ConcatAssociates
    <3> QED BY <2>2, <3>1
  <2>6. BufferedValue(start, value, intent) = start \o (tail \o intent.payload)
    <3>1. (start \o tail) \o intent.payload = start \o (tail \o intent.payload)
      BY <1>1, ConcatAssociates
    <3> QED BY <2>3, <3>1
  <2> QED BY <1>4, <2>4, <2>5, <2>6 DEF Parallel
<1>5. CASE intent.type = "Delta"
  <2>1. SUFFICES ASSUME NEW m \in Int, NEW n \in Int, entry.base_value = Numeral(m), start = Numeral(n)
                 PROVE  \E d \in Int : /\ next.current_value = Numeral(m + d)
                                       /\ BufferedValue(start, value, intent) = Numeral(n + d)
    BY <1>5 DEF Parallel
  <2>2. PICK d \in Int : entry.current_value = Numeral(m + d) /\ value = Numeral(n + d)
    BY <1>5, <2>1 DEF Parallel
  <2>3. /\ m + d \in Int /\ n + d \in Int
        /\ IsInt(entry.current_value) /\ IntOf(entry.current_value) = m + d
        /\ IsInt(value) /\ IntOf(value) = n + d
    BY <2>2, NumeralOf
  <2>4. CASE IsInt(intent.payload)
    <3>1. PICK p \in Int : intent.payload = Numeral(p)
      BY <1>1, <2>4, IsIntNumeral
    <3>2. IntOf(intent.payload) = p
      BY <3>1, NumeralOf
    <3>3. next.current_value = Numeral((m + d) + p)
      BY <1>5, <2>3, <2>4, <3>2 DEF BufferedValue
    <3>4. BufferedValue(start, value, intent) = Numeral((n + d) + p)
      BY <1>5, <2>3, <2>4, <3>2 DEF BufferedValue
    <3>5. d + p \in Int /\ (m + d) + p = m + (d + p) /\ (n + d) + p = n + (d + p)
      OBVIOUS
    <3> QED BY <3>3, <3>4, <3>5
  <2>5. CASE ~IsInt(intent.payload)
    <3>1. next.current_value = entry.current_value
      BY <1>5, <2>5 DEF BufferedValue
    <3>2. BufferedValue(start, value, intent) = value
      BY <1>5, <2>5 DEF BufferedValue
    <3> QED BY <2>2, <3>1, <3>2
  <2> QED BY <2>4, <2>5
<1> QED BY <1>1, <1>2, <1>3, <1>4, <1>5 DEF IntentType

\* The policy, when it accepts the write, writes what the intents make of the
\* value in the store.
LEMMA ResolveIsReplay ==
    ASSUME NEW entry \in CacheEntry, NEW intent \in WriteIntent, NEW now \in Value, NEW value,
           Parallel(entry, intent.type, now, value),
           intent.type = "Delta" => IsInt(entry.base_value),
           intent.type # "Read", ResolveWrite(entry, intent, now).success
    PROVE  ResolveWrite(entry, intent, now).value = value
<1>1. /\ entry.base_value \in Value /\ entry.current_value \in Value
      /\ intent.payload \in Value /\ intent.type \in IntentType
  BY DEF CacheEntry, WriteIntent
<1>2. CASE intent.type = "Overwrite"
  BY <1>2 DEF Parallel, ResolveWrite, WriteOf
<1>3. CASE intent.type = "Cas"
  <2>1. ConditionHolds(intent.condition, now)
    BY <1>3 DEF ResolveWrite, Refused
  <2> QED BY <1>3, <2>1 DEF Parallel, ResolveWrite, WriteOf
<1>4. CASE intent.type = "Append"
  <2>1. PICK tail \in Value : entry.current_value = entry.base_value \o tail /\ value = now \o tail
    BY <1>4 DEF Parallel
  <2>2. /\ HasPrefix(entry.current_value, entry.base_value)
        /\ Suffix(entry.current_value, entry.base_value) = tail
    BY <1>1, <2>1, TailSuffix
  <2>3. ResolveWrite(entry, intent, now) = ResolveAppend(entry, intent, now)
    BY <1>4 DEF ResolveWrite
  <2> QED BY <2>1, <2>2, <2>3 DEF ResolveAppend, WriteOf
<1>5. CASE intent.type = "Delta"
  <2>1. ResolveWrite(entry, intent, now) = ResolveDelta(entry, intent, now)
    BY <1>5 DEF ResolveWrite
  <2>2. IsInt(now)
    BY <2>1 DEF ResolveDelta, Refused
  <2>3. PICK m \in Int : entry.base_value = Numeral(m)
    BY <1>1, <1>5, IsIntNumeral
  <2>4. PICK n \in Int : now = Numeral(n)
    BY <2>2, IsIntNumeral
  <2>5. PICK d \in Int : entry.current_value = Numeral(m + d) /\ value = Numeral(n + d)
    BY <1>5, <2>3, <2>4 DEF Parallel
  <2>6. m + d \in Int
    OBVIOUS
  <2>7. /\ IsInt(entry.base_value) /\ IntOf(entry.base_value) = m
        /\ IsInt(entry.current_value) /\ IntOf(entry.current_value) = m + d
        /\ IntOf(now) = n
    BY <2>3, <2>4, <2>5, <2>6, NumeralOf
  <2>8. ResolveDelta(entry, intent, now) = WriteOf(Numeral(n + ((m + d) - m)))
    BY <2>2, <2>7 DEF ResolveDelta
  <2>9. n + ((m + d) - m) = n + d
    OBVIOUS
  <2> QED BY <2>1, <2>5, <2>8, <2>9 DEF WriteOf
<1> QED BY <1>1, <1>2, <1>3, <1>4, <1>5 DEF IntentType

--------------------------------------------------------------------------------
(* What a branch has buffered is the replay of its intents.                  *)

\* The intents on k are all of that type.
AllOfType(b, k, type) == \A i \in IntentsOn(b, k) : b.intents[i].type = type

\* A buffered object is in the order and has intents, and if these are of one
\* kind the entry is in parallel with their replay on any value; an object that
\* is not buffered has none.
BranchReplays(b) ==
    \A k \in Key :
        IF IsBuffered(b, k)
        THEN /\ HasIntent(b, k)
             /\ \E n \in DOMAIN b.order : b.order[n] = k
             /\ \A start \in Value, type \in IntentType : AllOfType(b, k, type) =>
                    Parallel(b.entries[k], type, start, Replay(b, k, start))
        ELSE ~HasIntent(b, k)

ReplayInv == \A t \in Txn, i \in BranchIds : BranchReplays(branches[t][i])

\* A branch that is created or discarded has nothing to replay.
LEMMA EmptyReplays ==
    ASSUME NEW b, b.entries = NoBuffer, b.intents = <<>>
    PROVE  BranchReplays(b)
BY DEF BranchReplays, IsBuffered, NoBuffer, HasIntent, IntentsOn

\* The buffer and the intents are all that counts.
LEMMA SameReplays ==
    ASSUME NEW b, NEW c, BranchReplays(b),
           c.entries = b.entries, c.order = b.order, c.intents = b.intents
    PROVE  BranchReplays(c)
<1>1. \A k, start : Replay(c, k, start) = Replay(b, k, start)
  BY DEF Replay
<1>2. \A k : IntentsOn(c, k) = IntentsOn(b, k)
  BY DEF IntentsOn
<1> QED BY <1>1, <1>2 DEF BranchReplays, IsBuffered, HasIntent, AllOfType

\* What BufferWrite does to the buffer and the intents.
LEMMA BufferWriteIs ==
    ASSUME NEW b \in BranchContext, NEW intent \in WriteIntent, NEW s \in Store
    PROVE  LET c == BufferWrite(b, intent, s)
               k == intent.object
           IN  /\ c \in BranchContext /\ k \in Key
               /\ c.intents = Append(b.intents, intent)
               /\ DOMAIN c.entries = DOMAIN b.entries \cup {k}
               /\ c.entries[k] = EntryAfter(b, intent, s)
               /\ \A j \in DOMAIN b.entries : j # k => c.entries[j] = b.entries[j]
               /\ c.order = IF IsBuffered(b, k) THEN b.order ELSE Append(b.order, k)
<1>1. BufferWrite(b, intent, s) \in BranchContext /\ intent.object \in Key
  BY BufferWriteType DEF WriteIntent
<1>2. LET c == BufferWrite(b, intent, s)
          k == intent.object
      IN  /\ c.intents = Append(b.intents, intent)
          /\ c.entries = [j \in DOMAIN b.entries \cup {k} |->
                             IF j = k THEN EntryAfter(b, intent, s) ELSE b.entries[j]]
          /\ c.order = IF IsBuffered(b, k) THEN b.order ELSE Append(b.order, k)
  BY DEF BufferWrite, Upsert, BranchContext
<1> QED BY <1>1, <1>2

\* The intents on an object after one more.
LEMMA IntentsOnAppend ==
    ASSUME NEW b \in BranchContext, NEW c \in BranchContext, NEW intent \in WriteIntent,
           c.intents = Append(b.intents, intent), NEW k
    PROVE  /\ IntentsOn(c, k) = IF intent.object = k THEN IntentsOn(b, k) \cup {Len(b.intents) + 1}
                                ELSE IntentsOn(b, k)
           /\ \A type : AllOfType(c, k, type) <=>
                  AllOfType(b, k, type) /\ (intent.object = k => intent.type = type)
<1>1. /\ b.intents \in Seq(WriteIntent) /\ Len(b.intents) \in Nat
      /\ Len(c.intents) = Len(b.intents) + 1
      /\ c.intents[Len(b.intents) + 1] = intent
      /\ DOMAIN b.intents = 1 .. Len(b.intents)
      /\ DOMAIN c.intents = 1 .. (Len(b.intents) + 1)
      /\ \A n \in DOMAIN b.intents : c.intents[n] = b.intents[n]
  BY DEF BranchContext
<1>2. DOMAIN c.intents = DOMAIN b.intents \cup {Len(b.intents) + 1}
  BY <1>1
<1>3. IntentsOn(c, k) = IF intent.object = k THEN IntentsOn(b, k) \cup {Len(b.intents) + 1}
                        ELSE IntentsOn(b, k)
  BY <1>1, <1>2 DEF IntentsOn
<1>4. \A n \in IntentsOn(b, k) : c.intents[n] = b.intents[n]
  BY <1>1 DEF IntentsOn
<1> QED BY <1>1, <1>3, <1>4 DEF AllOfType

\* The entry written to, and the replay of the intents on it.
LEMMA WrittenReplays ==
    ASSUME NEW b \in BranchContext, BranchReplays(b), NEW intent \in WriteIntent, NEW s \in Store,
           NEW start \in Value, AllOfType(b, intent.object, intent.type)
    PROVE  Parallel(EntryAfter(b, intent, s), intent.type, start,
                    BufferedValue(start, Replay(b, intent.object, start), intent))
<1> DEFINE k == intent.object
           before == EntryBefore(b, k, s)
           after == EntryAfter(b, intent, s)
           value == Replay(b, k, start)
<1>1. before \in CacheEntry /\ after \in CacheEntry /\ k \in Key /\ intent.type \in IntentType
  BY EntryBeforeType, EntryAfterType DEF WriteIntent
<1>2. /\ after.base_value = before.base_value
      /\ after.current_value = BufferedValue(before.base_value, before.current_value, intent)
  <2> HIDE DEF before
  <2>1. after = [before EXCEPT
            !.intent_type = intent.type,
            !.current_value = BufferedValue(before.base_value, @, intent)]
    BY DEF EntryAfter, before
  <2> HIDE DEF after
  <2> QED BY <1>1, <2>1 DEF CacheEntry
<1>3. Parallel(before, intent.type, start, value) \/ intent.type \in {"Overwrite", "Cas"}
  <2>1. CASE IsBuffered(b, k)
    <3>1. before = b.entries[k]
      BY <2>1 DEF EntryBefore
    <3> HIDE DEF before
    <3> QED BY <1>1, <2>1, <3>1 DEF BranchReplays
  <2>2. CASE ~IsBuffered(b, k)
    <3>1. before.current_value = before.base_value
      BY <2>2 DEF EntryBefore
    <3>2. value = start
      <4>1. ~HasIntent(b, k)
        BY <1>1, <2>2 DEF BranchReplays
      <4> QED BY <4>1, ReplayNone
    <3> HIDE DEF before, value
    <3>3. intent.type \notin {"Overwrite", "Cas"} => intent.type \in {"Read", "Append", "Delta"}
      BY <1>1 DEF IntentType
    <3> QED BY <1>1, <3>1, <3>2, <3>3, ParallelStart
  <2> QED BY <2>1, <2>2
<1> HIDE DEF before, after, value
<1>4. Parallel(after, intent.type, start, BufferedValue(start, value, intent))
  BY <1>1, <1>2, <1>3, ParallelNext
<1> QED BY <1>4 DEF after, value

\* BufferWrite keeps a branch the replay of its intents.
LEMMA BufferWriteReplays ==
    ASSUME NEW b \in BranchContext, BranchReplays(b), NEW intent \in WriteIntent, NEW s \in Store
    PROVE  BranchReplays(BufferWrite(b, intent, s))
<1> DEFINE c == BufferWrite(b, intent, s)
           k == intent.object
<1>1. /\ c \in BranchContext /\ k \in Key
      /\ c.intents = Append(b.intents, intent)
      /\ DOMAIN c.entries = DOMAIN b.entries \cup {k}
      /\ c.entries[k] = EntryAfter(b, intent, s)
      /\ \A j \in DOMAIN b.entries : j # k => c.entries[j] = b.entries[j]
      /\ c.order = IF IsBuffered(b, k) THEN b.order ELSE Append(b.order, k)
  BY BufferWriteIs
<1> HIDE DEF c
<1>2. SUFFICES ASSUME NEW j \in Key
               PROVE  IF IsBuffered(c, j)
                      THEN /\ HasIntent(c, j)
                           /\ \E n \in DOMAIN c.order : c.order[n] = j
                           /\ \A start \in Value, type \in IntentType : AllOfType(c, j, type) =>
                                  Parallel(c.entries[j], type, start, Replay(c, j, start))
                      ELSE ~HasIntent(c, j)
  BY DEF BranchReplays, c
<1>3. /\ IntentsOn(c, j) = IF k = j THEN IntentsOn(b, j) \cup {Len(b.intents) + 1} ELSE IntentsOn(b, j)
      /\ \A type : AllOfType(c, j, type) <=> AllOfType(b, j, type) /\ (k = j => intent.type = type)
  BY <1>1, IntentsOnAppend
<1>4. \A start : Replay(c, j, start) = IF k = j
                                       THEN BufferedValue(start, Replay(b, j, start), intent)
                                       ELSE Replay(b, j, start)
  BY <1>1, ReplayAppend
<1>5. b.order \in Seq(Key) /\ DOMAIN b.order \subseteq DOMAIN c.order
      /\ \A n \in DOMAIN b.order : c.order[n] = b.order[n]
  BY <1>1 DEF BranchContext
<1>6. CASE j = k
  <2>1. HasIntent(c, j) /\ IsBuffered(c, j)
    BY <1>1, <1>3, <1>6 DEF HasIntent, IsBuffered
  <2>2. \E n \in DOMAIN c.order : c.order[n] = j
    <3>1. CASE IsBuffered(b, k)
      <4>1. \E n \in DOMAIN b.order : b.order[n] = k
        BY <1>1, <3>1 DEF BranchReplays
      <4> QED BY <1>5, <1>6, <4>1
    <3>2. CASE ~IsBuffered(b, k)
      <4>1. Len(b.order) + 1 \in DOMAIN c.order /\ c.order[Len(b.order) + 1] = k
        BY <1>1, <1>5, <3>2
      <4> QED BY <1>6, <4>1
    <3> QED BY <3>1, <3>2
  <2>3. ASSUME NEW start \in Value, NEW type \in IntentType, AllOfType(c, j, type)
        PROVE  Parallel(c.entries[j], type, start, Replay(c, j, start))
    <3>1. type = intent.type /\ AllOfType(b, k, intent.type)
      BY <1>3, <1>6, <2>3
    <3>2. Parallel(EntryAfter(b, intent, s), intent.type, start,
                   BufferedValue(start, Replay(b, k, start), intent))
      BY <3>1, WrittenReplays
    <3> QED BY <1>1, <1>4, <1>6, <3>1, <3>2
  <2> QED BY <2>1, <2>2, <2>3
<1>7. CASE j # k
  <2>1. /\ IsBuffered(c, j) <=> IsBuffered(b, j)
        /\ HasIntent(c, j) <=> HasIntent(b, j)
        /\ IsBuffered(b, j) => c.entries[j] = b.entries[j]
    BY <1>1, <1>3, <1>7 DEF IsBuffered, HasIntent
  <2>2. CASE IsBuffered(b, j)
    <3>1. /\ HasIntent(b, j)
          /\ \E n \in DOMAIN b.order : b.order[n] = j
          /\ \A start \in Value, type \in IntentType : AllOfType(b, j, type) =>
                 Parallel(b.entries[j], type, start, Replay(b, j, start))
      BY <2>2 DEF BranchReplays
    <3> QED BY <1>3, <1>4, <1>5, <1>7, <2>1, <2>2, <3>1
  <2>3. CASE ~IsBuffered(b, j)
    <3>1. ~HasIntent(b, j)
      BY <2>3 DEF BranchReplays
    <3> QED BY <2>1, <2>3, <3>1
  <2> QED BY <2>2, <2>3
<1> QED BY <1>6, <1>7

\* Every step keeps ReplayInv.
LEMMA ReplayInvNext == TypeInv /\ ReplayInv /\ [Next]_vars => ReplayInv'
<1> SUFFICES ASSUME TypeInv, ReplayInv, [Next]_vars, NEW t \in Txn, NEW i \in BranchIds
             PROVE  BranchReplays(branches'[t][i])
  BY DEF ReplayInv
<1> DEFINE b == branches[t][i]
           c == branches'[t][i]
<1>1. b \in BranchContext /\ BranchReplays(b) /\ store \in Store
  BY DEF TypeInv, BranchTypeInv, ReplayInv, StoreTypeInv
<1>2. \/ SeesNothingNew(b, c)
      \/ \E k \in Key : c = ReadObject(b, k, store)
      \/ \E intent \in Intents : c = BufferWrite(b, intent, store)
  BY BranchChanges
<1> HIDE DEF b, c
<1>3. CASE SeesNothingNew(b, c)
  <2>1. BranchReplays(c)
    BY <1>1, <1>3, SameReplays, EmptyReplays DEF SeesNothingNew
  <2> QED BY <2>1 DEF c
<1>4. ASSUME NEW k \in Key, c = ReadObject(b, k, store)
      PROVE  BranchReplays(c)
  <2>1. c.entries = b.entries /\ c.order = b.order /\ c.intents = b.intents
    BY <1>1, <1>4 DEF ReadObject, BranchContext
  <2> QED BY <1>1, <2>1, SameReplays
<1>5. ASSUME NEW intent \in Intents, c = BufferWrite(b, intent, store)
      PROVE  BranchReplays(c)
  BY <1>1, <1>5, BufferWriteReplays, IntentsAssumption
<1> QED BY <1>2, <1>3, <1>4, <1>5 DEF c

--------------------------------------------------------------------------------
(* Which entries are written, and that the policy accepted them.             *)

\* Every entry passed has been written, unless its latest intent is a read; and
\* resolving a write again at the version it is checked at succeeds again.
WriteMade(t, write) ==
    /\ LatestIntent(Winner(t), write.key).type # "Read"
    /\ store[write.key].version = checks[t][write.key] => ResolvedWrite(t, write.key).success

PassedWritten(t) ==
    \A m \in DOMAIN Winner(t).order :
        (m < cursor[t] /\ LatestIntent(Winner(t), Winner(t).order[m]).type # "Read")
            => Winner(t).order[m] \in KeysOf(writes[t])

MadeWritesInv ==
    \A t \in Txn : phase[t] = "resolving" =>
        PassedWritten(t) /\ \A n \in DOMAIN writes[t] : WriteMade(t, writes[t][n])

\* The policy writes whenever it accepts anything but a read.
LEMMA AcceptedWrites ==
    ASSUME NEW entry, NEW intent \in WriteIntent, NEW now, ResolveWrite(entry, intent, now).success
    PROVE  ResolveWrite(entry, intent, now).should_write <=> intent.type # "Read"
<1>1. intent.type \in IntentType
  BY DEF WriteIntent
<1>2. CASE intent.type = "Read"
  BY <1>2 DEF ResolveWrite, NoWrite
<1>3. CASE intent.type = "Overwrite"
  BY <1>3 DEF ResolveWrite, WriteOf
<1>4. CASE intent.type = "Append"
  BY <1>4 DEF ResolveWrite, ResolveAppend, WriteOf
<1>5. CASE intent.type = "Delta"
  BY <1>5 DEF ResolveWrite, ResolveDelta, WriteOf, Refused
<1>6. CASE intent.type = "Cas"
  BY <1>6 DEF ResolveWrite, WriteOf, Refused
<1> QED BY <1>1, <1>2, <1>3, <1>4, <1>5, <1>6 DEF IntentType

\* ResolveEntry passes an entry the policy accepts, and writes it unless it is a
\* read.
LEMMA ResolveEntryMakes ==
    ASSUME TypeInv, NEW t \in Txn, ResolveEntry(t), phase'[t] = "resolving"
    PROVE  LET k == Winner(t).order[cursor[t]]
           IN  /\ ResolvedWrite(t, k).success
               /\ ResolvedWrite(t, k).should_write <=> LatestIntent(Winner(t), k).type # "Read"
               /\ IF ResolvedWrite(t, k).should_write
                  THEN /\ checks'[t] = [j \in DOMAIN checks[t] \cup {k} |->
                                           IF j = k THEN ExpectedVersion(t, k) ELSE checks[t][j]]
                       /\ writes'[t] = Append(writes[t], [key |-> k, value |-> ResolvedWrite(t, k).value])
                  ELSE checks'[t] = checks[t] /\ writes'[t] = writes[t]
<1> USE DEF TypeInv, BranchTypeInv, CommitTypeInv
<1> DEFINE k == Winner(t).order[cursor[t]]
<1>1. EntryAccepted(t, k)
  BY DEF ResolveEntry, Abort
<1>2. ResolvedWrite(t, k).success /\ HasIntent(Winner(t), k)
  BY <1>1 DEF EntryAccepted
<1>3. ResolvedWrite(t, k).should_write <=> LatestIntent(Winner(t), k).type # "Read"
  <2>1. phase[t] = "resolving" /\ cursor[t] <= Len(Winner(t).order)
    BY DEF ResolveEntry
  <2>2. Winner(t) \in BranchContext
    BY <2>1, ResolvingEntry
  <2> HIDE DEF TypeInv, BranchTypeInv, CommitTypeInv, k
  <2>3. LatestIntent(Winner(t), k) \in WriteIntent
    BY <1>2, <2>2, LatestIntentType
  <2> QED BY <1>2, <2>3, AcceptedWrites DEF ResolvedWrite
<1>4. CASE ResolvedWrite(t, k).should_write
  <2>1. checks' = [checks EXCEPT ![t] =
            [j \in DOMAIN @ \cup {k} |-> IF j = k THEN ExpectedVersion(t, k) ELSE @[j]]]
    BY <1>1, <1>4 DEF ResolveEntry
  <2>2. writes' = [writes EXCEPT ![t] = Append(@, [key |-> k, value |-> ResolvedWrite(t, k).value])]
    BY <1>1, <1>4 DEF ResolveEntry
  <2>3. /\ checks'[t] = [j \in DOMAIN checks[t] \cup {k} |->
                             IF j = k THEN ExpectedVersion(t, k) ELSE checks[t][j]]
        /\ writes'[t] = Append(writes[t], [key |-> k, value |-> ResolvedWrite(t, k).value])
    BY <2>1, <2>2
  <2> QED BY <1>2, <1>3, <1>4, <2>3
<1>5. CASE ~ResolvedWrite(t, k).should_write
  <2>1. UNCHANGED <<checks, writes>>
    BY <1>1, <1>5 DEF ResolveEntry
  <2> QED BY <1>2, <1>3, <1>5, <2>1
<1> QED BY <1>4, <1>5

\* Resolving an entry keeps MadeWritesInv for its transaction.
LEMMA ResolveEntryMade ==
    ASSUME BatchInv, MadeWritesInv, NEW t \in Txn, ResolveEntry(t), phase'[t] = "resolving"
    PROVE  PassedWritten(t)' /\ \A n \in DOMAIN writes'[t] : WriteMade(t, writes[t][n])'
<1>1. TypeInv /\ phase[t] = "resolving" /\ cursor[t] <= Len(Winner(t).order)
  BY DEF BatchInv, StoreInv, ResolveEntry
<1>2. winner[t] \in BranchIds
  BY <1>1 DEF TypeInv, WinnerInv, Committing
<1>3. PICK k : k = Winner(t).order[cursor[t]]
  OBVIOUS
<1>4. /\ k \in Key /\ OrderIsInjective(Winner(t)) /\ cursor[t] \in DOMAIN Winner(t).order
      /\ Winner(t).order \in Seq(Key) /\ cursor[t] \in Nat
  <2>1. Winner(t) \in BranchContext /\ k \in Key
    BY <1>1, <1>3, ResolvingEntry
  <2>2. OrderIsInjective(Winner(t))
    BY <1>2 DEF BatchInv, OnceInv, Winner
  <2>3. Winner(t).order \in Seq(Key) /\ cursor[t] \in Nat \ {0}
    BY <1>1, <2>1 DEF BranchContext, TypeInv, CommitTypeInv
  <2> QED BY <1>1, <2>1, <2>2, <2>3
<1>5. UNCHANGED <<store, branches, winner>> /\ cursor'[t] = cursor[t] + 1
  BY <1>1, ResolveEntryCases
<1>6. /\ ResolvedWrite(t, k).success
      /\ ResolvedWrite(t, k).should_write <=> LatestIntent(Winner(t), k).type # "Read"
      /\ IF ResolvedWrite(t, k).should_write
         THEN /\ checks'[t] = [j \in DOMAIN checks[t] \cup {k} |->
                                  IF j = k THEN ExpectedVersion(t, k) ELSE checks[t][j]]
              /\ writes'[t] = Append(writes[t], [key |-> k, value |-> ResolvedWrite(t, k).value])
         ELSE checks'[t] = checks[t] /\ writes'[t] = writes[t]
  BY <1>1, <1>3, ResolveEntryMakes
<1>7. /\ Winner(t)' = Winner(t)
      /\ \A j : ResolvedWrite(t, j)' = ResolvedWrite(t, j)
  BY <1>5 DEF Winner, ResolvedWrite
<1>8. /\ PassedWritten(t) /\ \A n \in DOMAIN writes[t] : WriteMade(t, writes[t][n])
      /\ \A n \in DOMAIN writes[t] : WriteChecked(t, writes[t][n])
      /\ writes[t] \in Seq(WriteOp)
  BY <1>1 DEF MadeWritesInv, BatchInv, ResolvingInv, TypeInv, CommitTypeInv
\* The writes of entries passed before are other objects'.
<1>9. ASSUME NEW n \in DOMAIN writes[t]
      PROVE  WriteMade(t, writes[t][n]) /\ writes[t][n].key # k
             /\ checks'[t][writes[t][n].key] = checks[t][writes[t][n].key]
  <2>1. WriteMade(t, writes[t][n]) /\ WriteChecked(t, writes[t][n])
    BY <1>8
  <2>2. writes[t][n].key # k
    BY <1>3, <1>4, <2>1 DEF WriteChecked, OrderIsInjective
  <2>3. writes[t][n].key \in DOMAIN checks[t]
    BY <2>1 DEF WriteChecked
  <2> QED BY <1>6, <2>1, <2>2, <2>3
<1>10. ASSUME NEW m \in DOMAIN Winner(t).order, m < cursor'[t]
       PROVE  m < cursor[t] \/ Winner(t).order[m] = k
  BY <1>3, <1>4, <1>5, <1>10
<1>11. CASE ~ResolvedWrite(t, k).should_write
  <2>1. checks'[t] = checks[t] /\ writes'[t] = writes[t] /\ LatestIntent(Winner(t), k).type = "Read"
    BY <1>6, <1>11
  <2>2. PassedWritten(t)'
    BY <1>7, <1>8, <1>10, <2>1 DEF PassedWritten
  <2>3. \A n \in DOMAIN writes'[t] : WriteMade(t, writes[t][n])'
    BY <1>5, <1>7, <1>9, <2>1 DEF WriteMade
  <2> QED BY <2>2, <2>3
<1>12. CASE ResolvedWrite(t, k).should_write
  <2>1. PICK new \in WriteOp : new = [key |-> k, value |-> ResolvedWrite(t, k).value]
    <3>1. ResolvedWrite(t, k).value \in Value
      <4>1. HasIntent(Winner(t), k) /\ Winner(t) \in BranchContext /\ k \in DOMAIN Winner(t).entries
        BY <1>1, <1>3, ResolveEntryCases, ResolvingEntry
      <4> QED BY <1>1, <1>4, <4>1, ResolvedTypes
    <3> QED BY <1>4, <3>1 DEF WriteOp
  <2>2. /\ writes'[t] = Append(writes[t], new) /\ new.key = k
        /\ LatestIntent(Winner(t), k).type # "Read"
    BY <1>6, <1>12, <2>1
  <2>3. KeysOf(writes'[t]) = KeysOf(writes[t]) \cup {k}
    BY <1>8, <2>2 DEF KeysOf
  <2>4. PassedWritten(t)'
    BY <1>7, <1>8, <1>10, <2>3 DEF PassedWritten
  <2>5. ASSUME NEW n \in DOMAIN writes'[t]
        PROVE  WriteMade(t, writes[t][n])'
    <3>1. CASE n \in DOMAIN writes[t]
      <4>1. writes'[t][n] = writes[t][n]
        BY <1>8, <2>2, <3>1
      <4> QED BY <1>5, <1>7, <1>9, <3>1, <4>1 DEF WriteMade
    <3>2. CASE n \notin DOMAIN writes[t]
      <4>1. writes'[t][n].key = k
        BY <1>8, <2>2, <3>2
      <4> QED BY <1>6, <1>7, <2>2, <4>1 DEF WriteMade
    <3> QED BY <3>1, <3>2
  <2> QED BY <2>4, <2>5
<1> QED BY <1>11, <1>12

\* Every step keeps MadeWritesInv.
LEMMA MadeWritesNext == AtomicBatch /\ BatchInv /\ MadeWritesInv /\ [Next]_vars => MadeWritesInv'
<1> SUFFICES ASSUME AtomicBatch, BatchInv, MadeWritesInv, [Next]_vars,
                    NEW t \in Txn, phase'[t] = "resolving"
             PROVE  PassedWritten(t)' /\ \A n \in DOMAIN writes'[t] : WriteMade(t, writes[t][n])'
  BY DEF MadeWritesInv
<1>1. StoreInv /\ TypeInv /\ store \in Store /\ store' \in Store
  BY StoreInvNext DEF BatchInv, StoreInv, TypeInv, StoreTypeInv
<1>2. CASE ResolveEntry(t)
  BY <1>2, ResolveEntryMade
<1>3. CASE CheckReads(t)
  <2>1. phase[t] = "validating" /\ writes'[t] = <<>> /\ cursor'[t] = 1
    BY <1>1, <1>3 DEF CheckReads, Abort, TypeInv, BranchTypeInv, CommitTypeInv, BatchInv, NoWritesYet
  <2>2. Winner(t)' = Winner(t) /\ Winner(t).order \in Seq(Key)
    <3>1. UNCHANGED <<branches, winner>>
      BY <1>1, <1>3 DEF CheckReads, Abort, TypeInv, BranchTypeInv
    <3>2. Winner(t) \in BranchContext
      BY <1>1, <2>1 DEF TypeInv, BranchTypeInv, WinnerInv, Committing, Winner
    <3> QED BY <3>1, <3>2 DEF Winner, BranchContext
  <2>3. PassedWritten(t)'
    BY <2>1, <2>2 DEF PassedWritten
  <2> QED BY <2>1, <2>3
<1>4. CASE ~ResolveEntry(t) /\ ~CheckReads(t)
  <2>1. /\ phase[t] = "resolving"
        /\ branches'[t] = branches[t] /\ winner'[t] = winner[t]
        /\ checks'[t] = checks[t] /\ writes'[t] = writes[t] /\ cursor'[t] = cursor[t]
    BY <1>1, <1>4, ResolvingUndisturbed
  <2>2. /\ PassedWritten(t) /\ \A n \in DOMAIN writes[t] : WriteMade(t, writes[t][n])
        /\ \A n \in DOMAIN writes[t] : WriteChecked(t, writes[t][n])
    BY <2>1 DEF MadeWritesInv, BatchInv, ResolvingInv
  <2>3. Winner(t)' = Winner(t)
    BY <2>1 DEF Winner
  <2>4. PassedWritten(t)'
    BY <2>1, <2>2, <2>3 DEF PassedWritten
  <2>5. ASSUME NEW n \in DOMAIN writes'[t]
        PROVE  WriteMade(t, writes[t][n])'
    <3> DEFINE k == writes[t][n].key
    <3>1. writes[t] \in Seq(WriteOp) /\ checks[t] \in VersionChecks
      BY <1>1 DEF TypeInv, CommitTypeInv
    <3>2. k \in Key /\ WriteMade(t, writes[t][n]) /\ WriteChecked(t, writes[t][n])
      <4>1. writes[t][n] \in WriteOp
        BY <2>1, <3>1
      <4> QED BY <2>1, <2>2, <4>1 DEF WriteOp
    <3>3. checks[t][k] \in Nat /\ checks[t][k] <= store[k].version
      BY <3>1, <3>2, VersionChecksDef DEF WriteChecked
    <3>4. Advances(store[k], store'[k])
      BY <1>1, <3>2, StoreAdvances DEF KeepsVersions
    <3>5. store[k].version \in Nat /\ store'[k].version \in Nat
      BY <1>1, <3>2 DEF Store, VersionedValue
    <3>6. ASSUME store'[k].version = checks[t][k]
          PROVE  ResolvedWrite(t, k)'.success
      <4>1. store[k].version = checks[t][k] /\ store'[k].value = store[k].value
        BY <3>3, <3>4, <3>5, <3>6 DEF Advances
      <4>2. ResolvedWrite(t, k).success
        BY <3>2, <4>1 DEF WriteMade
      <4>3. k' = k
        BY <2>1
      <4> HIDE DEF k
      <4>4. ResolvedWrite(t, k)' = ResolvedWrite(t, k)
        BY <2>3, <4>1, <4>3 DEF ResolvedWrite
      <4> QED BY <4>2, <4>4
    <3>7. writes'[t][n] = writes[t][n] /\ LatestIntent(Winner(t)', k).type # "Read"
      BY <2>1, <2>3, <3>2 DEF WriteMade
    <3> QED BY <2>1, <2>3, <3>6, <3>7 DEF WriteMade
  <2> QED BY <2>4, <2>5
<1> QED BY <1>2, <1>3, <1>4

\* The inductive invariant of a commit as a replay of the winner.
CommitInv == BatchInv /\ ReplayInv /\ MadeWritesInv

\* CommitInv holds at the start.
LEMMA CommitInvInit == Init => CommitInv
<1> SUFFICES ASSUME Init PROVE CommitInv
  OBVIOUS
<1>1. ReplayInv
  BY EmptyReplays DEF Init, ReplayInv, CreateBranch
<1>2. MadeWritesInv
  BY DEF Init, MadeWritesInv
<1> QED BY <1>1, <1>2, BatchInvInit DEF CommitInv

\* Every step keeps CommitInv, on a store with an atomic batch.
LEMMA CommitInvNext == AtomicBatch /\ CommitInv /\ [Next]_vars => CommitInv'
BY BatchInvNext, ReplayInvNext, MadeWritesNext DEF CommitInv, BatchInv, StoreInv

\* A write of the batch, at the moment of the commit, is what the policy makes of
\* the value it replaces, and the policy accepts it.
LEMMA BatchWrites ==
    ASSUME AtomicBatch, CommitInv, NEW t \in Txn, Resolved(t), ChecksHold(store, checks[t]),
           NEW k \in KeysOf(writes[t])
    PROVE  /\ k \in Key /\ IsBuffered(Winner(t), k)
           /\ LatestIntent(Winner(t), k).type # "Read" /\ ResolvedWrite(t, k).success
           /\ BatchPut(store, writes[t])[k].value = ResolvedWrite(t, k).value
<1>1. /\ writes[t] \in Seq(WriteOp) /\ store \in Store /\ phase[t] = "resolving"
      /\ OrderIsBuffered(Winner(t))
  BY DEF CommitInv, BatchInv, StoreInv, TypeInv, CommitTypeInv, StoreTypeInv, Resolved,
         WinnerInv, Committing, OrderInv, Winner
<1>2. \A n \in DOMAIN writes[t] : WriteChecked(t, writes[t][n]) /\ WriteMade(t, writes[t][n])
  BY <1>1 DEF CommitInv, BatchInv, ResolvingInv, MadeWritesInv
<1>3. ASSUME NEW n \in DOMAIN writes[t], writes[t][n].key = k
      PROVE  /\ writes[t][n].value = ResolvedWrite(t, k).value
             /\ ResolvedWrite(t, k).success /\ LatestIntent(Winner(t), k).type # "Read"
             /\ IsBuffered(Winner(t), k)
  <2>1. WriteChecked(t, writes[t][n]) /\ WriteMade(t, writes[t][n])
    BY <1>2
  <2>2. store[k].version = checks[t][k]
    BY <1>3, <2>1 DEF WriteChecked, ChecksHold, VersionIs
  <2>3. writes[t][n].value = ResolvedWrite(t, k).value /\ ResolvedWrite(t, k).success
    BY <1>3, <2>1, <2>2 DEF WriteChecked, WriteMade
  <2>4. LatestIntent(Winner(t), k).type # "Read"
    BY <1>3, <2>1 DEF WriteMade
  <2>5. IsBuffered(Winner(t), k)
    BY <1>1, <1>3, <2>1 DEF WriteChecked, OrderIsBuffered, IsBuffered
  <2> QED BY <2>3, <2>4, <2>5
<1> DEFINE i == CHOOSE j \in DOMAIN writes[t] : writes[t][j].key = k
<1>4. i \in DOMAIN writes[t] /\ writes[t][i].key = k
  BY DEF KeysOf
<1>5. k \in Key
  <2>1. writes[t][i] \in WriteOp
    <3> HIDE DEF i
    <3> QED BY <1>1, <1>4
  <2> QED BY <1>4, <2>1 DEF WriteOp
<1>6. BatchPut(store, writes[t])[k].value = writes[t][i].value
  BY <1>1, <1>5 DEF BatchPut, Stored, Store
<1> HIDE DEF i
<1> QED BY <1>3, <1>4, <1>5, <1>6

\* What the batch leaves of a buffered object, all of whose intents are of one
\* kind, is the replay of the intents on the value that was there.
LEMMA BatchReplays ==
    ASSUME AtomicBatch, CommitInv, NEW t \in Txn, Resolved(t), ChecksHold(store, checks[t]),
           NEW k \in Key, IsBuffered(Winner(t), k), Uniform(Winner(t), k)
    PROVE  BatchPut(store, writes[t])[k].value = Replay(Winner(t), k, store[k].value)
<1> DEFINE b == Winner(t)
           latest == LatestIntent(b, k)
           now == store[k].value
<1>1. /\ b \in BranchContext /\ store \in Store /\ phase[t] = "resolving" /\ cursor[t] > Len(b.order)
      /\ cursor[t] \in Nat
  BY DEF CommitInv, BatchInv, StoreInv, TypeInv, CommitTypeInv, BranchTypeInv, StoreTypeInv, Resolved,
         WinnerInv, Committing, Winner
<1>2. BranchReplays(b)
  BY DEF CommitInv, ReplayInv, BatchInv, StoreInv, TypeInv, Resolved, WinnerInv, Committing, Winner
<1>3. now \in Value /\ b.entries[k] \in CacheEntry
  <2>1. b.entries \in Entries
    BY <1>1 DEF BranchContext
  <2> QED BY <1>1, <2>1, EntriesDef DEF Store, VersionedValue, IsBuffered
<1> HIDE DEF b
<1>4. HasIntent(b, k) /\ \E n \in DOMAIN b.order : b.order[n] = k
  BY <1>2 DEF BranchReplays, b
<1>5. latest \in WriteIntent /\ AllOfType(b, k, latest.type)
  <2>1. latest \in WriteIntent
    BY <1>1, <1>4, LatestIntentType
  <2>2. b.intents \in Seq(WriteIntent) /\ IntentsOn(b, k) \in SUBSET (1 .. Len(b.intents))
    BY <1>1 DEF BranchContext, IntentsOn
  <2>3. \E m \in IntentsOn(b, k) : \A j \in IntentsOn(b, k) : j <= m
    <3>1. Len(b.intents) \in Nat /\ IntentsOn(b, k) # {}
      BY <1>4, <2>2 DEF HasIntent
    <3> QED BY <2>2, <3>1, GreatestIndex
  <2>4. \E m \in IntentsOn(b, k) : latest = b.intents[m]
    BY <2>3 DEF LatestIntent
  <2> QED BY <2>1, <2>4 DEF AllOfType, Uniform, b
<1>6. Parallel(b.entries[k], latest.type, now, Replay(b, k, now))
  BY <1>2, <1>3, <1>5 DEF BranchReplays, WriteIntent, b
<1>7. CASE latest.type = "Read"
  <2>1. k \notin KeysOf(writes[t])
    BY <1>7, BatchWrites DEF b
  <2>2. BatchPut(store, writes[t])[k] = store[k]
    BY <1>1, <2>1 DEF BatchPut, Store
  <2>3. Replay(b, k, now) = now
    BY <1>6, <1>7 DEF Parallel
  <2> QED BY <2>2, <2>3 DEF b
<1>8. CASE latest.type # "Read"
  <2>1. k \in KeysOf(writes[t])
    <3>1. PassedWritten(t)
      BY <1>1 DEF CommitInv, MadeWritesInv
    <3>2. PICK n \in DOMAIN b.order : b.order[n] = k
      BY <1>4
    <3>3. n < cursor[t]
      BY <1>1 DEF BranchContext
    <3> QED BY <1>8, <3>1, <3>2, <3>3 DEF PassedWritten, b
  <2>2. /\ ResolvedWrite(t, k).success
        /\ BatchPut(store, writes[t])[k].value = ResolvedWrite(t, k).value
    BY <2>1, BatchWrites
  <2>3. ResolvedWrite(t, k) = ResolveWrite(b.entries[k], latest, now)
    BY DEF ResolvedWrite, b
  <2>4. latest.type = "Delta" => IsInt(b.entries[k].base_value)
    BY DEF Uniform, b
  <2> HIDE DEF latest, now
  <2>5. ResolvedWrite(t, k).value = Replay(b, k, now)
    BY <1>3, <1>5, <1>6, <1>8, <2>2, <2>3, <2>4, ResolveIsReplay
  <2> QED BY <2>2, <2>5 DEF b, now
<1> QED BY <1>7, <1>8

\* With an atomic batch a commit is a serial execution of the winner: on every
\* object it buffered, with intents of one kind, the batch of CommitWinner leaves
\* what these intents, replayed in their order, make of the value that was in the
\* store at that instant, whatever the base the branch had worked from; and it
\* leaves every other object alone.
THEOREM CommitReplaysWinnerHolds ==
    ASSUME AtomicBatch
    PROVE  Spec => CommitReplaysWinner
<1> DEFINE Replayed(t) ==
        \A k \in Key :
            IF IsBuffered(Winner(t), k)
            THEN Uniform(Winner(t), k) => store'[k].value = Replay(Winner(t), k, store[k].value)
            ELSE store'[k] = store[k]
<1>1. ASSUME CommitInv, [Next]_vars, NEW t \in Txn, Commits(t)
      PROVE  Replayed(t)
  <2>1. Resolved(t) /\ ChecksHold(store, checks[t]) /\ store' = BatchPut(store, writes[t])
    BY <1>1, CommitIsBatch DEF CommitInv
  <2>2. ASSUME NEW k \in Key, IsBuffered(Winner(t), k), Uniform(Winner(t), k)
        PROVE  store'[k].value = Replay(Winner(t), k, store[k].value)
    BY <1>1, <2>1, <2>2, BatchReplays
  <2>3. ASSUME NEW k \in Key, ~IsBuffered(Winner(t), k)
        PROVE  store'[k] = store[k]
    <3>1. k \notin KeysOf(writes[t])
      BY <1>1, <2>1, <2>3, BatchWrites
    <3>2. store \in Store
      BY <1>1 DEF CommitInv, BatchInv, StoreInv, TypeInv, StoreTypeInv
    <3> QED BY <2>1, <3>1, <3>2 DEF BatchPut, Store
  <2> QED BY <2>2, <2>3
<1>2. CommitInv /\ [Next]_vars => [\A t \in Txn : Commits(t) => Replayed(t)]_vars
  BY <1>1
<1> QED BY <1>2, CommitInvInit, CommitInvNext, PTL DEF Spec, CommitReplaysWinner

--------------------------------------------------------------------------------
(* The refinement: a transaction is one step of AtomicStore.                 *)

Outcomes == [t \in Txn |-> Outcome(t)]
Intended == [t \in Txn |-> KeysOf(writes[t])]

\* A step that leaves the store, the phases' outcomes and the writes alone.
LEMMA AtomicStutter ==
    ASSUME store' = store, \A t \in Txn : Outcome(t)' = Outcome(t), writes' = writes
    PROVE  UNCHANGED Atomic!vars
<1>1. Outcomes' = Outcomes /\ Intended' = Intended
  BY DEF Outcomes, Intended
<1> QED BY <1>1 DEF Atomic!vars, Outcomes, Intended

\* A transaction that ends without a commit.
LEMMA AtomicAbort ==
    ASSUME TypeInv, NEW t \in Txn, phase[t] \notin {"committed", "aborted"}, Abort(t),
           store' = store, writes' = writes
    PROVE  Atomic!Abort(t)
<1>1. Outcomes[t] = "open"
  BY DEF Outcomes, Outcome
<1>2. Outcomes' = [Outcomes EXCEPT ![t] = "aborted"]
  BY DEF Abort, Outcomes, Outcome, TypeInv, BranchTypeInv
<1>3. Intended' = Intended
  BY DEF Intended
<1> QED BY <1>1, <1>2, <1>3 DEF Atomic!Abort, Outcomes, Intended

\* The batch changes the keys of the writes, each by one version, and no other.
LEMMA BatchPutChanges ==
    ASSUME NEW s \in Store, NEW batch \in Seq(WriteOp)
    PROVE  LET new == BatchPut(s, batch)
           IN  /\ \A k \in Key : new[k] # s[k] <=> k \in KeysOf(batch)
               /\ \A k \in KeysOf(batch) :
                    k \in Key /\ new[k].exists /\ new[k].version = s[k].version + 1
<1> DEFINE new == BatchPut(s, batch)
<1>1. \A i \in DOMAIN batch : batch[i] \in WriteOp
  OBVIOUS
<1>2. KeysOf(batch) \subseteq Key
  BY <1>1 DEF KeysOf, WriteOp
<1>3. \A k \in Key : k \notin KeysOf(batch) => new[k] = s[k]
  BY DEF BatchPut, Store
<1>4. \A k \in KeysOf(batch) : new[k].exists /\ new[k].version = s[k].version + 1
  BY <1>2 DEF BatchPut, Store, Stored
<1>5. \A k \in Key : s[k].version \in Nat
  BY DEF Store, VersionedValue
<1> HIDE DEF new
<1>6. \A k \in KeysOf(batch) : new[k] # s[k]
  <2> SUFFICES ASSUME NEW k \in KeysOf(batch), new[k] = s[k]
               PROVE  FALSE
    OBVIOUS
  <2>1. s[k].version \in Nat
    BY <1>2, <1>5
  <2>2. new[k].version = s[k].version + 1
    BY <1>4
  <2>3. new[k].version = s[k].version
    OBVIOUS
  <2> QED BY <2>1, <2>2, <2>3
<1> QED BY <1>2, <1>3, <1>4, <1>6 DEF new

\* The batch commit is the abstract commit.
LEMMA AtomicCommit ==
    ASSUME TypeInv, NEW t \in Txn, Resolved(t), Finish(t), store' = BatchPut(store, writes[t]),
           writes' = writes
    PROVE  Atomic!Commit(t)
<1>1. Outcomes[t] = "open"
  BY DEF Resolved, Outcomes, Outcome
<1>2. Outcomes' = [Outcomes EXCEPT ![t] = "committed"]
  BY DEF Finish, Outcomes, Outcome, TypeInv, BranchTypeInv
<1>3. Intended' = Intended
  BY DEF Intended
<1>4. store \in Store /\ writes[t] \in Seq(WriteOp)
  BY DEF TypeInv, StoreTypeInv, CommitTypeInv
<1>5. {k \in Key : store'[k] # store[k]} = Intended[t]
  BY <1>4, BatchPutChanges DEF Intended
<1>6. \A k \in Intended[t] : store'[k].exists /\ store'[k].version = store[k].version + 1
  BY <1>4, BatchPutChanges DEF Intended
<1> QED BY <1>1, <1>2, <1>3, <1>5, <1>6
        DEF Atomic!Commit, Atomic!Changed, Atomic!Bumped, Outcomes, Intended

\* Resolving one more entry is the abstract transaction making up its mind.
LEMMA AtomicWork ==
    ASSUME TypeInv, NEW t \in Txn, phase[t] = "resolving", phase' = phase, store' = store,
           \A u \in Txn \ {t} : writes'[u] = writes[u]
    PROVE  Atomic!Work(t)
<1>1. Outcomes[t] = "open"
  BY DEF Outcomes, Outcome
<1>2. Outcomes' = Outcomes
  BY DEF Outcomes, Outcome
<1>3. Intended' = [Intended EXCEPT ![t] = Intended'[t]]
  BY DEF Intended
<1> QED BY <1>1, <1>2, <1>3 DEF Atomic!Work, Outcomes, Intended

\* A put of another client is one of the abstract store's.
LEMMA AtomicExternalPut ==
    ASSUME TypeInv, NEW k \in Key, NEW v \in PutValues, ExternalPut(k, v)
    PROVE  Atomic!ExternalPut(k)
<1>1. Outcomes' = Outcomes /\ Intended' = Intended
  BY DEF ExternalPut, txnVars, Outcomes, Outcome, Intended
<1>2. store \in Store /\ \A j \in Key : store[j].version \in Nat
  BY DEF TypeInv, StoreTypeInv, Store, VersionedValue
<1>3. store' = [store EXCEPT ![k] = Stored(v, store[k].version + 1)]
  BY DEF ExternalPut, Put
<1>4. store'[k].exists /\ store'[k].version = store[k].version + 1
  BY <1>2, <1>3 DEF Stored, Store
<1>5. {j \in Key : store'[j] # store[j]} = {k}
  BY <1>2, <1>3, <1>4 DEF Store
<1> QED BY <1>1, <1>4, <1>5
        DEF Atomic!ExternalPut, Atomic!Changed, Atomic!Bumped, Outcomes, Intended

\* Every step is a step of the abstract store, or none, on a store with an atomic
\* batch.
LEMMA AtomicNext ==
    ASSUME AtomicBatch, StoreInv, [Next]_vars
    PROVE  [Atomic!Next]_(Atomic!vars)
<1> USE DEF StoreInv
<1>1. ASSUME NEW t \in Txn, BranchStep(t)
      PROVE  [Atomic!Next]_(Atomic!vars)
  <2>1. CASE AbortTask(t)
    BY <2>1, AtomicAbort DEF AbortTask, Atomic!Next
  <2>2. CASE ~AbortTask(t)
    <3>1. store' = store /\ writes' = writes
      BY <1>1, <2>2 DEF BranchStep, Read, Write, Stage, CommitTask
    <3>2. \A u \in Txn : phase'[u] \in {"committed", "aborted"} \/ phase[u] \in {"committed", "aborted"}
                            => phase'[u] = phase[u]
      BY <1>1, <2>2 DEF BranchStep, Read, Write, Stage, CommitTask, TypeInv, BranchTypeInv
    <3>3. \A u \in Txn : Outcome(u)' = Outcome(u)
      BY <3>2 DEF Outcome
    <3> QED BY <3>1, <3>3, AtomicStutter
  <2> QED BY <2>1, <2>2
<1>2. ASSUME NEW t \in Txn, ValidateRead(t) \/ CheckReads(t)
      PROVE  [Atomic!Next]_(Atomic!vars)
  <2>1. /\ store' = store /\ writes' = writes /\ phase[t] = "validating"
        /\ Abort(t) \/ phase' = phase \/ phase' = [phase EXCEPT ![t] = "resolving"]
    BY <1>2 DEF ValidateRead, CheckReads
  <2>2. CASE Abort(t)
    BY <2>1, <2>2, AtomicAbort DEF Atomic!Next
  <2>3. CASE phase' = phase \/ phase' = [phase EXCEPT ![t] = "resolving"]
    <3>1. \A u \in Txn : Outcome(u)' = Outcome(u)
      BY <2>1, <2>3 DEF Outcome, TypeInv, BranchTypeInv
    <3> QED BY <2>1, <3>1, AtomicStutter
  <2> QED BY <2>1, <2>2, <2>3
<1>3. ASSUME NEW t \in Txn, ResolveEntry(t)
      PROVE  [Atomic!Next]_(Atomic!vars)
  <2>1. /\ store' = store /\ phase[t] = "resolving"
        /\ \/ Abort(t) /\ writes' = writes
           \/ phase' = phase /\ \A u \in Txn \ {t} : writes'[u] = writes[u]
    BY <1>3 DEF ResolveEntry, TypeInv, CommitTypeInv
  <2> QED BY <2>1, AtomicAbort, AtomicWork DEF Atomic!Next
<1>4. ASSUME NEW t \in Txn, BatchCommit(t)
      PROVE  [Atomic!Next]_(Atomic!vars)
  <2>1. CASE ChecksHold(store, checks[t])
    BY <1>4, <2>1, AtomicCommit DEF BatchCommit, Atomic!Next
  <2>2. CASE ~ChecksHold(store, checks[t])
    BY <1>4, <2>2, AtomicAbort DEF BatchCommit, Resolved, Atomic!Next
  <2> QED BY <2>1, <2>2
<1>5. ASSUME NEW t \in Txn, CommitStep(t)
      PROVE  ValidateRead(t) \/ CheckReads(t) \/ ResolveEntry(t) \/ BatchCommit(t)
  BY <1>5 DEF CommitStep, BatchPhaseInv, StartWrites, CheckWrite, PutWrite, FinishWrites,
              UndoWrite, FinishUndo
<1>6. ASSUME NEW k \in Key, NEW v \in PutValues, ExternalPut(k, v)
      PROVE  [Atomic!Next]_(Atomic!vars)
  BY <1>6, AtomicExternalPut DEF Atomic!Next
<1>7. CASE UNCHANGED vars
  <2>1. \A u \in Txn : Outcome(u)' = Outcome(u)
    BY <1>7 DEF vars, txnVars, Outcome
  <2> QED BY <1>7, <2>1, AtomicStutter DEF vars, txnVars
<1> QED BY <1>1, <1>2, <1>3, <1>4, <1>5, <1>6, <1>7 DEF Next

\* On a store with an atomic batch, transactions are to each other and to every
\* other client single steps that change all the keys they mean to write, or none.
THEOREM CommitsAreAtomicHolds ==
    ASSUME AtomicBatch
    PROVE  Spec => CommitsAreAtomic
<1>1. Init => Atomic!Init
  <2> SUFFICES ASSUME Init PROVE Atomic!Init
    OBVIOUS
  <2>1. Outcomes = [t \in Txn |-> "open"]
    BY DEF Init, Outcomes, Outcome
  <2>2. Intended = [t \in Txn |-> {}]
    BY DEF Init, Intended, KeysOf
  <2> QED BY <2>1, <2>2 DEF Atomic!Init, Outcomes, Intended
<1>2. StoreInv /\ [Next]_vars => [Atomic!Next]_(Atomic!vars)
  BY AtomicNext
<1> QED BY <1>1, <1>2, StoreInvInit, StoreInvNext, PTL DEF Spec, CommitsAreAtomic, Atomic!Spec
=================================================================================
