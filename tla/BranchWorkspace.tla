---------------------------- MODULE BranchWorkspace ----------------------------
(****************************************************************************)
(* One branch at work: the reads, writes, savepoints and rollbacks that     *)
(* TaskRuntime passes to BranchManager and RollbackManager, in any order,   *)
(* while other clients of the store put new values under the branch.        *)
(****************************************************************************)
EXTENDS Branch

CONSTANTS Intents,       \* the intents the branch may issue
          InitialStore,  \* what the store holds at the start
          PutValues,     \* values other clients put
          MaxIntents,    \* bound: intents in the log
          MaxReads,      \* bound: entries of the read set
          MaxSavepoints, \* bound: savepoints open at once
          MaxPuts        \* bound: puts of other clients

ASSUME IntentsAssumption == Intents \subseteq WriteIntent
ASSUME InitialStoreAssumption == InitialStore \in [Key -> VersionedValue]
ASSUME PutValuesAssumption == PutValues \subseteq Value
ASSUME MaxPutsAssumption == MaxPuts \in Nat

VARIABLES branch,   \* the BranchContext
          store,    \* what Get returns for each key
          puts      \* how many puts other clients made

vars == <<branch, store, puts>>

Init ==
    /\ branch = CreateBranch
    /\ store = InitialStore
    /\ puts = 0

Read(k) ==
    /\ Len(branch.reads) < MaxReads
    /\ branch' = ReadObject(branch, k, store)
    /\ UNCHANGED <<store, puts>>

Write(intent) ==
    /\ Len(branch.intents) < MaxIntents
    /\ branch' = BufferWrite(branch, intent, store)
    /\ UNCHANGED <<store, puts>>

SavepointAt(id) ==
    /\ Len(branch.savepoints) < MaxSavepoints
    /\ branch' = CreateSavepoint(branch, id)
    /\ UNCHANGED <<store, puts>>

Rollback(id) ==
    /\ HasSavepoint(branch, id)
    /\ branch' = RollbackToSavepoint(branch, id)
    /\ UNCHANGED <<store, puts>>

Stage(score) ==
    /\ branch' = StageBranch(branch, score)
    /\ UNCHANGED <<store, puts>>

\* The branch lost, or its transaction aborted.
Discard ==
    /\ branch' = DiscardBranch(branch)
    /\ UNCHANGED <<store, puts>>

\* Another client of the store.
ExternalPut(k, v) ==
    /\ puts < MaxPuts
    /\ store' = Put(store, k, v)
    /\ puts' = puts + 1
    /\ UNCHANGED branch

Next ==
    \/ \E k \in Key : Read(k)
    \/ \E intent \in Intents : Write(intent)
    \/ \E id \in SavepointId : SavepointAt(id) \/ Rollback(id)
    \/ \E score \in Score : Stage(score)
    \/ Discard
    \/ \E k \in Key, v \in PutValues : ExternalPut(k, v)

Spec == Init /\ [][Next]_vars

--------------------------------------------------------------------------------

\* The branch and the store are what the code's types say.
TypeOK ==
    /\ branch.status \in {"Created", "Running", "Staged", "Discarded"}
    /\ branch.reads \in Seq(ReadRecord)
    /\ DOMAIN branch.entries \subseteq Key
    /\ \A k \in DOMAIN branch.entries : branch.entries[k] \in CacheEntry
    /\ branch.order \in Seq(Key)
    /\ branch.changes \in Seq(ChangeRecord)
    /\ branch.intents \in Seq(WriteIntent)
    /\ branch.savepoints \in Seq(Savepoint)
    /\ branch.score \in Score \cup {0}
    /\ \A k \in Key : store[k] \in VersionedValue
    /\ puts \in 0 .. MaxPuts

\* The write buffer and the intent log are two logs of the same writes: after
\* any mix of writes and rollbacks they have the same length, the same objects,
\* and the buffered entry carries the type of the latest intent.  CommitWinner
\* relies on it ("missing latest intent"), and savepoints, which keep one
\* position in each log, do too.  The order lists each buffered object once.
LogsInStep ==
    /\ Len(branch.changes) = Len(branch.intents)
    /\ \A i \in DOMAIN branch.intents : branch.changes[i].object = branch.intents[i].object
    /\ \A k \in Key : IsBuffered(branch, k) <=> HasIntent(branch, k)
    /\ \A k \in DOMAIN branch.entries :
            branch.entries[k].intent_type = LatestIntent(branch, k).type
    /\ {branch.order[i] : i \in DOMAIN branch.order} = DOMAIN branch.entries
    /\ \A i, j \in DOMAIN branch.order : branch.order[i] = branch.order[j] => i = j

\* The values an object has after each of the intents, from its base on, and
\* the one it has after all the intents that are logged.
ValueAfter(intents, k, base) ==
    LET value[n \in 0 .. Len(intents)] ==
            IF n = 0 THEN base
            ELSE IF intents[n].object = k
                 THEN BufferedValue(base, value[n - 1], intents[n])
                 ELSE value[n - 1]
    IN  value

Replayed(b, k) == ValueAfter(b.intents, k, b.entries[k].base_value)[Len(b.intents)]

\* What a branch reads back of its own buffer is what the intents that survived
\* its rollbacks make of the base: undoing leaves no trace of an undone write.
BufferIsReplay ==
    \A k \in DOMAIN branch.entries : branch.entries[k].current_value = Replayed(branch, k)

\* DiscardBranch truncates to position 0, which must leave nothing behind.
DiscardEmpties ==
    LET emptied == TruncateIntents(TruncateBuffer(branch, 0), 0)
    IN  /\ emptied.entries = NoBuffer
        /\ emptied.order = <<>>
        /\ emptied.intents = <<>>

\* While an object stays buffered its base is the one of its first write: a
\* later write, or the rollback of one, never moves the version the commit will
\* check.
BaseNeverMoves ==
    [][\A k \in DOMAIN branch.entries \cap DOMAIN branch'.entries :
            /\ branch'.entries[k].base_version = branch.entries[k].base_version
            /\ branch'.entries[k].base_value = branch.entries[k].base_value]_vars

\* A rollback forgets writes, not reads: what the branch has seen stays in the
\* read set, so a decision taken on an undone read is still validated.
ReadsSurvive ==
    [][/\ Len(branch.reads) <= Len(branch'.reads)
       /\ \A i \in DOMAIN branch.reads : branch'.reads[i] = branch.reads[i]]_vars

\* The undo log implements savepoints that keep copies.  The copy a savepoint
\* stands for is read off the logs at once, without undoing change by change: an
\* object changed later had the entry that its first later change recorded.
WorkOf(b) == [entries |-> b.entries, order |-> b.order, intents |-> b.intents]

ChangedSince(b, position, k) ==
    {i \in DOMAIN b.changes : i > position /\ b.changes[i].object = k}

FirstSince(b, position, k) ==
    CHOOSE i \in ChangedSince(b, position, k) :
        \A j \in ChangedSince(b, position, k) : i <= j

\* The objects that were buffered by then, and their entries.
KeptAt(b, position) ==
    {k \in DOMAIN b.entries : ChangedSince(b, position, k) # {}
        => b.changes[FirstSince(b, position, k)].previous # <<>>}

EntryAt(b, position, k) ==
    IF ChangedSince(b, position, k) = {} THEN b.entries[k]
    ELSE b.changes[FirstSince(b, position, k)].previous[1]

\* They are the first objects of the order.
OrderAt(b, position) ==
    LET count == CHOOSE n \in 0 .. Len(b.order) :
                    {b.order[i] : i \in 1 .. n} = KeptAt(b, position)
    IN  SubSeq(b.order, 1, count)

WorkAt(b, sp) ==
    [entries |-> [k \in KeptAt(b, sp.write_log_position) |->
                    EntryAt(b, sp.write_log_position, k)],
     order   |-> OrderAt(b, sp.write_log_position),
     intents |-> SubSeq(b.intents, 1, sp.intent_log_position)]

SavedWork ==
    [i \in DOMAIN branch.savepoints |->
        [id |-> branch.savepoints[i].id, work |-> WorkAt(branch, branch.savepoints[i])]]

Copies == INSTANCE SavepointSpec WITH work <- WorkOf(branch), saved <- SavedWork

SavepointsRestoreCopies == Copies!Spec
================================================================================
