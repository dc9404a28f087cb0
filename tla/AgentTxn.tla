-------------------------------- MODULE AgentTxn --------------------------------
(****************************************************************************)
(* Transactions committing against one shared store.  Every transaction     *)
(* (one AgentTxnContext, one thread) lets its branches read and buffer, and *)
(* then runs AgentTxnManager::SelectWinnerAndCommit.  Each call on the      *)
(* store is a step of its own, since the store's mutex is released between  *)
(* calls; the code between two calls belongs to the step of the first.      *)
(*                                                                          *)
(* phase           where SelectWinnerAndCommit is                           *)
(*   running         not called yet                                         *)
(*   validating      ValidateWinner, at read number cursor                  *)
(*   resolving       the loop over the buffered entries, at number cursor   *)
(*   checking        CommitWinnerWithoutBatch, about to Get write cursor    *)
(*   putting         ... about to PutIfVersion write cursor                 *)
(*   undoing         RollbackAppliedWrites, last applied write first        *)
(*   committed, aborted                                                     *)
(****************************************************************************)
EXTENDS Branch

CONSTANTS Txn,           \* the transactions
          BranchCount,   \* branches of a transaction's plan, in plan order
          Intents,       \* the intents the branches may issue
          InitialStore,  \* what the store holds at the start
          PutValues,     \* values other clients put
          AtomicBatch,   \* SupportsAtomicBatchConditionalWrite
          MaxOps,        \* bound: reads and writes of a branch
          MaxPuts        \* bound: puts of other clients

ASSUME BranchCountAssumption == BranchCount \in Nat \ {0}
ASSUME AtomicBatchAssumption == AtomicBatch \in BOOLEAN
ASSUME IntentsAssumption == Intents \subseteq WriteIntent
\* A key that has no entry has no version either.
ASSUME InitialStoreAssumption ==
    /\ InitialStore \in [Key -> VersionedValue]
    /\ \A k \in Key : InitialStore[k].exists \/ InitialStore[k] = Absent
ASSUME PutValuesAssumption == PutValues \subseteq Value
ASSUME MaxPutsAssumption == MaxPuts \in Nat

VARIABLES store,     \* what Get returns for each key
          puts,      \* how many puts other clients made
          phase,     \* phase[t]: see above
          branches,  \* branches[t]: a BranchContext for each branch of t
          winner,    \* winner[t]: txn.winner_branch_id, 0 before it is chosen
          cursor,    \* cursor[t]: the position of the loop t is in
          checks,    \* checks[t]: seen_checks, versions by key
          writes,    \* writes[t]: resolved writes in buffer order
          current,   \* current[t]: what t's Get returned before a PutIfVersion
          applied    \* applied[t]: applied_writes

txnVars == <<phase, branches, winner, cursor, checks, writes, current, applied>>
vars == <<store, puts, txnVars>>

BranchIds == 1 .. BranchCount
Winner(t) == branches[t][winner[t]]

Init ==
    /\ store = InitialStore
    /\ puts = 0
    /\ phase = [t \in Txn |-> "running"]
    /\ branches = [t \in Txn |-> [i \in BranchIds |-> CreateBranch]]
    /\ winner = [t \in Txn |-> 0]
    /\ cursor = [t \in Txn |-> 1]
    /\ checks = [t \in Txn |-> NoChecks]
    /\ writes = [t \in Txn |-> <<>>]
    /\ current = [t \in Txn |-> Absent]
    /\ applied = [t \in Txn |-> <<>>]

--------------------------------------------------------------------------------
(* Branch execution: TaskRuntime::Read, Write, StageBranch and AbortTask.    *)

OpsLeft(t, i) == Len(branches[t][i].reads) + Len(branches[t][i].intents) < MaxOps

\* Ends t without a commit: AbortTransaction discards every branch.
Abort(t) ==
    /\ phase' = [phase EXCEPT ![t] = "aborted"]
    /\ branches' = [branches EXCEPT ![t] = [i \in BranchIds |-> DiscardBranch(branches[t][i])]]

Read(t, i, k) ==
    /\ phase[t] = "running" /\ OpsLeft(t, i)
    /\ branches' = [branches EXCEPT ![t][i] = ReadObject(@, k, store)]
    /\ UNCHANGED <<store, puts, phase, winner, cursor, checks, writes, current, applied>>

Write(t, i, intent) ==
    /\ phase[t] = "running" /\ OpsLeft(t, i)
    /\ branches' = [branches EXCEPT ![t][i] = BufferWrite(@, intent, store)]
    /\ UNCHANGED <<store, puts, phase, winner, cursor, checks, writes, current, applied>>

Stage(t, i, score) ==
    /\ phase[t] = "running" /\ branches[t][i].status # "Staged"
    /\ branches' = [branches EXCEPT ![t][i] = StageBranch(@, score)]
    /\ UNCHANGED <<store, puts, phase, winner, cursor, checks, writes, current, applied>>

AbortTask(t) ==
    /\ phase[t] = "running"
    /\ Abort(t)
    /\ UNCHANGED <<store, puts, winner, cursor, checks, writes, current, applied>>

\* Another client of the store puts a value.
ExternalPut(k, v) ==
    /\ puts < MaxPuts
    /\ puts' = puts + 1
    /\ store' = Put(store, k, v)
    /\ UNCHANGED txnVars

--------------------------------------------------------------------------------
(* SelectWinnerAndCommit, up to the writes.                                  *)

CommitTask(t) ==
    /\ phase[t] = "running"
    /\ LET w == SelectWinner(branches[t])
       IN  /\ winner' = [winner EXCEPT ![t] = w]
           /\ branches' = [branches EXCEPT ![t] = MarkWinnerAndLosers(@, w)]
    /\ phase' = [phase EXCEPT ![t] = "validating"]
    /\ UNCHANGED <<store, puts, cursor, checks, writes, current, applied>>

ReadIsCurrent(t, read) ==
    Rebased(Winner(t), read.object) \/ VersionIs(store, read.object, read.version)

ValidateRead(t) ==
    LET reads == Winner(t).reads
    IN  /\ phase[t] = "validating" /\ cursor[t] <= Len(reads)
        /\ \/ /\ ReadIsCurrent(t, reads[cursor[t]])
              /\ cursor' = [cursor EXCEPT ![t] = @ + 1]
              /\ UNCHANGED <<phase, branches>>
           \/ /\ ~ReadIsCurrent(t, reads[cursor[t]])
              /\ Abort(t)
              /\ UNCHANGED cursor
        /\ UNCHANGED <<store, puts, winner, checks, writes, current, applied>>

CheckReads(t) ==
    LET reads == Winner(t).reads
    IN  /\ phase[t] = "validating" /\ cursor[t] > Len(reads)
        /\ \/ /\ ReadsAgree(reads)
              /\ phase' = [phase EXCEPT ![t] = "resolving"]
              /\ cursor' = [cursor EXCEPT ![t] = 1]
              /\ checks' = [checks EXCEPT ![t] = ReadChecks(reads)]
              /\ UNCHANGED branches
           \/ /\ ~ReadsAgree(reads)
              /\ Abort(t)
              /\ UNCHANGED <<cursor, checks>>
        /\ UNCHANGED <<store, puts, winner, writes, current, applied>>

\* One buffered entry: Get, ResolveWrite, and the version its write depends on,
\* which is the one just read for a rebased write (it replaces the check of an
\* earlier read) and the base version for a strict one (it must agree with it).
ResolvedWrite(t, k) ==
    ResolveWrite(Winner(t).entries[k], LatestIntent(Winner(t), k), store[k].value)

\* Mutants of ExpectedVersion: the version before the base; always the latest.
ExpectedVersionBeforeBase(t, k) == Winner(t).entries[k].base_version - 1
ExpectedVersionLatest(t, k) == store[k].version

ExpectedVersion(t, k) ==
    IF Rebased(Winner(t), k) THEN store[k].version ELSE Winner(t).entries[k].base_version

EntryAccepted(t, k) ==
    /\ HasIntent(Winner(t), k)
    /\ ResolvedWrite(t, k).success
    /\ (ResolvedWrite(t, k).should_write /\ ~Rebased(Winner(t), k) /\ k \in DOMAIN checks[t])
            => checks[t][k] = Winner(t).entries[k].base_version

ResolveEntry(t) ==
    LET k == Winner(t).order[cursor[t]]
        resolved == ResolvedWrite(t, k)
    IN  /\ phase[t] = "resolving" /\ cursor[t] <= Len(Winner(t).order)
        /\ \/ /\ EntryAccepted(t, k)
              /\ cursor' = [cursor EXCEPT ![t] = @ + 1]
              /\ IF resolved.should_write
                 THEN /\ checks' = [checks EXCEPT ![t] =
                            [j \in DOMAIN @ \cup {k} |->
                                IF j = k THEN ExpectedVersion(t, k) ELSE @[j]]]
                      /\ writes' = [writes EXCEPT ![t] =
                            Append(@, [key |-> k, value |-> resolved.value])]
                 ELSE UNCHANGED <<checks, writes>>
              /\ UNCHANGED <<phase, branches>>
           \/ /\ ~EntryAccepted(t, k)
              /\ Abort(t)
              /\ UNCHANGED <<cursor, checks, writes>>
        /\ UNCHANGED <<store, puts, winner, current, applied>>

Resolved(t) == phase[t] = "resolving" /\ cursor[t] > Len(Winner(t).order)

\* The winner commits, the losers are discarded.
Finish(t) ==
    /\ phase' = [phase EXCEPT ![t] = "committed"]
    /\ branches' = [branches EXCEPT ![t] =
            [i \in BranchIds |-> IF i = winner[t] THEN [@[i] EXCEPT !.status = "Committed"]
                                 ELSE DiscardBranch(@[i])]]

--------------------------------------------------------------------------------
(* Commit path A: BatchPutIfVersion.                                         *)

BatchCommit(t) ==
    /\ AtomicBatch /\ Resolved(t)
    /\ \/ /\ ChecksHold(store, checks[t])
          /\ store' = BatchPut(store, writes[t])
          /\ Finish(t)
       \/ /\ ~ChecksHold(store, checks[t])
          /\ Abort(t)
          /\ UNCHANGED store
    /\ UNCHANGED <<puts, winner, cursor, checks, writes, current, applied>>

--------------------------------------------------------------------------------
(* Commit path B: CommitWinnerWithoutBatch, no artifact configured.  Only    *)
(* the versions of written keys are looked at again.                         *)

StartWrites(t) ==
    /\ ~AtomicBatch /\ Resolved(t)
    /\ phase' = [phase EXCEPT ![t] = "checking"]
    /\ cursor' = [cursor EXCEPT ![t] = 1]
    /\ UNCHANGED <<store, puts, branches, winner, checks, writes, current, applied>>

NextWrite(t) == writes[t][cursor[t]]

CheckWrite(t) ==
    /\ phase[t] = "checking" /\ cursor[t] <= Len(writes[t])
    /\ current' = [current EXCEPT ![t] = store[NextWrite(t).key]]
    /\ phase' = [phase EXCEPT ![t] =
            IF VersionIs(store, NextWrite(t).key, checks[t][NextWrite(t).key])
            THEN "putting" ELSE "undoing"]
    /\ UNCHANGED <<store, puts, branches, winner, cursor, checks, writes, applied>>

\* Mutant of AppliedBy: the version after the write is taken for the one before.
AppliedByNewVersion(t) ==
    [key |-> NextWrite(t).key, previous |-> [current[t] EXCEPT !.version = @ + 1]]

AppliedBy(t) == [key |-> NextWrite(t).key, previous |-> current[t]]

PutWrite(t) ==
    LET k == NextWrite(t).key
    IN  /\ phase[t] = "putting"
        /\ store' = PutIfVersion(store, k, checks[t][k], NextWrite(t).value)
        /\ \/ /\ VersionIs(store, k, checks[t][k])
              /\ applied' = [applied EXCEPT ![t] = Append(@, AppliedBy(t))]
              /\ cursor' = [cursor EXCEPT ![t] = @ + 1]
              /\ phase' = [phase EXCEPT ![t] = "checking"]
           \/ /\ ~VersionIs(store, k, checks[t][k])
              /\ phase' = [phase EXCEPT ![t] = "undoing"]
              /\ UNCHANGED <<applied, cursor>>
        /\ UNCHANGED <<puts, branches, winner, checks, writes, current>>

FinishWrites(t) ==
    /\ phase[t] = "checking" /\ cursor[t] > Len(writes[t])
    /\ Finish(t)
    /\ UNCHANGED <<store, puts, winner, cursor, checks, writes, current, applied>>

\* Mutant of UndoVersion: whatever version is there.
UndoVersionAny(last) == store[last.key].version

UndoVersion(last) == last.previous.version + 1

\* Mutant of UndoFails: the write is tried again.
UndoFailsRetry(t) == UNCHANGED <<phase, branches>>

UndoFails(t) == Abort(t)

\* One turn of RollbackAppliedWrites, which gives up at the first write it
\* cannot undo; the transaction aborts either way.
UndoWrite(t) ==
    LET last == applied[t][Len(applied[t])]
        expected == UndoVersion(last)
    IN  /\ phase[t] = "undoing" /\ applied[t] # <<>>
        /\ store' = IF last.previous.exists
                    THEN PutIfVersion(store, last.key, expected, last.previous.value)
                    ELSE DeleteIfVersion(store, last.key, expected)
        /\ \/ /\ VersionIs(store, last.key, expected)
              /\ applied' = [applied EXCEPT ![t] = SubSeq(@, 1, Len(@) - 1)]
              /\ UNCHANGED <<phase, branches>>
           \/ /\ ~VersionIs(store, last.key, expected)
              /\ UndoFails(t)
              /\ UNCHANGED applied
        /\ UNCHANGED <<puts, winner, cursor, checks, writes, current>>

FinishUndo(t) ==
    /\ phase[t] = "undoing" /\ applied[t] = <<>>
    /\ Abort(t)
    /\ UNCHANGED <<store, puts, winner, cursor, checks, writes, current, applied>>

--------------------------------------------------------------------------------

CommitStep(t) ==
    \/ ValidateRead(t) \/ CheckReads(t) \/ ResolveEntry(t)
    \/ BatchCommit(t)
    \/ StartWrites(t) \/ CheckWrite(t) \/ PutWrite(t) \/ FinishWrites(t)
    \/ UndoWrite(t) \/ FinishUndo(t)

BranchStep(t) ==
    \/ \E i \in BranchIds, k \in Key : Read(t, i, k)
    \/ \E i \in BranchIds, intent \in Intents : Write(t, i, intent)
    \/ \E i \in BranchIds, score \in Score : Stage(t, i, score)
    \/ AbortTask(t)
    \/ CommitTask(t)

Next ==
    \/ \E t \in Txn : BranchStep(t) \/ CommitStep(t)
    \/ \E k \in Key, v \in PutValues : ExternalPut(k, v)

Spec == Init /\ [][Next]_vars

\* A thread that has called SelectWinnerAndCommit keeps running: no step of it
\* waits for another thread beyond the store's mutex.
FairSpec == Spec /\ \A t \in Txn : WF_vars(CommitStep(t))

--------------------------------------------------------------------------------
(* What the transactions promise.                                            *)

AppliedWrite == [key : Key, previous : VersionedValue]

\* The store and every transaction's state are what the code's types say.
TypeOK ==
    /\ store \in [Key -> VersionedValue]
    /\ puts \in 0 .. MaxPuts
    /\ phase \in [Txn -> {"running", "validating", "resolving", "checking", "putting",
                          "undoing", "committed", "aborted"}]
    /\ \A t \in Txn : DOMAIN branches[t] = BranchIds
    /\ \A t \in Txn, i \in BranchIds :
        LET b == branches[t][i]
        IN  /\ b.reads \in Seq(ReadRecord)
            /\ DOMAIN b.entries \subseteq Key
            /\ \A k \in DOMAIN b.entries : b.entries[k] \in CacheEntry
            /\ b.order \in Seq(Key)
            /\ b.intents \in Seq(WriteIntent)
    /\ winner \in [Txn -> BranchIds \cup {0}]
    /\ cursor \in [Txn -> Nat]
    /\ \A t \in Txn : DOMAIN checks[t] \subseteq Key /\ \A k \in DOMAIN checks[t] : checks[t][k] \in Nat
    /\ writes \in [Txn -> Seq(WriteOp)]
    /\ current \in [Txn -> VersionedValue]
    /\ applied \in [Txn -> Seq(AppliedWrite)]

\* A version number names one value: whoever saw version v of a key with some
\* value, and finds version v there again, finds that value.  All validation
\* rests on it, because only versions are ever compared.
Pins(k, version, value) ==
    /\ version <= store[k].version
    /\ store[k].version = version => store[k].value = value

\* A rollback of the sequential path deletes the keys it created, and with them
\* their versions; the keys that were there before are never deleted.
KeepsVersions(k) == AtomicBatch \/ InitialStore[k].exists

\* It holds of every value a branch has read or taken as the base of a write,
\* unless a rollback may have deleted the key since.
VersionsPinValues ==
    \A t \in Txn, i \in BranchIds :
        LET b == branches[t][i]
        IN  /\ \A k \in DOMAIN b.entries : KeepsVersions(k) =>
                    Pins(k, b.entries[k].base_version, b.entries[k].base_value)
            /\ \A n \in DOMAIN b.reads : KeepsVersions(b.reads[n].object) =>
                    Pins(b.reads[n].object, b.reads[n].version, b.reads[n].seen)

Commits(t) == phase[t] # "committed" /\ phase'[t] = "committed"

\* The values a winner's strict reads returned are the store's at the moment it
\* commits, so what was computed from them is not stale: the window between
\* validation and the batch is closed by the version checks in the batch.
ReadsCurrentAtCommit ==
    [][\A t \in Txn : Commits(t) =>
        \A n \in DOMAIN Winner(t).reads :
            LET read == Winner(t).reads[n]
            IN  (~Rebased(Winner(t), read.object) /\ read.object \notin KeysOf(writes[t]))
                    => store[read.object].value = read.seen]_vars

\* No lost update: what a commit writes is what the policy makes of the very
\* value it replaces, and a strict write replaces the value it was based on.
NoLostUpdate ==
    [][\A t \in Txn : Commits(t) =>
        \A n \in DOMAIN writes[t] :
            LET k == writes[t][n].key
            IN  /\ writes[t][n].value = ResolvedWrite(t, k).value
                /\ ~Rebased(Winner(t), k) => store[k].value = Winner(t).entries[k].base_value]_vars

\* The intents of branch b on object k, replayed on a value.
Replay(b, k, start) ==
    LET value[n \in 0 .. Len(b.intents)] ==
            IF n = 0 THEN start
            ELSE IF b.intents[n].object = k
                 THEN BufferedValue(start, value[n - 1], b.intents[n])
                 ELSE value[n - 1]
    IN  value[Len(b.intents)]

\* One kind of write on the object; integers throughout, if they are deltas.
Uniform(b, k) ==
    /\ \A i, j \in IntentsOn(b, k) : b.intents[i].type = b.intents[j].type
    /\ LatestIntent(b, k).type = "Delta" => IsInt(b.entries[k].base_value)

\* A commit is a serial execution of the winner at that instant: on every
\* object it replays the winner's own intents on the value in the store, and it
\* leaves all other objects alone, whatever the losing branches buffered.
CommitReplaysWinner ==
    [][\A t \in Txn : Commits(t) =>
        \A k \in Key :
            IF IsBuffered(Winner(t), k)
            THEN Uniform(Winner(t), k) => store'[k].value = Replay(Winner(t), k, store[k].value)
            ELSE store'[k] = store[k]]_vars

\* To the other clients of the store a transaction is one atomic step.
Outcome(t) ==
    CASE phase[t] = "committed" -> "committed"
      [] phase[t] = "aborted"   -> "aborted"
      [] OTHER                  -> "open"

Atomic == INSTANCE AtomicStore WITH
            outcome <- [t \in Txn |-> Outcome(t)],
            intended <- [t \in Txn |-> KeysOf(writes[t])]

CommitsAreAtomic == Atomic!Spec

\* Once SelectWinnerAndCommit is called it comes to an end, however the other
\* threads and clients interfere.
CommitEnds ==
    \A t \in Txn : phase[t] = "validating" ~> phase[t] \in {"committed", "aborted"}

--------------------------------------------------------------------------------
(* The sequential path.                                                      *)

\* What CommitWinnerWithoutBatch remembers of a write it made is enough to know
\* it again: the key still holds the candidate one version up, or somebody has
\* written a later version.
CandidateIsMarked ==
    \A t \in Txn : \A n \in DOMAIN applied[t] :
        LET write == applied[t][n]
        IN  \/ store[write.key] = Stored(writes[t][n].value, write.previous.version + 1)
            \/ store[write.key].version > write.previous.version + 1

\* The rollback of a failed commit takes back the transaction's own candidates
\* only: it never overwrites what another client has put since.
UndoesOwnWritesOnly ==
    [][\A t \in Txn, k \in Key :
        (UndoWrite(t) /\ store'[k].value # store[k].value)
            => \E n \in DOMAIN writes[t] : writes[t][n] = [key |-> k, value |-> store[k].value]]_vars

\* No write is computed from a stale read: when a transaction starts to put its
\* writes, its strict reads of objects it does not write are still current.
NoWriteFromStaleRead ==
    [][\A t \in Txn : (PutWrite(t) /\ Len(applied'[t]) = 1 /\ applied[t] = <<>>) =>
        \A n \in DOMAIN Winner(t).reads :
            LET read == Winner(t).reads[n]
            IN  (~Rebased(Winner(t), read.object) /\ read.object \notin KeysOf(writes[t]))
                    => VersionIs(store, read.object, read.version)]_vars
=================================================================================
