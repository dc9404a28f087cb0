# Data-Agent-System in TLA+

Data-Agent-System lets a task explore several candidate *branches* of work on a
versioned key-value store and commit at most one of them. This directory holds
TLA+ models of the parts where that can go wrong, the TLC configurations that
check them on small instances, and TLAPS proofs of the central properties for
every value of the constants. Every definition is translated from the code
under `src/data_agent_system/`; `PROJECT.json` gives, definition by definition, the
lines it stands for.

File names below are relative to `src/data_agent_system/`.

## 1. The system

| part | state | operations |
|---|---|---|
| Versioned store (`storage/versioned_kv_store.h`, `memory_kv_store.h`, `non_batch_memory_kv_store.h`) | a map from keys to (value, version), one mutex | `Get`, `Put`, `PutIfVersion`, `DeleteIfVersion`, `BatchPutIfVersion`; each holds the mutex for exactly one call |
| File store (`storage/file_kv_store.h`) | the map, a snapshot file, a temporary file, a journal file | the same calls, each followed by a whole rewrite of the snapshot; at start `RecoverIfNeeded`, `LoadFromDisk` |
| Intents and policy (`intent/`, with `policy_dispatcher.h`) | none | what READ, OVERWRITE, APPEND, DELTA, CAS do when buffered and when resolved at commit |
| Branch workspace (`branch/`, `cache/`, `intent/intent_log.h`, `agent_txn/rollback_manager.h`) | per branch: read set, write buffer with undo records, intent log, savepoints, score, status | read, write, savepoint, rollback to savepoint, stage, discard |
| Transaction commit (`agent_txn/agent_txn_manager.h`, `validation_manager.h`, `commit_manager.h`) | the transaction's branches, the winner; locals of a running commit: checks, resolved writes, applied writes | `SelectWinner`, `ValidateWinner`, `CommitWinner` with its batch path and its sequential path |
| Crash-safe sequential commit (`commit_manager.h`, `agent_txn/fallback_commit_*.h`, `agent_txn/recovery_manager.h`, `runtime/task_runtime.h`) | an artifact file: phase, progress count, one entry per write with target and previous value; an archive directory | prepare, apply with saved progress, mark; at start detect what was applied and go forward or back; keep, archive or delete what is finished |
| Commit log (`agent_txn/commit_log_*.h`, `recovery_manager.h`) | one log file per task: status, and key, expected version and value of each write | write, replay a directory, recover a store from it |
| Task runtime (`runtime/task_runtime.h` and the session classes) | sessions: phase, plan, event list | `SubmitTask`, branch operations, `CommitTask`, `AbortTask`, recovery at construction |
| Task event log and task recovery (`runtime/task_event_log_*.h`, `task_recovery*.h`, `task_continuation*.h`) | log files | rebuild a session from a log that ends anywhere, decide, continue or commit |
| Workload drivers (`workloads/`) | the task's objects and recovery steps, kept in its metadata | run the branches of a task in a fixed order, commit, save the logs; one continuation handler each |
| Examples, Python experiments | none of their own | scripts over the runtime, offline checks of artifacts |
| Redis and RocksDB adapters, store factory, configuration files | configuration | construction; delegation to the stores above |

### How they interact

`TaskRuntime` is called by one thread per task. It passes branch operations to
`BranchManager` and `RollbackManager`, which touch only the branch and call
`Get` on the shared store. `CommitTask` runs `AgentTxnManager`, which picks the
winner by score, validates its read set with one `Get` per read, and hands the
buffer to `CommitManager`. That reads the store once more per buffered object,
resolves each write through `PolicyDispatcher`, and then either makes one
`BatchPutIfVersion` or, when the store has no atomic batch, a `Get` and a
`PutIfVersion` per write, undoing in reverse order when one of them fails. With
an artifact path configured the sequential path also writes the artifact before
the first write and after each one; the constructor of the next `TaskRuntime`
finds the artifact and resolves it before any task runs.

There is no lock across calls: the store's mutex is the only synchronisation
between tasks. So the atomic unit everywhere is **one call on the store** (or
one write of a file), and everything between two calls is local.

### What is hard, and what makes each part correct

* **Branch workspace.** The buffer, its undo records and the intent log are
  separate structures with separate positions; rollbacks cut them separately.
  Correct: they never disagree, and a savepoint is as good as a copy.
* **Commit on the batch path.** Other clients write between validation,
  resolution and the batch. Correct: the commit is one atomic step that looks
  like a serial run of the winner alone; no update is lost; no value is
  computed from a stale read; losers leave no trace.
* **Commit on the sequential path.** It is not isolated, and a rollback runs
  among other clients' writes. Correct: it takes back only what it wrote, and
  it ends.
* **Crash-safe path and recovery.** A crash between a store write and the
  artifact write, a crash in the recovery itself, a failed artifact write, and
  interference. Correct: nothing is reported committed that is not all there,
  the writes of a task are all there or none unless an open artifact lists
  them, nobody else's value is overwritten, the artifact is resolved in the end
  and the record of its outcome is kept; also when the task is submitted again
  under the same artifact path.
* **Commit log.** Files that are cut, missing or older than the store, applied
  in the order of their names; a recovery that is killed and repeated. Correct:
  a recovery that reports success has restored what whole logs say, it comes to
  the same however often it is interrupted, and the two readers of the logs
  agree.
* **Snapshot replacement.** A crash or a failed file operation between any two
  of its file operations. Correct: the next process loads what some call wrote,
  whole, and nothing that was acknowledged disappears.
* **Task recovery.** A log that stops anywhere, that was cut in a line or is
  older than the last commit; intents rebuilt with less information, on a store
  that has moved on. Correct: nothing uncommitted is skipped, nothing committed
  is done again, the work and the versions that were read come back, and a
  resumption from a savepoint has the work of the savepoint.
* **Workloads.** A driver commits the best candidate, and only on the input it
  read; after a crash it is the continuation that decides the outcome, whatever
  was staged before.

`PROJECT.json` lists each hazard at its line with the properties that catch it.

## 2. The modules

| module | models | uses |
|---|---|---|
| `VersionedKV` | the store interface, as operators on a store | |
| `IntentPolicy` | intents, buffering, `ResolveWrite` | |
| `Branch` | the branch record and everything done to it, `SelectWinner` | `IntentPolicy`, `VersionedKV` |
| `BranchWorkspace` | one branch, its operations in any order, other clients putting | `Branch`; refines `SavepointSpec` |
| `SavepointSpec` | abstract: savepoints that keep copies, no undo log | |
| `AgentTxn` | several transactions and other clients on one store, both commit paths | `Branch`; refines `AtomicStore` (batch path) |
| `AtomicStore` | abstract: a transaction is one step that changes all its keys, or none | |
| `FallbackCommit` | the crash-safe commit, its artifact, crashes, recovery, the policies for finished artifacts, a task that is submitted again | `VersionedKV` |
| `LogText` | escaping and unescaping of a field, as operators on sequences of characters | |
| `CommitLog` | the logs of committed and aborted tasks, crashes, the recovery and the replay of a directory | `LogText`, `VersionedKV` |
| `TaskRecovery` | a session with its events, the log, crashes, the decision, the rebuilt session, the commands, the continuation | `Branch` |
| `Workload` | the three drivers and their continuations; composes a driver with `TaskRecovery` | `TaskRecovery` |
| `SnapshotFile` | `FileKVStore`: calls, persistence, crashes, recovery, loading | `VersionedKV` |
| `BranchProofs` | lemmas about the operators of `VersionedKV`, `IntentPolicy` and `Branch` | `Branch`, TLAPS |
| `BranchWorkspaceProofs`, `AgentTxnProofs`, `FallbackProofs`, `SnapshotProofs`, `TaskRecoveryProofs` | theorems and proofs about the module of that name | that module, TLAPS |
| `CommitLogProofs` | theorems about `CommitLog`, and that `LogText` reads back what it wrote | `CommitLog`, TLAPS |
| `BatchCommitProofs` | theorems about the batch path, and that it implements `AtomicStore` | `AgentTxnProofs` |
| `MC*` | small instances for TLC | |

### Correspondence with the code

**Values.** A value stands for a string, as a sequence of chunks: a chunk is an
integer or a piece of text that does not parse as one. Appending is
concatenation, and `ParseInt` accepts exactly a value that is one integer chunk.
That is all `PolicyDispatcher` and `BranchManager` distinguish. Two things are
lost: text whose concatenation spells a number (`"1"` appended to `"2"`), and
the 64-bit width of `long long`. In `FallbackCommit` and `SnapshotFile` values
are opaque, since that code only compares and copies them.

**The store** is a function from keys to what `Get` returns; a missing key is
`[exists |-> FALSE, version |-> 0, value |-> Empty]`. `PutIfVersion` uses
`values_[key]`, so a failed call on a missing key leaves a default-made entry
behind; the model keeps that. `DeleteIfVersion` erases the version with the key,
so a key created again counts from 1 once more; the model keeps that too, and
`KeepsVersions` in `AgentTxn` marks where it matters.

**`Branch`.** One operator per method of `BranchManager`, `WriteBuffer`,
`IntentLog` and `RollbackManager`. `entries`, `order` and `changes` are the
write buffer's map, object order and undo log. Recorded versions come with the
value that was returned at the time (`seen`), a history field that no guard
reads. The `dirty` flag and the per-entry `exists` flag feed only the answer
`exists` of a read and are left out.

**`AgentTxn`.** `phase[t]` says where `SelectWinnerAndCommit` of transaction `t`
stands and `cursor[t]` is the variable of the loop it is in; `checks`, `writes`,
`current`, `applied` are the function's locals `seen_checks`, the resolved
writes, `current` and `applied_writes`. There is one action per store call:
`ValidateRead` (a `Get` of `ValidateWinner`), `ResolveEntry` (a `Get` of
`CommitWinner`), `BatchCommit`, `CheckWrite` and `PutWrite` (the `Get` and the
`PutIfVersion` of the sequential path), `UndoWrite` (a turn of
`RollbackAppliedWrites`). The constant `AtomicBatch` is
`SupportsAtomicBatchConditionalWrite`.

**`FallbackCommit`.** `pc` is the next store call or artifact write; `file` is
the artifact on disk, replaced whole (it is written beside and renamed), `art`
the one in memory, `archive` the one of that name in the archive directory.
`Crash` loses everything but `store` and the files; `Restart` is the constructor
of `TaskRuntime`: `RecoverArtifacts` when the runtime is to recover, then the
sweep. A failed artifact write makes the call return false, from wherever it is.
`Finalize` and `Rename` are `ApplyTerminalFallbackArtifactPolicy`, as `CommitTask`
applies it, which ignores a failure, and as the sweep does, whose failure makes
the constructor throw. `Resubmit` is `SubmitTask` for the same task: the
transaction id and so the artifact path are the ones of before. A configuration
(`Config`) has a policy for each terminal phase, `auto_recover_on_startup`, and
whether the directory holds an artifact with an earlier name that cannot be
resolved. `origin`, `touched`, `abandoned` and `resolved` are history.

**`LogText`, `CommitLog`.** A value is a sequence of characters here, because
the text of a log line matters: a crash may cut it anywhere, between a
backslash and its letter too. A file is its status and its lines; everything
else of the metadata is written and never read. Tasks are numbered in the order
of their log names, which is the order `RecoverFromDirectory` applies them in.
`Commit` is a whole `CommitTask` (`AgentTxn` takes it apart); the recovery makes
one call on the store per step (`CheckEntry` the `Get`, `PutEntry` the
`PutIfVersion`). `LoseStore` gives the recovery an older copy of the store, the
situation the logs are for. `RecoveryOf` is the same recovery as one function
of a directory and a store, the reference for `RecoveryIsRepeatable`; `Replayed`,
a function of the directory alone, is `ReplayCommitLogArtifacts`. The loops over
the characters of a field, the logs and the entries of one are recursive functions.

**`TaskRecovery`.** `session` is the `TaskSession` in memory and `log` the file
a caller saved it to (`WriteLog`, at any time, as often as it likes). The file
is written over in one pass: `CrashInWriteLog` leaves a prefix of its lines, the
last one cut, where a cut in the sixth field still parses. `Recover` is
`BuildRecoveryExecutionFromLog`: `Decision` reads metadata and events,
`Replayed` applies the events to fresh branches and the store as it is now,
`RecoveredPhase` and `RecoveredStatus` are `ApplyRecoveredTerminalState`. Each
case of `ExecuteRecoveryExecution` is an action; after it the caller takes the
session over, or `ContinueRecoveredTask` runs its callback (mode `continuing`),
stages and commits (`FinishContinuation`). `CommitTask` is one step, since
`AgentTxn` takes it apart. A score counts in steps of `1 / ScoreUnit`, so that
the cast to `int64_t` in the log is visible. The copy of the intents in a
savepoint event, and `saved`, `whole`, `resumed` of a log, are history.

**`Workload`.** `task` is a script: the calls on each branch, in order, ending
in `StageBranch`, and the steps of its continuation. `DriverCall` makes the next
call, `InjectConflict` is the synthetic driver's change of its own input,
`DriverCommit` the commit; a task without a driver may do whatever `TaskRecovery`
allows. `ContinueRecoveredTask` composes the recovery command with the choice of
the branch by the handler of the workload, `CallbackStep` and `FinishCallback`
are the handler's callback and what follows it. The recovery steps of a scripted
task pass through the metadata (`StepMetadata`, `LoadRecoveryStep`).

**`SnapshotFile`.** One action per file operation of `PersistToDisk` and
`RecoverIfNeededUnlocked`; `Fail` lets any operation of `PersistToDisk` fail,
leaving the change in memory as the code does, and `RecoverFails` one of the
recovery, which leaves the store empty and in use. `Reload` goes through the same
recovery as a start. `acked`, `pending`, `changed`, `torn` and `short` are
history.

## 3. What TLC checks

All runs check safety against every interleaving of the actions; the ones that
check a `~>` use the module's `FairSpec`. Deadlock is checked in
`branch_workspace`; elsewhere it is switched off because transactions end and
puts, crashes and failures are bounded, so that the instance really does stop.

### Runs that pass

| run | instance | shows |
|---|---|---|
| `branch_workspace` | one branch, two keys (a counter, and a key missing at first), 3 intents of all five kinds, 2 savepoints with two names that may repeat, 1 read, 1 outside put | `LogsInStep`, `BufferIsReplay`, `DiscardEmpties`, `BaseNeverMoves`, `ReadsSurvive`, and that the undo log implements `SavepointSpec` (`SavepointsRestoreCopies`) |
| `batch_contention` | two transactions, 2 operations each, every kind of write, two keys (one missing at first), 1 outside put; the transactions are symmetric | `VersionsPinValues`, `ReadsCurrentAtCommit`, `NoLostUpdate`, `CommitReplaysWinner`, and that it implements `AtomicStore` (`CommitsAreAtomic`) |
| `batch_branches` | one transaction with two branches and two scores, READ intents too, 1 outside put | the same with losers around: only the winner's work reaches the store |
| `sequential_contention` | two transactions on the path without a batch, one key that a commit creates and a rollback deletes, 1 outside put, fair threads | `VersionsPinValues`, `CandidateIsMarked`, `UndoesOwnWritesOnly`, `CommitEnds` |
| `fallback_commit` | three writes to existing keys or with the last to a new one, 4 configurations with every policy for every phase, 2 submissions, 2 outside puts, 2 crashes, 1 failed file operation, fair | `CommittedIsComplete`, `VisibleIsLogged`, `ProgressIsHonest`, `ResolvedIsKept`, `ChangesOwnWritesOnly`, `ArtifactIsResolved` |
| `commit_log_recovery` | two tasks, 2 commits of one or two keys (one missing at first) with values that need escaping, look escaped or are empty, 1 abort, 2 crashes, 1 outside put | `SuccessMeansRestored`, `RecoveryIsRepeatable`, `ReplayAgrees` |
| `task_recovery` | one task of each of: the synthetic driver without (2 branches) and with (3) an injected conflict, the same with a `task_index` of 109, 110 and 199 (2 branches: one outscores a continuation, one ties with it, both outscore it), the minimal candidate task, a scripted task with every kind of step and a conditional recovery step, the same with `recovery_score` left at 0.0 or with a preferred branch that the plan does not have, and a caller that does as it likes with 3 operations before and after the crash; 1 crash, 1 outside put | `SkippedIsCommitted`, `RebuildsWork`, `ReadsSurviveRecovery`, `ResumesAtSavepoint`, `DriverCommitsBest`, `ContinuationDecides` |
| `snapshot_replace` | two keys, versions up to 2, 1 crash, 1 failed file operation, any number of reloads (2 crashes, or 2 failures, were run too and pass) | `SnapshotIsWhole`, `RestoresAWrite`, `KeepsAcknowledged` |

What the properties say, beyond their names:

* `VersionsPinValues`: a version number names one value. Only versions are ever
  compared, so all validation rests on this. It fails for a key that a rollback
  of the sequential path may delete, and says so.
* `ReadsCurrentAtCommit`, `NoLostUpdate`: the window between validation and the
  write is closed. They speak of *values*, while the code compares versions.
* `CommitReplaysWinner`: at the commit, every object gets what the winner's own
  intents make of the value in the store at that instant, and no other object
  changes. It is restricted to objects with one kind of intent (see the
  hazards: a mixture is resolved by the latest intent alone).
* `CandidateIsMarked`, `UndoesOwnWritesOnly`: the rollback's only means to know
  its own write is `previous.version + 1`; that is enough.
* `VisibleIsLogged`: on the keys nobody else put, the submissions of a task have
  had their effect on all or on none, or an open artifact on disk lists every
  write that was made and the value before it. The one exception is stated: a
  submission wrote its artifact over an open one.
* `ResolvedIsKept`: once an artifact is terminal, its record is in one of the two
  directories at every instant, the one between the removal of an archived
  artifact and the rename included, unless the policy or a later submission
  removes it.
* `SuccessMeansRestored`: success of a recovery is worth something for every
  store it may have been given, not only for an intact one.
* `RecoveryIsRepeatable`: what a recovery comes to, over any number of crashes
  and repetitions, is what one undisturbed call comes to; restricted to logs
  that share no key (see below).
* `DriverCommitsBest`, `ContinuationDecides`: the outcome of a task, told in
  terms of the workload and not of versions. They rest on the whole chain:
  savepoints, staging, scores, winner selection, validation, the log, the replay
  and the handler. `ContinuationDecides` states both outcomes of a continuation
  that commits. If the log has its branch and no recovered score beats the one
  the workload gives it, its own write is in the store, under the condition it
  was written with. Else the store has the work of the best recovered branch,
  exactly as it was before the callback, and nothing of the continuation's. The
  instance reaches each case: strictly outscored, tied with an earlier branch,
  a default recovery score, a branch that is missing because the log was cut or
  because the plan never had it.
* `ProgressIsHonest`: the store is within one write of the saved count, so
  `DetectCommittedPrefix` always finds a prefix.
* `RebuildsWork`: the session that comes out of the log is the one that was
  saved, as far as the log can tell: intents without their conditions, order,
  savepoints, whole scores, and the entries where the store has not moved on.
* `ReadsSurviveRecovery`: a recovered read keeps the version of its time, so
  that a crash does not turn a stale read into a valid one.
* `SkippedIsCommitted`, `ResumesAtSavepoint` hold for logs cut anywhere.
  `ResumesAtSavepoint` is about logs in which no event says `COMMIT_TASK` (see
  below).
* `RestoresAWrite`, `SnapshotIsWhole`: what is in place, and what a restart
  loads, is what one call wrote: the last acknowledged one or a later one.
* `KeepsAcknowledged`: over any history of crashes, failed calls and reloads, a
  key changes only by a call on that key.

### Runs that end in a violation

Each checks one sentence of the repository's documents against what the code
does. The findings in `PROJECT.json` quote the sentence.

| run | property | what happens |
|---|---|---|
| `sequential_stale_read` | `NoWriteFromStaleRead` | the path without a batch checks again only the versions of the keys it writes (`commit_manager.h:155`); a key that was only read may change after `ValidateWinner` |
| `fallback_rollback_crash` | `RecoverySucceeds` | an undone key has its old value at a new version, so `DetectCommittedPrefix` (`fallback_commit_recovery.h:53`) knows it neither as target nor as previous: after a crash in the middle of a rollback every later start throws |
| `task_skip` | `CommittedIsSkipped` | `ExecuteRecoveryExecution` returns true for a task that already committed, and `ContinueRecoveredTask` (`task_continuation.h:28`) goes on to commit the rebuilt session: a DELTA is added twice |
| `snapshot_torn` | `SurvivesCrash` | the journal is written before the temporary file, so a crash while that is written leaves both, and the half-written file is renamed over the good snapshot (`file_kv_store.h:247`) |

### Behaviour the models show that no property forbids

* Several intents on one object are resolved by the latest alone
  (`commit_manager.h:46`): after a CAS and a DELTA the condition of the CAS is
  never looked at.
* A log does not keep the condition of a CAS nor the base of a buffered object
  (`task_runtime.h:592`): after a recovery the CAS always holds, and a write is
  checked against the version the store has then.
* The rollback of `RESUME_FROM_SAVEPOINT` records no event
  (`task_runtime.h:349`), so a log saved after it brings the undone writes back
  at the next recovery.
* A session may go on after a commit (a continuation of a task that
  `REVALIDATE_COMMIT` has committed). A savepoint it makes of a branch the commit
  has discarded is one of an empty branch, but a replay, which passes over
  `COMMIT_TASK` (`task_runtime.h:574`), makes it of the branch with all its work.
  A resumption from it then has work the session no longer had: it takes a second
  commit and a log cut at its last lines to get there.
* The savepoint to resume from is the last one in the log even if a rollback
  erased it (`task_recovery.h:171`); the resumption is then refused.
* The cast of the score (`task_runtime.h:196`) can make two branches tie after a
  recovery, and the first of them win.
* A log line that was cut in its last field is accepted
  (`task_event_log_replay.h:125`) with the shorter payload or name.
* `REVALIDATE_COMMIT` commits, and a continuation then commits once more; a log
  that was saved before a commit leads to a second one as well.
* The rollback of the plain sequential path stops at the first write it cannot
  take back (`commit_manager.h:306`); the earlier candidates stay in the store
  though the task is told it aborted.
* In the crash-safe path a live conflict on a later key means that key matches
  neither target nor previous, so the rollback itself refuses to start
  (`commit_manager.h:250-257`, `fallback_commit_recovery.h:53`). The candidates
  stay, and the artifact still describes them (`VisibleIsLogged`).
* When saving the progress fails after a write (`commit_manager.h:269`) the task
  is told it aborted while the artifact says `PREPARED` or `APPLYING`; the next
  start completes the commit.
* The check before each write of the crash-safe path demands that the key exists
  (`commit_manager.h:250`), so a commit that creates a key always aborts, although
  `PREPARED` has recorded it with `previous_exists` false and the repository's
  `README.md:178` speaks of newly created keys on this path.
* A task that is submitted again while its artifact is open, because the runtime
  does not recover at start or its rollback was refused, writes `PREPARED` over
  it (`task_runtime.h:88`, `:398`): the writes of the first submission stay in
  the store and nothing describes them any more (`abandoned`).
* With policy keep, the record of one submission is overwritten by the next; with
  policy archive, a second archived artifact replaces the first
  (`task_runtime.h:528`).
* The first artifact that cannot be resolved ends the start, and those with later
  names stay open until somebody removes it (`fallback_commit_recovery.h:234`).
* `CommitTask` ignores that an artifact could not be archived or deleted
  (`task_runtime.h:225`); the next start does it, or throws if it fails again.
  With policy archive and no archive directory it always fails
  (`task_runtime.h:521`).
* A session rebuilt from a task log has no artifact path, since only `SubmitTask`
  calls `ConfigureFallbackCommit`: on a store without a batch its commit is not
  crash-safe.
* Commit logs are applied in the order of their names (`recovery_manager.h:63`),
  so `task_10` comes before `task_2`; if both wrote a key, the recovery stops at
  a version conflict.
* If two logs name one key, a recovery of an intact store, or a second recovery,
  meets the newer version at the older entry and stops
  (`commit_log_recovery.h:51`), although nothing is missing.
* A commit log cut in the value of its last line is applied with the shorter
  value (`commit_log_replay.h:76`; `entry_count` is never compared); one cut
  before its status is skipped without notice; one with an empty value does not
  parse and stops the recovery of all later ones.
* The logs of the synthetic driver expect the version its seeds have, which are
  in no log: on an empty store the recovery stops at once.
* The continuation of a synthetic task has the score 120 or 130
  (`synthetic_recovery.h:60`), a branch staged before the crash
  `(i + 1) * 10 + task_index`: with three branches from index 100 on (with two
  from 110) an earlier staged branch ties with the resumed one and comes first,
  or outscores it, and the continuation's write is dropped. No document promises
  otherwise; `ContinuationDecides` states both outcomes.
* A scripted task whose `recovery_score` is left at its default 0.0
  (`scripted_kv_task.h:46`) loses to any staged branch, and to an earlier branch
  that was never staged, whose unfinished work is then committed.
* In a log cut before `branch_B` was created, the continuation of the minimal
  task works on a branch that is not there (`minimal_candidate_recovery.h:19`):
  its calls have no effect, and another branch is committed without its work.
  The same holds for a scripted task with a `recovery_preferred_branch_id` that
  is not in its plan, which nothing checks; there it is the best staged branch
  that is committed.
* A line of the snapshot with an empty value stops the loading of the file
  (`file_kv_store.h:231`); a failed `PutIfVersion` on a missing key leaves such
  an entry. `Load` models it and the properties leave those files out.
* A recovery that fails, because a rename or a removal does, leaves the store
  empty (`file_kv_store.h:206`), and the constructor does not look at the result:
  the next call that succeeds replaces the snapshot by a store with one key.
* After a call failed in the middle of the temporary file, a `Reload` of the live
  store puts the partial file in place, like a restart (`file_kv_store.h:247`).

### The bounds, and why they are enough

Two keys are what isolation needs: one that is written and one that is read, or
two written in both orders. Two operations per branch give every pair: read
then write, two writes to one object (rebased or not), writes to two objects.
Two transactions plus one outside put give every two-party race and the race of
two with a third. Three intents and two savepoints are the least with which a
rollback crosses a first write, a repeated write and an inner savepoint. Three
writes give the crash-safe path a first, a middle and a last write; two puts
let interference happen both before and during a recovery, two crashes let
the recovery of a commit crash, and two submissions put one artifact over
another. Two logs give the order of names against the order of commits, and two
commits with two keys let them share a key or not. Two versions per key let a snapshot be
replaced by one that differs in the same key. Three operations are the least
with which a savepoint has work before and after it, or is erased by a rollback,
when the process crashes.
`MaxOps`, `MaxPuts`, `MaxIntents`, `MaxReads`, `MaxSavepoints`, `MaxVersion`,
`MaxCrashes`, `MaxFailures`, `MaxAttempts`, `MaxCommits` and `MaxAborts` are the
only bounds; each is named in a guard.
The symmetry sets (transactions, or keys) are used where all of them start alike
and only safety is checked.

### Fairness

`AgentTxn!FairSpec` has weak fairness on `CommitStep(t)`: a thread that has
called `SelectWinnerAndCommit` only ever waits for the store's mutex, which is
held for one call, so it keeps going. Nothing is assumed of branch execution:
a task need never commit. `FallbackCommit!FairSpec` has weak fairness on the
running process (the commit, the recovery, and the maintenance of the finished
artifact), for the same reason, and on `Restart`: the operator starts a
new process after a crash or a failed start. Nothing is assumed of `Resubmit`. Crashes and failures are not fair,
and are bounded.

## 4. What is proved

The proofs hold for any set of keys, texts, values, transactions, scores, intents
and savepoint names, any number of branches, of tasks and of logs, and any bound on
puts, commits, crashes, failures and submissions. What is assumed of the constants is named where they
are declared: that they have their types (`TextAssumption`: a text is not an
integer; `ScoreAssumption`, `IntentsAssumption`, `PutValuesAssumption`,
`ValueAssumption`, `BranchCountAssumption`, `AtomicBatchAssumption`,
`MaxPutsAssumption`, `ConfigAssumption`, and in `TaskRecovery` `PlanAssumption`,
`ScoreUnitAssumption`, `CallsAssumption`, `PutsAssumption`,
`InitialStoreAssumption`, in `CommitLog` `TaskCountAssumption` and
`BoundsAssumption`), that the characters of a log include the five that escaping
is about (`CharAssumption`), that no savepoint name and a name that a crash cut are
names, and different ones (`NamesAssumption`), that the writes of one commit are to
different keys (`WritesAssumption`, `BatchesAssumption`; the buffer is a map, and `OnceInv` below
proves it for the commits of `AgentTxn`), and that at the start a key without an
entry reads as one (`InitialStoreAssumption` of `AgentTxn`, `StoreAssumption`).
TLC evaluates all of them on every run of the module.

| module | theorem | property, on every behaviour of `Spec` |
|---|---|---|
| `AgentTxnProofs` | `TypeOKHolds` | `[]TypeOK`, both commit paths |
| | `VersionsPinValuesHolds` | `[]VersionsPinValues`, both commit paths |
| | `CandidateIsMarkedHolds` | `[]CandidateIsMarked`, both commit paths |
| | `UndoesOwnWritesOnlyHolds` | `UndoesOwnWritesOnly`, a property of steps |
| `BatchCommitProofs` | `ReadsCurrentAtCommitHolds` | with `AtomicBatch`, `ReadsCurrentAtCommit` |
| | `NoLostUpdateHolds` | with `AtomicBatch`, `NoLostUpdate` |
| | `CommitReplaysWinnerHolds` | with `AtomicBatch`, `CommitReplaysWinner` |
| | `CommitsAreAtomicHolds` | with `AtomicBatch`, `AtomicStore`'s specification |
| `BranchWorkspaceProofs` | `TypeOKHolds`, `LogsInStepHolds`, `BufferIsReplayHolds`, `DiscardEmptiesHolds` | the invariants of that name |
| | `BaseNeverMovesHolds`, `ReadsSurviveHolds` | the properties of steps of that name |
| | `SavepointsRestoreCopiesHolds` | `SavepointSpec`'s specification |
| `FallbackProofs` | `TypeOKHolds`, `CommittedIsCompleteHolds`, `VisibleIsLoggedHolds`, `ProgressIsHonestHolds`, `ResolvedIsKeptHolds` | the invariants of that name |
| | `ChangesOwnWritesOnlyHolds` | the property of steps of that name |
| `SnapshotProofs` | `TypeOKHolds`, `SnapshotIsWholeHolds` | the invariants of that name |
| | `RestoresAWriteHolds`, `KeepsAcknowledgedHolds` | the properties of steps of that name |
| `CommitLogProofs` | `TypeOKHolds`, `SuccessMeansRestoredHolds`, `RecoveryIsRepeatableHolds`, `ReplayAgreesHolds` | the invariants of that name |
| | `EscapeIsRead` | every text is written on one line, and read back as it was (not a property of behaviours) |
| `TaskRecoveryProofs` | `TypeOKHolds`, `SkippedIsCommittedHolds`, `ReadsSurviveRecoveryHolds`, `RebuildsWorkHolds` | the invariants of that name |
| | `ResumesAtSavepointHolds` | the property of steps of that name |

None of these invariants is inductive as it stands. The arguments:

**`BranchProofs`.** A finite set of positions has a greatest element and a
non-empty sequence of scored branches a first greatest one, so `LatestIntent`
and `SelectWinner` pick what they should; every store operation, every case of
`ResolveWrite` and every branch operation keeps types. Every operation, the
rollback included, also keeps a branch `WellFormed`: its order lists buffered
objects and each once, and the positions of its savepoints lie in both logs, in
order. A rollback only shortens the order and the logs (`UndoLastOrdered`,
`TruncateBufferShortens`).

**`AgentTxnProofs`.** `TypeOK` alone is not enough, because the guards index:
`TypeInv` adds that a transaction past `running` has a winner, that a buffer's
order lists buffered objects, and that in `putting` the cursor is inside the
writes. `VersionsPinValues` is not inductive, because the rollback of the
sequential path deletes keys and with them their versions. `StoreInv` adds that
the keys which were there at the start go on existing (`KeyInv`), since whoever
writes such a key remembers that it existed and so would restore it, not delete
it (`CurrentInv`, `AppliedInv`), and that with an atomic batch the phases of the
sequential path are never entered (`BatchPhaseInv`). Its heart is
`StoreAdvances`: whatever a step does to a key that keeps its versions, it
raises the version or leaves version and value alone.

`CandidateIsMarked` is about a version that a rollback may set back, of a key
that several commits may have created. `SeqInv` adds to `StoreInv` what the
applied writes are (`MadeInv`: the first writes of the transaction, in order),
that a missing key has version 0 in the store and in everything that was read of
it (`MissingInv`, `CheckedInv`, `CreatedInv`), and that no two applied writes, of
one transaction or of two, were made to one key from one version
(`DistinctInv`). The last is what makes `previous.version + 1` a name: the key
can be taken back only by the one who put it there, and nobody else's mark is
disturbed when it is.

**`BatchCommitProofs`.** `BatchInv` adds what the commit carries to its batch:
the buffer's order lists an object once (`OnceInv`), a transaction that is not
resolving has no writes yet (`NoWritesYet`), and for a resolving one every
strict read is among the checks at the version it was read (`ReadsChecked`) and
every write is what the policy made of a value whose version is among the checks
(`WriteChecked`). Since the batch succeeds only if all checks hold, the versions
are the store's at that instant, and by `VersionsPinValues` so are the values.
`CommitReplaysWinner` speaks of a replay on the store of the commit, which is not
the one the buffer was filled from. `ReplayInv` therefore relates the buffer to
the replay on *every* value: when the intents on an object are of one kind, what
they make of the base, which the entry holds, and what they make of any other
value are `Parallel`. Overwrites and Cas give the same value, appends leave
the same tail, deltas add the same number, reads leave the value alone. One more
intent of the kind keeps this (`ParallelNext`), and from it the policy, when it
accepts the write, makes of the store's value what the replay does
(`ResolveIsReplay`). `MadeWritesInv` adds that the policy did accept it, and
would again at the version that is checked, and that exactly the buffered objects
whose latest intent is no read are written.
`CommitsAreAtomic` follows step by step (`AtomicNext`): a `BatchCommit` whose
checks hold is `AtomicStore`'s commit of the keys in `writes`, `ResolveEntry`, which
adds such a key, is its `Work`, every step that aborts is its `Abort`, a put is a
put, and the other steps are stutters.

**`BranchWorkspaceProofs`.** `LogsInStep` and `BufferIsReplay` say something of
the current entries only, but a rollback brings back entries that were recorded
long ago. So the invariant (`Consistent`) speaks of the undo records as well:
for each change, the entry that was recorded before it has the type of the
intent before it on that object (`TypesInv`), the base of the object
(`BasesInv`) and the value that the intents up to there make of it
(`ValuesInv`); only the first change of an object has no previous entry
(`ChangesInv`), and the order lists the objects by their first change
(`SortedInv`). With it every turn of the loop of `Truncate` goes from a
consistent branch to a consistent one (`BackConsistent`), and a write is such a
turn read backwards (`BufferWriteWrites`). `BranchInv` adds that both logs have
the same length and that a savepoint's two positions are the same and in order.
For `SavepointsRestoreCopies` a turn of the loop does not change what any
earlier position stands for (`BackCopies`), and so the copies that the refinement
mapping reads off the logs survive writes and rollbacks. `Write`, `SavepointAt`,
`Rollback` and `Discard` are the abstract `Write`, `Save`, `Restore` and
`Discard`; reads, staging and puts are stutters.

The two recursions here, the loop and the replay of the intents, are recursive
functions. Induction theorems cannot be instantiated by the installed provers, so
a lemma unrolls each of them once (`UndoneUnroll`, `ValueAfterUnroll`), and what
holds after any number of turns is proved by taking the least number for which it
fails (`LeastIndex`).

**`FallbackProofs`.** The invariant has three layers. *Control* (`CountInv`,
`PhaseInv`, `FileInv`): what memory and disk hold at each label, and that the
artifact on disk is the one in memory up to the last save. *Versions* (`PinInv`,
`MadeInv`, `UnmadeInv`): an entry's key is never below the version it was
recorded at, and at that version it is as recorded; the writes up to the count
are made, those from the count on are not or were taken back, and a key somebody
else has put is exempt and is listed in `touched`. *Submissions* (`OpenInv`,
`CommittedInv`, `AckInv`, `NewerInv`, `BasedInv`, `ResolvedInv`, `VisibleInv`):
under an open artifact each write is made or not, a committed artifact is
complete, an archived artifact is older than the one of the running submission.
`VisibleInv` needs a case for an artifact of a repeated submission (`Again`),
whose previous values are the targets of the one before.
`ChangesOwnWritesOnly` then follows from the version layer: the guard of every
`PutIfVersion` names a version that, where nobody interfered, pins the value.

**`SnapshotProofs`.** `DiskInv` says of each of the three files at every label
that it is missing, whole and one of the maps that were tried or acknowledged,
or torn, which `torn` records; `CallInv` ties the files to the call that is
writing; `KeptInv` compares, key by key, every map that a restart may still find
with the acknowledged one.

**`CommitLogProofs`.** Two ties hold the argument together. `FileInv` ties a file
that was written whole to the writes it records: its lines are theirs, escaped,
and by `EscapeIsRead` they parse and give those writes back, whatever characters
they have. `PositionInv` ties the recovery to the directory: it stands inside a
committed log that parses, or between two logs, and every log it has passed
parses. `SuccessMeansRestored` is then one part of the invariant, said of every
entry the recovery has *passed* and not only at its end (`RestoredInv`): the entry
is in the store at the next version, or a later version of its key is. It is
inductive because a store's versions only grow while the process is not killed,
and a store that was lost is one the recovery has not passed anything of.

`LatestInv` sharpens that while nobody else disturbs the recovery: of the passed
entries that name a key, the last is the one in the store. Since `Replayed` gives
each key its last entry (`ReplayedLatest`), `ReplayAgrees` follows. It is not
restricted to logs that share no key.

For `RecoveryIsRepeatable` the invariant (`GoalInv`) says that `RecoveryOf` of
the store *as it is now* is still the goal that was computed when the recovery
began. A put of the recovery keeps this, because it makes of the store what the
function makes of it at that entry, and a later pass over an entry that is
applied changes nothing (`RecoveryAfterPut`); so a recovery that is killed and
starts again from the first log comes to the same goal. This needs logs without
a common key, since an older entry of a key is not `AlreadyApplied` any more
after a newer one was.

A lemma unrolls each recursive function of the model into the results of its turns
(`EscapeUnroll` and its like), and what each turn keeps holds at the end
(`EveryTurn`).

**`TaskRecoveryProofs`.** `RecoveryInv` has a part for each place where a task
lives. `SessionInv`: every branch in memory is `WellFormed`, the events begin
with the plan (`Plans`: the submission and one event per branch), and every read
that a branch remembers has its READ event, at the version that was read
(`ReadsLogged`). The converse is not true, since the log of a session that was
resumed at a savepoint keeps what came after it. `LogInv`: a log that can be
recovered plans at least one branch, and if it is whole, the plan and the reads
of the session that was saved are in its events. `RecoveredInv`: while a
recovery is under way, the READ events of the log are among the reads that were
rebuilt (`ReadsKept`). `CommitInv`: whoever says that the task is committed (a
phase, a flag, a COMMIT_TASK event in memory or in the log, an execution that is
a NOOP) says so of a task that a commit has reached the store for; this is what
`SkippedIsCommitted` needs, because it is the events that survive, and not the
commit. One lemma (`SessionStep`) covers all calls on a session; `TornEvents`
says what is left of a log that a crash cut. The replay of the events and the
commit's loop over the buffered objects are recursive functions, unrolled
(`ReplayingExists`, `WritingExists`) and reasoned about by `LeastIndex`.
`ReadsSurviveRecovery` follows: the branches that were saved and those that were
rebuilt have one plan (`PlanIsOne`), and each read of the former is in the log,
so among the reads of the latter.

`RebuildsWork` compares a branch with the replay of its history, rollbacks
included, over another store; `WorkInv` adds a simulation to `RecoveryInv`. Take
any store `s` and replay the events of a session over it: the branch that comes
out `Mirrors` the one in memory. Both have the same order, savepoints, objects in
the undo records, and intents (less their conditions); the score has lost its
fraction. The base of a live entry is what the store holds now, or the store has
moved on (`Pinned`); where it is what `s` holds, the two entries are equal, and so
are the entries in the undo records. It has to hold for
*every* `s`, because the store in which a recovery will find itself is not known
when the session is saved; each call on a branch and its event keep it
(`BufferWriteMirrors` and its like), `ReplayedAppend` says that one more event is
one more turn of the loop, and a rollback undoes both sides change by change. It
holds of a session in progress (`Replayable`) and not of one that was resumed from
a savepoint, whose rollback has no event, nor of one that has ended, whose losing
branches are discarded without one. What `Image` saves of such a session, a
recovery rebuilds.

For `ResumesAtSavepoint` the log may be cut, and the branch has a history that
nothing in it was saved of. `CopyInv` says what is true of every beginning of a
log: a SAVEPOINT event copies the intents that a replay of the events *before it*
comes to (`CopiesKept`), on any store and with any part of the plan, so that the
cut does not matter (`TornCopies`, `ReplayedCount`). Replaying then gives each
savepoint a branch still has an event with its copy (`AllCopied`), which a
rollback, cutting the savepoints and the intents together, keeps. The premise of
`CopiesKept` for a new savepoint is `WorkInv`'s simulation.

The theorems are about `TaskRecovery`'s `Spec`, with any sets of calls. The run
`task_recovery` checks the same invariants under `WorkloadSpec`, where the
drivers' scripts make the calls.

Model-checked only:

* `CommitEnds`, `ArtifactIsResolved`: liveness under fairness, with ENABLED, is
  beyond the prover.
* `DriverCommitsBest` and `ContinuationDecides` of `Workload`: statements about
  the results of given scripts, which are finite computations.

## 5. What is not modelled

* **`CommitTask` and `AbortTask` called by a caller on a session that has
  ended**, a directory of several task logs (they are recovered one by one), and
  the roles of a task's objects.
* **The text of a fallback artifact**, which is replaced by a rename and so never
  cut, and the creation of the directories. `simulate_crash_after_apply_count` is
  a crash like any other.
* **Metadata of a task log that was cut**: they precede the events, so a log with
  events to recover from has them whole.
* **Escaping of keys and values in the snapshot**: it is the one of `LogText`, and
  a line of the snapshot is taken to be written whole.
* **Metrics, failure texts, event descriptions, report formats**: no property is
  about them.
* **Redis and RocksDB adapters, store factory, configuration**: they repeat or
  construct what is modelled.
* **Several tasks of a driver in one process**, its counters and its CSV: the
  tasks of the synthetic driver share no key. **Examples**: they call the runtime
  in one fixed order, and the models allow any. **Python experiments**: offline checks beside the
  implementation.

## 6. The plan

Done: `VersionedKV`, `IntentPolicy`, `Branch`, `BranchWorkspace` with
`SavepointSpec`, `AgentTxn` with `AtomicStore`, `FallbackCommit` with the
maintenance of artifacts and path reuse, `SnapshotFile`, `TaskRecovery`,
`LogText` and `CommitLog`, `Workload`, and the proofs of section 4.

The proofs of section 4 cover the safety properties of `BranchWorkspace`,
`FallbackCommit`, `SnapshotFile`, `CommitLog`, `TaskRecovery` and `AgentTxn`
(those of its batch path, on a store with an atomic batch). What is left to TLC
is liveness and the results of the drivers' scripts.

## 7. Running it

    tlc -workers 2 -config batch_contention.cfg MCAgentTxn.tla
    tlapm BatchCommitProofs.tla

Each configuration names its specification and properties; `PROJECT.json` pairs
it with its module.
