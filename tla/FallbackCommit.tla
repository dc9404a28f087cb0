----------------------------- MODULE FallbackCommit -----------------------------
(****************************************************************************)
(* The crash-safe sequential commit for backends without an atomic batch:   *)
(* CommitWinnerWithoutBatchCrashSafe, the artifact it keeps on disk, what   *)
(* the recovery at the start of the next runtime does with it, and what is  *)
(* kept of an artifact that is resolved.                                    *)
(*                                                                          *)
(* One task commits a fixed sequence of writes, and may be submitted again  *)
(* when it was not told that it committed: its transaction then has the     *)
(* same id and the same artifact path.  Each call on the store and each     *)
(* operation on a file is a step of its own; between any two of them the    *)
(* process may crash, which loses everything but the store and the files,   *)
(* and other clients of the store may put values.  The artifact is replaced *)
(* by a rename, so it is always whole.                                      *)
(*                                                                          *)
(* pc says which call comes next:                                           *)
(*   prepare                  Get of the write being prepared               *)
(*   check, put               Get and PutIfVersion of the next write        *)
(*   scanTarget, scanRest     the two loops of DetectCommittedPrefix        *)
(*   forward                  PutIfVersion of ResumeForwardFallbackCommit   *)
(*   undoCheck, undo          Get, and Put or Delete, of ResumeRollback...  *)
(*   save*                    WriteFallbackCommitArtifact at that place     *)
(*   finalize, rename         the policy for a terminal artifact, applied   *)
(*                            by CommitTask and by the sweep at a start     *)
(*   done                     the commit or the recovery has returned       *)
(*   down                     no process                                    *)
(*   failed                   TaskRuntime's constructor threw               *)
(****************************************************************************)
EXTENDS Integers, Sequences

CONSTANTS Key, Value, Empty,
          Writes,        \* the resolved writes, a sequence of [key, value]
          InitialStores, \* what the store may hold when they are resolved
          Configs,       \* the configurations of the runtime, see Config
          PutValues,     \* values other clients put
          MaxPuts,       \* bound: puts of other clients
          MaxCrashes,    \* bound: crashes
          MaxFailures,   \* bound: file operations that fail
          MaxAttempts    \* bound: submissions of the task

INSTANCE VersionedKV

ASSUME WritesAssumption ==
    /\ Writes \in Seq(WriteOp)
    /\ Writes # <<>>
    /\ \A i, j \in DOMAIN Writes : Writes[i].key = Writes[j].key => i = j
\* A key that has no entry has no version either.
ASSUME StoreAssumption ==
    /\ InitialStores \subseteq [Key -> VersionedValue]
    /\ \A s \in InitialStores, k \in Key : s[k].exists \/ s[k] = Absent
ASSUME ValueAssumption == Empty \in Value /\ PutValues \subseteq Value

Policy == {"keep", "archive", "delete"}

\* What becomes of a terminal artifact, whether a start recovers open ones, and
\* whether the directory has an artifact with an earlier name that no recovery
\* can resolve.
Config == [committed : Policy, rolled_back : Policy, auto : BOOLEAN, stuck : BOOLEAN]

ASSUME ConfigAssumption == Configs \subseteq Config

VARIABLES config,     \* how the runtime is configured
          base,       \* the store the writes were resolved against
          store,      \* what Get returns for each key; survives a crash
          file,       \* the artifact on disk
          archive,    \* the artifact of that name in the archive directory
          art,        \* the artifact in memory
          pc,         \* see above
          recovering, \* the process is running the recovery at startup
          rollback,   \* DetectCommittedPrefix was called to roll back
          prefix,     \* its committed_prefix
          cursor,     \* its i
          outcome,    \* what CommitTask returned to the task
          origin,     \* history: the store before the first submission
          touched,    \* history: the keys other clients have put
          abandoned,  \* history: an open artifact was overwritten
          resolved,   \* history: the last terminal artifact, until another
                      \*   submission writes over it
          puts, crashes, failures, attempts

memory == <<art, recovering, rollback, prefix, cursor>>
history == <<origin, touched, abandoned, resolved>>
bounds == <<puts, crashes, failures, attempts>>
vars == <<config, base, store, file, archive, pc, outcome, memory, history, bounds>>

\* What a step of the commit or the recovery leaves alone.
frame == <<config, base, archive, history>>

Count == Len(Writes)

Phase == {"PREPARED", "APPLYING", "ROLLING_BACK", "COMMITTED", "ROLLED_BACK"}
Terminal == {"COMMITTED", "ROLLED_BACK"}

IsOpen(a) == a.phase \in Phase \ Terminal

NoArtifact == [phase |-> "NONE", applied_count |-> 0, entries |-> <<>>]
NewArtifact == [phase |-> "PREPARED", applied_count |-> 0, entries |-> <<>>]

\* The version each write was resolved against.
Expected(i) == base[Writes[i].key].version

\* Mutant of EntryFor: the value before is recorded as the target.
EntryForSwapped(i, current) ==
    [key |-> Writes[i].key, expected_version |-> Expected(i), target |-> current.value,
     previous |-> current]

EntryFor(i, current) ==
    [key |-> Writes[i].key, expected_version |-> Expected(i), target |-> Writes[i].value,
     previous |-> current]

\* Mutant of MatchesTarget: the target at the version before the write.
MatchesTargetSameVersion(e, current) == current = Stored(e.target, e.expected_version)

MatchesTarget(e, current) == current = Stored(e.target, e.expected_version + 1)

MatchesPrevious(e, current) ==
    IF e.previous.exists
    THEN current = e.previous
    ELSE ~current.exists /\ current.version = 0

Init ==
    /\ config \in Configs
    /\ base \in InitialStores
    /\ store = base
    /\ file = NoArtifact /\ archive = NoArtifact
    /\ art = NewArtifact
    /\ pc = "prepare"
    /\ recovering = FALSE
    /\ rollback = FALSE
    /\ prefix = 0
    /\ cursor = 1
    /\ outcome = "none"
    /\ origin = base /\ touched = {} /\ abandoned = FALSE /\ resolved = NoArtifact
    /\ puts = 0 /\ crashes = 0 /\ failures = 0 /\ attempts = 1

Goto(label) == pc' = label

\* The call returns false: the task aborts, or the new runtime refuses to start.
GiveUp ==
    /\ pc' = IF recovering THEN "failed" ELSE "finalize"
    /\ outcome' = IF recovering THEN outcome ELSE "aborted"

\* The call returns true.
Succeed ==
    /\ pc' = "finalize"
    /\ outcome' = IF recovering THEN outcome ELSE "committed"

\* WriteFallbackCommitArtifact(art); only the first write of a commit says
\* PREPARED, and puts a new artifact over what an earlier submission left.
WriteArtifact ==
    /\ file' = art
    /\ abandoned' = (abandoned \/ (art.phase = "PREPARED" /\ IsOpen(file)))
    /\ resolved' = IF art.phase \in Terminal THEN art
                   ELSE IF art.phase = "PREPARED" /\ resolved = file THEN NoArtifact
                   ELSE resolved
    /\ UNCHANGED failures

\* A file operation fails and changes nothing.
FileFails ==
    /\ failures < MaxFailures
    /\ failures' = failures + 1
    /\ UNCHANGED <<file, abandoned, resolved>>

\* The write of the artifact at `from`, then `to`.
Save(from, to) ==
    /\ pc = from
    /\ \/ WriteArtifact /\ Goto(to) /\ UNCHANGED outcome
       \/ FileFails /\ GiveUp
    /\ UNCHANGED <<config, base, store, archive, memory, origin, touched, puts, crashes, attempts>>

--------------------------------------------------------------------------------
(* CommitWinnerWithoutBatchCrashSafe.                                        *)

Prepare ==
    LET i == Len(art.entries) + 1
        k == Writes[i].key
    IN  /\ pc = "prepare"
        /\ \/ /\ VersionIs(store, k, Expected(i))
              /\ art' = [art EXCEPT !.entries = Append(@, EntryFor(i, store[k]))]
              /\ Goto(IF i = Count THEN "savePrepared" ELSE "prepare")
              /\ UNCHANGED outcome
           \/ /\ ~VersionIs(store, k, Expected(i))
              /\ GiveUp
              /\ UNCHANGED art
        /\ UNCHANGED <<frame, store, file, recovering, rollback, prefix, cursor, bounds>>

\* Mutant of SavePrepared: writes start before the artifact is on disk.
SavePreparedSkipped ==
    /\ pc = "savePrepared" /\ Goto("check")
    /\ UNCHANGED <<frame, store, file, outcome, memory, bounds>>

SavePrepared == Save("savePrepared", "check")

\* RollbackCrashSafeArtifact starts by looking for the committed prefix.
StartRollback ==
    /\ Goto("scanTarget")
    /\ rollback' = TRUE
    /\ prefix' = 0

NextEntry == art.entries[art.applied_count + 1]

\* The write is refused when its key has no entry, even if that was expected.
Check ==
    LET current == store[NextEntry.key]
    IN  /\ pc = "check"
        /\ IF current.version = NextEntry.expected_version /\ current.exists
           THEN Goto("put") /\ UNCHANGED <<rollback, prefix>>
           ELSE StartRollback
        /\ UNCHANGED <<frame, store, file, art, recovering, cursor, outcome, bounds>>

PutNext ==
    /\ pc = "put"
    /\ store' = PutIfVersion(store, NextEntry.key, NextEntry.expected_version, NextEntry.target)
    /\ \/ /\ VersionIs(store, NextEntry.key, NextEntry.expected_version)
          /\ art' = [art EXCEPT !.applied_count = @ + 1, !.phase = "APPLYING"]
          /\ Goto("saveApplied")
          /\ UNCHANGED <<rollback, prefix>>
       \/ /\ ~VersionIs(store, NextEntry.key, NextEntry.expected_version)
          /\ StartRollback
          /\ UNCHANGED art
    /\ UNCHANGED <<frame, file, recovering, cursor, outcome, bounds>>

\* Mutant of SaveApplied: the progress is not saved.
SaveAppliedSkipped ==
    /\ pc = "saveApplied"
    /\ Goto(IF art.applied_count < Count THEN "check" ELSE "markCommitted")
    /\ UNCHANGED <<frame, store, file, outcome, memory, bounds>>

SaveApplied == Save("saveApplied", IF art.applied_count < Count THEN "check" ELSE "markCommitted")

\* No call: the phase is set before the last write of the artifact.
MarkCommitted ==
    /\ pc = "markCommitted"
    /\ art' = [art EXCEPT !.phase = "COMMITTED"]
    /\ Goto("saveCommitted")
    /\ UNCHANGED <<frame, store, file, recovering, rollback, prefix, cursor, outcome, bounds>>

\* The last write of the artifact: the call returns true.
SaveCommitted ==
    /\ pc = "saveCommitted"
    /\ \/ WriteArtifact /\ Succeed
       \/ FileFails /\ GiveUp
    /\ UNCHANGED <<config, base, store, archive, memory, origin, touched, puts, crashes, attempts>>

--------------------------------------------------------------------------------
(* DetectCommittedPrefix, one Get per step.                                  *)

ScanTarget ==
    /\ pc = "scanTarget"
    /\ IF prefix < Count /\ MatchesTarget(art.entries[prefix + 1], store[art.entries[prefix + 1].key])
       THEN prefix' = prefix + 1 /\ UNCHANGED <<pc, cursor>>
       ELSE Goto("scanRest") /\ cursor' = prefix + 1 /\ UNCHANGED prefix
    /\ UNCHANGED <<frame, store, file, art, recovering, rollback, outcome, bounds>>

ScanRest ==
    /\ pc = "scanRest" /\ cursor <= Count
    /\ \/ /\ MatchesPrevious(art.entries[cursor], store[art.entries[cursor].key])
          /\ cursor' = cursor + 1
          /\ UNCHANGED <<pc, outcome>>
       \/ /\ ~MatchesPrevious(art.entries[cursor], store[art.entries[cursor].key])
          /\ GiveUp
          /\ UNCHANGED cursor
    /\ UNCHANGED <<frame, store, file, art, recovering, rollback, prefix, bounds>>

\* The prefix is known: the resumption records where it starts from.
ScanDone ==
    /\ pc = "scanRest" /\ cursor > Count
    /\ art' = [art EXCEPT
            !.applied_count = prefix,
            !.phase = IF rollback THEN "ROLLING_BACK"
                      ELSE IF prefix = Count THEN "COMMITTED" ELSE "APPLYING"]
    /\ Goto(IF rollback THEN "saveRollingBack" ELSE "saveForward")
    /\ UNCHANGED <<frame, store, file, recovering, rollback, prefix, cursor, outcome, bounds>>

--------------------------------------------------------------------------------
(* ResumeForwardFallbackCommit and ResumeRollbackFallbackCommit.             *)

\* Mutant of ForwardLabel: the remaining writes are not made.
ForwardLabelTooSoon == "markCommitted"

ForwardLabel == IF art.applied_count < Count THEN "forward" ELSE "markCommitted"

SaveForward == Save("saveForward", ForwardLabel)

Forward ==
    /\ pc = "forward"
    /\ store' = PutIfVersion(store, NextEntry.key, NextEntry.expected_version, NextEntry.target)
    /\ \/ /\ VersionIs(store, NextEntry.key, NextEntry.expected_version)
          /\ art' = [art EXCEPT !.applied_count = @ + 1, !.phase = "APPLYING"]
          /\ Goto("saveForwarded")
          /\ UNCHANGED outcome
       \/ /\ ~VersionIs(store, NextEntry.key, NextEntry.expected_version)
          /\ GiveUp
          /\ UNCHANGED art
    /\ UNCHANGED <<frame, file, recovering, rollback, prefix, cursor, bounds>>

SaveForwarded == Save("saveForwarded", ForwardLabel)

UndoLabel == IF art.applied_count > 0 THEN "undoCheck" ELSE "markRolledBack"

SaveRollingBack == Save("saveRollingBack", UndoLabel)

LastEntry == art.entries[art.applied_count]

UndoCheck ==
    LET current == store[LastEntry.key]
        undone == MatchesPrevious(LastEntry, current)
    IN  /\ pc = "undoCheck"
        /\ \/ /\ undone \/ MatchesTarget(LastEntry, current)
              /\ art' = IF undone THEN [art EXCEPT !.applied_count = @ - 1] ELSE art
              /\ Goto(IF undone THEN "saveUndone" ELSE "undo")
              /\ UNCHANGED outcome
           \/ /\ ~undone /\ ~MatchesTarget(LastEntry, current)
              /\ GiveUp
              /\ UNCHANGED art
        /\ UNCHANGED <<frame, store, file, recovering, rollback, prefix, cursor, bounds>>

\* Mutant of UndoVersion: whatever version is there.
UndoVersionAny(e) == store[e.key].version

UndoVersion(e) == IF e.previous.exists THEN e.previous.version + 1 ELSE e.expected_version + 1

\* A key that existed gets its old value back, at a new version.
Undo ==
    LET e == LastEntry
        expected == UndoVersion(e)
    IN  /\ pc = "undo"
        /\ store' = IF e.previous.exists
                    THEN PutIfVersion(store, e.key, expected, e.previous.value)
                    ELSE DeleteIfVersion(store, e.key, expected)
        /\ \/ /\ VersionIs(store, e.key, expected)
              /\ art' = [art EXCEPT !.applied_count = @ - 1]
              /\ Goto("saveUndone")
              /\ UNCHANGED outcome
           \/ /\ ~VersionIs(store, e.key, expected)
              /\ GiveUp
              /\ UNCHANGED art
        /\ UNCHANGED <<frame, file, recovering, rollback, prefix, cursor, bounds>>

SaveUndone == Save("saveUndone", UndoLabel)

MarkRolledBack ==
    /\ pc = "markRolledBack"
    /\ art' = [art EXCEPT !.phase = "ROLLED_BACK"]
    /\ Goto("saveRolledBack")
    /\ UNCHANGED <<frame, store, file, recovering, rollback, prefix, cursor, outcome, bounds>>

\* A completed rollback is a success of the recovery, and an abort of the task.
SaveRolledBack ==
    /\ pc = "saveRolledBack"
    /\ \/ WriteArtifact /\ IF recovering THEN Succeed ELSE GiveUp
       \/ FileFails /\ GiveUp
    /\ UNCHANGED <<config, base, store, archive, memory, origin, touched, puts, crashes, attempts>>

--------------------------------------------------------------------------------
(* What becomes of a terminal artifact.                                      *)

\* Mutant of PolicyFor: the other policy.
PolicyForSwapped(phase) == IF phase = "COMMITTED" THEN config.rolled_back ELSE config.committed

PolicyFor(phase) == IF phase = "COMMITTED" THEN config.committed ELSE config.rolled_back

\* CommitTask does not look at a failure; the constructor throws.
FinalizeFails == FileFails /\ Goto(IF recovering THEN "failed" ELSE "done")

Forget == art' = NoArtifact /\ rollback' = FALSE /\ prefix' = 0 /\ cursor' = 1

\* FinalizeFallbackCommitArtifact at the end of CommitTask, and the sweep at a
\* start: whatever terminal artifact is at the path, an earlier submission's too.
\* Archiving first removes the archived one of that name, and ignores failures.
Finalize ==
    /\ pc = "finalize"
    /\ \/ /\ file.phase \notin Terminal \/ PolicyFor(file.phase) = "keep"
          /\ Goto("done")
          /\ UNCHANGED <<file, archive, abandoned, resolved, failures>>
       \/ /\ file.phase \in Terminal /\ PolicyFor(file.phase) = "delete"
          /\ \/ file' = NoArtifact /\ Goto("done") /\ UNCHANGED <<abandoned, resolved, failures>>
             \/ FinalizeFails
          /\ UNCHANGED archive
       \/ /\ file.phase \in Terminal /\ PolicyFor(file.phase) = "archive"
          /\ archive' \in {NoArtifact, archive}
          /\ Goto("rename")
          /\ UNCHANGED <<file, abandoned, resolved, failures>>
    /\ Forget
    /\ UNCHANGED <<config, base, store, recovering, outcome, origin, touched, puts, crashes, attempts>>

Rename ==
    /\ pc = "rename"
    /\ \/ /\ archive' = file
          /\ file' = NoArtifact
          /\ Goto("done")
          /\ UNCHANGED <<abandoned, resolved, failures>>
       \/ FinalizeFails /\ UNCHANGED archive
    /\ UNCHANGED <<config, base, store, memory, outcome, origin, touched, puts, crashes, attempts>>

--------------------------------------------------------------------------------
(* The process and its surroundings.                                         *)

\* A task whose CommitTask did not return is told nothing.
Crash ==
    /\ pc \notin {"down", "failed"} /\ crashes < MaxCrashes
    /\ crashes' = crashes + 1
    /\ pc' = "down"
    /\ Forget /\ recovering' = FALSE
    /\ outcome' = IF pc # "done" /\ ~recovering THEN "none" ELSE outcome
    /\ UNCHANGED <<frame, store, file, puts, failures, attempts>>

\* RecoverFallbackCommitArtifacts takes the artifacts in the order of their names:
\* the first that cannot be resolved ends it, a terminal one is skipped, and an
\* open one is resumed, backward from ROLLING_BACK and forward otherwise.
RecoverArtifacts ==
    \/ /\ config.stuck
       /\ Goto("failed")
       /\ UNCHANGED <<art, rollback, prefix>>
    \/ /\ ~config.stuck /\ ~IsOpen(file)
       /\ Goto("finalize")
       /\ UNCHANGED <<art, rollback, prefix>>
    \/ /\ ~config.stuck /\ IsOpen(file)
       /\ Goto("scanTarget")
       /\ art' = file
       /\ rollback' = (file.phase = "ROLLING_BACK")
       /\ prefix' = 0

\* A new TaskRuntime recovers, if it is to, and then sweeps terminal artifacts.
Restart ==
    /\ pc \in {"down", "failed"}
    /\ \/ config.auto /\ RecoverArtifacts
       \/ ~config.auto /\ Goto("finalize") /\ UNCHANGED <<art, rollback, prefix>>
    /\ recovering' = TRUE
    /\ UNCHANGED <<frame, store, file, cursor, outcome, bounds>>

\* SubmitTask for a task that is not known to have committed: its writes are
\* resolved again, and ConfigureFallbackCommit gives it the same artifact path.
Resubmit ==
    /\ pc = "done" /\ outcome # "committed" /\ attempts < MaxAttempts
    /\ attempts' = attempts + 1
    /\ base' = store
    /\ art' = NewArtifact /\ recovering' = FALSE
    /\ outcome' = "none"
    /\ Goto("prepare")
    /\ UNCHANGED <<config, store, file, archive, rollback, prefix, cursor, history, puts, crashes, failures>>

ExternalPut(k, v) ==
    /\ puts < MaxPuts
    /\ puts' = puts + 1
    /\ store' = Put(store, k, v)
    /\ touched' = touched \cup {k}
    /\ UNCHANGED <<config, base, file, archive, pc, outcome, memory, origin, abandoned, resolved,
                   crashes, failures, attempts>>

CommitStep ==
    \/ Prepare \/ SavePrepared \/ Check \/ PutNext \/ SaveApplied
    \/ MarkCommitted \/ SaveCommitted

RecoveryStep ==
    \/ ScanTarget \/ ScanRest \/ ScanDone
    \/ SaveForward \/ Forward \/ SaveForwarded
    \/ SaveRollingBack \/ UndoCheck \/ Undo \/ SaveUndone
    \/ MarkRolledBack \/ SaveRolledBack

Next ==
    \/ CommitStep \/ RecoveryStep \/ Finalize \/ Rename
    \/ Crash \/ Restart \/ Resubmit
    \/ \E k \in Key, v \in PutValues : ExternalPut(k, v)

Spec == Init /\ [][Next]_vars

\* A running process keeps running, and a crashed one is started again.
FairSpec ==
    Spec /\ WF_vars(CommitStep \/ RecoveryStep \/ Finalize \/ Rename) /\ WF_vars(Restart)

--------------------------------------------------------------------------------

Entry == [key : Key, expected_version : Nat, target : Value, previous : VersionedValue]
Artifact == [phase : Phase \cup {"NONE"}, applied_count : 0 .. Count, entries : Seq(Entry)]

\* The store and the artifacts, on disk, in the archive and in memory, are what
\* the code's types say, and describe a prefix of the transaction's writes.
TypeOK ==
    /\ store \in [Key -> VersionedValue]
    /\ \A a \in {file, archive, art} :
        /\ a \in Artifact
        /\ Len(a.entries) <= Count
        /\ \A i \in DOMAIN a.entries :
            a.entries[i].key = Writes[i].key /\ a.entries[i].target = Writes[i].value
    /\ config \in Configs
    /\ outcome \in {"none", "committed", "aborted"}
    /\ prefix \in 0 .. Count /\ cursor \in 1 .. Count + 1
    /\ recovering \in BOOLEAN /\ rollback \in BOOLEAN

HasTarget(i, expected) ==
    \/ store[Writes[i].key] = Stored(Writes[i].value, expected + 1)
    \/ store[Writes[i].key].version > expected + 1

\* A transaction that was told it committed, or whose artifact says so, on disk
\* or in the archive, has written everything: nothing is missing, whatever
\* crashed in between: the target is there, or a later version has taken its place.
CommittedIsComplete ==
    /\ outcome = "committed" => \A i \in DOMAIN Writes : HasTarget(i, Expected(i))
    /\ \A a \in {file, archive} : a.phase = "COMMITTED" =>
        \A i \in DOMAIN Writes : HasTarget(i, a.entries[i].expected_version)

\* On a key whose value the task changes and that nobody else has put, there is
\* what was there before the task or what the task writes.  When it is so on some keys only, an open artifact on disk
\* names each write that was made and the value before it - so that, whenever no
\* artifact is open, the submissions of the task have had their effect on all
\* keys or on none.  The exception: a submission wrote its artifact over an open
\* one, whose writes nobody can then take back (ConfigureFallbackCommit).
VisibleIsLogged ==
    LET Now(i) == store[Writes[i].key]
        Before(i) == origin[Writes[i].key]
        mine == {i \in DOMAIN Writes :
                    Writes[i].key \notin touched /\ Before(i).value # Writes[i].value}
        IsVisible(i) == Now(i).value = Writes[i].value
    IN  ~abandoned =>
            /\ \A i \in mine :
                IsVisible(i) \/ (Now(i).exists = Before(i).exists /\ Now(i).value = Before(i).value)
            /\ (\E i \in mine : ~IsVisible(i)) =>
                \A i \in mine : IsVisible(i) =>
                    /\ IsOpen(file)
                    /\ MatchesTarget(file.entries[i], Now(i))
                    /\ file.entries[i].previous.value = Before(i).value

\* Neither the commit nor any recovery overwrites what another client has put:
\* a step of theirs turns a logged previous value into its target, or a target
\* back into the value before it, and does nothing else to the store.
ChangesOwnWritesOnly ==
    [][\A k \in Key : (store'[k] # store[k] /\ puts' = puts) =>
        \E i \in DOMAIN file.entries :
            LET e == file.entries[i]
            IN  /\ e.key = k
                /\ \/ MatchesPrevious(e, store[k]) /\ MatchesTarget(e, store'[k])
                   \/ MatchesTarget(e, store[k]) /\ store'[k].value = e.previous.value]_vars

\* The artifact on disk counts the writes that are in the store, from the first
\* on, to within the one whose count is not saved yet, and no later write is
\* there, as long as nobody interferes: the state DetectCommittedPrefix expects.
ProgressIsHonest ==
    (puts = 0 /\ file.phase \in {"PREPARED", "APPLYING", "COMMITTED"}) =>
        \E n \in {file.applied_count, file.applied_count + 1} :
            \A i \in DOMAIN file.entries :
                LET e == file.entries[i] IN
                IF i <= n THEN MatchesTarget(e, store[e.key]) ELSE MatchesPrevious(e, store[e.key])

\* The record of how a submission ended is not lost, through crashes and failures
\* anywhere in the maintenance, unless the policy for it is to delete it or a
\* later submission writes over it (ApplyTerminalFallbackArtifactPolicy).
ResolvedIsKept ==
    \/ resolved = NoArtifact
    \/ resolved.phase = "COMMITTED" /\ config.committed = "delete"
    \/ resolved.phase = "ROLLED_BACK" /\ config.rolled_back = "delete"
    \/ resolved \in {file, archive}

\* An artifact, once on disk, reaches a terminal phase, through any crashes,
\* unless it cannot be written any more, somebody interferes, the commit
\* creates a key, or the runtime does not recover.
ArtifactIsResolved ==
    (file.phase = "PREPARED" /\ (\A k \in Key : base[k].exists) /\ config.auto /\ ~config.stuck)
        ~> (~IsOpen(file) \/ failures > 0 \/ puts > 0)

\* The recovery of an artifact that nobody interfered with succeeds.
RecoverySucceeds == pc # "failed"
=================================================================================
