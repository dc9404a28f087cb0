-------------------------------- MODULE CommitLog --------------------------------
(****************************************************************************)
(* Commit logs: what a commit records of its writes, the file a driver      *)
(* saves it to, and the recovery that applies a directory of such files to  *)
(* a store.                                                                 *)
(*                                                                          *)
(* Tasks run one after the other, as the synthetic driver runs them: a task *)
(* ends, its log is written whole over the previous log of that name, the   *)
(* next one starts.  A crash may cut the file that is being written, and    *)
(* the store the next process finds may be an older one: what is recovered  *)
(* is a path the operator names.  The recovery makes one call on the store  *)
(* per step, and may crash between any two.                                 *)
(*                                                                          *)
(* mode                                                                     *)
(*   up           tasks run                                                 *)
(*   down         no process                                                *)
(*   recovering   RecoverCommittedWrites is running                         *)
(*   recovered    it has returned success                                   *)
(*   stopped      it has returned at a parse failure or a version conflict  *)
(****************************************************************************)
EXTENDS LogText

CONSTANTS Key,
          Char,          \* the characters of a text
          TaskCount,     \* tasks, numbered in the order of their log names
          Batches,       \* the writes a commit may make: sequences of [key, value]
          InitialStore,  \* what the store holds at the start
          PutValues,     \* values other clients put
          MaxCommits,    \* bound: commits, also of the same task again
          MaxAborts,     \* bound: aborted tasks
          MaxCrashes,    \* bound: crashes
          MaxPuts        \* bound: puts of other clients

\* A value is a text.
Value == Seq(Char)
Empty == <<>>

INSTANCE VersionedKV

ASSUME CharAssumption == {"backslash", "tab", "newline", "t", "n"} \subseteq Char
ASSUME TaskCountAssumption == TaskCount \in Nat
\* A key without an entry reads as one.
ASSUME StoreAssumption ==
    /\ InitialStore \in [Key -> VersionedValue]
    /\ \A k \in Key : InitialStore[k].exists \/ InitialStore[k] = Absent
ASSUME PutValuesAssumption == PutValues \subseteq Value
ASSUME BoundsAssumption == {MaxCommits, MaxAborts, MaxCrashes, MaxPuts} \subseteq Nat
ASSUME BatchesAssumption ==
    \A batch \in Batches :
        /\ batch \in Seq(WriteOp)
        /\ \A i, j \in DOMAIN batch : batch[i].key = batch[j].key => i = j

VARIABLES store,     \* what Get returns for each key
          backups,   \* the store as it was at the start and after each commit
          txn,       \* the transaction that has ended and is not logged yet
          files,     \* the log of each task
          mode,      \* see above
          log,       \* the recovery's position: which log,
          entry,     \*   which entry of it (0: the log is not parsed yet),
          missing,   \*   and whether Get has found the entry not applied
          goal,      \* history: what the recovery, undisturbed, comes to
          commits, aborts, crashes, puts

recovery == <<log, entry, missing>>
bounds == <<commits, aborts, crashes, puts>>
vars == <<store, backups, txn, files, mode, recovery, goal, bounds>>

Task == 1 .. TaskCount

--------------------------------------------------------------------------------
(* Log files.                                                                *)

NoTxn == [task |-> 0, status |-> "RUNNING", entries |-> <<>>]

LogEntry == [key : Key, expected_version : Nat, value : Value]

\* Mutant of EntriesOf: the version before the one the commit checked.
EntriesOfEarlier(batch) ==
    [i \in DOMAIN batch |->
        [key |-> batch[i].key, expected_version |-> store[batch[i].key].version - 1,
         value |-> batch[i].value]]

\* The commit log CommitWinner fills once its writes are made.
EntriesOf(batch) ==
    [i \in DOMAIN batch |->
        [key |-> batch[i].key, expected_version |-> store[batch[i].key].version,
         value |-> batch[i].value]]

\* A file: whether its header and metadata are legible, the status, and a line
\* per entry.  `record` is history: the entries of the log that was written
\* whole.
NoFile == [exists |-> FALSE, legible |-> FALSE, status |-> "", lines |-> <<>>, record |-> <<>>]

FileOf(legible, status, lines, record) ==
    [exists |-> TRUE, legible |-> legible, status |-> status, lines |-> lines, record |-> record]

LineOf(e) == [key |-> e.key, expected_version |-> e.expected_version, text |-> Escape(e.value)]

Lines == [i \in DOMAIN txn.entries |-> LineOf(txn.entries[i])]

\* WriteCommitLogArtifact, to the end.
WholeFile == FileOf(TRUE, txn.status, Lines, txn.entries)

\* What a crash in it leaves: a header or a name without '='; metadata that end
\* in or before the status; or a prefix of the lines, the last one cut.
TornFiles ==
    {FileOf(FALSE, "", <<>>, <<>>), FileOf(TRUE, "", <<>>, <<>>),
     FileOf(TRUE, txn.status, <<>>, <<>>)}
    \cup UNION {{FileOf(TRUE, txn.status, Append(SubSeq(Lines, 1, n - 1), [Lines[n] EXCEPT !.text = cut]),
                        <<>>) : cut \in Prefixes(Lines[n].text)} : n \in DOMAIN Lines}

\* ParseCommitLogArtifact refuses the whole file when one line has no value.
Parses(file) ==
    file.legible /\ \A i \in DOMAIN file.lines : FirstLine(file.lines[i].text) # <<>>

Parsed(file) ==
    [i \in DOMAIN file.lines |->
        [key |-> file.lines[i].key, expected_version |-> file.lines[i].expected_version,
         value |-> Unescape(FirstLine(file.lines[i].text))]]

IsCommitted(file) == file.status = "COMMITTED"

\* ListCommitLogs: the logs of a directory, sorted by name.
Listed(dir) ==
    LET logs[t \in 0 .. TaskCount] ==
            IF t = 0 THEN <<>>
            ELSE IF dir[t].exists THEN Append(logs[t - 1], t) ELSE logs[t - 1]
    IN  logs[TaskCount]

--------------------------------------------------------------------------------
(* ReplayCommitLogArtifacts: the last entry of each key, in the order of the *)
(* logs; files that do not parse or are not committed are passed over.       *)

\* Mutant of Newest: the first entry of a key stays.
NewestStays(state, e) == IF e.key \in DOMAIN state THEN state ELSE state @@ (e.key :> e)

Newest(state, e) ==
    [k \in DOMAIN state \cup {e.key} |-> IF k = e.key THEN e ELSE state[k]]

ReplayLog(state, file) ==
    LET entries == Parsed(file)
        after[n \in 0 .. Len(entries)] ==
            IF n = 0 THEN state ELSE Newest(after[n - 1], entries[n])
    IN  IF Parses(file) /\ IsCommitted(file) THEN after[Len(entries)] ELSE state

Replayed(dir) ==
    LET logs == Listed(dir)
        after[n \in 0 .. Len(logs)] ==
            IF n = 0 THEN <<>> ELSE ReplayLog(after[n - 1], dir[logs[n]])
    IN  after[Len(logs)]

--------------------------------------------------------------------------------
(* RecoverCommittedWrites as one function of a directory and a store: what    *)
(* the recovery comes to when nothing disturbs it.                            *)

AlreadyApplied(s, e) == s[e.key] = Stored(e.value, e.expected_version + 1)

ApplyEntry(result, e) ==
    IF ~result.success \/ AlreadyApplied(result.store, e) THEN result
    ELSE [store   |-> PutIfVersion(result.store, e.key, e.expected_version, e.value),
          success |-> VersionIs(result.store, e.key, e.expected_version)]

ApplyLog(result, file) ==
    LET entries == Parsed(file)
        after[n \in 0 .. Len(entries)] ==
            IF n = 0 THEN result ELSE ApplyEntry(after[n - 1], entries[n])
    IN  IF ~Parses(file) THEN [result EXCEPT !.success = FALSE]
        ELSE IF ~IsCommitted(file) THEN result ELSE after[Len(entries)]

RecoveryOf(dir, s) ==
    LET logs == Listed(dir)
        after[n \in 0 .. Len(logs)] ==
            IF n = 0 THEN [store |-> s, success |-> TRUE]
            ELSE ApplyLog(after[n - 1], dir[logs[n]])
    IN  after[Len(logs)]

NoGoal == [store |-> <<>>, success |-> FALSE]

--------------------------------------------------------------------------------
Init ==
    /\ store = InitialStore
    /\ backups = {InitialStore}
    /\ txn = NoTxn
    /\ files = [t \in Task |-> NoFile]
    /\ mode = "up"
    /\ log = 1 /\ entry = 0 /\ missing = FALSE
    /\ goal = NoGoal
    /\ commits = 0 /\ aborts = 0 /\ crashes = 0 /\ puts = 0

\* CommitTask succeeds: the writes are made and the commit log filled.
Commit(t, batch) ==
    /\ mode = "up" /\ txn = NoTxn /\ commits < MaxCommits
    /\ store' = BatchPut(store, batch)
    /\ backups' = backups \cup {store'}
    /\ txn' = [task |-> t, status |-> "COMMITTED", entries |-> EntriesOf(batch)]
    /\ commits' = commits + 1
    /\ UNCHANGED <<files, mode, recovery, goal, aborts, crashes, puts>>

\* CommitTask fails and leaves no entries.
Abort(t) ==
    /\ mode = "up" /\ txn = NoTxn /\ aborts < MaxAborts
    /\ txn' = [task |-> t, status |-> "ABORTED", entries |-> <<>>]
    /\ aborts' = aborts + 1
    /\ UNCHANGED <<store, backups, files, mode, recovery, goal, commits, crashes, puts>>

\* The driver saves the log and goes on to the next task.
WriteLog ==
    /\ mode = "up" /\ txn # NoTxn
    /\ files' = [files EXCEPT ![txn.task] = WholeFile]
    /\ txn' = NoTxn
    /\ UNCHANGED <<store, backups, mode, recovery, goal, bounds>>

\* There is no directory for logs, or the file cannot be opened; the driver does
\* not look at the result.
SkipLog ==
    /\ mode = "up" /\ txn # NoTxn
    /\ txn' = NoTxn
    /\ UNCHANGED <<store, backups, files, mode, recovery, goal, bounds>>

CrashInWriteLog ==
    /\ mode = "up" /\ txn # NoTxn /\ crashes < MaxCrashes
    /\ \E file \in TornFiles : files' = [files EXCEPT ![txn.task] = file]
    /\ txn' = NoTxn
    /\ mode' = "down"
    /\ crashes' = crashes + 1
    /\ UNCHANGED <<store, backups, recovery, goal, commits, aborts, puts>>

\* The process of the tasks or that of a recovery dies; the store stays.
Crash ==
    /\ mode \in {"up", "recovering"} /\ crashes < MaxCrashes
    /\ mode' = "down"
    /\ txn' = NoTxn
    /\ log' = 1 /\ entry' = 0 /\ missing' = FALSE
    /\ crashes' = crashes + 1
    /\ UNCHANGED <<store, backups, files, goal, commits, aborts, puts>>

\* The store did not survive: the recovery is given an older copy.
LoseStore ==
    /\ mode = "down"
    /\ store' \in backups \ {store}
    /\ goal' = NoGoal
    /\ UNCHANGED <<backups, txn, files, mode, recovery, bounds>>

Resume ==
    /\ mode \in {"down", "recovered", "stopped"}
    /\ mode' = "up"
    /\ goal' = NoGoal
    /\ UNCHANGED <<store, backups, txn, files, recovery, bounds>>

\* Other clients write to the store at any time.
ExternalPut(k, value) ==
    /\ puts < MaxPuts
    /\ store' = Put(store, k, value)
    /\ goal' = NoGoal
    /\ puts' = puts + 1
    /\ UNCHANGED <<backups, txn, files, mode, recovery, commits, aborts, crashes>>

--------------------------------------------------------------------------------
(* RecoverCommittedWrites, one call on the store per step.                    *)

StartRecovery ==
    /\ mode \in {"down", "recovered", "stopped"}
    /\ mode' = "recovering"
    /\ log' = 1 /\ entry' = 0 /\ missing' = FALSE
    /\ goal' = IF goal = NoGoal THEN RecoveryOf(files, store) ELSE goal
    /\ UNCHANGED <<store, backups, txn, files, bounds>>

CurrentLog == files[Listed(files)[log]]

Stop == mode' = "stopped" /\ log' = 1 /\ entry' = 0 /\ missing' = FALSE

\* The position after the current entry, or after the current log when it has
\* no further one.
Advance ==
    /\ missing' = FALSE
    /\ IF entry < Len(CurrentLog.lines)
       THEN entry' = entry + 1 /\ UNCHANGED log
       ELSE entry' = 0 /\ log' = log + 1

OpenLog ==
    /\ mode = "recovering" /\ entry = 0 /\ log <= Len(Listed(files))
    /\ \/ /\ ~Parses(CurrentLog)
          /\ Stop
       \/ /\ Parses(CurrentLog)
          /\ IF IsCommitted(CurrentLog)
             THEN Advance
             ELSE log' = log + 1 /\ UNCHANGED <<entry, missing>>
          /\ UNCHANGED mode
    /\ UNCHANGED <<store, backups, txn, files, goal, bounds>>

CurrentEntry == Parsed(CurrentLog)[entry]

\* Mutant of CheckEntry: an entry is always put.
CheckEntryAlwaysPuts ==
    /\ mode = "recovering" /\ entry > 0 /\ ~missing
    /\ missing' = TRUE
    /\ UNCHANGED <<store, backups, txn, files, mode, log, entry, goal, bounds>>

\* Get: an entry whose effect is in the store is passed over.
CheckEntry ==
    /\ mode = "recovering" /\ entry > 0 /\ ~missing
    /\ IF AlreadyApplied(store, CurrentEntry)
       THEN Advance
       ELSE missing' = TRUE /\ UNCHANGED <<log, entry>>
    /\ UNCHANGED <<store, backups, txn, files, mode, goal, bounds>>

\* PutIfVersion: a version conflict ends the recovery.
PutEntry ==
    /\ mode = "recovering" /\ entry > 0 /\ missing
    /\ store' = PutIfVersion(store, CurrentEntry.key, CurrentEntry.expected_version, CurrentEntry.value)
    /\ IF VersionIs(store, CurrentEntry.key, CurrentEntry.expected_version)
       THEN Advance /\ UNCHANGED mode
       ELSE Stop
    /\ UNCHANGED <<backups, txn, files, goal, bounds>>

FinishRecovery ==
    /\ mode = "recovering" /\ entry = 0 /\ log > Len(Listed(files))
    /\ mode' = "recovered"
    /\ log' = 1
    /\ UNCHANGED <<store, backups, txn, files, entry, missing, goal, bounds>>

--------------------------------------------------------------------------------
Next ==
    \/ \E t \in Task, batch \in Batches : Commit(t, batch)
    \/ \E t \in Task : Abort(t)
    \/ WriteLog
    \/ SkipLog
    \/ CrashInWriteLog
    \/ Crash
    \/ LoseStore
    \/ Resume
    \/ \E k \in Key, value \in PutValues : ExternalPut(k, value)
    \/ StartRecovery
    \/ OpenLog
    \/ CheckEntry
    \/ PutEntry
    \/ FinishRecovery

Spec == Init /\ [][Next]_vars

--------------------------------------------------------------------------------
(* Properties.                                                                *)

\* The state has its type.
TypeOK ==
    /\ store \in [Key -> VersionedValue]
    /\ \A b \in backups : b \in [Key -> VersionedValue]
    /\ txn.task \in 0 .. TaskCount /\ txn.entries \in Seq(LogEntry)
    /\ txn.status \in {"RUNNING", "COMMITTED", "ABORTED"}
    /\ DOMAIN files = Task
    /\ \A t \in Task : files[t].record \in Seq(LogEntry)
    /\ mode \in {"up", "down", "recovering", "recovered", "stopped"}
    /\ log \in 1 .. (TaskCount + 1) /\ entry \in Nat /\ missing \in BOOLEAN
    /\ goal = NoGoal \/ goal.store \in [Key -> VersionedValue]
    /\ commits \in 0 .. MaxCommits /\ aborts \in 0 .. MaxAborts
    /\ crashes \in 0 .. MaxCrashes /\ puts \in 0 .. MaxPuts

\* A recovery that returns success has restored every committed log that was
\* written whole: each of its writes is in the store with the value the task
\* wrote, at the version the commit gave it, or a later version has taken its
\* place - whatever store the recovery was given, and although logs are applied
\* in the order of their names (commit_log_recovery.h, RecoverCommittedWrites).
SuccessMeansRestored ==
    mode = "recovered" =>
        \A t \in Task : \A i \in DOMAIN files[t].record :
            LET e == files[t].record[i] IN
            \/ store[e.key] = Stored(e.value, e.expected_version + 1)
            \/ store[e.key].version > e.expected_version + 1

\* A recovery may be run again.  When no key is in two logs, a recovery that is
\* killed any number of times, or repeated after its end, comes to what one
\* undisturbed call would have come to (commit_log_recovery.h:42, the test for
\* an entry that is already applied).
KeysInLog(t) == {Parsed(files[t])[i].key : i \in DOMAIN files[t].lines}

DisjointLogs == \A t, u \in Task : t # u => KeysInLog(t) \cap KeysInLog(u) = {}

RecoveryIsRepeatable ==
    goal # NoGoal /\ DisjointLogs =>
        /\ mode = "recovered" => goal.success /\ store = goal.store
        /\ mode = "stopped" => ~goal.success

\* The state that ReplayCommitLogArtifacts rebuilds from the logs alone is the
\* state of the recovered store, version included, on every key the logs name
\* (commit_log_replay.h and commit_log_recovery.h read the same files apart).
ReplayAgrees ==
    mode = "recovered" /\ goal # NoGoal =>
        \A k \in DOMAIN Replayed(files) :
            store[k] = Stored(Replayed(files)[k].value, Replayed(files)[k].expected_version + 1)
================================================================================
