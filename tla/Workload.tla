-------------------------------- MODULE Workload --------------------------------
(****************************************************************************)
(* The workloads that come with the runtime: what their drivers do with a   *)
(* session, and how each continues a task that was recovered.  A task of a  *)
(* workload follows its script, one call on the runtime per step; any       *)
(* caller of TaskRecovery remains one of the workloads.                     *)
(*                                                                          *)
(* A task names its workload, its objects and, for a scripted one, its      *)
(* recovery steps in the metadata of its log, which precede the events: a   *)
(* log that can be recovered at all has them whole.                         *)
(****************************************************************************)
EXTENDS TaskRecovery, SequencesExt

CONSTANTS Input, Output,              \* the keys of a candidate-selection task
          BeforeWrite,                \* the savepoint of the synthetic driver
          Seed, Draft, Mutated,       \* words of the values that are written
          Result, Tentative, Recovered,
          SyntheticTasks,             \* the synthetic tasks: <<task_index, branch_count>>
          ConflictEvery,              \* conflict_every of the synthetic driver
          KvScripts,                  \* scripts for the scripted driver
          Undirected                  \* the branch counts of tasks without a driver

ASSUME ObjectsAssumption == {Input, Output} \subseteq Key /\ BeforeWrite \in GivenName
ASSUME WordsAssumption == {Seed, Draft, Mutated, Result, Tentative, Recovered} \subseteq Text

VARIABLES task,     \* the task that is run
          position  \* which step of the script, or of the continuation, is next

workloadVars == <<vars, task, position>>

--------------------------------------------------------------------------------
(* Steps of a script.                                                        *)

MakeReadStep(k) == [kind |-> "read", object |-> k]
MakeWriteStep(k, type, payload, condition) ==
    [kind   |-> "write", object |-> k,
     intent |-> [object |-> k, type |-> type, payload |-> payload, condition |-> condition]]
MakeSavepointStep(id) == [kind |-> "savepoint", id |-> id]
MakeRollbackStep(id) == [kind |-> "rollback_to_savepoint", id |-> id]
StageStep(score) == [kind |-> "stage", score |-> score * ScoreUnit]

Perform(s, i, step) ==
    CASE step.kind = "read"      -> ReadIn(s, i, step.object)
      [] step.kind = "write"     -> WriteIn(s, i, step.intent)
      [] step.kind = "savepoint" -> SavepointIn(s, i, step.id)
      [] step.kind = "rollback_to_savepoint" -> RollbackIn(s, i, step.id)
      [] step.kind = "stage"     -> StageIn(s, i, step.score)

Overwrite(payload) == MakeWriteStep(Output, "Overwrite", payload, NoCondition)

\* RunOneTask: the first branch also tries a write and takes it back.
SyntheticBranch(index, i) ==
    <<MakeReadStep(Input)>>
    \o (IF i = 0
        THEN <<MakeSavepointStep(BeforeWrite),
               MakeWriteStep(Output, "Append", <<Tentative>>, NoCondition),
               MakeRollbackStep(BeforeWrite)>>
        ELSE <<>>)
    \o <<Overwrite(<<Result, index, i>>), StageStep((i + 1) * 10 + index)>>

InjectsConflict(index) == ConflictEvery # 0 /\ (index + 1) % ConflictEvery = 0

\* ContinueRecoveredSyntheticTask: the callback of the continuation.
SyntheticRecovery(index) == <<MakeReadStep(Input), Overwrite(<<Recovered, index>>)>>

\* A task whose continuation prefers no branch has 0.
SyntheticTask(index, count) ==
    [workload  |-> "synthetic.candidate_selection",
     programs  |-> [n \in 1 .. count |-> SyntheticBranch(index, n - 1)],
     conflict  |-> InjectsConflict(index),
     recovery  |-> SyntheticRecovery(index),
     score     |-> 120, preferred |-> 0]

MinimalBranch(i, score) == <<MakeReadStep(Input), Overwrite(<<Result, i>>), StageStep(score)>>

\* ContinueRecoveredMinimalCandidateTask.
MinimalRecovery == <<MakeReadStep(Input), Overwrite(<<Recovered>>)>>

MinimalTask ==
    [workload  |-> "agent_task.minimal_candidate_task",
     programs  |-> <<MinimalBranch(1, 72), MinimalBranch(2, 91), MinimalBranch(3, 65)>>,
     conflict  |-> FALSE,
     recovery  |-> MinimalRecovery,
     score     |-> 101, preferred |-> 2]

\* A recovery step goes through the metadata of the task, field by field.
StepMetadata(step) ==
    IF step.kind = "write"
    THEN [kind |-> "write", object_id |-> step.object, intent_type |-> step.intent.type,
          payload |-> step.intent.payload, condition_type |-> step.intent.condition.type,
          condition_value |-> step.intent.condition.expected]
    ELSE step

\* Mutant of LoadRecoveryStep: the condition is not read back.
LoadRecoveryStepUnconditioned(meta) ==
    IF meta.kind = "write"
    THEN MakeWriteStep(meta.object_id, meta.intent_type, meta.payload, NoCondition)
    ELSE meta

LoadRecoveryStep(meta) ==
    IF meta.kind = "write"
    THEN MakeWriteStep(meta.object_id, meta.intent_type, meta.payload,
                       [type |-> meta.condition_type, expected |-> meta.condition_value])
    ELSE meta

\* BuildTaskContext and RunScriptedKvTask: a branch is staged after its steps.
KvTask(script) ==
    [workload  |-> "kv_style.scripted_kv_task",
     programs  |-> [n \in DOMAIN script.branches |->
                        Append(script.branches[n].steps, StageStep(script.branches[n].score))],
     conflict  |-> FALSE,
     recovery  |-> [n \in DOMAIN script.recovery_steps |-> StepMetadata(script.recovery_steps[n])],
     score     |-> script.recovery_score, preferred |-> script.preferred]

\* A task whose caller does as it likes.
UndirectedTask(count) ==
    [workload |-> "", programs |-> [n \in 1 .. count |-> <<>>], conflict |-> FALSE,
     recovery |-> <<>>, score |-> 0, preferred |-> 0]

Tasks ==
    {SyntheticTask(t[1], t[2]) : t \in SyntheticTasks} \cup {MinimalTask}
    \cup {KvTask(script) : script \in KvScripts} \cup {UndirectedTask(n) : n \in Undirected}

\* The workloads RegisterBuiltinRecoveryHandlers knows have a driver and a handler.
IsDirected == task.workload # ""
IsKv == task.workload = "kv_style.scripted_kv_task"

\* Every call on a branch, in the order the driver makes them.
Script ==
    FlattenSeq([i \in DOMAIN task.programs |->
        [n \in DOMAIN task.programs[i] |-> [branch |-> i, step |-> task.programs[i][n]]]])

--------------------------------------------------------------------------------
\* The seeds of a synthetic task: Put of the input, then of the output.
Seeded == Put(Put(InitialStore, Input, <<Seed>>), Output, <<Draft>>)

WorkloadInit ==
    /\ task \in Tasks
    /\ position = 1
    /\ InitWith(IF task.workload = "synthetic.candidate_selection" THEN Seeded ELSE InitialStore,
                Len(task.programs))

IsDriven == IsDirected /\ mode = "working" /\ execution = NoExecution

DriverCall ==
    /\ IsDriven /\ position <= Len(Script)
    /\ session' = Perform(session, Script[position].branch, Script[position].step)
    /\ position' = position + 1
    /\ UNCHANGED <<store, puts, mode, log, execution, target, commits, ops, crashes, task>>

\* The synthetic driver changes what its branches have read.
InjectConflict ==
    /\ IsDriven /\ position = Len(Script) + 1 /\ task.conflict
    /\ store' = Put(store, Input, <<Mutated>>)
    /\ position' = position + 1
    /\ UNCHANGED <<puts, mode, session, log, execution, target, commits, ops, crashes, task>>

CommitPosition == Len(Script) + (IF task.conflict THEN 2 ELSE 1)

DriverCommit ==
    /\ IsDriven /\ position = CommitPosition
    /\ CommitTask
    /\ position' = position + 1
    /\ UNCHANGED task

\* Callers save the log at the end of a task, and the examples in the middle of
\* one too.
Surroundings ==
    /\ IsDirected
    /\ \/ WriteLog \/ Crash \/ CrashInWriteLog \/ Recover
       \/ \E p \in Puts : ExternalPut(p[1], p[2])
    /\ UNCHANGED <<task, position>>

\* TaskContinuationRegistry::Continue finds the handler of the workload, which
\* calls ContinueRecoveredTask.
ContinueRecoveredTask ==
    /\ IsDirected
    /\ \/ ExecuteNoop \/ SubmitFreshTask \/ ResumeBranch \/ ResumeFromSavepoint \/ RevalidateCommit
    /\ \/ mode' = "refused"
       \/ mode' = "continuing" /\ target' = ContinuedBranch(task.preferred)
    /\ position' = 1
    /\ UNCHANGED task

RecoverySteps ==
    IF IsKv THEN [n \in DOMAIN task.recovery |-> LoadRecoveryStep(task.recovery[n])]
    ELSE task.recovery

CallbackStep ==
    /\ IsDirected /\ mode = "continuing" /\ position <= Len(RecoverySteps)
    /\ session' = Perform(session, target, RecoverySteps[position])
    /\ position' = position + 1
    /\ UNCHANGED <<store, puts, mode, log, execution, target, commits, ops, crashes, task>>

\* Mutant of RecoveryScore: what a first branch would get.
RecoveryScoreFirst == 10 * ScoreUnit

\* A synthetic task resumed from a savepoint gets ten more.
RecoveryScore ==
    ScoreUnit * IF /\ task.workload = "synthetic.candidate_selection"
                   /\ execution.command = "RESUME_FROM_SAVEPOINT" THEN 130 ELSE task.score

FinishCallback ==
    /\ IsDirected /\ mode = "continuing" /\ position = Len(RecoverySteps) + 1
    /\ FinishContinuation(RecoveryScore)
    /\ position' = position + 1
    /\ UNCHANGED task

WorkloadNext ==
    \/ ~IsDirected /\ Next /\ UNCHANGED <<task, position>>
    \/ DriverCall \/ InjectConflict \/ DriverCommit
    \/ Surroundings
    \/ ContinueRecoveredTask \/ CallbackStep \/ FinishCallback

WorkloadSpec == WorkloadInit /\ [][WorkloadNext]_workloadVars

--------------------------------------------------------------------------------
(* What the drivers promise.                                                  *)

IsBest(i) ==
    LET ScoreOf(j) == Last(task.programs[j]).score
    IN  \A j \in DOMAIN task.programs : ScoreOf(j) <= ScoreOf(i)

\* A candidate-selection task that commits leaves the result of the candidate of
\* highest score in the output, nothing of the others and nothing of what was
\* rolled back, and its input is still the one that candidate read: a task whose
\* input the driver changed never commits (synthetic_driver.h, RunOneTask;
\* minimal_candidate_task.h).
DriverCommitsBest ==
    [][(DriverCommit /\ session'.committed /\ ~IsKv) =>
        /\ ~task.conflict
        /\ \E i \in DOMAIN task.programs :
            /\ IsBest(i)
            /\ store'[Output].value = Last(Front(task.programs[i])).intent.payload
            /\ \A n \in DOMAIN session.branches[i].reads :
                VersionIs(store, Input, session.branches[i].reads[n].version)]_workloadVars

\* The last write of the continuation, as the task's author wrote it.
ContinuationWrite ==
    IF IsKv THEN LET meta == Last(task.recovery)
                 IN  [object |-> meta.object_id, payload |-> meta.payload,
                      condition |-> [type |-> meta.condition_type, expected |-> meta.condition_value]]
    ELSE Last(task.recovery).intent

\* Whether the commit prefers branch j to the target, staged with that score.
Outscores(j, score) ==
    /\ j # target
    /\ \/ session.branches[j].score > score
       \/ session.branches[j].score = score /\ j < target

\* The score the workload gives its continuation in the end: ten more when a
\* synthetic task is resumed from a savepoint.
IntendedScore ==
    LET resumed == /\ task.workload = "synthetic.candidate_selection"
                   /\ execution.command = "RESUME_FROM_SAVEPOINT"
    IN  ScoreUnit * (task.score + IF resumed THEN 10 ELSE 0)

\* What a key holds after the intents of a branch, one by one, on the store.
Outcome(b, k) ==
    LET Apply(v, intent) == IF intent.object = k THEN BufferedValue(v, v, intent) ELSE v
    IN  FoldLeft(Apply, store[k].value, b.intents)

\* The continuation's last write is in the store, and the condition it was
\* written under held.
OwnWriteCommitted ==
    /\ store'[ContinuationWrite.object].value = ContinuationWrite.payload
    /\ ContinuationWrite.condition.type = "ValueEquals"
        => store[ContinuationWrite.object].value = ContinuationWrite.condition.expected

\* The work of the best of the other branches is in the store and nothing else.
RivalCommitted ==
    \E j \in DOMAIN session.branches \ {target} :
        /\ \A i \in DOMAIN session.branches \ {target} :
            session.branches[i].score <= session.branches[j].score
        /\ \A k \in Key : store'[k].value = Outcome(session.branches[j], k)

\* Scores decide whose work a continuation commits, its own or that of a branch
\* from before the crash.  Its own, under the condition it was written with, if
\* the log has the branch it works on and no recovered score beats the fixed
\* one of the continuation.  Else only the best recovered branch's, as it was
\* before the callback: a synthetic task of large index outscores 120, any staged
\* branch outscores a scripted recovery_score left at 0.0 and an earlier one ties
\* with it, and on a branch that the log does not have the callback's calls go
\* nowhere (synthetic_recovery.h, minimal_candidate_recovery.h and
\* scripted_kv_task.h give score and branch).
ContinuationDecides ==
    [][(FinishCallback /\ session'.committed) =>
        IF Found(session, target) /\ \A j \in DOMAIN session.branches : ~Outscores(j, IntendedScore)
        THEN OwnWriteCommitted
        ELSE RivalCommitted]_workloadVars
=================================================================================
