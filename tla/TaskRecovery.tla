------------------------------ MODULE TaskRecovery ------------------------------
(****************************************************************************)
(* One task's session, the event list it keeps, the log a caller saves it   *)
(* to, and what a later process makes of that log: the decision, the        *)
(* session rebuilt by replaying the events on the store as it is then, the  *)
(* command, and the continuation.                                           *)
(*                                                                          *)
(* The log is the whole session written over the file in one pass; a crash  *)
(* in that pass leaves a prefix of the lines, the last of them cut short.   *)
(* CommitTask is one step here: AgentTxn takes it apart.                    *)
(*                                                                          *)
(* mode                                                                     *)
(*   working      a caller works on the session                             *)
(*   down         no process                                                *)
(*   recovered    BuildRecoveryExecutionFromLog has returned                *)
(*   continuing   ContinueRecoveredTask, inside the workload's callback     *)
(*   refused      ExecuteRecoveryExecution returned false                   *)
(****************************************************************************)
EXTENDS Branch, FiniteSets

CONSTANTS BranchCount,   \* branches of the plan, in plan order
          Reads,         \* the reads callers may issue: <<branch, key>>
          Writes,        \* the writes they may issue: <<branch, intent>>
          Managed,       \* the branches they savepoint, roll back and stage
          InitialStore,  \* what the store holds at the start
          Puts,          \* what other clients may put: <<key, value>>
          ScoreUnit,     \* how many of the model's score steps make 1.0
          NoName,        \* the savepoint name that is empty
          CutName,       \* one that was cut short in the log
          MaxOps,        \* bound: branch operations, before and after crashes
          MaxPuts,       \* bound: puts of other clients
          MaxCrashes     \* bound: crashes

ASSUME PlanAssumption == BranchCount \in Nat \ {0}
ASSUME ScoreUnitAssumption == ScoreUnit \in Nat \ {0}
ASSUME NamesAssumption == {NoName, CutName} \subseteq SavepointId /\ NoName # CutName
ASSUME InitialStoreAssumption == InitialStore \in [Key -> VersionedValue]
ASSUME PutsAssumption == Puts \subseteq Key \X Value

VARIABLES store,      \* what Get returns for each key
          puts,       \* how many puts other clients made
          mode,       \* see above
          session,    \* the TaskSession in memory
          log,        \* the task event log on disk
          execution,  \* the TaskRecoveryExecution: command, branch, savepoint
          target,     \* the branch a continuation works on
          commits,    \* history: how often CommitTask has succeeded
          ops,        \* how many branch operations callers made
          crashes     \* how often the process crashed

vars == <<store, puts, mode, session, log, execution, target, commits, ops, crashes>>

BranchIds == 1 .. BranchCount

ASSUME CallsAssumption ==
    /\ Reads \subseteq BranchIds \X Key
    /\ Writes \subseteq BranchIds \X WriteIntent
    /\ Managed \subseteq BranchIds

\* The names callers give to savepoints.
GivenName == SavepointId \ {NoName, CutName}

--------------------------------------------------------------------------------
(* Events.  Each has a type and a branch, 0 where branch_id is empty.  What  *)
(* an event leaves out of the call (the condition of an intent, the fraction *)
(* of a score) is lost to a recovery.                                        *)

Event(type, i) == [type |-> type, branch |-> i]

ReadEvent(i, k, version, value) ==
    [type |-> "READ", branch |-> i, object |-> k, version |-> version, value |-> value]

WriteEvent(i, intent) ==
    [type |-> "WRITE", branch |-> i, object |-> intent.object, intent_type |-> intent.type,
     payload |-> intent.payload]

\* `copy` is history: the branch's intents when the savepoint was made.
SavepointEvent(i, id, intents) ==
    [type |-> "SAVEPOINT", branch |-> i, id |-> id, copy |-> intents]

\* Mutant of RollbackEvent: the rollback is recorded as one more savepoint.
RollbackEventAsSavepoint(i, id) == SavepointEvent(i, id, <<>>)

RollbackEvent(i, id) == [type |-> "ROLLBACK_TO_SAVEPOINT", branch |-> i, id |-> id]

\* static_cast<std::int64_t>(score): towards zero.
Truncated(score) ==
    IF score >= 0 THEN (score \div ScoreUnit) * ScoreUnit
    ELSE -(((-score) \div ScoreUnit) * ScoreUnit)

StageEvent(i, score) == [type |-> "STAGE_BRANCH", branch |-> i, score |-> Truncated(score)]

Record(s, event) == [s EXCEPT !.events = Append(@, event)]

--------------------------------------------------------------------------------
(* Sessions.  `resumed` is history: a recovery has rolled back to a          *)
(* savepoint in this session, which leaves no event.                         *)

SubmitTask(count) ==
    [phase |-> "Running", committed |-> FALSE, resumed |-> FALSE,
     branches |-> [i \in 1 .. count |-> CreateBranch],
     events |-> <<Event("SUBMIT_TASK", 0)>> \o [i \in 1 .. count |-> Event("CREATE_BRANCH", i)]]

NoSession == [phase |-> "None", committed |-> FALSE, resumed |-> FALSE,
              branches |-> <<>>, events |-> <<>>]

\* FindBranch: an operation on a branch that is not there does nothing, but is
\* recorded.
Found(s, i) == i \in DOMAIN s.branches

OnBranch(s, i, b) == IF Found(s, i) THEN [s EXCEPT !.branches[i] = b] ELSE s

IntentsOf(s, i) == IF Found(s, i) THEN s.branches[i].intents ELSE <<>>

FindSavepoint(s, i, id) == Found(s, i) /\ HasSavepoint(s.branches[i], id)

ReadIn(s, i, k) ==
    LET b == s.branches[i]
        event == IF ~Found(s, i) THEN ReadEvent(i, k, 0, Empty)
                 ELSE IF IsBuffered(b, k)
                 THEN ReadEvent(i, k, b.entries[k].base_version, b.entries[k].current_value)
                 ELSE ReadEvent(i, k, store[k].version, store[k].value)
    IN  Record(OnBranch(s, i, ReadObject(b, k, store)), event)

WriteIn(s, i, intent) ==
    Record(OnBranch(s, i, BufferWrite(s.branches[i], intent, store)), WriteEvent(i, intent))

SavepointIn(s, i, id) ==
    Record(OnBranch(s, i, CreateSavepoint(s.branches[i], id)), SavepointEvent(i, id, IntentsOf(s, i)))

\* A rollback that finds no savepoint leaves no event either.
RollbackIn(s, i, id) ==
    IF FindSavepoint(s, i, id)
    THEN Record(OnBranch(s, i, RollbackToSavepoint(s.branches[i], id)), RollbackEvent(i, id))
    ELSE s

StageIn(s, i, score) ==
    Record(OnBranch(s, i, StageBranch(s.branches[i], score)), StageEvent(i, score))

\* What SelectWinnerAndCommit asks of the winner, and what it then writes; in
\* one step the checks of strict reads repeat their validation.
Resolution(b, k) == ResolveWrite(b.entries[k], LatestIntent(b, k), store[k].value)

\* Mutant of CommitAccepted: what was read is not validated.
CommitAcceptedWithoutReads(b) ==
    \A k \in DOMAIN b.entries :
        /\ HasIntent(b, k) /\ Resolution(b, k).success
        /\ (Resolution(b, k).should_write /\ ~Rebased(b, k))
                => VersionIs(store, k, b.entries[k].base_version)

CommitAccepted(b) ==
    /\ \A n \in DOMAIN b.reads :
        Rebased(b, b.reads[n].object) \/ VersionIs(store, b.reads[n].object, b.reads[n].version)
    /\ ReadsAgree(b.reads)
    /\ \A k \in DOMAIN b.entries :
        /\ HasIntent(b, k) /\ Resolution(b, k).success
        /\ (Resolution(b, k).should_write /\ ~Rebased(b, k))
                => VersionIs(store, k, b.entries[k].base_version)

\* The loop over the buffered objects, in their order.
AddWrite(writes, b, k) ==
    IF Resolution(b, k).should_write
    THEN Append(writes, [key |-> k, value |-> Resolution(b, k).value]) ELSE writes

WritesOf(b) ==
    LET writes[n \in 0 .. Len(b.order)] ==
            IF n = 0 THEN <<>> ELSE AddWrite(writes[n - 1], b, b.order[n])
    IN  writes[Len(b.order)]

Aborted(s, event) ==
    [Record(s, event) EXCEPT
        !.phase = "Aborted", !.committed = FALSE,
        !.branches = [i \in DOMAIN @ |-> DiscardBranch(@[i])]]

Committed(s, winner) ==
    [Record(s, Event("COMMIT_TASK", winner)) EXCEPT
        !.phase = "Committed", !.committed = TRUE,
        !.branches = [i \in DOMAIN @ |-> IF i = winner THEN [@[i] EXCEPT !.status = "Committed"]
                                         ELSE DiscardBranch(@[i])]]

Attempted(s) ==
    LET winner == SelectWinner(s.branches)
    IN  [Record(s, Event("COMMIT_ATTEMPT", 0)) EXCEPT
            !.branches = MarkWinnerAndLosers(@, winner)]

\* CommitTask on s, whatever its phase: the whole effect.
CommitOf(s) ==
    LET winner == SelectWinner(s.branches)
        b == s.branches[winner]
    IN  \/ /\ CommitAccepted(b)
           /\ store' = BatchPut(store, WritesOf(b))
           /\ session' = Committed(Attempted(s), winner)
           /\ commits' = commits + 1
        \/ /\ ~CommitAccepted(b)
           /\ session' = Aborted(Attempted(s), Event("ABORT_TASK", winner))
           /\ UNCHANGED <<store, commits>>

--------------------------------------------------------------------------------
(* The log.                                                                  *)

NoLog == [readable |-> FALSE, whole |-> FALSE, phase |-> "None", committed |-> FALSE,
          events |-> <<>>, saved |-> <<>>, resumed |-> FALSE]

\* What the file holds: the metadata lines, then one line per event.  `whole`,
\* `saved` and `resumed` are history.
Image(s, events) ==
    LET whole == events = s.events
    IN  [readable |-> TRUE, whole |-> whole, phase |-> s.phase, committed |-> s.committed,
         events |-> events, saved |-> IF whole THEN s.branches ELSE <<>>,
         resumed |-> s.resumed]

\* A cut line still parses once its sixth field has begun; that field is the
\* payload of a write and the name of a savepoint.
Cuts(event) ==
    CASE event.type = "WRITE" ->
            {[event EXCEPT !.payload = SubSeq(@, 1, n)] : n \in 0 .. Len(event.payload)}
      [] event.type \in {"SAVEPOINT", "ROLLBACK_TO_SAVEPOINT"} ->
            {[event EXCEPT !.id = name] : name \in {NoName, CutName, event.id}}
      [] OTHER -> {event}

\* A log that is cut before the first branch yields no plan, and any other cut
\* inside a line does not parse: neither can be recovered.
TornImages(s) ==
    {NoLog} \cup
    UNION {{Image(s, Append(SubSeq(s.events, 1, n - 1), last)) : last \in Cuts(s.events[n])}
            : n \in 2 .. Len(s.events)}

--------------------------------------------------------------------------------
(* Recovery.                                                                 *)

Final == log.events[Len(log.events)]

LastIndex(indices) == CHOOSE n \in indices : \A m \in indices : m <= n

\* find_latest_branch and find_latest_savepoint.
LatestBranch ==
    log.events[LastIndex({n \in DOMAIN log.events : log.events[n].branch # 0})].branch

LatestSavepoint(i) ==
    LET made == {n \in DOMAIN log.events :
                    log.events[n].type = "SAVEPOINT" /\ log.events[n].branch = i}
    IN  IF made = {} THEN NoName ELSE log.events[LastIndex(made)].id

Command(command, i, id) == [command |-> command, branch |-> i, savepoint |-> id]
NoExecution == Command("NONE", 0, NoName)

\* Mutant of Decision: an attempt counts as a commit.
DecisionTrusting ==
    IF Final.type \in {"COMMIT_ATTEMPT", "COMMIT_TASK"} THEN Command("NOOP", Final.branch, NoName)
    ELSE Command("RESUME_BRANCH", LatestBranch, NoName)

\* RecoverTaskSessionDecision, and the command BuildTaskRecoveryExecution makes
\* of it.
Decision ==
    CASE log.committed \/ log.phase = "Committed" \/ Final.type = "COMMIT_TASK" ->
            Command("NOOP", Final.branch, NoName)
      [] Final.type = "ABORT_TASK" -> Command("SUBMIT_FRESH_TASK", Final.branch, NoName)
      [] log.phase = "Aborted" -> Command("SUBMIT_FRESH_TASK", 0, NoName)
      [] Final.type = "COMMIT_ATTEMPT" -> Command("REVALIDATE_COMMIT", 0, NoName)
      [] OTHER ->
            LET id == LatestSavepoint(LatestBranch)
            IN  Command(IF id = NoName THEN "RESUME_BRANCH" ELSE "RESUME_FROM_SAVEPOINT",
                        LatestBranch, id)

PlannedBranches == Cardinality({n \in DOMAIN log.events : log.events[n].type = "CREATE_BRANCH"})

\* A WRITE comes back without its condition.
RecoveredIntent(event) ==
    [object |-> event.object, type |-> event.intent_type, payload |-> event.payload,
     condition |-> NoCondition]

\* Mutant of RecoveredRead: the version is taken anew.
RecoveredReadNow(event) ==
    [object |-> event.object, version |-> store[event.object].version, seen |-> event.value]

RecoveredRead(event) ==
    [object |-> event.object, version |-> event.version, seen |-> event.value]

\* One event of a log, replayed on the branch it names; s is the store.
ReplayOn(b, event, s) ==
    CASE event.type = "READ" ->
            [b EXCEPT !.status = "Running", !.reads = Append(@, RecoveredRead(event))]
      [] event.type = "WRITE" -> BufferWrite(b, RecoveredIntent(event), s)
      [] event.type = "SAVEPOINT" -> CreateSavepoint(b, event.id)
      [] event.type = "ROLLBACK_TO_SAVEPOINT" ->
            IF HasSavepoint(b, event.id) THEN RollbackToSavepoint(b, event.id) ELSE b
      [] event.type = "STAGE_BRANCH" -> StageBranch(b, event.score)
      [] OTHER -> b

ReplayEvent(branches, event, s) ==
    [i \in DOMAIN branches |->
        IF i = event.branch THEN ReplayOn(branches[i], event, s) ELSE branches[i]]

\* All events, on a fresh session with that many branches.
Replayed(events, count, s) ==
    LET after[n \in 0 .. Len(events)] ==
            IF n = 0 THEN SubmitTask(count).branches
            ELSE ReplayEvent(after[n - 1], events[n], s)
    IN  after[Len(events)]

\* ApplyRecoveredTerminalState: only the statuses change.
RecoveredPhase ==
    CASE log.committed -> "Committed"
      [] ~log.committed /\ Decision.command = "SUBMIT_FRESH_TASK" -> "Aborted"
      [] OTHER -> "Running"

RecoveredStatus(i, b) ==
    CASE RecoveredPhase = "Committed" -> IF i = Decision.branch THEN "Committed" ELSE "Discarded"
      [] RecoveredPhase = "Aborted"   -> IF i = Decision.branch THEN "Aborted" ELSE "Discarded"
      [] RecoveredPhase = "Running"   -> IF i = Decision.branch THEN "Running" ELSE b.status

RebuiltSession ==
    LET branches == Replayed(log.events, PlannedBranches, store)
    IN  [phase |-> RecoveredPhase, committed |-> log.committed, resumed |-> log.resumed,
         branches |-> [i \in 1 .. PlannedBranches |->
                        [branches[i] EXCEPT !.status = RecoveredStatus(i, branches[i])]],
         events |-> log.events]

--------------------------------------------------------------------------------
(* A caller works on the session.                                            *)

InitWith(s, count) ==
    /\ store = s
    /\ puts = 0
    /\ mode = "working"
    /\ session = SubmitTask(count)
    /\ log = NoLog
    /\ execution = NoExecution
    /\ target = 0
    /\ commits = 0
    /\ ops = 0
    /\ crashes = 0

Init == InitWith(InitialStore, BranchCount)

Operation ==
    /\ ops < MaxOps
    /\ ops' = ops + 1

\* Callers stop when the task has ended, but may name a branch that the plan
\* does not have; a continuation's callback works whatever the phase, on the
\* branch it is given.
Working == mode = "working" /\ session.phase = "Running"
WorkingOn(i) == Working \/ (mode = "continuing" /\ i = target)

Read(i, k) ==
    /\ WorkingOn(i) /\ Operation
    /\ session' = ReadIn(session, i, k)
    /\ UNCHANGED <<store, puts, mode, log, execution, target, commits, crashes>>

Write(i, intent) ==
    /\ WorkingOn(i) /\ Operation
    /\ session' = WriteIn(session, i, intent)
    /\ UNCHANGED <<store, puts, mode, log, execution, target, commits, crashes>>

SavepointAt(i, id) ==
    /\ WorkingOn(i) /\ Operation
    /\ session' = SavepointIn(session, i, id)
    /\ UNCHANGED <<store, puts, mode, log, execution, target, commits, crashes>>

Rollback(i, id) ==
    /\ WorkingOn(i) /\ FindSavepoint(session, i, id) /\ Operation
    /\ session' = RollbackIn(session, i, id)
    /\ UNCHANGED <<store, puts, mode, log, execution, target, commits, crashes>>

Stage(i, score) ==
    /\ Working /\ Operation
    /\ session' = StageIn(session, i, score)
    /\ UNCHANGED <<store, puts, mode, log, execution, target, commits, crashes>>

CommitTask ==
    /\ Working
    /\ CommitOf(session)
    /\ UNCHANGED <<puts, mode, log, execution, target, ops, crashes>>

\* The store throws before anything is written: the attempt is recorded, the
\* outcome is not.  Of interest while a crash may still follow.
CommitThrows ==
    /\ Working /\ crashes < MaxCrashes
    /\ session.events[Len(session.events)].type # "COMMIT_ATTEMPT"
    /\ session' = Attempted(session)
    /\ UNCHANGED <<store, puts, mode, log, execution, target, commits, ops, crashes>>

AbortTask ==
    /\ Working
    /\ session' = Aborted(session, Event("ABORT_TASK", 0))
    /\ UNCHANGED <<store, puts, mode, log, execution, target, commits, ops, crashes>>

\* Only a log that a crash may still leave behind is of interest.
WriteLog ==
    /\ mode \in {"working", "refused"}
    /\ crashes < MaxCrashes /\ log.events # session.events
    /\ log' = Image(session, session.events)
    /\ UNCHANGED <<store, puts, mode, session, execution, target, commits, ops, crashes>>

--------------------------------------------------------------------------------
(* Crashes and recovery.                                                     *)

Down ==
    /\ crashes < MaxCrashes
    /\ crashes' = crashes + 1
    /\ mode' = "down"
    /\ session' = NoSession
    /\ execution' = NoExecution
    /\ target' = 0

Crash ==
    /\ mode # "down"
    /\ Down
    /\ UNCHANGED <<store, puts, log, commits, ops>>

CrashInWriteLog ==
    /\ mode \in {"working", "refused"}
    /\ Down
    /\ log' \in TornImages(session)
    /\ UNCHANGED <<store, puts, commits, ops>>

\* BuildRecoveryExecutionFromLog.
Recover ==
    /\ mode = "down" /\ log.readable
    /\ mode' = "recovered"
    /\ session' = RebuiltSession
    /\ execution' = Decision
    /\ UNCHANGED <<store, puts, log, target, commits, ops, crashes>>

\* The branch a continuation is given: its own choice (0 if it has none), the
\* recovery's, or the first of the plan.
ContinuedBranch(preferred) ==
    CASE preferred # 0 -> preferred
      [] preferred = 0 /\ execution.branch # 0 -> execution.branch
      [] OTHER -> 1

\* After a successful command the caller takes over, or the callback of a
\* continuation does.
Proceed ==
    \/ mode' = "working" /\ UNCHANGED target
    \/ \E preferred \in BranchIds \cup {0} :
        mode' = "continuing" /\ target' = ContinuedBranch(preferred)

Refuse == mode' = "refused" /\ UNCHANGED target

ExecuteNoop ==
    /\ mode = "recovered" /\ execution.command = "NOOP"
    /\ Proceed
    /\ UNCHANGED <<store, puts, session, log, execution, commits, ops, crashes>>

SubmitFreshTask ==
    /\ mode = "recovered" /\ execution.command = "SUBMIT_FRESH_TASK"
    /\ session' = SubmitTask(PlannedBranches)
    /\ Proceed
    /\ UNCHANGED <<store, puts, log, execution, commits, ops, crashes>>

Resumed(s, i) == [s EXCEPT !.phase = "Running", !.branches[i].status = "Running"]

ResumeBranch ==
    /\ mode = "recovered" /\ execution.command = "RESUME_BRANCH"
    /\ \/ /\ Found(session, execution.branch)
          /\ session' = Resumed(session, execution.branch)
          /\ Proceed
       \/ /\ ~Found(session, execution.branch)
          /\ Refuse
          /\ UNCHANGED session
    /\ UNCHANGED <<store, puts, log, execution, commits, ops, crashes>>

\* The rollback goes to the transaction, not the session: no event.
ResumeFromSavepoint ==
    LET i == execution.branch
        found == FindSavepoint(session, i, execution.savepoint)
        rolledBack == [session EXCEPT !.branches[i] = RollbackToSavepoint(@, execution.savepoint),
                                      !.resumed = TRUE]
    IN  /\ mode = "recovered" /\ execution.command = "RESUME_FROM_SAVEPOINT"
        /\ \/ found /\ session' = Resumed(rolledBack, i) /\ Proceed
           \/ ~found /\ Refuse /\ UNCHANGED session
        /\ UNCHANGED <<store, puts, log, execution, commits, ops, crashes>>

RevalidateCommit ==
    /\ mode = "recovered" /\ execution.command = "REVALIDATE_COMMIT"
    /\ CommitOf(session)
    /\ IF session'.committed THEN Proceed ELSE Refuse
    /\ UNCHANGED <<puts, log, execution, ops, crashes>>

\* The callback has returned true: StageBranch, then CommitTask.
FinishContinuation(score) ==
    /\ mode = "continuing"
    /\ CommitOf(StageIn(session, target, score))
    /\ mode' = "working"
    /\ target' = 0
    /\ UNCHANGED <<puts, log, execution, ops, crashes>>

ExternalPut(k, v) ==
    /\ puts < MaxPuts
    /\ puts' = puts + 1
    /\ store' = Put(store, k, v)
    /\ UNCHANGED <<mode, session, log, execution, target, commits, ops, crashes>>

Next ==
    \/ \E r \in Reads : Read(r[1], r[2])
    \/ \E w \in Writes : Write(w[1], w[2])
    \/ \E i \in Managed, id \in GivenName : SavepointAt(i, id) \/ Rollback(i, id)
    \/ \E i \in Managed, score \in Score : Stage(i, score)
    \/ CommitTask \/ CommitThrows \/ AbortTask
    \/ WriteLog \/ Crash \/ CrashInWriteLog
    \/ Recover
    \/ ExecuteNoop \/ SubmitFreshTask \/ ResumeBranch \/ ResumeFromSavepoint \/ RevalidateCommit
    \/ \E score \in Score : FinishContinuation(score)
    \/ \E p \in Puts : ExternalPut(p[1], p[2])

Spec == Init /\ [][Next]_vars

--------------------------------------------------------------------------------
(* What a recovery promises.                                                 *)

\* The store, the session and the execution are what the code's types say; a
\* readable log names at least one branch, and a session that has one too.
TypeOK ==
    /\ store \in [Key -> VersionedValue]
    /\ session.phase \in {"None", "Running", "Committed", "Aborted"}
    /\ \A i \in DOMAIN session.branches :
        LET b == session.branches[i]
        IN  /\ i \in BranchIds
            /\ b.reads \in Seq(ReadRecord) /\ b.intents \in Seq(WriteIntent)
            /\ b.order \in Seq(Key) /\ DOMAIN b.entries \subseteq Key
            /\ \A n \in DOMAIN b.savepoints :
                /\ b.savepoints[n].write_log_position \in 0 .. Len(b.changes)
                /\ b.savepoints[n].intent_log_position \in 0 .. Len(b.intents)
    /\ log.readable => PlannedBranches \in BranchIds
    /\ mode # "down" => session.branches # <<>>
    /\ execution.branch \in Nat /\ target \in Nat

\* The recovery skips a task as committed only if a commit of it has reached
\* the store, however the log was cut.
SkippedIsCommitted == execution.command = "NOOP" => commits > 0

\* The log was saved whole from a session in progress, and the session had not
\* been resumed from a savepoint (that rollback is not in the log).
IsFaithful == log.whole /\ log.phase = "Running" /\ ~log.resumed

Unconditioned(intents) ==
    [n \in DOMAIN intents |-> [intents[n] EXCEPT !.condition = NoCondition]]

\* What was buffered comes back: through writes, savepoints and rollbacks in
\* any order, the rebuilt branches have the intents (less their conditions),
\* the order of objects, the savepoints and the whole scores of the session
\* that was saved, and the very entries where the store has not moved on.
RebuildsWork ==
    (mode = "recovered" /\ IsFaithful) =>
        /\ DOMAIN session.branches = DOMAIN log.saved
        /\ \A i \in DOMAIN log.saved :
            LET b == session.branches[i]
                saved == log.saved[i]
            IN  /\ b.intents = Unconditioned(saved.intents)
                /\ b.order = saved.order
                /\ b.savepoints = saved.savepoints
                /\ b.score = Truncated(saved.score)
                /\ \A k \in DOMAIN saved.entries :
                    VersionIs(store, k, saved.entries[k].base_version)
                        => b.entries[k] = saved.entries[k]

\* A crash does not launder a stale read: the reads of the session that was
\* saved are in the rebuilt one, at the versions that were read then, so that
\* the commit after the recovery still validates them.
ReadsSurviveRecovery ==
    (mode = "recovered" /\ log.whole) =>
        \A i \in DOMAIN log.saved : \A n \in DOMAIN log.saved[i].reads :
            \E m \in DOMAIN session.branches[i].reads :
                session.branches[i].reads[m] = log.saved[i].reads[n]

\* No event says that the task was committed.  A session that goes on after a
\* commit may record a savepoint of a branch the commit has discarded, which a
\* replay does not do.
Uncommitted(events) == \A n \in DOMAIN events : events[n].type # "COMMIT_TASK"

\* A task that is resumed from a savepoint has the work it had when a savepoint
\* of that name was made: nothing that came later, and nothing missing.
ResumesAtSavepoint ==
    [][(ResumeFromSavepoint /\ mode' # "refused" /\ ~log.resumed /\ Uncommitted(log.events)) =>
            \E n \in DOMAIN log.events :
                /\ log.events[n].type = "SAVEPOINT" /\ log.events[n].branch = execution.branch
                /\ log.events[n].id = execution.savepoint
                /\ session'.branches[execution.branch].intents = Unconditioned(log.events[n].copy)]_vars

\* A task that the recovery found committed does not write to the store again.
CommittedIsSkipped ==
    [][(execution.command = "NOOP" /\ puts' = puts) => store' = store]_vars
=================================================================================
