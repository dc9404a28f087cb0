---------------------------- MODULE TaskRecoveryProofs ----------------------------
(****************************************************************************)
(* Proofs about TaskRecovery, for any plan, any calls, any number of        *)
(* crashes: its types; that a task is skipped as committed only when a      *)
(* commit of it has reached the store; that what a branch read is still     *)
(* among its reads after a recovery, so that the next commit validates it;  *)
(* that what was buffered is rebuilt; and that a resumption from a          *)
(* savepoint finds the work the savepoint had.                              *)
(*                                                                          *)
(* The argument: every read a branch remembers has its event in the         *)
(* session, at the version that was read; what is saved or torn is a        *)
(* prefix of those events, and begins with the plan; replaying brings each  *)
(* READ of the log back, and nothing a later event does takes it away.      *)
(* Replayed over any store, the events of a session in progress build a     *)
(* branch that mirrors the one in memory.                                   *)
(****************************************************************************)
EXTENDS TaskRecovery, BranchProofs

Phases == {"None", "Running", "Committed", "Aborted"}

\* The events by what they carry.
PlainEvents ==
    [type : {"SUBMIT_TASK", "CREATE_BRANCH", "COMMIT_ATTEMPT", "COMMIT_TASK", "ABORT_TASK"},
     branch : Nat]
ReadEvents == [type : {"READ"}, branch : Nat, object : Key, version : Nat, value : Value]
WriteEvents ==
    [type : {"WRITE"}, branch : Nat, object : Key, intent_type : IntentType, payload : Value]
SavepointEvents ==
    [type : {"SAVEPOINT"}, branch : Nat, id : SavepointId, copy : Seq(WriteIntent)]
RollbackEvents == [type : {"ROLLBACK_TO_SAVEPOINT"}, branch : Nat, id : SavepointId]
StageEvents == [type : {"STAGE_BRANCH"}, branch : Nat, score : Int]

EventRecord ==
    PlainEvents \cup ReadEvents \cup WriteEvents \cup SavepointEvents
        \cup RollbackEvents \cup StageEvents

SessionRecord ==
    [phase : Phases, committed : BOOLEAN, resumed : BOOLEAN,
     branches : Seq(BranchContext), events : Seq(EventRecord)]

LogRecord ==
    [readable : BOOLEAN, whole : BOOLEAN, phase : Phases, committed : BOOLEAN,
     events : Seq(EventRecord), saved : Seq(BranchContext), resumed : BOOLEAN]

\* Events begin with the submission and a plan of m branches, and no event
\* after that plans another.
Plans(events, m) ==
    /\ {n \in DOMAIN events : events[n].type = "CREATE_BRANCH"} = 2 .. (m + 1)
    /\ \A n \in 2 .. (m + 1) : events[n].branch # 0

\* A read of a branch is among the events.
ReadLogged(events, i, read) ==
    \E n \in DOMAIN events :
        events[n].type = "READ" /\ events[n].branch = i /\ RecoveredRead(events[n]) = read

ReadsLogged(branches, events) ==
    \A i \in DOMAIN branches : \A n \in DOMAIN branches[i].reads :
        ReadLogged(events, i, branches[i].reads[n])

\* The events are among the reads of their branches.
ReadsKept(branches, events) ==
    \A n \in DOMAIN events :
        (events[n].type = "READ" /\ events[n].branch \in DOMAIN branches) =>
            \E m \in DOMAIN branches[events[n].branch].reads :
                branches[events[n].branch].reads[m] = RecoveredRead(events[n])

SessionInv(s) ==
    /\ s \in SessionRecord
    /\ \A i \in DOMAIN s.branches : WellFormed(s.branches[i])
    /\ Len(s.branches) <= BranchCount
    /\ Plans(s.events, Len(s.branches))
    /\ ReadsLogged(s.branches, s.events)

LogInv ==
    /\ log \in LogRecord
    /\ log.readable => log.events # <<>> /\ \E m \in BranchIds : Plans(log.events, m)
    /\ log.whole => Plans(log.events, Len(log.saved)) /\ ReadsLogged(log.saved, log.events)

\* What is in memory after a recovery comes from the log.
RecoveredInv ==
    mode = "recovered" =>
        /\ log.readable
        /\ Len(session.branches) = PlannedBranches
        /\ ReadsKept(session.branches, log.events)

\* Who says that the task is committed.
SaysCommitted(s) ==
    \/ s.committed
    \/ s.phase = "Committed"
    \/ \E n \in DOMAIN s.events : s.events[n].type = "COMMIT_TASK"

CommitInv ==
    /\ commits \in Nat
    /\ SaysCommitted(session) => commits > 0
    /\ SaysCommitted(log) => commits > 0
    /\ execution.command = "NOOP" => commits > 0

RecoveryInv ==
    /\ store \in Store
    /\ SessionInv(session)
    /\ mode # "down" => session.branches # <<>>
    /\ LogInv
    /\ RecoveredInv
    /\ CommitInv
    /\ execution.branch \in Nat /\ target \in Nat
--------------------------------------------------------------------------------
(* Events.                                                                   *)

\* What an event of each type carries.
LEMMA EventFields ==
    ASSUME NEW e \in EventRecord
    PROVE  /\ e.branch \in Nat
           /\ e.type = "READ" => e \in ReadEvents
           /\ e.type = "WRITE" => e \in WriteEvents
           /\ e.type = "SAVEPOINT" => e \in SavepointEvents
           /\ e.type = "ROLLBACK_TO_SAVEPOINT" => e \in RollbackEvents
           /\ e.type = "STAGE_BRANCH" => e \in StageEvents
<1> USE DEF PlainEvents, ReadEvents, WriteEvents, SavepointEvents, RollbackEvents, StageEvents
<1>1. CASE e \in PlainEvents
  BY <1>1
<1>2. CASE e \in ReadEvents
  BY <1>2
<1>3. CASE e \in WriteEvents
  BY <1>3
<1>4. CASE e \in SavepointEvents
  BY <1>4
<1>5. CASE e \in RollbackEvents
  BY <1>5
<1>6. CASE e \in StageEvents
  BY <1>6
<1> QED BY <1>1, <1>2, <1>3, <1>4, <1>5, <1>6 DEF EventRecord

\* What a READ brings back is a read, and a WRITE a write.
LEMMA RecoveredType ==
    ASSUME NEW e \in EventRecord
    PROVE  /\ e.type = "READ" => RecoveredRead(e) \in ReadRecord
           /\ e.type = "WRITE" => RecoveredIntent(e) \in WriteIntent
<1>1. ASSUME e \in ReadEvents PROVE RecoveredRead(e) \in ReadRecord
  BY <1>1 DEF ReadEvents, RecoveredRead, ReadRecord
<1>2. ASSUME e \in WriteEvents PROVE RecoveredIntent(e) \in WriteIntent
  <2>1. NoCondition \in Condition
    BY DEF NoCondition, Condition, Empty, Value
  <2> QED BY <1>2, <2>1 DEF WriteEvents, RecoveredIntent, WriteIntent
<1> QED BY <1>1, <1>2, EventFields

\* The events that are recorded are events, and none of them plans a branch.
LEMMA PlainEventType ==
    ASSUME NEW i \in Nat,
           NEW type \in {"SUBMIT_TASK", "CREATE_BRANCH", "COMMIT_ATTEMPT", "COMMIT_TASK",
                         "ABORT_TASK"}
    PROVE  Event(type, i) \in EventRecord
BY DEF Event, EventRecord, PlainEvents

\* A READ is an event.
LEMMA ReadEventType ==
    ASSUME NEW i \in Nat, NEW k \in Key, NEW version \in Nat, NEW value \in Value
    PROVE  ReadEvent(i, k, version, value) \in EventRecord
BY DEF ReadEvent, EventRecord, ReadEvents

\* A WRITE is an event.
LEMMA WriteEventType ==
    ASSUME NEW i \in Nat, NEW intent \in WriteIntent
    PROVE  WriteEvent(i, intent) \in EventRecord
BY DEF WriteEvent, EventRecord, WriteEvents, WriteIntent

\* A SAVEPOINT is an event.
LEMMA SavepointEventType ==
    ASSUME NEW i \in Nat, NEW id \in SavepointId, NEW intents \in Seq(WriteIntent)
    PROVE  SavepointEvent(i, id, intents) \in EventRecord
BY DEF SavepointEvent, EventRecord, SavepointEvents

\* A rollback is an event.
LEMMA RollbackEventType ==
    ASSUME NEW i \in Nat, NEW id \in SavepointId
    PROVE  RollbackEvent(i, id) \in EventRecord
BY DEF RollbackEvent, EventRecord, RollbackEvents

\* A score loses its fraction, not its type.
LEMMA TruncatedType ==
    ASSUME NEW score \in Int
    PROVE  Truncated(score) \in Int
<1>1. ScoreUnit \in Int /\ ScoreUnit > 0
  BY ScoreUnitAssumption
<1>2. \A n \in Int : n \div ScoreUnit \in Int
  BY <1>1
<1>3. \A n \in Int : n * ScoreUnit \in Int /\ -n \in Int
  BY <1>1
<1> QED BY <1>2, <1>3 DEF Truncated

\* Staging is an event.
LEMMA StageEventType ==
    ASSUME NEW i \in Nat, NEW score \in Int
    PROVE  StageEvent(i, score) \in EventRecord
BY TruncatedType DEF StageEvent, EventRecord, StageEvents

\* A line that is cut keeps the event's type and branch.
LEMMA CutsType ==
    ASSUME NEW e \in EventRecord, NEW last \in Cuts(e)
    PROVE  /\ last \in EventRecord /\ last.type = e.type /\ last.branch = e.branch
           /\ e.type = "READ" => last = e
<1>1. CASE e.type = "WRITE"
  <2>1. e \in WriteEvents
    BY <1>1, EventFields
  <2>2. PICK n \in 0 .. Len(e.payload) : last = [e EXCEPT !.payload = SubSeq(@, 1, n)]
    BY <1>1 DEF Cuts
  <2>3. SubSeq(e.payload, 1, n) \in Value
    <3>1. e.payload \in Seq(Chunk)
      BY <2>1 DEF WriteEvents, Value
    <3>2. n <= Len(e.payload) /\ n \in Nat
      BY <3>1
    <3>3. SubSeq(e.payload, 1, n) \in Seq(Chunk)
      BY <3>1, <3>2
    <3> QED BY <3>3 DEF Value
  <2> QED BY <1>1, <2>1, <2>2, <2>3 DEF WriteEvents, EventRecord
<1>2. CASE e.type = "SAVEPOINT"
  <2>1. e \in SavepointEvents
    BY <1>2, EventFields
  <2>2. PICK name \in {NoName, CutName, e.id} : last = [e EXCEPT !.id = name]
    BY <1>2 DEF Cuts
  <2> QED BY <1>2, <2>1, <2>2, NamesAssumption DEF SavepointEvents, EventRecord
<1>3. CASE e.type = "ROLLBACK_TO_SAVEPOINT"
  <2>1. e \in RollbackEvents
    BY <1>3, EventFields
  <2>2. PICK name \in {NoName, CutName, e.id} : last = [e EXCEPT !.id = name]
    BY <1>3 DEF Cuts
  <2> QED BY <1>3, <2>1, <2>2, NamesAssumption DEF RollbackEvents, EventRecord
<1>4. CASE e.type \notin {"WRITE", "SAVEPOINT", "ROLLBACK_TO_SAVEPOINT"}
  BY <1>4 DEF Cuts
<1> QED BY <1>1, <1>2, <1>3, <1>4
--------------------------------------------------------------------------------
(* Sessions.                                                                 *)

\* An event recorded later neither plans a branch nor hides a read.
LEMMA AppendPlans ==
    ASSUME NEW events \in Seq(EventRecord), NEW m \in Nat, Plans(events, m),
           NEW e \in EventRecord, e.type # "CREATE_BRANCH"
    PROVE  Plans(Append(events, e), m)
<1> DEFINE n == Len(events)
           later == Append(events, e)
<1>1. /\ n \in Nat /\ DOMAIN events = 1 .. n /\ DOMAIN later = 1 .. (n + 1)
      /\ later[n + 1] = e /\ \A k \in 1 .. n : later[k] = events[k]
  OBVIOUS
<1>2. \A k \in 1 .. (n + 1) : k = n + 1 \/ k \in 1 .. n
  BY <1>1
<1>3. 1 .. n \subseteq 1 .. (n + 1)
  BY <1>1
<1> HIDE DEF n, later
<1>4. {k \in DOMAIN later : later[k].type = "CREATE_BRANCH"}
          = {k \in DOMAIN events : events[k].type = "CREATE_BRANCH"}
  BY <1>1, <1>2, <1>3
<1>5. \A k \in 2 .. (m + 1) : k \in DOMAIN events
  BY DEF Plans
<1>6. \A k \in 2 .. (m + 1) : later[k] = events[k]
  BY <1>1, <1>5
<1> QED BY <1>4, <1>6 DEF Plans, later

\* What is logged stays logged.
LEMMA AppendLogged ==
    ASSUME NEW events \in Seq(EventRecord), NEW e, NEW i, NEW read, ReadLogged(events, i, read)
    PROVE  ReadLogged(Append(events, e), i, read)
<1>1. PICK n \in DOMAIN events :
          events[n].type = "READ" /\ events[n].branch = i /\ RecoveredRead(events[n]) = read
  BY DEF ReadLogged
<1>2. n \in DOMAIN Append(events, e) /\ Append(events, e)[n] = events[n]
  OBVIOUS
<1> QED BY <1>1, <1>2 DEF ReadLogged

\* A read is logged once its event is recorded.
LEMMA LastLogged ==
    ASSUME NEW events \in Seq(EventRecord), NEW e, e.type = "READ"
    PROVE  ReadLogged(Append(events, e), e.branch, RecoveredRead(e))
<1>1. Len(events) + 1 \in DOMAIN Append(events, e) /\ Append(events, e)[Len(events) + 1] = e
  OBVIOUS
<1> QED BY <1>1 DEF ReadLogged

\* The one argument for every call on a session: it keeps the plan, records at
\* most one event, and leaves each branch well formed, with its reads and at
\* most one more, which the event is about.
LEMMA SessionStep ==
    ASSUME NEW s, SessionInv(s), NEW t \in SessionRecord,
           NEW e \in EventRecord, e.type # "CREATE_BRANCH",
           t.events = s.events \/ t.events = Append(s.events, e),
           Len(t.branches) = Len(s.branches),
           \A i \in DOMAIN t.branches :
              /\ WellFormed(t.branches[i])
              /\ \A n \in DOMAIN t.branches[i].reads :
                    \/ \E m \in DOMAIN s.branches[i].reads :
                          s.branches[i].reads[m] = t.branches[i].reads[n]
                    \/ ReadLogged(t.events, i, t.branches[i].reads[n])
    PROVE  SessionInv(t)
<1>1. /\ s.events \in Seq(EventRecord) /\ s.branches \in Seq(BranchContext)
      /\ t.branches \in Seq(BranchContext) /\ Len(s.branches) \in Nat
  BY DEF SessionInv, SessionRecord
<1>2. DOMAIN t.branches = DOMAIN s.branches
  BY <1>1
<1>3. Plans(t.events, Len(t.branches))
  BY <1>1, AppendPlans DEF SessionInv
<1>4. ReadsLogged(t.branches, t.events)
  <2> SUFFICES ASSUME NEW i \in DOMAIN t.branches, NEW n \in DOMAIN t.branches[i].reads
               PROVE  ReadLogged(t.events, i, t.branches[i].reads[n])
    BY DEF ReadsLogged
  <2>1. CASE \E m \in DOMAIN s.branches[i].reads :
                s.branches[i].reads[m] = t.branches[i].reads[n]
    <3>1. ReadLogged(s.events, i, t.branches[i].reads[n])
      BY <1>2, <2>1 DEF SessionInv, ReadsLogged
    <3> QED BY <1>1, <3>1, AppendLogged
  <2> QED BY <2>1
<1> QED BY <1>3, <1>4 DEF SessionInv

\* A branch put in its place.
LEMMA OnBranchFields ==
    ASSUME NEW s \in SessionRecord, NEW i, NEW b, Found(s, i) => b \in BranchContext
    PROVE  LET t == OnBranch(s, i, b)
           IN  /\ t \in SessionRecord /\ t.events = s.events
               /\ t.phase = s.phase /\ t.committed = s.committed
               /\ Len(t.branches) = Len(s.branches) /\ DOMAIN t.branches = DOMAIN s.branches
               /\ \A j \in DOMAIN s.branches :
                    t.branches[j] = IF j = i THEN b ELSE s.branches[j]
<1> DEFINE t == OnBranch(s, i, b)
<1>1. s.branches \in Seq(BranchContext)
  BY DEF SessionRecord
<1>2. CASE Found(s, i)
  <2> DEFINE branches == [s.branches EXCEPT ![i] = b]
  <2>1. i \in DOMAIN s.branches /\ b \in BranchContext
    BY <1>2 DEF Found
  <2>2. /\ branches \in Seq(BranchContext) /\ Len(branches) = Len(s.branches)
        /\ DOMAIN branches = DOMAIN s.branches
        /\ \A j \in DOMAIN s.branches : branches[j] = IF j = i THEN b ELSE s.branches[j]
    BY <1>1, <2>1
  <2>3. t = [s EXCEPT !.branches = branches]
    BY <1>2 DEF OnBranch
  <2> HIDE DEF branches, t
  <2> QED BY <2>2, <2>3 DEF SessionRecord, t
<1>3. CASE ~Found(s, i)
  BY <1>1, <1>3 DEF OnBranch, Found
<1> QED BY <1>2, <1>3

\* An event recorded.
LEMMA RecordFields ==
    ASSUME NEW s \in SessionRecord, NEW e \in EventRecord
    PROVE  LET t == Record(s, e)
           IN  /\ t \in SessionRecord /\ t.events = Append(s.events, e)
               /\ t.phase = s.phase /\ t.committed = s.committed
               /\ t.branches = s.branches
               /\ t = [phase |-> s.phase, committed |-> s.committed, resumed |-> s.resumed,
                       branches |-> s.branches, events |-> Append(s.events, e)]
<1> DEFINE t == Record(s, e)
<1>1. Append(s.events, e) \in Seq(EventRecord)
  BY DEF SessionRecord
<1>2. t = [phase |-> s.phase, committed |-> s.committed, resumed |-> s.resumed,
           branches |-> s.branches, events |-> Append(s.events, e)]
  <2>1. s = [phase |-> s.phase, committed |-> s.committed, resumed |-> s.resumed,
             branches |-> s.branches, events |-> s.events]
    BY DEF SessionRecord
  <2>2. t = [s EXCEPT !.events = Append(s.events, e)]
    BY DEF Record
  <2> HIDE DEF t
  <2> QED BY <2>1, <2>2
<1> HIDE DEF t
<1>3. t \in SessionRecord
  BY <1>1, <1>2 DEF SessionRecord
<1> QED BY <1>2, <1>3 DEF t

\* A call on a branch, found or not, and its event.
LEMMA BranchCall ==
    ASSUME NEW s, SessionInv(s), NEW i, NEW b, NEW e \in EventRecord,
           e.type # "CREATE_BRANCH",
           Found(s, i) =>
              /\ WellFormed(b)
              /\ \A n \in DOMAIN b.reads :
                    \/ \E m \in DOMAIN s.branches[i].reads : s.branches[i].reads[m] = b.reads[n]
                    \/ e.type = "READ" /\ e.branch = i /\ RecoveredRead(e) = b.reads[n]
    PROVE  LET t == Record(OnBranch(s, i, b), e)
           IN  /\ SessionInv(t) /\ Len(t.branches) = Len(s.branches)
               /\ t.phase = s.phase /\ t.committed = s.committed
               /\ t.events = Append(s.events, e)
<1> DEFINE u == OnBranch(s, i, b)
           t == Record(u, e)
<1>1. s \in SessionRecord /\ s.events \in Seq(EventRecord)
  BY DEF SessionInv, SessionRecord
<1>2. Found(s, i) => b \in BranchContext
  BY DEF WellFormed
<1>3. /\ u \in SessionRecord /\ u.events = s.events
      /\ u.phase = s.phase /\ u.committed = s.committed
      /\ Len(u.branches) = Len(s.branches) /\ DOMAIN u.branches = DOMAIN s.branches
      /\ \A j \in DOMAIN s.branches : u.branches[j] = IF j = i THEN b ELSE s.branches[j]
  BY <1>1, <1>2, OnBranchFields
<1> HIDE DEF u
<1>4. /\ t \in SessionRecord /\ t.events = Append(s.events, e)
      /\ t.phase = s.phase /\ t.committed = s.committed
      /\ t.branches = u.branches
  BY <1>3, RecordFields
<1> HIDE DEF t
<1>5. ASSUME NEW j \in DOMAIN t.branches
      PROVE  /\ WellFormed(t.branches[j])
             /\ \A n \in DOMAIN t.branches[j].reads :
                    \/ \E m \in DOMAIN s.branches[j].reads :
                          s.branches[j].reads[m] = t.branches[j].reads[n]
                    \/ ReadLogged(t.events, j, t.branches[j].reads[n])
  <2>1. CASE j = i
    <3>1. Found(s, i) /\ t.branches[j] = b
      BY <1>3, <1>4, <2>1 DEF Found
    <3>2. e.type = "READ" => ReadLogged(t.events, e.branch, RecoveredRead(e))
      BY <1>1, <1>4, LastLogged
    <3> QED BY <2>1, <3>1, <3>2
  <2>2. CASE j # i
    <3>1. j \in DOMAIN s.branches /\ t.branches[j] = s.branches[j]
      BY <1>3, <1>4, <2>2
    <3> QED BY <3>1 DEF SessionInv
  <2> QED BY <2>1, <2>2
<1>6. SessionInv(t)
  <2>1. t \in SessionRecord /\ Len(t.branches) = Len(s.branches)
    BY <1>3, <1>4
  <2>2. t.events = s.events \/ t.events = Append(s.events, e)
    BY <1>3, <1>4
  <2> HIDE <1>3, <1>4
  <2> QED BY <1>5, <2>1, <2>2, SessionStep
<1> QED BY <1>3, <1>4, <1>6 DEF t, u
\* A session after a call that keeps its invariant and its plan, and does not
\* make it say that the task is committed.
Continues(s, t) ==
    /\ SessionInv(t)
    /\ Len(t.branches) = Len(s.branches)
    /\ SaysCommitted(t) => SaysCommitted(s)

\* Only a COMMIT_TASK says that the task is committed.
LEMMA AppendSays ==
    ASSUME NEW s \in SessionRecord, NEW t, NEW e, e.type # "COMMIT_TASK",
           t.events = Append(s.events, e), t.committed => s.committed,
           t.phase = "Committed" => s.phase = "Committed", SaysCommitted(t)
    PROVE  SaysCommitted(s)
<1>1. SUFFICES ASSUME NEW n \in DOMAIN t.events, t.events[n].type = "COMMIT_TASK"
               PROVE  \E m \in DOMAIN s.events : s.events[m].type = "COMMIT_TASK"
  BY DEF SaysCommitted
<1>2. s.events \in Seq(EventRecord)
  BY DEF SessionRecord
<1>3. n \in DOMAIN s.events /\ t.events[n] = s.events[n]
  <2>1. n = Len(s.events) + 1 \/ n \in 1 .. Len(s.events)
    BY <1>2
  <2>2. t.events[Len(s.events) + 1] = e
    BY <1>2
  <2>3. n \in 1 .. Len(s.events)
    BY <1>1, <2>1, <2>2
  <2> QED BY <1>2, <2>3
<1> QED BY <1>1, <1>3

\* A call on a branch does not commit.
LEMMA BranchCallContinues ==
    ASSUME NEW s, SessionInv(s), NEW i, NEW b, NEW e \in EventRecord,
           e.type \notin {"CREATE_BRANCH", "COMMIT_TASK"},
           Found(s, i) =>
              /\ WellFormed(b)
              /\ \A n \in DOMAIN b.reads :
                    \/ \E m \in DOMAIN s.branches[i].reads : s.branches[i].reads[m] = b.reads[n]
                    \/ e.type = "READ" /\ e.branch = i /\ RecoveredRead(e) = b.reads[n]
    PROVE  Continues(s, Record(OnBranch(s, i, b), e))
<1> DEFINE t == Record(OnBranch(s, i, b), e)
<1>1. /\ SessionInv(t) /\ Len(t.branches) = Len(s.branches)
      /\ t.phase = s.phase /\ t.committed = s.committed
      /\ t.events = Append(s.events, e)
  <2>1. e.type # "CREATE_BRANCH"
    OBVIOUS
  <2> QED BY <2>1, BranchCall
<1> HIDE DEF t
<1>2. s \in SessionRecord
  BY DEF SessionInv
<1>3. SaysCommitted(t) => SaysCommitted(s)
  BY <1>1, <1>2, AppendSays
<1> QED BY <1>1, <1>3 DEF Continues, t

\* The branch that is found is well formed.
LEMMA FoundFormed ==
    ASSUME NEW s, SessionInv(s), NEW i, Found(s, i)
    PROVE  WellFormed(s.branches[i]) /\ s.branches[i] \in BranchContext
BY DEF SessionInv, Found, WellFormed

\* Read: what the branch remembers is what the event says.
LEMMA ReadInContinues ==
    ASSUME NEW s, SessionInv(s), store \in Store, NEW i \in Nat, NEW k \in Key
    PROVE  Continues(s, ReadIn(s, i, k))
<1> DEFINE b == s.branches[i]
           c == ReadObject(b, k, store)
           event == IF ~Found(s, i) THEN ReadEvent(i, k, 0, Empty)
                    ELSE IF IsBuffered(b, k)
                    THEN ReadEvent(i, k, b.entries[k].base_version, b.entries[k].current_value)
                    ELSE ReadEvent(i, k, store[k].version, store[k].value)
           record == [object |-> k, version |-> store[k].version, seen |-> store[k].value]
<1>1. store[k].version \in Nat /\ store[k].value \in Value /\ Empty \in Value
  BY DEF Store, VersionedValue, Empty, Value
<1>2. Found(s, i) /\ IsBuffered(b, k) =>
          b.entries[k].base_version \in Nat /\ b.entries[k].current_value \in Value
  BY FoundFormed, BranchFields DEF IsBuffered, CacheEntry
<1>3. event \in EventRecord /\ event.type = "READ" /\ event.branch = i
  <2>1. event \in EventRecord
    BY <1>1, <1>2, ReadEventType
  <2> QED BY <2>1 DEF ReadEvent
<1>4. ~IsBuffered(b, k) /\ Found(s, i) => RecoveredRead(event) = record
  BY DEF ReadEvent, RecoveredRead
<1>5. Found(s, i) =>
          /\ WellFormed(c)
          /\ c.reads = IF IsBuffered(b, k) THEN b.reads ELSE Append(b.reads, record)
          /\ b.reads \in Seq(ReadRecord)
  BY FoundFormed, ReadObjectFormed, BranchFields DEF ReadObject, BranchContext
<1>6. ReadIn(s, i, k) = Record(OnBranch(s, i, c), event)
  BY DEF ReadIn
<1> HIDE DEF c, b, event, record
<1>7. ASSUME Found(s, i), NEW n \in DOMAIN c.reads
      PROVE  \/ \E m \in DOMAIN b.reads : b.reads[m] = c.reads[n]
             \/ event.type = "READ" /\ event.branch = i /\ RecoveredRead(event) = c.reads[n]
  <2>1. CASE IsBuffered(b, k)
    BY <1>5, <1>7, <2>1
  <2>2. CASE ~IsBuffered(b, k)
    <3>1. \/ n = Len(b.reads) + 1 /\ c.reads[n] = record
          \/ n \in DOMAIN b.reads /\ c.reads[n] = b.reads[n]
      <4> DEFINE r == b.reads
      <4>1. c.reads = Append(r, record) /\ r \in Seq(ReadRecord)
        BY <1>5, <1>7, <2>2
      <4>2. n \in DOMAIN Append(r, record)
        BY <1>7, <4>1
      <4> HIDE DEF r
      <4>3. \/ n = Len(r) + 1 /\ Append(r, record)[n] = record
            \/ n \in DOMAIN r /\ Append(r, record)[n] = r[n]
        BY <4>1, <4>2
      <4> QED BY <4>1, <4>3 DEF r
    <3> QED BY <1>3, <1>4, <1>7, <2>2, <3>1
  <2> QED BY <2>1, <2>2
<1> QED BY <1>3, <1>5, <1>6, <1>7, BranchCallContinues DEF b

\* Write.
LEMMA WriteInContinues ==
    ASSUME NEW s, SessionInv(s), store \in Store, NEW i \in Nat, NEW intent \in WriteIntent
    PROVE  Continues(s, WriteIn(s, i, intent))
<1> DEFINE c == BufferWrite(s.branches[i], intent, store)
           event == WriteEvent(i, intent)
<1>1. event \in EventRecord /\ event.type \notin {"CREATE_BRANCH", "COMMIT_TASK"}
  BY WriteEventType DEF WriteEvent
<1>2. Found(s, i) => WellFormed(c) /\ c.reads = s.branches[i].reads
  BY FoundFormed, BufferWriteFormed
<1>3. WriteIn(s, i, intent) = Record(OnBranch(s, i, c), event)
  BY DEF WriteIn
<1> HIDE DEF c, event
<1> QED BY <1>1, <1>2, <1>3, BranchCallContinues

\* CreateSavepoint.
LEMMA SavepointInContinues ==
    ASSUME NEW s, SessionInv(s), NEW i \in Nat, NEW id \in SavepointId
    PROVE  Continues(s, SavepointIn(s, i, id))
<1> DEFINE c == CreateSavepoint(s.branches[i], id)
           event == SavepointEvent(i, id, IntentsOf(s, i))
<1>1. event \in EventRecord /\ event.type \notin {"CREATE_BRANCH", "COMMIT_TASK"}
  <2>1. IntentsOf(s, i) \in Seq(WriteIntent)
    BY FoundFormed, BranchFields DEF IntentsOf
  <2> QED BY <2>1, SavepointEventType DEF SavepointEvent
<1>2. Found(s, i) => WellFormed(c) /\ c.reads = s.branches[i].reads
  BY FoundFormed, CreateSavepointFormed
<1>3. SavepointIn(s, i, id) = Record(OnBranch(s, i, c), event)
  BY DEF SavepointIn
<1> HIDE DEF c, event
<1> QED BY <1>1, <1>2, <1>3, BranchCallContinues

\* RollbackToSavepoint.
LEMMA RollbackInContinues ==
    ASSUME NEW s, SessionInv(s), NEW i \in Nat, NEW id \in SavepointId
    PROVE  Continues(s, RollbackIn(s, i, id))
<1>1. CASE FindSavepoint(s, i, id)
  <2> DEFINE c == RollbackToSavepoint(s.branches[i], id)
             event == RollbackEvent(i, id)
  <2>1. event \in EventRecord /\ event.type \notin {"CREATE_BRANCH", "COMMIT_TASK"}
    BY RollbackEventType DEF RollbackEvent
  <2>2. WellFormed(c) /\ c.reads = s.branches[i].reads
    BY <1>1, FoundFormed, RollbackFormed DEF FindSavepoint
  <2>3. RollbackIn(s, i, id) = Record(OnBranch(s, i, c), event)
    BY <1>1 DEF RollbackIn
  <2> HIDE DEF c, event
  <2> QED BY <2>1, <2>2, <2>3, BranchCallContinues
<1>2. CASE ~FindSavepoint(s, i, id)
  BY <1>2 DEF RollbackIn, Continues
<1> QED BY <1>1, <1>2

\* StageBranch.
LEMMA StageInContinues ==
    ASSUME NEW s, SessionInv(s), NEW i \in Nat, NEW score \in Int
    PROVE  Continues(s, StageIn(s, i, score))
<1> DEFINE c == StageBranch(s.branches[i], score)
           event == StageEvent(i, score)
<1>1. event \in EventRecord /\ event.type \notin {"CREATE_BRANCH", "COMMIT_TASK"}
  BY StageEventType DEF StageEvent
<1>2. Found(s, i) => WellFormed(c) /\ c.reads = s.branches[i].reads
  BY FoundFormed, StageBranchFormed
<1>3. StageIn(s, i, score) = Record(OnBranch(s, i, c), event)
  BY DEF StageIn
<1> HIDE DEF c, event
<1> QED BY <1>1, <1>2, <1>3, BranchCallContinues
\* A function on 1 .. n is a sequence.
LEMMA FunctionIsSeq ==
    ASSUME NEW S, NEW n \in Nat, NEW f \in [1 .. n -> S]
    PROVE  f \in Seq(S) /\ Len(f) = n /\ DOMAIN f = 1 .. n
OBVIOUS

\* All branches replaced by well formed ones that read the same, and at most
\* one event.
LEMMA BranchesStep ==
    ASSUME NEW s, SessionInv(s), NEW t \in SessionRecord,
           NEW e \in EventRecord, e.type # "CREATE_BRANCH",
           t.events = s.events \/ t.events = Append(s.events, e),
           Len(t.branches) = Len(s.branches),
           \A i \in DOMAIN t.branches :
              WellFormed(t.branches[i]) /\ t.branches[i].reads = s.branches[i].reads
    PROVE  SessionInv(t)
BY SessionStep

\* The session made of such branches.
LEMMA BranchesReplaced ==
    ASSUME NEW s, SessionInv(s), NEW e \in EventRecord, e.type # "CREATE_BRANCH",
           NEW phase \in Phases, NEW committed \in BOOLEAN, NEW resumed \in BOOLEAN,
           NEW f, DOMAIN f = DOMAIN s.branches,
           f = [i \in DOMAIN s.branches |-> f[i]],
           \A i \in DOMAIN s.branches :
              WellFormed(f[i]) /\ f[i].reads = s.branches[i].reads,
           NEW events, events = s.events \/ events = Append(s.events, e)
    PROVE  LET t == [phase |-> phase, committed |-> committed, resumed |-> resumed,
                     branches |-> f, events |-> events]
           IN  SessionInv(t) /\ Len(t.branches) = Len(s.branches)
<1> DEFINE t == [phase |-> phase, committed |-> committed, resumed |-> resumed,
                 branches |-> f, events |-> events]
<1>1. /\ s.events \in Seq(EventRecord) /\ s.branches \in Seq(BranchContext)
      /\ Len(s.branches) \in Nat /\ DOMAIN s.branches = 1 .. Len(s.branches)
  BY DEF SessionInv, SessionRecord
<1>2. f \in Seq(BranchContext) /\ Len(f) = Len(s.branches)
  <2>1. f \in [1 .. Len(s.branches) -> BranchContext]
    BY <1>1 DEF WellFormed
  <2> QED BY <1>1, <2>1, FunctionIsSeq
<1>3. t.branches = f /\ t.events = events
  OBVIOUS
<1>4. events \in Seq(EventRecord)
  <2>1. Append(s.events, e) \in Seq(EventRecord)
    BY <1>1
  <2> QED BY <1>1, <2>1
<1>5. t \in SessionRecord
  BY <1>2, <1>4 DEF SessionRecord
<1> HIDE DEF t
<1>6. SessionInv(t)
  <2>1. Len(t.branches) = Len(s.branches) /\ (t.events = s.events \/ t.events = Append(s.events, e))
    BY <1>2, <1>3
  <2>2. \A i \in DOMAIN t.branches :
            WellFormed(t.branches[i]) /\ t.branches[i].reads = s.branches[i].reads
    BY <1>3
  <2> HIDE <1>1, <1>2, <1>3, <1>4
  <2> QED BY <1>5, <2>1, <2>2, BranchesStep
<1> QED BY <1>2, <1>3, <1>6 DEF t

\* A commit is attempted: the event, and the statuses.
LEMMA AttemptedContinues ==
    ASSUME NEW s, SessionInv(s)
    PROVE  Continues(s, Attempted(s)) /\ Attempted(s).branches = MarkWinnerAndLosers(s.branches, SelectWinner(s.branches))
<1> DEFINE winner == SelectWinner(s.branches)
           event == Event("COMMIT_ATTEMPT", 0)
           f == MarkWinnerAndLosers(s.branches, winner)
           u == Record(s, event)
           t == Attempted(s)
<1>1. s \in SessionRecord /\ event \in EventRecord /\ event.type = "COMMIT_ATTEMPT"
  BY PlainEventType DEF SessionInv, Event
<1>2. t = [phase |-> s.phase, committed |-> s.committed, resumed |-> s.resumed,
           branches |-> f, events |-> Append(s.events, event)]
  <2>1. u = [phase |-> s.phase, committed |-> s.committed, resumed |-> s.resumed,
             branches |-> s.branches, events |-> Append(s.events, event)]
    BY <1>1, RecordFields
  <2>2. t = [u EXCEPT !.branches = MarkWinnerAndLosers(u.branches, winner)]
    BY DEF Attempted
  <2> HIDE DEF u, t, winner, event
  <2> QED BY <2>1, <2>2
<1>3. /\ DOMAIN f = DOMAIN s.branches /\ f = [i \in DOMAIN s.branches |-> f[i]]
      /\ \A i \in DOMAIN s.branches : WellFormed(f[i]) /\ f[i].reads = s.branches[i].reads
  <2>1. ASSUME NEW i \in DOMAIN s.branches
        PROVE  WellFormed(f[i]) /\ f[i].reads = s.branches[i].reads
    <3> DEFINE status == IF i = winner THEN "Winner" ELSE "Loser"
    <3>1. f[i] = [s.branches[i] EXCEPT !.status = status] /\ WellFormed(s.branches[i])
      BY DEF MarkWinnerAndLosers, SessionInv
    <3> HIDE DEF f
    <3> QED BY <3>1, StatusFormed
  <2> QED BY <2>1 DEF MarkWinnerAndLosers
<1> HIDE DEF f, t, event
<1>4. SessionInv(t) /\ Len(t.branches) = Len(s.branches)
  <2>1. /\ s.phase \in Phases /\ s.committed \in BOOLEAN /\ s.resumed \in BOOLEAN
        /\ event.type # "CREATE_BRANCH"
    BY <1>1 DEF SessionRecord
  <2> QED BY <1>1, <1>2, <1>3, <2>1, BranchesReplaced
<1>5. SaysCommitted(t) => SaysCommitted(s)
  <2>1. event.type # "COMMIT_TASK"
    BY <1>1
  <2> QED BY <1>1, <1>2, <2>1, AppendSays
<1> QED BY <1>2, <1>4, <1>5 DEF Continues, t, f

\* A task that is aborted does not say that it is committed.
LEMMA AbortedContinues ==
    ASSUME NEW s, SessionInv(s), NEW i \in Nat
    PROVE  Continues(s, Aborted(s, Event("ABORT_TASK", i)))
<1> DEFINE event == Event("ABORT_TASK", i)
           f == [j \in DOMAIN s.branches |-> DiscardBranch(s.branches[j])]
           u == Record(s, event)
           t == Aborted(s, event)
<1>1. s \in SessionRecord /\ event \in EventRecord /\ event.type = "ABORT_TASK"
  BY PlainEventType DEF SessionInv, Event
<1>2. t = [phase |-> "Aborted", committed |-> FALSE, resumed |-> s.resumed,
           branches |-> f, events |-> Append(s.events, event)]
  <2>1. u = [phase |-> s.phase, committed |-> s.committed, resumed |-> s.resumed,
             branches |-> s.branches, events |-> Append(s.events, event)]
    BY <1>1, RecordFields
  <2>2. t = [u EXCEPT !.phase = "Aborted", !.committed = FALSE,
                      !.branches = [j \in DOMAIN u.branches |-> DiscardBranch(u.branches[j])]]
    BY DEF Aborted
  <2> HIDE DEF u, t, event
  <2> QED BY <2>1, <2>2
<1>3. /\ DOMAIN f = DOMAIN s.branches /\ f = [j \in DOMAIN s.branches |-> f[j]]
      /\ \A j \in DOMAIN s.branches : WellFormed(f[j]) /\ f[j].reads = s.branches[j].reads
  BY DiscardBranchFormed DEF SessionInv
<1> HIDE DEF f, t, event
<1>4. SessionInv(t) /\ Len(t.branches) = Len(s.branches)
  <2>1. /\ "Aborted" \in Phases /\ FALSE \in BOOLEAN /\ s.resumed \in BOOLEAN
        /\ event.type # "CREATE_BRANCH"
    BY <1>1 DEF SessionRecord, Phases
  <2> QED BY <1>1, <1>2, <1>3, <2>1, BranchesReplaced
<1>5. SaysCommitted(t) => SaysCommitted(s)
  <2>1. event.type # "COMMIT_TASK"
    BY <1>1
  <2> QED BY <1>1, <1>2, <2>1, AppendSays
<1> QED BY <1>4, <1>5 DEF Continues, t, event

\* A task that is committed.
LEMMA CommittedKeeps ==
    ASSUME NEW s, SessionInv(s), NEW winner \in Nat
    PROVE  /\ SessionInv(Committed(s, winner))
           /\ Len(Committed(s, winner).branches) = Len(s.branches)
<1> DEFINE event == Event("COMMIT_TASK", winner)
           f == [i \in DOMAIN s.branches |->
                    IF i = winner THEN [s.branches[i] EXCEPT !.status = "Committed"]
                    ELSE DiscardBranch(s.branches[i])]
           u == Record(s, event)
           t == Committed(s, winner)
<1>1. s \in SessionRecord /\ event \in EventRecord /\ event.type = "COMMIT_TASK"
  BY PlainEventType DEF SessionInv, Event
<1>2. t = [phase |-> "Committed", committed |-> TRUE, resumed |-> s.resumed,
           branches |-> f, events |-> Append(s.events, event)]
  <2>1. u = [phase |-> s.phase, committed |-> s.committed, resumed |-> s.resumed,
             branches |-> s.branches, events |-> Append(s.events, event)]
    BY <1>1, RecordFields
  <2>2. t = [u EXCEPT !.phase = "Committed", !.committed = TRUE,
                      !.branches = [i \in DOMAIN u.branches |->
                            IF i = winner THEN [u.branches[i] EXCEPT !.status = "Committed"]
                            ELSE DiscardBranch(u.branches[i])]]
    BY DEF Committed
  <2> HIDE DEF u, t, event
  <2> QED BY <2>1, <2>2
<1>3. /\ DOMAIN f = DOMAIN s.branches /\ f = [j \in DOMAIN s.branches |-> f[j]]
      /\ \A j \in DOMAIN s.branches : WellFormed(f[j]) /\ f[j].reads = s.branches[j].reads
  BY DiscardBranchFormed, StatusFormed DEF SessionInv
<1> HIDE DEF f, t, event
<1>4. /\ "Committed" \in Phases /\ TRUE \in BOOLEAN /\ s.resumed \in BOOLEAN
      /\ event.type # "CREATE_BRANCH"
  BY <1>1 DEF SessionRecord, Phases
<1>5. SessionInv(t) /\ Len(t.branches) = Len(s.branches)
  BY <1>1, <1>2, <1>3, <1>4, BranchesReplaced
<1> QED BY <1>5 DEF t
\* A branch that is resumed runs again.
LEMMA ResumedContinues ==
    ASSUME NEW s, SessionInv(s), NEW i, Found(s, i)
    PROVE  Continues(s, Resumed(s, i))
<1> DEFINE f == [j \in DOMAIN s.branches |->
                    IF j = i THEN [s.branches[j] EXCEPT !.status = "Running"] ELSE s.branches[j]]
           t == Resumed(s, i)
           event == Event("SUBMIT_TASK", 0)
<1>1. s \in SessionRecord /\ i \in DOMAIN s.branches
      /\ s.committed \in BOOLEAN /\ s.resumed \in BOOLEAN /\ "Running" \in Phases
  BY DEF SessionInv, Found, SessionRecord, Phases
<1>2. t = [phase |-> "Running", committed |-> s.committed, resumed |-> s.resumed,
           branches |-> f, events |-> s.events]
  <2>1. s = [phase |-> s.phase, committed |-> s.committed, resumed |-> s.resumed,
             branches |-> s.branches, events |-> s.events]
    BY <1>1 DEF SessionRecord
  <2>2. t = [s EXCEPT !.phase = "Running", !.branches[i].status = "Running"]
    BY DEF Resumed
  <2>3. [s.branches EXCEPT ![i].status = "Running"] = f
    BY <1>1
  <2>4. t.branches = [s.branches EXCEPT ![i].status = "Running"]
    BY <2>1, <2>2
  <2> HIDE DEF t, f
  <2> QED BY <2>1, <2>2, <2>3, <2>4
<1>3. /\ DOMAIN f = DOMAIN s.branches /\ f = [j \in DOMAIN s.branches |-> f[j]]
      /\ \A j \in DOMAIN s.branches : WellFormed(f[j]) /\ f[j].reads = s.branches[j].reads
  BY StatusFormed DEF SessionInv
<1>4. event \in EventRecord /\ event.type # "CREATE_BRANCH"
  BY PlainEventType DEF Event
<1> HIDE DEF f, t, event
<1>5. SessionInv(t) /\ Len(t.branches) = Len(s.branches)
  BY <1>1, <1>2, <1>3, <1>4, BranchesReplaced
<1>6. SaysCommitted(t) => SaysCommitted(s)
  BY <1>2 DEF SaysCommitted
<1> QED BY <1>5, <1>6 DEF Continues, t

\* The rollback of a resumption.
LEMMA RolledBackContinues ==
    ASSUME NEW s, SessionInv(s), NEW i, NEW id, FindSavepoint(s, i, id)
    PROVE  LET t == [s EXCEPT !.branches[i] = RollbackToSavepoint(@, id), !.resumed = TRUE]
           IN  Continues(s, t) /\ Found(t, i)
<1> DEFINE f == [j \in DOMAIN s.branches |->
                    IF j = i THEN RollbackToSavepoint(s.branches[j], id) ELSE s.branches[j]]
           t == [s EXCEPT !.branches[i] = RollbackToSavepoint(@, id), !.resumed = TRUE]
           event == Event("SUBMIT_TASK", 0)
<1>1. s \in SessionRecord /\ i \in DOMAIN s.branches /\ HasSavepoint(s.branches[i], id)
      /\ s.committed \in BOOLEAN /\ s.phase \in Phases /\ TRUE \in BOOLEAN
  BY DEF SessionInv, FindSavepoint, Found, SessionRecord, Phases
<1>2. t = [phase |-> s.phase, committed |-> s.committed, resumed |-> TRUE,
           branches |-> f, events |-> s.events]
  <2>1. s = [phase |-> s.phase, committed |-> s.committed, resumed |-> s.resumed,
             branches |-> s.branches, events |-> s.events]
    BY <1>1 DEF SessionRecord
  <2>2. [s.branches EXCEPT ![i] = RollbackToSavepoint(s.branches[i], id)] = f
    BY <1>1
  <2>3. t.branches = [s.branches EXCEPT ![i] = RollbackToSavepoint(s.branches[i], id)]
    BY <2>1
  <2>4. t = [s EXCEPT !.branches[i] = RollbackToSavepoint(s.branches[i], id), !.resumed = TRUE]
    OBVIOUS
  <2> HIDE DEF f, t
  <2> QED BY <2>1, <2>2, <2>3, <2>4
<1>3. /\ DOMAIN f = DOMAIN s.branches /\ f = [j \in DOMAIN s.branches |-> f[j]]
      /\ \A j \in DOMAIN s.branches : WellFormed(f[j]) /\ f[j].reads = s.branches[j].reads
  BY <1>1, RollbackFormed DEF SessionInv
<1>4. event \in EventRecord /\ event.type # "CREATE_BRANCH"
  BY PlainEventType DEF Event
<1> HIDE DEF f, t, event
<1>5. SessionInv(t) /\ Len(t.branches) = Len(s.branches)
  BY <1>1, <1>2, <1>3, <1>4, BranchesReplaced
<1>6. (SaysCommitted(t) => SaysCommitted(s)) /\ Found(t, i)
  BY <1>1, <1>2, <1>3 DEF SaysCommitted, Found
<1> QED BY <1>5, <1>6 DEF Continues, t

\* A new task: its plan, and nothing else.
LEMMA SubmitTaskInv ==
    ASSUME NEW count \in BranchIds
    PROVE  LET s == SubmitTask(count)
           IN  /\ SessionInv(s) /\ Len(s.branches) = count /\ ~SaysCommitted(s)
               /\ \A i \in DOMAIN s.branches : s.branches[i].reads = <<>>
<1> DEFINE s == SubmitTask(count)
           branches == [i \in 1 .. count |-> CreateBranch]
           plan == [i \in 1 .. count |-> Event("CREATE_BRANCH", i)]
           first == <<Event("SUBMIT_TASK", 0)>>
           events == first \o plan
<1>1. count \in Nat \ {0} /\ count <= BranchCount
  BY PlanAssumption DEF BranchIds
<1>2. branches \in Seq(BranchContext) /\ Len(branches) = count /\ DOMAIN branches = 1 .. count
  <2>1. branches \in [1 .. count -> BranchContext]
    BY CreateBranchType
  <2> QED BY <1>1, <2>1, FunctionIsSeq
<1>3. plan \in Seq(EventRecord) /\ Len(plan) = count /\ DOMAIN plan = 1 .. count
  <2>1. \A i \in 1 .. count : Event("CREATE_BRANCH", i) \in EventRecord
    BY <1>1, PlainEventType
  <2>2. plan \in [1 .. count -> EventRecord]
    BY <2>1
  <2> HIDE DEF plan
  <2> QED BY <1>1, <2>2, FunctionIsSeq
<1>4. first \in Seq(EventRecord) /\ Len(first) = 1 /\ first[1] = Event("SUBMIT_TASK", 0)
  BY PlainEventType
<1>5. \A i \in 1 .. count : plan[i] = Event("CREATE_BRANCH", i)
  OBVIOUS
<1> HIDE DEF plan, first
<1>6. /\ events \in Seq(EventRecord) /\ DOMAIN events = 1 .. (count + 1)
      /\ events[1] = Event("SUBMIT_TASK", 0)
      /\ \A n \in 2 .. (count + 1) : events[n] = Event("CREATE_BRANCH", n - 1)
  <2>0. /\ events \in Seq(EventRecord) /\ Len(events) = Len(first) + Len(plan)
        /\ \A n \in 1 .. Len(first) : events[n] = first[n]
        /\ \A n \in 1 .. Len(plan) : events[Len(first) + n] = plan[n]
    <3>1. first \in Seq(EventRecord) /\ plan \in Seq(EventRecord)
      BY <1>3, <1>4
    <3>2. events \in Seq(EventRecord) /\ Len(events) = Len(first) + Len(plan)
      BY <3>1
    <3>3. \A n \in 1 .. Len(first) : events[n] = first[n]
      BY <3>1
    <3>4. \A n \in 1 .. Len(plan) : events[Len(first) + n] = plan[n]
      BY <3>1
    <3> QED BY <3>2, <3>3, <3>4
  <2> HIDE DEF events
  <2>1. events \in Seq(EventRecord) /\ Len(events) = count + 1
    BY <1>1, <1>3, <1>4, <2>0
  <2>2. DOMAIN events = 1 .. (count + 1)
    BY <1>1, <2>1
  <2>3. events[1] = first[1]
    BY <1>4, <2>0
  <2>4. \A n \in 2 .. (count + 1) : events[n] = plan[n - 1] /\ n - 1 \in 1 .. count
    <3> SUFFICES ASSUME NEW n \in 2 .. (count + 1)
                 PROVE  events[n] = plan[n - 1] /\ n - 1 \in 1 .. count
      OBVIOUS
    <3>1. n - 1 \in 1 .. count /\ 1 + (n - 1) = n
      BY <1>1
    <3> QED BY <1>3, <1>4, <2>0, <3>1
  <2> QED BY <1>4, <1>5, <2>1, <2>2, <2>3, <2>4
<1>7. s = [phase |-> "Running", committed |-> FALSE, resumed |-> FALSE,
           branches |-> branches, events |-> events]
  BY DEF SubmitTask, plan, first
<1> HIDE DEF events, s
<1>8. Plans(events, count)
  <2>1. \A n \in 1 .. (count + 1) : n = 1 \/ n \in 2 .. (count + 1)
    BY <1>1
  <2>2. 2 .. (count + 1) \subseteq 1 .. (count + 1) /\ 1 \notin 2 .. (count + 1)
    BY <1>1
  <2>3. events[1].type # "CREATE_BRANCH"
    BY <1>6 DEF Event
  <2>4. \A n \in 2 .. (count + 1) : events[n].type = "CREATE_BRANCH" /\ events[n].branch = n - 1
    <3>1. \A n : Event("CREATE_BRANCH", n).type = "CREATE_BRANCH"
                /\ Event("CREATE_BRANCH", n).branch = n
      BY DEF Event
    <3> QED BY <1>6, <3>1
  <2>5. \A n \in 2 .. (count + 1) : n - 1 # 0
    BY <1>1
  <2> QED BY <1>6, <2>1, <2>2, <2>3, <2>4, <2>5 DEF Plans
<1>9. \A i \in DOMAIN branches : branches[i] = CreateBranch
  OBVIOUS
<1> HIDE DEF branches
<1>10. s \in SessionRecord
  BY <1>2, <1>6, <1>7 DEF SessionRecord, Phases
<1>11. SessionInv(s)
  <2>1. s.branches = branches /\ s.events = events
    BY <1>7
  <2>2. ReadsLogged(branches, events)
    <3>1. DOMAIN CreateBranch.reads = {}
      BY DEF CreateBranch
    <3> QED BY <1>9, <3>1 DEF ReadsLogged
  <2> QED BY <1>1, <1>2, <1>8, <1>9, <1>10, <2>1, <2>2, CreateBranchFormed DEF SessionInv
<1>12. ~SaysCommitted(s)
  <2>1. \A n \in DOMAIN events : events[n].type # "COMMIT_TASK"
    <3>1. \A n \in 1 .. (count + 1) : n = 1 \/ n \in 2 .. (count + 1)
      BY <1>1
    <3>2. /\ \A n : Event("CREATE_BRANCH", n).type # "COMMIT_TASK"
          /\ Event("SUBMIT_TASK", 0).type # "COMMIT_TASK"
      BY DEF Event
    <3> QED BY <1>6, <3>1, <3>2
  <2> QED BY <1>7, <2>1 DEF SaysCommitted
<1>13. \A i \in DOMAIN s.branches : s.branches[i].reads = <<>>
  BY <1>7, <1>9 DEF CreateBranch
<1>14. Len(s.branches) = count
  BY <1>2, <1>7
<1> QED BY <1>11, <1>12, <1>13, <1>14 DEF s
--------------------------------------------------------------------------------
(* The commit.                                                               *)

\* The loop over the buffered objects, for the first m of them.
Writing(b, m, f) == f = [n \in 0 .. m |-> IF n = 0 THEN <<>> ELSE AddWrite(f[n - 1], b, b.order[n])]

\* The loop can be run over any number of objects.
LEMMA WritingExists ==
    ASSUME NEW b, NEW m \in Nat
    PROVE  \E f : Writing(b, m, f)
<1> DEFINE S == {n \in 0 .. m : ~\E f : Writing(b, n, f)}
<1>1. SUFFICES ASSUME S # {} PROVE FALSE
  OBVIOUS
<1>2. PICK n \in S : \A j \in S : n <= j
  <2> HIDE DEF S
  <2>1. S \in SUBSET (0 .. m)
    BY DEF S
  <2> QED BY <1>1, <2>1, LeastIndex
<1>3. CASE n = 0
  <2> DEFINE f == [i \in 0 .. 0 |-> <<>>]
  <2>1. Writing(b, 0, f)
    BY DEF Writing
  <2> QED BY <1>2, <1>3, <2>1
<1>4. CASE n # 0
  <2>1. n \in Nat /\ n - 1 \in 0 .. m /\ n - 1 \notin S
    BY <1>2, <1>4
  <2>2. PICK g : Writing(b, n - 1, g)
    BY <2>1
  <2> DEFINE f == [i \in 0 .. n |-> IF i = n THEN AddWrite(g[n - 1], b, b.order[n]) ELSE g[i]]
  <2>3. \A i \in 0 .. (n - 1) :
            f[i] = g[i] /\ g[i] = IF i = 0 THEN <<>> ELSE AddWrite(g[i - 1], b, b.order[i])
    <3> SUFFICES ASSUME NEW i \in 0 .. (n - 1)
                 PROVE  f[i] = g[i] /\ g[i] = IF i = 0 THEN <<>> ELSE AddWrite(g[i - 1], b, b.order[i])
      OBVIOUS
    <3>1. i \in 0 .. n /\ i # n
      BY <2>1
    <3>2. f[i] = g[i]
      BY <3>1
    <3>3. g[i] = IF i = 0 THEN <<>> ELSE AddWrite(g[i - 1], b, b.order[i])
      <4> HIDE DEF f
      <4> QED BY <2>2 DEF Writing
    <3> QED BY <3>2, <3>3
  <2>4. f[n] = AddWrite(f[n - 1], b, b.order[n])
    <3>1. n \in 0 .. n /\ f[n] = AddWrite(g[n - 1], b, b.order[n])
      BY <2>1
    <3>2. n - 1 \in 0 .. (n - 1)
      BY <2>1, <1>4
    <3> HIDE DEF f
    <3> QED BY <2>3, <3>1, <3>2
  <2>5. \A i \in 0 .. n : f[i] = IF i = 0 THEN <<>> ELSE AddWrite(f[i - 1], b, b.order[i])
    <3> SUFFICES ASSUME NEW i \in 0 .. n
                 PROVE  f[i] = IF i = 0 THEN <<>> ELSE AddWrite(f[i - 1], b, b.order[i])
      OBVIOUS
    <3>1. CASE i = n
      BY <1>4, <2>4, <3>1
    <3>2. CASE i # n
      <4>1. i \in 0 .. (n - 1) /\ (i # 0 => i - 1 \in 0 .. (n - 1))
        BY <2>1, <3>2
      <4> HIDE DEF f
      <4> QED BY <2>3, <4>1
    <3> QED BY <3>1, <3>2
  <2>6. Writing(b, n, f)
    <3>1. f = [i \in 0 .. n |-> f[i]]
      OBVIOUS
    <3> HIDE DEF f
    <3> QED BY <2>5, <3>1 DEF Writing
  <2> QED BY <1>2, <2>6
<1> QED BY <1>3, <1>4

\* A commit that is accepted writes values to keys.
LEMMA WritesOfType ==
    ASSUME NEW b, WellFormed(b), store \in Store, CommitAccepted(b)
    PROVE  WritesOf(b) \in Seq(WriteOp)
<1> DEFINE m == Len(b.order)
<1>1. b \in BranchContext /\ b.order \in Seq(Key) /\ m \in Nat /\ DOMAIN b.order = 1 .. m
  BY BranchFields DEF WellFormed
<1>3. \E g : Writing(b, m, g)
  <2> HIDE DEF m
  <2> QED BY <1>1, WritingExists
<1>4. Writing(b, m, CHOOSE g : Writing(b, m, g))
  BY <1>3
<1>5. WritesOf(b) = (CHOOSE g : Writing(b, m, g))[m]
  BY DEF WritesOf, Writing
<1>6. PICK g : Writing(b, m, g) /\ WritesOf(b) = g[m]
  BY <1>4, <1>5
<1>7. ASSUME NEW writes \in Seq(WriteOp), NEW n \in 1 .. m
      PROVE  AddWrite(writes, b, b.order[n]) \in Seq(WriteOp)
  <2> DEFINE k == b.order[n]
  <2>1. k \in Key /\ k \in DOMAIN b.entries
    BY <1>1 DEF WellFormed, BufferOrdered
  <2>2. b.entries[k] \in CacheEntry
    BY <1>1, <2>1, BranchFields
  <2>3. LatestIntent(b, k) \in WriteIntent
    BY <1>1, <2>1, LatestIntentType DEF CommitAccepted
  <2>4. store[k].value \in Value
    BY <2>1 DEF Store, VersionedValue
  <2>5. Resolution(b, k).value \in Value
    BY <2>2, <2>3, <2>4, ResolveWriteType DEF Resolution
  <2> HIDE DEF k
  <2>6. [key |-> k, value |-> Resolution(b, k).value] \in WriteOp
    BY <2>1, <2>5 DEF WriteOp
  <2>7. Append(writes, [key |-> k, value |-> Resolution(b, k).value]) \in Seq(WriteOp)
    BY <2>6
  <2> QED BY <2>7 DEF AddWrite, k
<1> DEFINE S == {n \in 0 .. m : g[n] \notin Seq(WriteOp)}
<1>8. ASSUME S # {} PROVE FALSE
  <2>1. PICK n \in S : \A j \in S : n <= j
    <3>1. S \in SUBSET (0 .. m)
      OBVIOUS
    <3> HIDE DEF S
    <3> QED BY <1>1, <1>8, <3>1, LeastIndex
  <2>2. g[0] = <<>> /\ \A i \in 1 .. m : g[i] = AddWrite(g[i - 1], b, b.order[i])
    BY <1>1, <1>6 DEF Writing
  <2>3. n # 0
    <3>1. <<>> \in Seq(WriteOp)
      OBVIOUS
    <3> QED BY <2>1, <2>2, <3>1
  <2>4. n \in 1 .. m /\ n - 1 \in 0 .. m /\ n - 1 \notin S
    BY <1>1, <2>1, <2>3
  <2>5. g[n - 1] \in Seq(WriteOp)
    BY <2>4
  <2>6. g[n] \in Seq(WriteOp)
    BY <1>7, <2>2, <2>4, <2>5
  <2> QED BY <2>1, <2>6
<1> QED BY <1>1, <1>6, <1>8

\* CommitTask: the store stays a store, the session keeps its plan, and it
\* says that the task is committed only when the commit reached the store.
LEMMA CommitOfKeeps ==
    ASSUME NEW s, SessionInv(s), s.branches # <<>>, store \in Store, commits \in Nat,
           SaysCommitted(s) => commits > 0, CommitOf(s)
    PROVE  /\ store' \in Store /\ SessionInv(session') /\ session'.branches # <<>>
           /\ commits' \in Nat /\ commits' >= commits
           /\ SaysCommitted(session') => commits' > 0
<1> DEFINE winner == SelectWinner(s.branches)
           b == s.branches[winner]
           n == Len(s.branches)
<1>1. s.branches \in Seq(BranchContext) /\ n \in Nat \ {0} /\ DOMAIN s.branches = 1 .. n
  BY DEF SessionInv, SessionRecord
<1>2. winner \in 1 .. n /\ winner \in Nat
  <2>1. s.branches \in [1 .. n -> BranchContext]
    BY <1>1
  <2>2. SelectWinner(s.branches) \in 1 .. n
    <3> HIDE DEF n
    <3> QED BY <1>1, <2>1, SelectWinnerType
  <2> QED BY <1>1, <2>2
<1>3. WellFormed(b)
  BY <1>1, <1>2 DEF SessionInv
<1>4. Continues(s, Attempted(s))
  BY AttemptedContinues
<1>5. CASE /\ CommitAccepted(b)
           /\ store' = BatchPut(store, WritesOf(b))
           /\ session' = Committed(Attempted(s), winner)
           /\ commits' = commits + 1
  <2>1. store' \in Store
    BY <1>3, <1>5, WritesOfType, BatchPutType
  <2>2. SessionInv(session') /\ Len(session'.branches) = n
    BY <1>2, <1>4, <1>5, CommittedKeeps DEF Continues
  <2>3. session'.branches # <<>>
    BY <1>1, <2>2
  <2> QED BY <1>5, <2>1, <2>2, <2>3
<1>6. CASE /\ ~CommitAccepted(b)
           /\ session' = Aborted(Attempted(s), Event("ABORT_TASK", winner))
           /\ UNCHANGED <<store, commits>>
  <2>1. Continues(Attempted(s), session')
    BY <1>2, <1>4, <1>6, AbortedContinues DEF Continues
  <2>2. SessionInv(session') /\ Len(session'.branches) = n
        /\ (SaysCommitted(session') => SaysCommitted(s))
    BY <1>4, <2>1 DEF Continues
  <2>3. session'.branches # <<>>
    BY <1>1, <2>2
  <2> QED BY <1>6, <2>2, <2>3
<1> QED BY <1>5, <1>6 DEF CommitOf
--------------------------------------------------------------------------------
(* The replay.                                                               *)

\* A readable log has a plan.
LEMMA PlannedType ==
    ASSUME NEW m \in BranchIds, Plans(log.events, m)
    PROVE  PlannedBranches = m
<1>1. m \in Nat /\ 2 \in Int /\ m + 1 \in Int
  BY PlanAssumption DEF BranchIds
<1>2. Cardinality(2 .. (m + 1)) = m
  <2>1. Cardinality(2 .. (m + 1)) = IF 2 > m + 1 THEN 0 ELSE (m + 1) - 2 + 1
    BY <1>1, FS_Interval
  <2> QED BY <1>1, <2>1
<1> QED BY <1>2 DEF Plans, PlannedBranches

\* The plan of a readable log.
LEMMA PlanOfLog ==
    ASSUME LogInv, log.readable
    PROVE  /\ PlannedBranches \in BranchIds /\ PlannedBranches \in Nat \ {0}
           /\ Plans(log.events, PlannedBranches)
           /\ log.events \in Seq(EventRecord) /\ log.events # <<>>
<1>1. PICK m \in BranchIds : Plans(log.events, m)
  BY DEF LogInv
<1>2. PlannedBranches = m
  BY <1>1, PlannedType
<1> QED BY <1>1, <1>2, PlanAssumption DEF BranchIds, LogInv, LogRecord

\* The elements of a sequence, and one more.
LEMMA AppendIndex ==
    ASSUME NEW S, NEW s \in Seq(S), NEW x
    PROVE  /\ \A m \in DOMAIN s : m \in DOMAIN Append(s, x) /\ Append(s, x)[m] = s[m]
           /\ \A m \in DOMAIN Append(s, x) :
                \/ m \in DOMAIN s /\ Append(s, x)[m] = s[m]
                \/ Append(s, x)[m] = x
OBVIOUS

\* One event replayed on its branch.
LEMMA ReplayOnFormed ==
    ASSUME NEW b, WellFormed(b), NEW e \in EventRecord, NEW s \in Store
    PROVE  /\ WellFormed(ReplayOn(b, e, s))
           /\ ReplayOn(b, e, s).reads = IF e.type = "READ" THEN Append(b.reads, RecoveredRead(e))
                                     ELSE b.reads
<1>1. CASE e.type = "READ"
  <2> DEFINE reads == Append(b.reads, RecoveredRead(e))
             c == [b EXCEPT !.status = "Running", !.reads = reads]
  <2>1. ReplayOn(b, e, s) = c
    BY <1>1 DEF ReplayOn
  <2>2. b \in BranchContext
    BY DEF WellFormed
  <2>3. reads \in Seq(ReadRecord)
    <3>1. b.reads \in Seq(ReadRecord) /\ RecoveredRead(e) \in ReadRecord
      BY <1>1, <2>2, BranchFields, RecoveredType
    <3> QED BY <3>1
  <2> HIDE DEF reads
  <2>4. /\ c \in BranchContext /\ c.reads = reads
        /\ c.entries = b.entries /\ c.order = b.order /\ c.changes = b.changes
        /\ c.intents = b.intents /\ c.savepoints = b.savepoints
    BY <2>2, <2>3 DEF BranchContext
  <2> HIDE DEF c
  <2> QED BY <1>1, <2>1, <2>4 DEF WellFormed, BufferOrdered, PositionsInv, reads
<1>2. CASE e.type = "WRITE"
  <2>1. ReplayOn(b, e, s) = BufferWrite(b, RecoveredIntent(e), s)
    BY <1>2 DEF ReplayOn
  <2> QED BY <1>2, <2>1, RecoveredType, BufferWriteFormed
<1>3. CASE e.type = "SAVEPOINT"
  <2>1. ReplayOn(b, e, s) = CreateSavepoint(b, e.id)
    BY <1>3 DEF ReplayOn
  <2>2. e.id \in SavepointId
    BY <1>3, EventFields DEF SavepointEvents
  <2> QED BY <1>3, <2>1, <2>2, CreateSavepointFormed
<1>4. CASE e.type = "ROLLBACK_TO_SAVEPOINT"
  <2>1. ReplayOn(b, e, s) = IF HasSavepoint(b, e.id) THEN RollbackToSavepoint(b, e.id) ELSE b
    BY <1>4 DEF ReplayOn
  <2> QED BY <1>4, <2>1, RollbackFormed
<1>5. CASE e.type = "STAGE_BRANCH"
  <2>1. ReplayOn(b, e, s) = StageBranch(b, e.score)
    BY <1>5 DEF ReplayOn
  <2>2. e.score \in Int
    BY <1>5, EventFields DEF StageEvents
  <2> QED BY <1>5, <2>1, <2>2, StageBranchFormed
<1>6. CASE e.type \notin {"READ", "WRITE", "SAVEPOINT", "ROLLBACK_TO_SAVEPOINT", "STAGE_BRANCH"}
  BY <1>6 DEF ReplayOn
<1> QED BY <1>1, <1>2, <1>3, <1>4, <1>5, <1>6

\* The p branches of the plan after n events: what they read is in the log,
\* and what these events read is among it.
Rebuilding(branches, p, n) ==
    /\ branches \in [1 .. p -> BranchContext]
    /\ \A i \in 1 .. p : WellFormed(branches[i])
    /\ \A i \in 1 .. p : \A m \in DOMAIN branches[i].reads :
            ReadLogged(log.events, i, branches[i].reads[m])
    /\ \A k \in 1 .. n :
            (log.events[k].type = "READ" /\ log.events[k].branch \in 1 .. p) =>
                \E m \in DOMAIN branches[log.events[k].branch].reads :
                    branches[log.events[k].branch].reads[m] = RecoveredRead(log.events[k])

\* One more event.
LEMMA ReplayEventRebuilds ==
    ASSUME log.events \in Seq(EventRecord), store \in Store,
           NEW p \in Nat, NEW n \in DOMAIN log.events, NEW branches,
           Rebuilding(branches, p, n - 1)
    PROVE  Rebuilding(ReplayEvent(branches, log.events[n], store), p, n)
<1> DEFINE e == log.events[n]
           after == ReplayEvent(branches, e, store)
<1>1. e \in EventRecord /\ n \in Nat \ {0} /\ DOMAIN branches = 1 .. p
  BY DEF Rebuilding
<1>2. after = [i \in 1 .. p |-> IF i = e.branch THEN ReplayOn(branches[i], e, store) ELSE branches[i]]
  BY <1>1 DEF ReplayEvent
<1>3. ASSUME NEW i \in 1 .. p
      PROVE  /\ WellFormed(after[i]) /\ branches[i].reads \in Seq(ReadRecord)
             /\ after[i].reads = IF e.type = "READ" /\ e.branch = i
                                 THEN Append(branches[i].reads, RecoveredRead(e))
                                 ELSE branches[i].reads
  <2>1. WellFormed(branches[i]) /\ branches[i].reads \in Seq(ReadRecord)
    BY BranchFields DEF Rebuilding, WellFormed
  <2>2. CASE i = e.branch
    <3>1. after[i] = ReplayOn(branches[i], e, store)
      BY <1>2, <2>2
    <3>2. /\ WellFormed(ReplayOn(branches[i], e, store))
          /\ ReplayOn(branches[i], e, store).reads =
                IF e.type = "READ" THEN Append(branches[i].reads, RecoveredRead(e))
                ELSE branches[i].reads
      <4> HIDE DEF e
      <4> QED BY <1>1, <2>1, ReplayOnFormed
    <3> HIDE DEF e, after
    <3> QED BY <2>1, <2>2, <3>1, <3>2
  <2>3. CASE i # e.branch
    <3>1. after[i] = branches[i]
      BY <1>2, <2>3
    <3> HIDE DEF e, after
    <3> QED BY <2>1, <2>3, <3>1
  <2> QED BY <2>2, <2>3
<1>4. after \in [1 .. p -> BranchContext]
  <2>1. \A i \in 1 .. p : after[i] \in BranchContext
    BY <1>3 DEF WellFormed
  <2> HIDE DEF e
  <2> QED BY <1>2, <2>1
<1> HIDE DEF after
<1>5. ASSUME NEW i \in 1 .. p, NEW m \in DOMAIN after[i].reads
      PROVE  ReadLogged(log.events, i, after[i].reads[m])
  <2>1. CASE e.type = "READ" /\ e.branch = i
    <3>1. \/ m \in DOMAIN branches[i].reads /\ after[i].reads[m] = branches[i].reads[m]
          \/ after[i].reads[m] = RecoveredRead(e)
      <4>1. branches[i].reads \in Seq(ReadRecord)
            /\ after[i].reads = Append(branches[i].reads, RecoveredRead(e))
        BY <1>3, <2>1
      <4>2. m \in DOMAIN Append(branches[i].reads, RecoveredRead(e))
        BY <4>1
      <4> HIDE DEF e
      <4> QED BY <4>1, <4>2, AppendIndex
    <3>2. ReadLogged(log.events, i, RecoveredRead(e))
      BY <2>1 DEF ReadLogged
    <3> QED BY <3>1, <3>2 DEF Rebuilding
  <2>2. CASE ~(e.type = "READ" /\ e.branch = i)
    <3>1. after[i].reads = branches[i].reads
      BY <1>3, <2>2
    <3> QED BY <1>5, <3>1 DEF Rebuilding
  <2> QED BY <2>1, <2>2
<1>6. ASSUME NEW k \in 1 .. n, log.events[k].type = "READ", log.events[k].branch \in 1 .. p
      PROVE  \E m \in DOMAIN after[log.events[k].branch].reads :
                after[log.events[k].branch].reads[m] = RecoveredRead(log.events[k])
  <2> DEFINE i == log.events[k].branch
             read == RecoveredRead(log.events[k])
  <2>1. CASE k = n
    <3>1. i = e.branch /\ e.type = "READ" /\ read = RecoveredRead(e)
      BY <1>6, <2>1
    <3> DEFINE last == Len(branches[i].reads) + 1
    <3>2. last \in DOMAIN after[i].reads /\ after[i].reads[last] = RecoveredRead(e)
      <4>1. i \in 1 .. p
        BY <1>6
      <4>2. branches[i].reads \in Seq(ReadRecord)
            /\ after[i].reads = Append(branches[i].reads, RecoveredRead(e))
        BY <1>3, <3>1, <4>1
      <4> HIDE DEF i, e, read
      <4> QED BY <4>2
    <3> QED BY <3>1, <3>2
  <2>2. CASE k # n
    <3>1. k \in 1 .. (n - 1)
      BY <1>1, <2>2
    <3>2. PICK m \in DOMAIN branches[i].reads : branches[i].reads[m] = read
      BY <1>6, <3>1 DEF Rebuilding
    <3>3. m \in DOMAIN after[i].reads /\ after[i].reads[m] = branches[i].reads[m]
      <4>1. i \in 1 .. p
        BY <1>6
      <4>2. branches[i].reads \in Seq(ReadRecord)
            /\ (\/ after[i].reads = Append(branches[i].reads, RecoveredRead(e))
                \/ after[i].reads = branches[i].reads)
        BY <1>3, <4>1
      <4>3. /\ m \in DOMAIN Append(branches[i].reads, RecoveredRead(e))
            /\ Append(branches[i].reads, RecoveredRead(e))[m] = branches[i].reads[m]
        <5> HIDE DEF i, e
        <5> QED BY <4>2, AppendIndex
      <4> HIDE DEF i, e, read
      <4> QED BY <4>2, <4>3
    <3> QED BY <3>2, <3>3
  <2> QED BY <2>1, <2>2
<1> QED BY <1>4, <1>3, <1>5, <1>6 DEF Rebuilding, after
\* The loop over the events, for the first m of them.
Replaying(events, count, s, m, f) ==
    f = [n \in 0 .. m |-> IF n = 0 THEN SubmitTask(count).branches
                          ELSE ReplayEvent(f[n - 1], events[n], s)]

\* The loop can be run over any number of events.
LEMMA ReplayingExists ==
    ASSUME NEW events, NEW count, NEW s, NEW m \in Nat
    PROVE  \E f : Replaying(events, count, s, m, f)
<1> DEFINE first == SubmitTask(count).branches
           S == {n \in 0 .. m : ~\E f : Replaying(events, count, s, n, f)}
<1>1. SUFFICES ASSUME S # {} PROVE FALSE
  OBVIOUS
<1>2. PICK n \in S : \A j \in S : n <= j
  <2> HIDE DEF S
  <2>1. S \in SUBSET (0 .. m)
    BY DEF S
  <2> QED BY <1>1, <2>1, LeastIndex
<1>3. CASE n = 0
  <2> DEFINE f == [i \in 0 .. 0 |-> first]
  <2>1. Replaying(events, count, s, 0, f)
    BY DEF Replaying
  <2> QED BY <1>2, <1>3, <2>1
<1>4. CASE n # 0
  <2>1. n \in Nat /\ n - 1 \in 0 .. m /\ n - 1 \notin S
    BY <1>2, <1>4
  <2>2. PICK g : Replaying(events, count, s, n - 1, g)
    BY <2>1
  <2> HIDE DEF first
  <2> DEFINE f == [i \in 0 .. n |-> IF i = n THEN ReplayEvent(g[n - 1], events[n], s) ELSE g[i]]
  <2>3. \A i \in 0 .. (n - 1) :
            f[i] = g[i] /\ g[i] = IF i = 0 THEN first ELSE ReplayEvent(g[i - 1], events[i], s)
    <3> SUFFICES ASSUME NEW i \in 0 .. (n - 1)
                 PROVE  f[i] = g[i] /\ g[i] = IF i = 0 THEN first ELSE ReplayEvent(g[i - 1], events[i], s)
      OBVIOUS
    <3>1. i \in 0 .. n /\ i # n
      BY <2>1
    <3>2. f[i] = g[i]
      BY <3>1
    <3>3. g[i] = IF i = 0 THEN first ELSE ReplayEvent(g[i - 1], events[i], s)
      <4> HIDE DEF f
      <4> QED BY <2>2 DEF Replaying, first
    <3> QED BY <3>2, <3>3
  <2>4. f[n] = ReplayEvent(f[n - 1], events[n], s)
    <3>1. n \in 0 .. n /\ f[n] = ReplayEvent(g[n - 1], events[n], s)
      BY <2>1
    <3>2. n - 1 \in 0 .. (n - 1)
      BY <2>1, <1>4
    <3> HIDE DEF f
    <3> QED BY <2>3, <3>1, <3>2
  <2>5. \A i \in 0 .. n : f[i] = IF i = 0 THEN first ELSE ReplayEvent(f[i - 1], events[i], s)
    <3> SUFFICES ASSUME NEW i \in 0 .. n
                 PROVE  f[i] = IF i = 0 THEN first ELSE ReplayEvent(f[i - 1], events[i], s)
      OBVIOUS
    <3>1. CASE i = n
      BY <1>4, <2>4, <3>1
    <3>2. CASE i # n
      <4>1. i \in 0 .. (n - 1) /\ (i # 0 => i - 1 \in 0 .. (n - 1))
        BY <2>1, <3>2
      <4> HIDE DEF f
      <4> QED BY <2>3, <4>1
    <3> QED BY <3>1, <3>2
  <2>6. Replaying(events, count, s, n, f)
    <3>1. f = [i \in 0 .. n |-> f[i]]
      OBVIOUS
    <3> HIDE DEF f
    <3> QED BY <2>5, <3>1 DEF Replaying, first
  <2> QED BY <1>2, <2>6
<1> QED BY <1>3, <1>4

\* The replay is what the loop comes to after the last event.
LEMMA ReplayedUnroll ==
    ASSUME NEW events \in Seq(EventRecord), NEW count, NEW s
    PROVE  \E g : /\ g[0] = SubmitTask(count).branches
                  /\ \A n \in DOMAIN events : g[n] = ReplayEvent(g[n - 1], events[n], s)
                  /\ Replayed(events, count, s) = g[Len(events)]
<1> DEFINE m == Len(events)
<1>1. m \in Nat /\ DOMAIN events = 1 .. m
  OBVIOUS
<1>2. \E g : Replaying(events, count, s, m, g)
  <2> HIDE DEF m
  <2> QED BY <1>1, ReplayingExists
<1>3. Replaying(events, count, s, m, CHOOSE g : Replaying(events, count, s, m, g))
  BY <1>2
<1>4. Replayed(events, count, s) = (CHOOSE g : Replaying(events, count, s, m, g))[m]
  BY DEF Replayed, Replaying
<1>5. PICK g : Replaying(events, count, s, m, g) /\ Replayed(events, count, s) = g[m]
  BY <1>3, <1>4
<1>6. g[0] = SubmitTask(count).branches
      /\ \A n \in DOMAIN events : g[n] = ReplayEvent(g[n - 1], events[n], s)
  <2>1. g = [n \in 0 .. m |-> IF n = 0 THEN SubmitTask(count).branches
                              ELSE ReplayEvent(g[n - 1], events[n], s)]
    BY <1>5 DEF Replaying
  <2>2. 0 \in 0 .. m /\ \A n \in 1 .. m : n \in 0 .. m /\ n # 0
    BY <1>1
  <2> HIDE DEF m
  <2> QED BY <1>1, <2>1, <2>2
<1> QED BY <1>5, <1>6

\* The replay rebuilds the branches: their reads are those of the log.
LEMMA ReplayedRebuilds ==
    ASSUME LogInv, log.readable, store \in Store
    PROVE  Rebuilding(Replayed(log.events, PlannedBranches, store), PlannedBranches,
                      Len(log.events))
<1> DEFINE p == PlannedBranches
           m == Len(log.events)
<1>1. p \in BranchIds /\ p \in Nat /\ log.events \in Seq(EventRecord) /\ m \in Nat
      /\ DOMAIN log.events = 1 .. m
  BY PlanOfLog
<1>5. PICK g : /\ g[0] = SubmitTask(p).branches
               /\ \A n \in DOMAIN log.events : g[n] = ReplayEvent(g[n - 1], log.events[n], store)
               /\ Replayed(log.events, p, store) = g[m]
  <2> HIDE DEF p
  <2> QED BY <1>1, ReplayedUnroll
<1>6. \A n \in 1 .. m : g[n] = ReplayEvent(g[n - 1], log.events[n], store)
  BY <1>1, <1>5
<1>7. Rebuilding(g[0], p, 0)
  <2> DEFINE s == SubmitTask(p)
  <2>1. /\ SessionInv(s) /\ Len(s.branches) = p
        /\ \A i \in DOMAIN s.branches : s.branches[i].reads = <<>>
    <3> HIDE DEF p
    <3> QED BY <1>1, SubmitTaskInv
  <2> HIDE DEF s, p
  <2>2. s.branches \in Seq(BranchContext)
    BY <2>1 DEF SessionInv, SessionRecord
  <2>3. s.branches \in [1 .. p -> BranchContext] /\ DOMAIN s.branches = 1 .. p
    BY <1>1, <2>1, <2>2
  <2>4. \A i \in 1 .. p : WellFormed(s.branches[i]) /\ s.branches[i].reads = <<>>
    BY <2>1, <2>3 DEF SessionInv
  <2>5. 1 .. 0 = {} /\ DOMAIN <<>> = {}
    OBVIOUS
  <2> QED BY <1>5, <2>3, <2>4, <2>5 DEF Rebuilding, s
<1> DEFINE S == {n \in 0 .. m : ~Rebuilding(g[n], p, n)}
<1>8. ASSUME S # {} PROVE FALSE
  <2>1. PICK n \in S : \A j \in S : n <= j
    <3>1. S \in SUBSET (0 .. m)
      OBVIOUS
    <3> HIDE DEF S
    <3> QED BY <1>1, <1>8, <3>1, LeastIndex
  <2>2. n # 0
    BY <1>7, <2>1
  <2>3. n \in 1 .. m /\ n - 1 \in 0 .. m /\ n - 1 \notin S
    BY <1>1, <2>1, <2>2
  <2>4. Rebuilding(g[n - 1], p, n - 1)
    BY <2>3
  <2>5. Rebuilding(g[n], p, n)
    <3>1. n \in DOMAIN log.events
      BY <1>1, <2>3
    <3> HIDE DEF p, m, S
    <3> QED BY <1>1, <1>6, <2>3, <2>4, <3>1, ReplayEventRebuilds
  <2> QED BY <2>1, <2>5
<1>9. m \in 0 .. m
  BY <1>1
<1> QED BY <1>5, <1>8, <1>9

\* The session that a recovery builds.
LEMMA RebuiltInv ==
    ASSUME LogInv, log.readable, store \in Store
    PROVE  /\ SessionInv(RebuiltSession)
           /\ Len(RebuiltSession.branches) = PlannedBranches
           /\ RebuiltSession.branches # <<>>
           /\ ReadsKept(RebuiltSession.branches, log.events)
           /\ SaysCommitted(RebuiltSession) => SaysCommitted(log)
<1> DEFINE p == PlannedBranches
           s == RebuiltSession
           rebuilt == Replayed(log.events, p, store)
           status(i) == RecoveredStatus(i, rebuilt[i])
           branches == [i \in 1 .. p |-> [rebuilt[i] EXCEPT !.status = status(i)]]
<1>1. /\ p \in BranchIds /\ p \in Nat \ {0} /\ Plans(log.events, p)
      /\ log.events \in Seq(EventRecord)
  BY PlanOfLog
<1>2. Rebuilding(rebuilt, p, Len(log.events))
  BY ReplayedRebuilds
<1>3. \A i \in 1 .. p :
          status(i) \in {"Created", "Running", "Staged", "Winner", "Loser", "Committed",
                         "Aborted", "Discarded"}
  <2> TAKE i \in 1 .. p
  <2>1. rebuilt[i] \in BranchContext
    BY <1>2 DEF Rebuilding
  <2>2. rebuilt[i].status \in {"Created", "Running", "Staged", "Winner", "Loser", "Committed",
                                "Aborted", "Discarded"}
    BY <2>1 DEF BranchContext
  <2>3. RecoveredPhase \in {"Committed", "Aborted", "Running"}
    BY DEF RecoveredPhase
  <2> QED BY <2>2, <2>3 DEF RecoveredStatus
<1> HIDE DEF status
<1>4. \A i \in 1 .. p : WellFormed(branches[i]) /\ branches[i].reads = rebuilt[i].reads
  <2> TAKE i \in 1 .. p
  <2>1. WellFormed(rebuilt[i])
    BY <1>2 DEF Rebuilding
  <2>2. PICK new \in {"Created", "Running", "Staged", "Winner", "Loser", "Committed",
                     "Aborted", "Discarded"} : new = status(i)
    BY <1>3
  <2>3. branches[i] = [rebuilt[i] EXCEPT !.status = new]
    BY <2>2
  <2> HIDE DEF branches
  <2>4. WellFormed([rebuilt[i] EXCEPT !.status = new])
        /\ [rebuilt[i] EXCEPT !.status = new].reads = rebuilt[i].reads
    BY <2>1, StatusFormed
  <2> QED BY <2>3, <2>4
<1>5. s = [phase |-> RecoveredPhase, committed |-> log.committed, resumed |-> log.resumed,
           branches |-> branches, events |-> log.events]
  BY DEF RebuiltSession, status
<1>6. branches \in Seq(BranchContext) /\ Len(branches) = p /\ DOMAIN branches = 1 .. p
  <2>1. \A i \in 1 .. p : branches[i] \in BranchContext
    BY <1>4 DEF WellFormed
  <2>2. branches \in [1 .. p -> BranchContext]
    BY <2>1
  <2> HIDE DEF branches
  <2> QED BY <1>1, <2>2, FunctionIsSeq
<1> HIDE DEF branches, s, p, rebuilt
<1>7. s \in SessionRecord
  <2>1. RecoveredPhase \in Phases
    BY DEF RecoveredPhase, Phases
  <2>2. log.committed \in BOOLEAN /\ log.resumed \in BOOLEAN
    BY DEF LogInv, LogRecord
  <2> QED BY <1>1, <1>5, <1>6, <2>1, <2>2 DEF SessionRecord
<1>8. ReadsLogged(branches, log.events) /\ ReadsKept(branches, log.events)
  <2>1. ReadsLogged(branches, log.events)
    BY <1>2, <1>4, <1>6 DEF ReadsLogged, Rebuilding
  <2>2. DOMAIN log.events = 1 .. Len(log.events)
    BY <1>1
  <2>3. ReadsKept(branches, log.events)
    <3> SUFFICES ASSUME NEW n \in DOMAIN log.events, log.events[n].type = "READ",
                        log.events[n].branch \in DOMAIN branches
                 PROVE  \E m \in DOMAIN branches[log.events[n].branch].reads :
                            branches[log.events[n].branch].reads[m] = RecoveredRead(log.events[n])
      BY DEF ReadsKept
    <3>1. branches[log.events[n].branch].reads = rebuilt[log.events[n].branch].reads
      BY <1>4, <1>6
    <3> QED BY <1>2, <1>6, <2>2, <3>1 DEF Rebuilding
  <2> QED BY <2>1, <2>3
<1>9. SessionInv(s)
  <2>1. p <= BranchCount
    BY <1>1, PlanAssumption DEF BranchIds
  <2> QED BY <1>1, <1>4, <1>5, <1>6, <1>7, <1>8, <2>1 DEF SessionInv
<1>10. SaysCommitted(s) => SaysCommitted(log)
  BY <1>5 DEF SaysCommitted, RecoveredPhase
<1>11. s.branches # <<>>
  BY <1>1, <1>5, <1>6
<1> QED BY <1>5, <1>6, <1>8, <1>9, <1>10, <1>11 DEF s, p

\* The decision names a branch, and finds the task committed only if the log
\* says so.
LEMMA DecisionType ==
    ASSUME LogInv, log.readable
    PROVE  /\ Decision.branch \in Nat
           /\ Decision.command = "NOOP" => SaysCommitted(log)
<1>1. /\ log.events \in Seq(EventRecord) /\ log.events # <<>>
      /\ PlannedBranches \in Nat \ {0} /\ Plans(log.events, PlannedBranches)
  BY PlanOfLog
<1>2. Len(log.events) \in DOMAIN log.events /\ Final.branch \in Nat
  <2>1. Len(log.events) \in DOMAIN log.events
    BY <1>1
  <2>2. Final \in EventRecord
    BY <1>1, <2>1 DEF Final
  <2> QED BY <2>1, <2>2, EventFields
<1>3. LatestBranch \in Nat
  <2> DEFINE S == {n \in DOMAIN log.events : log.events[n].branch # 0}
  <2>1. S \in SUBSET (1 .. Len(log.events)) /\ S # {} /\ Len(log.events) \in Nat
    <3>1. 2 \in 2 .. (PlannedBranches + 1)
      BY <1>1
    <3>2. 2 \in DOMAIN log.events /\ log.events[2].branch # 0
      BY <1>1, <3>1 DEF Plans
    <3> QED BY <1>1, <3>2
  <2>2. \E n \in S : \A m \in S : m <= n
    <3> HIDE DEF S
    <3> QED BY <2>1, GreatestIndex
  <2>3. LastIndex(S) \in S
    <3> HIDE DEF S
    <3> QED BY <2>2 DEF LastIndex
  <2>4. log.events[LastIndex(S)].branch \in Nat
    <3>1. \A n \in DOMAIN log.events : log.events[n] \in EventRecord
      BY <1>1
    <3>2. \A n \in S : log.events[n].branch \in Nat
      BY <3>1, EventFields
    <3> HIDE DEF S
    <3> QED BY <2>3, <3>2
  <2> QED BY <2>4 DEF LatestBranch
<1>4. CASE log.committed \/ log.phase = "Committed" \/ Final.type = "COMMIT_TASK"
  <2>1. SaysCommitted(log)
    BY <1>2, <1>4 DEF SaysCommitted, Final
  <2> QED BY <1>2, <1>4, <2>1 DEF Decision, Command
<1>5. CASE ~(log.committed \/ log.phase = "Committed" \/ Final.type = "COMMIT_TASK")
  <2>1. \/ Decision = Command("SUBMIT_FRESH_TASK", Final.branch, NoName)
        \/ Decision = Command("SUBMIT_FRESH_TASK", 0, NoName)
        \/ Decision = Command("REVALIDATE_COMMIT", 0, NoName)
        \/ Decision = Command("RESUME_BRANCH", LatestBranch, LatestSavepoint(LatestBranch))
        \/ Decision = Command("RESUME_FROM_SAVEPOINT", LatestBranch, LatestSavepoint(LatestBranch))
    BY <1>5 DEF Decision
  <2> QED BY <1>2, <1>3, <2>1 DEF Command
<1> QED BY <1>4, <1>5
--------------------------------------------------------------------------------
(* The log.                                                                  *)

\* A plan begins with the second event.
LEMMA PlansNonempty ==
    ASSUME NEW events \in Seq(EventRecord), NEW m \in BranchIds, Plans(events, m)
    PROVE  2 \in DOMAIN events /\ events # <<>>
<1>1. m \in Nat \ {0}
  BY PlanAssumption DEF BranchIds
<1>2. 2 \in 2 .. (m + 1)
  BY <1>1
<1>3. 2 \in DOMAIN events
  BY <1>2 DEF Plans
<1> QED BY <1>3

\* A log that is cut has the events up to the cut, and plans as many branches
\* as the cut has left.
LEMMA TornEvents ==
    ASSUME NEW events \in Seq(EventRecord), NEW m \in BranchIds, Plans(events, m),
           NEW n \in 2 .. Len(events), NEW last \in Cuts(events[n])
    PROVE  LET torn == Append(SubSeq(events, 1, n - 1), last)
           IN  /\ torn \in Seq(EventRecord) /\ DOMAIN torn = 1 .. n
               /\ \A j \in 1 .. n : j \in DOMAIN events /\ torn[j].type = events[j].type
               /\ \E k \in BranchIds : Plans(torn, k)
<1> DEFINE head == SubSeq(events, 1, n - 1)
           torn == Append(head, last)
           k == IF m + 1 <= n THEN m ELSE n - 1
<1>1. m \in Nat \ {0} /\ m <= BranchCount /\ BranchCount \in Nat
      /\ n \in Nat /\ n >= 2 /\ n <= Len(events) /\ DOMAIN events = 1 .. Len(events)
      /\ Len(events) \in Nat
  BY PlanAssumption DEF BranchIds
<1>2. n \in DOMAIN events /\ events[n] \in EventRecord
  BY <1>1
<1>3. last \in EventRecord /\ last.type = events[n].type /\ last.branch = events[n].branch
  BY <1>2, CutsType
<1>4. /\ head \in Seq(EventRecord) /\ Len(head) = n - 1
      /\ \A j \in 1 .. (n - 1) : head[j] = events[j]
  <2>1. n - 1 \in 0 .. Len(events)
    BY <1>1
  <2> QED BY <1>1, <2>1
<1> HIDE DEF head
<1>5. /\ torn \in Seq(EventRecord) /\ DOMAIN torn = 1 .. n /\ torn[n] = last
      /\ \A j \in 1 .. (n - 1) : torn[j] = head[j]
  BY <1>1, <1>3, <1>4
<1>6. \A j \in 1 .. n : j \in DOMAIN events
  BY <1>1
<1>7. \A j \in 1 .. n : j = n \/ j \in 1 .. (n - 1)
  BY <1>1
<1> HIDE DEF torn
<1>8. \A j \in 1 .. n : torn[j].type = events[j].type /\ torn[j].branch = events[j].branch
  BY <1>3, <1>4, <1>5, <1>7
<1>9. k \in BranchIds /\ \A j : j \in 2 .. (k + 1) <=> j \in 1 .. n /\ j \in 2 .. (m + 1)
  BY <1>1 DEF BranchIds
<1> HIDE DEF k
<1>10. Plans(torn, k)
  <2>1. \A j \in 1 .. n : torn[j].type = "CREATE_BRANCH" <=> j \in 2 .. (m + 1)
    BY <1>6, <1>8 DEF Plans
  <2>2. {j \in DOMAIN torn : torn[j].type = "CREATE_BRANCH"} = 2 .. (k + 1)
    BY <1>5, <1>9, <2>1
  <2>3. \A j \in 2 .. (k + 1) : torn[j].branch # 0
    BY <1>8, <1>9 DEF Plans
  <2> QED BY <2>2, <2>3 DEF Plans
<1> QED BY <1>5, <1>6, <1>8, <1>9, <1>10 DEF torn, head

\* What a session leaves in the log, whole or in part.
LEMMA ImageInv ==
    ASSUME NEW s, SessionInv(s), NEW events \in Seq(EventRecord),
           NEW k \in BranchIds, Plans(events, k),
           \A n \in DOMAIN events : n \in DOMAIN s.events /\ events[n].type = s.events[n].type,
           log' = Image(s, events)
    PROVE  LogInv' /\ (SaysCommitted(log') => SaysCommitted(s))
<1> DEFINE whole == events = s.events
           saved == IF whole THEN s.branches ELSE <<>>
<1>1. s \in SessionRecord /\ s.branches \in Seq(BranchContext)
  BY DEF SessionInv, SessionRecord
<1>2. log' = [readable |-> TRUE, whole |-> whole, phase |-> s.phase, committed |-> s.committed,
              events |-> events, saved |-> saved, resumed |-> s.resumed]
  BY DEF Image
<1>3. saved \in Seq(BranchContext) /\ whole \in BOOLEAN
  BY <1>1
<1>4. whole => Plans(events, Len(saved)) /\ ReadsLogged(saved, events)
  BY DEF SessionInv
<1>5. events # <<>>
  BY PlansNonempty
<1> HIDE DEF whole, saved
<1>6. log' \in LogRecord
  BY <1>1, <1>2, <1>3 DEF LogRecord, SessionRecord
<1>7. LogInv'
  <2>1. /\ log'.readable = TRUE /\ log'.whole = whole /\ log'.events = events
        /\ log'.saved = saved
    BY <1>2
  <2> HIDE <1>2
  <2> QED BY <1>4, <1>5, <1>6, <2>1 DEF LogInv
<1>8. SaysCommitted(log') => SaysCommitted(s)
  BY <1>2 DEF SaysCommitted
<1> QED BY <1>7, <1>8

\* No log is a log that says nothing.
LEMMA NoLogInv ==
    ASSUME log' = NoLog
    PROVE  LogInv' /\ ~SaysCommitted(log')
<1>1. log'.readable = FALSE /\ log'.whole = FALSE /\ log' \in LogRecord
  BY DEF NoLog, LogRecord, Phases
<1>2. ~SaysCommitted(log')
  BY DEF NoLog, SaysCommitted
<1> QED BY <1>1, <1>2 DEF LogInv

\* A session that is no session.
LEMMA NoSessionInv == SessionInv(NoSession) /\ ~SaysCommitted(NoSession)
<1>1. NoSession \in SessionRecord
  BY DEF NoSession, SessionRecord, Phases
<1>2. NoSession.branches = <<>> /\ NoSession.events = <<>> /\ Len(<<>>) = 0
  BY DEF NoSession
<1>3. Plans(<<>>, 0)
  <2>1. DOMAIN <<>> = {} /\ 2 .. (0 + 1) = {}
    OBVIOUS
  <2> QED BY <2>1 DEF Plans
<1>4. SessionInv(NoSession)
  <2>1. BranchCount \in Nat /\ DOMAIN <<>> = {}
    BY PlanAssumption
  <2> QED BY <1>1, <1>2, <1>3, <2>1 DEF SessionInv, ReadsLogged
<1>5. ~SaysCommitted(NoSession)
  BY DEF NoSession, SaysCommitted
<1> QED BY <1>4, <1>5
--------------------------------------------------------------------------------
(* The invariant.                                                            *)

\* The initial states satisfy it.
LEMMA RecoveryInvInit == Init => RecoveryInv
<1> SUFFICES ASSUME Init PROVE RecoveryInv
  OBVIOUS
<1>1. BranchCount \in BranchIds /\ BranchCount \in Nat
  BY PlanAssumption DEF BranchIds
<1>2. /\ store = InitialStore /\ mode = "working" /\ session = SubmitTask(BranchCount)
      /\ log = NoLog /\ execution = NoExecution /\ target = 0 /\ commits = 0
  BY DEF Init, InitWith
<1>3. store \in Store
  BY <1>2, InitialStoreAssumption DEF Store
<1>4. SessionInv(session) /\ session.branches # <<>> /\ ~SaysCommitted(session)
  <2>1. SessionInv(session) /\ Len(session.branches) = BranchCount /\ ~SaysCommitted(session)
    BY <1>1, <1>2, SubmitTaskInv
  <2>2. Len(<<>>) = 0 /\ BranchCount # 0
    BY PlanAssumption
  <2> QED BY <2>1, <2>2
<1>5. LogInv /\ ~SaysCommitted(log)
  <2>1. log.readable = FALSE /\ log.whole = FALSE /\ log \in LogRecord
    BY <1>2 DEF NoLog, LogRecord, Phases
  <2>2. ~SaysCommitted(log)
    BY <1>2 DEF NoLog, SaysCommitted
  <2> QED BY <2>1, <2>2 DEF LogInv
<1>6. execution.branch = 0 /\ execution.command = "NONE"
  BY <1>2 DEF NoExecution, Command
<1>7. CommitInv
  BY <1>2, <1>4, <1>5, <1>6 DEF CommitInv
<1>8. RecoveredInv
  BY <1>2 DEF RecoveredInv
<1> QED BY <1>2, <1>3, <1>4, <1>5, <1>6, <1>7, <1>8 DEF RecoveryInv

\* A step of a caller, which leaves the log and the decision alone.
LEMMA CallerStep ==
    ASSUME RecoveryInv, store' \in Store, SessionInv(session'), session'.branches # <<>>,
           commits' \in Nat, commits' >= commits, SaysCommitted(session') => commits' > 0,
           mode' # "recovered", target' \in Nat, UNCHANGED <<log, execution>>
    PROVE  RecoveryInv'
<1>1. LogInv'
  BY DEF RecoveryInv, LogInv
<1>2. CommitInv'
  <2>1. /\ commits \in Nat
        /\ SaysCommitted(log') => commits > 0
        /\ execution'.command = "NOOP" => commits > 0
    BY DEF RecoveryInv, CommitInv
  <2>2. commits > 0 => commits' > 0
    BY <2>1
  <2> QED BY <2>1, <2>2 DEF CommitInv
<1>3. RecoveredInv'
  BY DEF RecoveredInv
<1>4. execution'.branch \in Nat
  BY DEF RecoveryInv
<1> QED BY <1>1, <1>2, <1>3, <1>4 DEF RecoveryInv

\* The calls that do not touch the store.
LEMMA SessionCallStep ==
    ASSUME RecoveryInv, mode \in {"working", "continuing"}, Continues(session, session'),
           UNCHANGED <<store, mode, log, execution, target, commits>>
    PROVE  RecoveryInv'
<1>1. SessionInv(session') /\ Len(session'.branches) = Len(session.branches)
      /\ (SaysCommitted(session') => commits > 0) /\ commits \in Nat
  BY DEF Continues, RecoveryInv, CommitInv
<1>2. session'.branches # <<>>
  <2>1. session.branches # <<>> /\ session.branches \in Seq(BranchContext)
    BY DEF RecoveryInv, SessionInv, SessionRecord
  <2>2. Len(session.branches) # 0
    BY <2>1
  <2>3. Len(<<>>) = 0
    OBVIOUS
  <2> QED BY <1>1, <2>2, <2>3
<1>3. mode' # "recovered" /\ target' \in Nat /\ store' \in Store
  BY DEF RecoveryInv
<1> QED BY <1>1, <1>2, <1>3, CallerStep

\* The branch a caller works on while it may.
LEMMA WorkingMode ==
    ASSUME NEW i, WorkingOn(i)
    PROVE  mode \in {"working", "continuing"}
BY DEF WorkingOn, Working

\* A command lets the caller or the callback go on, with a branch's number.
LEMMA ProceedType ==
    ASSUME RecoveryInv, Proceed
    PROVE  mode' # "recovered" /\ mode' # "down" /\ target' \in Nat
<1>1. target \in Nat /\ execution.branch \in Nat /\ BranchIds \subseteq Nat
  BY DEF RecoveryInv, BranchIds
<1>2. CASE mode' = "working" /\ UNCHANGED target
  BY <1>1, <1>2
<1>3. CASE \E preferred \in BranchIds \cup {0} :
                mode' = "continuing" /\ target' = ContinuedBranch(preferred)
  <2>1. PICK preferred \in BranchIds \cup {0} :
            mode' = "continuing" /\ target' = ContinuedBranch(preferred)
    BY <1>3
  <2>2. ContinuedBranch(preferred) \in Nat
    BY <1>1 DEF ContinuedBranch
  <2> QED BY <2>1, <2>2
<1> QED BY <1>2, <1>3 DEF Proceed

\* The steps of a caller.
LEMMA CallsNext ==
    ASSUME RecoveryInv,
           \/ \E r \in Reads : Read(r[1], r[2])
           \/ \E w \in Writes : Write(w[1], w[2])
           \/ \E i \in Managed, id \in GivenName : SavepointAt(i, id) \/ Rollback(i, id)
           \/ \E i \in Managed, score \in Score : Stage(i, score)
           \/ CommitThrows \/ AbortTask
    PROVE  RecoveryInv'
<1> USE DEF RecoveryInv
<1>1. SessionInv(session) /\ store \in Store
  OBVIOUS
<1>2. BranchIds \subseteq Nat /\ Managed \subseteq Nat /\ Score \subseteq Int
      /\ GivenName \subseteq SavepointId
  BY CallsAssumption, ScoreAssumption DEF BranchIds, GivenName
<1> HIDE DEF RecoveryInv
<1>3. ASSUME NEW r \in Reads, Read(r[1], r[2]) PROVE RecoveryInv'
  <2>1. r[1] \in Nat /\ r[2] \in Key
    BY <1>2, CallsAssumption
  <2>2. Continues(session, ReadIn(session, r[1], r[2]))
    BY <1>1, <2>1, ReadInContinues
  <2> QED BY <1>3, <2>2, SessionCallStep, WorkingMode DEF Read
<1>4. ASSUME NEW w \in Writes, Write(w[1], w[2]) PROVE RecoveryInv'
  <2>1. w[1] \in Nat /\ w[2] \in WriteIntent
    BY <1>2, CallsAssumption
  <2>2. Continues(session, WriteIn(session, w[1], w[2]))
    BY <1>1, <2>1, WriteInContinues
  <2> QED BY <1>4, <2>2, SessionCallStep, WorkingMode DEF Write
<1>5. ASSUME NEW i \in Managed, NEW id \in GivenName, SavepointAt(i, id) PROVE RecoveryInv'
  <2>1. Continues(session, SavepointIn(session, i, id))
    BY <1>1, <1>2, SavepointInContinues
  <2> QED BY <1>5, <2>1, SessionCallStep, WorkingMode DEF SavepointAt
<1>6. ASSUME NEW i \in Managed, NEW id \in GivenName, Rollback(i, id) PROVE RecoveryInv'
  <2>1. Continues(session, RollbackIn(session, i, id))
    BY <1>1, <1>2, RollbackInContinues
  <2> QED BY <1>6, <2>1, SessionCallStep, WorkingMode DEF Rollback
<1>7. ASSUME NEW i \in Managed, NEW score \in Score, Stage(i, score) PROVE RecoveryInv'
  <2>1. Continues(session, StageIn(session, i, score))
    BY <1>1, <1>2, StageInContinues
  <2> QED BY <1>7, <2>1, SessionCallStep DEF Stage, Working
<1>8. ASSUME CommitThrows PROVE RecoveryInv'
  <2>1. Continues(session, Attempted(session))
    BY <1>1, AttemptedContinues
  <2> QED BY <1>8, <2>1, SessionCallStep DEF CommitThrows, Working
<1>9. ASSUME AbortTask PROVE RecoveryInv'
  <2>1. Continues(session, Aborted(session, Event("ABORT_TASK", 0)))
    BY <1>1, AbortedContinues
  <2> QED BY <1>9, <2>1, SessionCallStep DEF AbortTask, Working
<1> QED BY <1>3, <1>4, <1>5, <1>6, <1>7, <1>8, <1>9
\* A commit of what is in memory, staged or not.
LEMMA CommitStep ==
    ASSUME RecoveryInv, NEW s, Continues(session, s), mode # "down", CommitOf(s),
           mode' # "recovered", target' \in Nat, UNCHANGED <<log, execution>>
    PROVE  RecoveryInv'
<1>1. /\ store \in Store /\ commits \in Nat /\ session.branches # <<>>
      /\ SaysCommitted(session) => commits > 0
      /\ session.branches \in Seq(BranchContext)
  BY DEF RecoveryInv, CommitInv, SessionInv, SessionRecord
<1>2. SessionInv(s) /\ Len(s.branches) = Len(session.branches)
      /\ (SaysCommitted(s) => commits > 0)
  BY <1>1 DEF Continues
<1>3. s.branches # <<>>
  <2>1. Len(session.branches) # 0 /\ Len(<<>>) = 0
    BY <1>1
  <2> QED BY <1>2, <2>1
<1>4. /\ store' \in Store /\ SessionInv(session') /\ session'.branches # <<>>
      /\ commits' \in Nat /\ commits' >= commits
      /\ SaysCommitted(session') => commits' > 0
  BY <1>1, <1>2, <1>3, CommitOfKeeps
<1> QED BY <1>4, CallerStep

\* The commits: of a caller, after a recovery, and at the end of a
\* continuation.
LEMMA CommitsNext ==
    ASSUME RecoveryInv,
           CommitTask \/ RevalidateCommit \/ \E score \in Score : FinishContinuation(score)
    PROVE  RecoveryInv'
<1>1. SessionInv(session) /\ target \in Nat /\ Score \subseteq Int
  BY ScoreAssumption DEF RecoveryInv
<1>2. Continues(session, session)
  BY <1>1 DEF Continues
<1>3. CASE CommitTask
  <2>1. mode # "down" /\ mode' # "recovered" /\ target' \in Nat
    BY <1>1, <1>3 DEF CommitTask, Working
  <2> QED BY <1>2, <1>3, <2>1, CommitStep DEF CommitTask
<1>4. CASE RevalidateCommit
  <2>1. mode = "recovered" /\ CommitOf(session) /\ UNCHANGED <<log, execution>>
        /\ (Proceed \/ Refuse)
    BY <1>4 DEF RevalidateCommit
  <2>2. mode # "down" /\ mode' # "recovered" /\ target' \in Nat
    BY <1>1, <2>1, ProceedType DEF Refuse
  <2> QED BY <1>2, <2>1, <2>2, CommitStep
<1>5. ASSUME NEW score \in Score, FinishContinuation(score) PROVE RecoveryInv'
  <2>1. /\ mode = "continuing" /\ CommitOf(StageIn(session, target, score))
        /\ mode' = "working" /\ target' = 0 /\ UNCHANGED <<log, execution>>
    BY <1>5 DEF FinishContinuation
  <2>2. Continues(session, StageIn(session, target, score))
    BY <1>1, StageInContinues
  <2> QED BY <2>1, <2>2, CommitStep
<1> QED BY <1>3, <1>4, <1>5

\* The commands of a recovery that do not commit.
LEMMA CommandsNext ==
    ASSUME RecoveryInv, ExecuteNoop \/ SubmitFreshTask \/ ResumeBranch \/ ResumeFromSavepoint
    PROVE  RecoveryInv'
<1>1. /\ SessionInv(session) /\ store \in Store /\ target \in Nat /\ commits \in Nat
      /\ SaysCommitted(session) => commits > 0
      /\ mode # "down" => session.branches # <<>>
      /\ session.branches \in Seq(BranchContext)
  BY DEF RecoveryInv, CommitInv, SessionInv, SessionRecord
<1>2. /\ mode = "recovered" /\ session.branches # <<>> /\ Len(session.branches) # 0
      /\ Len(<<>>) = 0
  <2>1. mode = "recovered"
    BY DEF ExecuteNoop, SubmitFreshTask, ResumeBranch, ResumeFromSavepoint
  <2> QED BY <1>1, <2>1
<1>3. /\ store' \in Store /\ commits' = commits /\ commits' >= commits
      /\ UNCHANGED <<log, execution>>
  <2>1. UNCHANGED <<store, commits, log, execution>>
    BY DEF ExecuteNoop, SubmitFreshTask, ResumeBranch, ResumeFromSavepoint
  <2> QED BY <1>1, <2>1
<1>4. mode' # "recovered" /\ target' \in Nat
  <2>1. Proceed \/ Refuse
    BY DEF ExecuteNoop, SubmitFreshTask, ResumeBranch, ResumeFromSavepoint
  <2> QED BY <1>1, <2>1, ProceedType DEF Refuse
<1>5. ASSUME Continues(session, session') PROVE RecoveryInv'
  <2>1. /\ SessionInv(session') /\ Len(session'.branches) # 0
        /\ SaysCommitted(session') => commits' > 0
    BY <1>1, <1>2, <1>3, <1>5 DEF Continues
  <2>2. session'.branches # <<>>
    BY <1>2, <2>1
  <2> QED BY <1>1, <1>3, <1>4, <2>1, <2>2, CallerStep
<1>6. CASE session' = session
  BY <1>1, <1>5, <1>6 DEF Continues
<1>7. CASE SubmitFreshTask
  <2>1. PlannedBranches \in BranchIds /\ PlannedBranches \in Nat \ {0}
    BY <1>2, PlanOfLog DEF RecoveryInv, RecoveredInv
  <2>2. session' = SubmitTask(PlannedBranches)
    BY <1>7 DEF SubmitFreshTask
  <2>3. SessionInv(session') /\ Len(session'.branches) = PlannedBranches
        /\ ~SaysCommitted(session')
    BY <2>1, <2>2, SubmitTaskInv
  <2>4. session'.branches # <<>>
    BY <1>2, <2>1, <2>3
  <2> QED BY <1>1, <1>3, <1>4, <2>3, <2>4, CallerStep
<1>8. CASE ResumeBranch /\ session' # session
  <2>1. Found(session, execution.branch) /\ session' = Resumed(session, execution.branch)
    BY <1>8 DEF ResumeBranch
  <2> QED BY <1>1, <1>5, <2>1, ResumedContinues
<1>9. CASE ResumeFromSavepoint /\ session' # session
  <2> DEFINE i == execution.branch
             id == execution.savepoint
             rolledBack == [session EXCEPT !.branches[i] = RollbackToSavepoint(@, id),
                                           !.resumed = TRUE]
  <2>1. FindSavepoint(session, i, id) /\ session' = Resumed(rolledBack, i)
    BY <1>9 DEF ResumeFromSavepoint
  <2>2. Continues(session, rolledBack) /\ Found(rolledBack, i)
    BY <1>1, <2>1, RolledBackContinues
  <2> HIDE DEF rolledBack, i, id
  <2>3. Continues(rolledBack, session')
    BY <2>1, <2>2, ResumedContinues DEF Continues
  <2>4. Continues(session, session')
    BY <2>2, <2>3 DEF Continues
  <2> QED BY <1>5, <2>4
<1>10. CASE ExecuteNoop
  BY <1>6, <1>10 DEF ExecuteNoop
<1> QED BY <1>6, <1>7, <1>8, <1>9, <1>10

\* A crash, in the middle of writing the log or not.
LEMMA CrashesNext ==
    ASSUME RecoveryInv, Crash \/ CrashInWriteLog
    PROVE  RecoveryInv'
<1>1. /\ mode' = "down" /\ session' = NoSession /\ execution' = NoExecution /\ target' = 0
      /\ UNCHANGED <<store, commits>>
  BY DEF Crash, CrashInWriteLog, Down
<1>2. /\ store \in Store /\ commits \in Nat /\ SessionInv(session) /\ LogInv
      /\ SaysCommitted(session) => commits > 0
      /\ SaysCommitted(log) => commits > 0
      /\ mode # "down" => session.branches # <<>>
  BY DEF RecoveryInv, CommitInv
<1>3. LogInv' /\ (SaysCommitted(log') => commits > 0)
  <2>1. CASE Crash
    <3>1. log' = log
      BY <2>1 DEF Crash
    <3> QED BY <1>2, <3>1 DEF LogInv
  <2>2. CASE CrashInWriteLog
    <3>1. log' \in TornImages(session) /\ mode \in {"working", "refused"}
      BY <2>2 DEF CrashInWriteLog
    <3>2. CASE log' = NoLog
      BY <3>2, NoLogInv
    <3>3. CASE log' # NoLog
      <4>0. PICK n \in 2 .. Len(session.events) :
                \E last \in Cuts(session.events[n]) :
                    log' = Image(session, Append(SubSeq(session.events, 1, n - 1), last))
        BY <3>1, <3>3 DEF TornImages
      <4>1. PICK last \in Cuts(session.events[n]) :
                log' = Image(session, Append(SubSeq(session.events, 1, n - 1), last))
        BY <4>0
      <4> DEFINE torn == Append(SubSeq(session.events, 1, n - 1), last)
                 m == Len(session.branches)
      <4>2. /\ session.events \in Seq(EventRecord) /\ Plans(session.events, m)
            /\ session.branches \in Seq(BranchContext) /\ session.branches # <<>>
            /\ m <= BranchCount
        BY <1>2, <3>1 DEF SessionInv, SessionRecord
      <4>3. m \in BranchIds
        <5>1. m \in Nat /\ m # 0
          BY <4>2
        <5> QED BY <4>2, <5>1, PlanAssumption DEF BranchIds
      <4> HIDE DEF m
      <4>4. /\ torn \in Seq(EventRecord) /\ DOMAIN torn = 1 .. n
            /\ \A j \in 1 .. n : j \in DOMAIN session.events
                                 /\ torn[j].type = session.events[j].type
            /\ \E k \in BranchIds : Plans(torn, k)
        BY <4>2, <4>3, TornEvents
      <4> HIDE DEF torn
      <4>5. PICK k \in BranchIds : Plans(torn, k)
        BY <4>4
      <4>6. log' = Image(session, torn)
        BY <4>1 DEF torn
      <4>7. LogInv' /\ (SaysCommitted(log') => SaysCommitted(session))
        BY <1>2, <4>4, <4>5, <4>6, ImageInv
      <4> QED BY <1>2, <4>7
    <3> QED BY <3>2, <3>3
  <2> QED BY <2>1, <2>2
<1>4. SessionInv(session') /\ ~SaysCommitted(session')
  BY <1>1, NoSessionInv
<1>5. execution'.branch = 0 /\ execution'.command = "NONE"
  BY <1>1 DEF NoExecution, Command
<1>6. CommitInv'
  BY <1>1, <1>2, <1>3, <1>4, <1>5 DEF CommitInv
<1>7. RecoveredInv'
  BY <1>1 DEF RecoveredInv
<1>8. store' \in Store /\ execution'.branch \in Nat /\ target' \in Nat /\ mode' = "down"
  BY <1>1, <1>2, <1>5
<1> QED BY <1>3, <1>4, <1>6, <1>7, <1>8 DEF RecoveryInv

\* The session is written to the log.
LEMMA WriteLogNext ==
    ASSUME RecoveryInv, WriteLog
    PROVE  RecoveryInv'
<1>1. /\ mode \in {"working", "refused"} /\ log' = Image(session, session.events)
      /\ UNCHANGED <<store, mode, session, execution, target, commits>>
  BY DEF WriteLog
<1>2. /\ store \in Store /\ commits \in Nat /\ SessionInv(session)
      /\ SaysCommitted(session) => commits > 0
      /\ execution.command = "NOOP" => commits > 0
      /\ session.branches # <<>> /\ execution.branch \in Nat /\ target \in Nat
  BY <1>1 DEF RecoveryInv, CommitInv
<1> DEFINE m == Len(session.branches)
<1>3. /\ session.events \in Seq(EventRecord) /\ Plans(session.events, m) /\ m \in BranchIds
  <2>1. /\ session.branches \in Seq(BranchContext) /\ session.events \in Seq(EventRecord)
        /\ Plans(session.events, m) /\ m <= BranchCount
    BY <1>2 DEF SessionInv, SessionRecord
  <2>2. m \in Nat /\ m # 0
    BY <1>2, <2>1
  <2> QED BY <2>1, <2>2, PlanAssumption DEF BranchIds
<1> HIDE DEF m
<1>4. LogInv' /\ (SaysCommitted(log') => SaysCommitted(session))
  BY <1>1, <1>2, <1>3, ImageInv
<1>5. CommitInv'
  BY <1>1, <1>2, <1>4 DEF CommitInv
<1>6. RecoveredInv'
  BY <1>1 DEF RecoveredInv
<1>7. SessionInv(session') /\ session'.branches # <<>> /\ store' \in Store
      /\ execution'.branch \in Nat /\ target' \in Nat
  BY <1>1, <1>2
<1> QED BY <1>4, <1>5, <1>6, <1>7 DEF RecoveryInv

\* The recovery.
LEMMA RecoverNext ==
    ASSUME RecoveryInv, Recover
    PROVE  RecoveryInv'
<1>1. /\ log.readable /\ mode' = "recovered" /\ session' = RebuiltSession
      /\ execution' = Decision /\ UNCHANGED <<store, log, target, commits>>
  BY DEF Recover
<1>2. /\ store \in Store /\ commits \in Nat /\ LogInv /\ target \in Nat
      /\ SaysCommitted(log) => commits > 0
  BY DEF RecoveryInv, CommitInv
<1>3. /\ SessionInv(session') /\ Len(session'.branches) = PlannedBranches
      /\ session'.branches # <<>> /\ ReadsKept(session'.branches, log.events)
      /\ SaysCommitted(session') => SaysCommitted(log)
  BY <1>1, <1>2, RebuiltInv
<1>4. execution'.branch \in Nat /\ (execution'.command = "NOOP" => SaysCommitted(log))
  BY <1>1, <1>2, DecisionType
<1>5. LogInv'
  BY <1>1, <1>2 DEF LogInv
<1>6. CommitInv'
  BY <1>1, <1>2, <1>3, <1>4 DEF CommitInv
<1>7. RecoveredInv'
  <2>1. PlannedBranches' = PlannedBranches
    BY <1>1 DEF PlannedBranches
  <2> QED BY <1>1, <1>3, <2>1 DEF RecoveredInv
<1>8. store' \in Store /\ target' \in Nat
  BY <1>1, <1>2
<1> QED BY <1>3, <1>4, <1>5, <1>6, <1>7, <1>8 DEF RecoveryInv

\* Another client writes, or nothing happens.
LEMMA OthersNext ==
    ASSUME RecoveryInv, (\E p \in Puts : ExternalPut(p[1], p[2])) \/ UNCHANGED vars
    PROVE  RecoveryInv'
<1>1. UNCHANGED <<mode, session, log, execution, target, commits>>
  BY DEF ExternalPut, vars
<1>2. store' \in Store
  <2>1. store \in Store
    BY DEF RecoveryInv
  <2>2. CASE UNCHANGED vars
    BY <2>1, <2>2 DEF vars
  <2>3. ASSUME NEW p \in Puts, ExternalPut(p[1], p[2]) PROVE store' \in Store
    <3>1. p[1] \in Key /\ p[2] \in Value
      BY PutsAssumption
    <3>2. store' = Put(store, p[1], p[2])
      BY <2>3 DEF ExternalPut
    <3> QED BY <2>1, <3>1, <3>2, PutType
  <2> QED BY <2>2, <2>3
<1>3. LogInv' /\ CommitInv'
  BY <1>1 DEF RecoveryInv, LogInv, CommitInv
<1>4. RecoveredInv'
  <2>1. PlannedBranches' = PlannedBranches
    BY <1>1 DEF PlannedBranches
  <2> QED BY <1>1, <2>1 DEF RecoveryInv, RecoveredInv
<1> QED BY <1>1, <1>2, <1>3, <1>4 DEF RecoveryInv

\* Every step keeps the invariant.
LEMMA RecoveryInvNext == RecoveryInv /\ [Next]_vars => RecoveryInv'
BY CallsNext, CommitsNext, CommandsNext, CrashesNext, WriteLogNext, RecoverNext, OthersNext
   DEF Next

\* The invariant holds in every reachable state.
LEMMA RecoveryInvHolds == Spec => []RecoveryInv
BY RecoveryInvInit, RecoveryInvNext, PTL DEF Spec
--------------------------------------------------------------------------------
(* What the invariant says of the properties.                                *)

\* The types follow from the invariant.
LEMMA RecoveryInvTypes == RecoveryInv => TypeOK
<1> SUFFICES ASSUME RecoveryInv PROVE TypeOK
  OBVIOUS
<1>1. store \in [Key -> VersionedValue]
  BY DEF RecoveryInv, Store
<1>2. /\ session.phase \in {"None", "Running", "Committed", "Aborted"}
      /\ session.branches \in Seq(BranchContext) /\ Len(session.branches) <= BranchCount
  BY DEF RecoveryInv, SessionInv, SessionRecord, Phases
<1>3. ASSUME NEW i \in DOMAIN session.branches
      PROVE  LET b == session.branches[i]
             IN  /\ i \in BranchIds
                 /\ b.reads \in Seq(ReadRecord) /\ b.intents \in Seq(WriteIntent)
                 /\ b.order \in Seq(Key) /\ DOMAIN b.entries \subseteq Key
                 /\ \A n \in DOMAIN b.savepoints :
                     /\ b.savepoints[n].write_log_position \in 0 .. Len(b.changes)
                     /\ b.savepoints[n].intent_log_position \in 0 .. Len(b.intents)
  <2> DEFINE b == session.branches[i]
  <2>1. WellFormed(b) /\ b \in BranchContext
    BY DEF RecoveryInv, SessionInv, WellFormed
  <2>2. i \in BranchIds
    BY <1>2, PlanAssumption DEF BranchIds
  <2> HIDE DEF b
  <2>3. /\ b.reads \in Seq(ReadRecord) /\ b.intents \in Seq(WriteIntent)
        /\ b.order \in Seq(Key) /\ DOMAIN b.entries \subseteq Key
        /\ b.changes \in Seq(ChangeRecord)
    BY <2>1, BranchFields
  <2>4. ASSUME NEW n \in DOMAIN b.savepoints
        PROVE  /\ b.savepoints[n].write_log_position \in 0 .. Len(b.changes)
               /\ b.savepoints[n].intent_log_position \in 0 .. Len(b.intents)
    <3>1. b.savepoints[n].write_log_position \in Nat /\ b.savepoints[n].intent_log_position \in Nat
      BY <2>1, SavepointFields
    <3>2. /\ b.savepoints[n].write_log_position <= Len(b.changes)
          /\ b.savepoints[n].intent_log_position <= Len(b.intents)
      BY <2>1 DEF WellFormed, PositionsInv
    <3>3. Len(b.changes) \in Nat /\ Len(b.intents) \in Nat
      BY <2>3
    <3> QED BY <3>1, <3>2, <3>3
  <2> QED BY <2>2, <2>3, <2>4 DEF b
<1>4. log.readable => PlannedBranches \in BranchIds
  BY PlanOfLog DEF RecoveryInv
<1>5. /\ mode # "down" => session.branches # <<>>
      /\ execution.branch \in Nat /\ target \in Nat
  BY DEF RecoveryInv
<1> QED BY <1>1, <1>2, <1>3, <1>4, <1>5 DEF TypeOK

\* Types: through crashes in the middle of the log, replays and continuations
\* the store holds versioned values, savepoints point into their logs, and
\* what is in memory or can be recovered has a plan within the task's.
THEOREM TypeOKHolds == Spec => []TypeOK
BY RecoveryInvHolds, RecoveryInvTypes, PTL

\* BuildTaskRecoveryExecution says NOOP only for a task of which a commit has
\* reached the store, whatever a crash has left of the log.
THEOREM SkippedIsCommittedHolds == Spec => []SkippedIsCommitted
<1>1. RecoveryInv => SkippedIsCommitted
  BY DEF RecoveryInv, CommitInv, SkippedIsCommitted
<1> QED BY <1>1, RecoveryInvHolds, PTL

\* A number of branches is what a plan says.
LEMMA PlanIsOne ==
    ASSUME NEW events, NEW k \in Nat, NEW m \in Nat, Plans(events, k), Plans(events, m)
    PROVE  k = m
<1>1. 2 .. (k + 1) = 2 .. (m + 1)
  BY DEF Plans
<1>2. ASSUME k < m PROVE FALSE
  <2>1. m + 1 \in 2 .. (m + 1) /\ m + 1 \notin 2 .. (k + 1)
    BY <1>2
  <2> QED BY <1>1, <2>1
<1>3. ASSUME m < k PROVE FALSE
  <2>1. k + 1 \in 2 .. (k + 1) /\ k + 1 \notin 2 .. (m + 1)
    BY <1>3
  <2> QED BY <1>1, <2>1
<1> QED BY <1>2, <1>3

\* The reads of a session that was saved are logged, and what is logged is
\* among the reads of the session that is rebuilt.
LEMMA RecoveryInvReads == RecoveryInv => ReadsSurviveRecovery
<1> SUFFICES ASSUME RecoveryInv, mode = "recovered", log.whole,
                    NEW i \in DOMAIN log.saved, NEW n \in DOMAIN log.saved[i].reads
             PROVE  \E m \in DOMAIN session.branches[i].reads :
                        session.branches[i].reads[m] = log.saved[i].reads[n]
  BY DEF ReadsSurviveRecovery
<1>1. /\ LogInv /\ log.readable /\ Len(session.branches) = PlannedBranches
      /\ ReadsKept(session.branches, log.events)
      /\ session.branches \in Seq(BranchContext)
  BY DEF RecoveryInv, RecoveredInv, SessionInv, SessionRecord
<1>2. /\ Plans(log.events, Len(log.saved)) /\ ReadsLogged(log.saved, log.events)
      /\ log.saved \in Seq(BranchContext)
  BY <1>1 DEF LogInv, LogRecord
<1>3. Plans(log.events, PlannedBranches) /\ PlannedBranches \in Nat
  BY <1>1, PlanOfLog
<1>4. Len(log.saved) = PlannedBranches
  <2>1. Len(log.saved) \in Nat
    BY <1>2
  <2> QED BY <1>2, <1>3, <2>1, PlanIsOne
<1>5. i \in DOMAIN session.branches
  BY <1>1, <1>2, <1>4
<1>6. PICK k \in DOMAIN log.events :
          /\ log.events[k].type = "READ" /\ log.events[k].branch = i
          /\ RecoveredRead(log.events[k]) = log.saved[i].reads[n]
  BY <1>2 DEF ReadsLogged, ReadLogged
<1> QED BY <1>1, <1>5, <1>6 DEF ReadsKept

\* A crash does not launder a stale read: RebuildRecoveredSessionState brings back
\* every read of the session that was saved at the version that was read, and
\* no rollback or later event of the log takes it away.
THEOREM ReadsSurviveRecoveryHolds == Spec => []ReadsSurviveRecovery
BY RecoveryInvHolds, RecoveryInvReads, PTL

--------------------------------------------------------------------------------
(* What was buffered comes back.                                             *)

\* A branch that is replayed over the store s has the work of the branch b.
Mirrors(a, b, s, now) ==
    /\ WellFormed(a)
    /\ BufferMirrors(a, b, s, now)
    /\ a.intents = Unconditioned(b.intents)
    /\ a.savepoints = b.savepoints
    /\ a.score = Truncated(b.score)

\* Whatever store the events are replayed over.
WorkMirrored(branches, events, now) ==
    \A s \in Store : \A i \in DOMAIN branches :
        Mirrors(Replayed(events, Len(branches), s)[i], branches[i], s, now)

\* The scores in the events have no fraction.
StagesWhole(events) ==
    \A n \in DOMAIN events :
        events[n].type = "STAGE_BRANCH" => Truncated(events[n].score) = events[n].score

\* A log has the work of this session: no rollback is missing from it, and no
\* branch has been discarded.
Replayable ==
    /\ ~session.resumed
    /\ \/ session.phase = "Running"
       \/ mode = "recovered"
       \/ mode = "continuing" /\ Uncommitted(session.events)

\* Cutting off the fraction twice is cutting it off once.
LEMMA TruncatedTwice ==
    ASSUME NEW score \in Int
    PROVE  Truncated(Truncated(score)) = Truncated(score)
<1>1. ScoreUnit \in Nat \ {0}
  BY ScoreUnitAssumption
<1>2. ASSUME NEW n \in Nat
      PROVE  /\ (n \div ScoreUnit) * ScoreUnit \in Nat
             /\ (((n \div ScoreUnit) * ScoreUnit) \div ScoreUnit) * ScoreUnit
                    = (n \div ScoreUnit) * ScoreUnit
  <2> DEFINE q == n \div ScoreUnit
  <2>1. q \in Nat
    BY <1>1
  <2> HIDE DEF q
  <2>2. q * ScoreUnit \in Nat
    BY <1>1, <2>1
  <2>3. (q * ScoreUnit) \div ScoreUnit = q
    BY <1>1, <2>1
  <2> QED BY <2>2, <2>3 DEF q
<1> DEFINE Whole(n) == (n \div ScoreUnit) * ScoreUnit
<1> HIDE DEF Whole
<1>3. \A n \in Nat : Whole(n) \in Nat /\ Whole(Whole(n)) = Whole(n)
  BY <1>2 DEF Whole
<1>4. Whole(0) = 0
  BY <1>1 DEF Whole
<1>5. \A n \in Int : Truncated(n) = IF n >= 0 THEN Whole(n) ELSE -Whole(-n)
  BY DEF Truncated, Whole
<1>6. CASE score >= 0
  BY <1>3, <1>5, <1>6
<1>7. CASE ~(score >= 0)
  <2>1. -score \in Nat /\ Truncated(score) = -Whole(-score) /\ Whole(-score) \in Nat
    BY <1>3, <1>5, <1>7
  <2> DEFINE w == Whole(-score)
  <2>2. Whole(w) = w /\ w \in Nat
    BY <1>3, <2>1
  <2> HIDE DEF w
  <2>3. Truncated(-w) = -w
    <3>1. CASE w = 0
      BY <1>4, <1>5, <3>1
    <3>2. CASE w # 0
      <4>1. ~(-w >= 0) /\ -w \in Int /\ -(-w) = w
        BY <2>2, <3>2
      <4> QED BY <1>5, <2>2, <4>1
    <3> QED BY <3>1, <3>2
  <2> QED BY <2>1, <2>3 DEF w
<1> QED BY <1>6, <1>7

\* No score has no fraction.
LEMMA TruncatedZero == Truncated(0) = 0
<1>1. ScoreUnit \in Nat \ {0}
  BY ScoreUnitAssumption
<1>2. 0 \div ScoreUnit = 0
  BY <1>1
<1>3. 0 * ScoreUnit = 0
  BY <1>1
<1> QED BY <1>2, <1>3 DEF Truncated

\* An intent without its condition.
LEMMA UnconditionedType ==
    ASSUME NEW intents \in Seq(WriteIntent)
    PROVE  /\ Unconditioned(intents) \in Seq(WriteIntent)
           /\ Len(Unconditioned(intents)) = Len(intents)
           /\ \A n \in DOMAIN intents :
                Unconditioned(intents)[n] = [intents[n] EXCEPT !.condition = NoCondition]
<1> DEFINE n == Len(intents)
           u == Unconditioned(intents)
<1>1. n \in Nat /\ DOMAIN intents = 1 .. n
  OBVIOUS
<1>2. NoCondition \in Condition
  BY DEF NoCondition, Condition, Empty, Value
<1>3. \A j \in 1 .. n : [intents[j] EXCEPT !.condition = NoCondition] \in WriteIntent
  <2> TAKE j \in 1 .. n
  <2>1. intents[j] \in WriteIntent
    BY <1>1
  <2> QED BY <1>2, <2>1 DEF WriteIntent
<1>4. u = [j \in 1 .. n |-> [intents[j] EXCEPT !.condition = NoCondition]]
  BY <1>1 DEF Unconditioned
<1>5. u \in [1 .. n -> WriteIntent]
  <2> HIDE DEF u
  <2> QED BY <1>3, <1>4
<1>6. u \in Seq(WriteIntent) /\ Len(u) = n
  <2> HIDE DEF u, n
  <2> QED BY <1>1, <1>5, FunctionIsSeq
<1> QED BY <1>1, <1>4, <1>6

\* Sequences with the same elements are the same.
LEMMA SameElements ==
    ASSUME NEW S, NEW v \in Seq(S), NEW w \in Seq(S), Len(v) = Len(w),
           \A j \in 1 .. Len(v) : v[j] = w[j]
    PROVE  v = w
<1>1. v = [j \in 1 .. Len(v) |-> v[j]] /\ w = [j \in 1 .. Len(w) |-> w[j]]
  OBVIOUS
<1>2. [j \in 1 .. Len(v) |-> v[j]] = [j \in 1 .. Len(v) |-> w[j]]
  OBVIOUS
<1> QED BY <1>1, <1>2

\* One more intent.
LEMMA UnconditionedAppend ==
    ASSUME NEW intents \in Seq(WriteIntent), NEW x \in WriteIntent
    PROVE  Unconditioned(Append(intents, x))
             = Append(Unconditioned(intents), [x EXCEPT !.condition = NoCondition])
<1> DEFINE n == Len(intents)
           more == Append(intents, x)
           u == Unconditioned(intents)
           y == [x EXCEPT !.condition = NoCondition]
           v == Unconditioned(more)
<1>1. more \in Seq(WriteIntent) /\ Len(more) = n + 1 /\ n \in Nat /\ more[n + 1] = x
      /\ DOMAIN more = 1 .. (n + 1) /\ DOMAIN intents = 1 .. n
      /\ \A j \in 1 .. n : more[j] = intents[j]
  OBVIOUS
<1>2. /\ u \in Seq(WriteIntent) /\ Len(u) = n
      /\ \A j \in 1 .. n : u[j] = [intents[j] EXCEPT !.condition = NoCondition]
  BY <1>1, UnconditionedType
<1>3. /\ v \in Seq(WriteIntent) /\ Len(v) = n + 1
      /\ \A j \in 1 .. (n + 1) : v[j] = [more[j] EXCEPT !.condition = NoCondition]
  <2> HIDE DEF more
  <2> QED BY <1>1, UnconditionedType
<1> HIDE DEF more, u, v
<1>4. v[n + 1] = y /\ \A j \in 1 .. n : v[j] = u[j]
  <2>1. n + 1 \in 1 .. (n + 1) /\ \A j \in 1 .. n : j \in 1 .. (n + 1)
    BY <1>1
  <2> QED BY <1>1, <1>2, <1>3, <2>1
<1> HIDE DEF y
<1>5. /\ Append(u, y) \in Seq(WriteIntent \cup {y}) /\ Len(Append(u, y)) = n + 1
      /\ Append(u, y)[n + 1] = y /\ \A j \in 1 .. n : Append(u, y)[j] = u[j]
  BY <1>1, <1>2
<1>6. v = Append(u, y)
  <2> DEFINE w == Append(u, y)
  <2>1. v \in Seq(WriteIntent \cup {y}) /\ w \in Seq(WriteIntent \cup {y})
        /\ Len(v) = Len(w) /\ Len(v) = n + 1
    BY <1>3, <1>5
  <2>3. \A j \in 1 .. (n + 1) : j = n + 1 \/ j \in 1 .. n
    BY <1>1
  <2> HIDE DEF w
  <2>4. \A j \in 1 .. Len(v) : v[j] = w[j]
    BY <1>4, <1>5, <2>1, <2>3 DEF w
  <2>5. v = w
    BY <2>1, <2>4, SameElements
  <2> QED BY <2>5 DEF w
<1> QED BY <1>6 DEF u, v, more, y

\* The first q intents.
LEMMA UnconditionedCut ==
    ASSUME NEW intents \in Seq(WriteIntent), NEW q \in 0 .. Len(intents)
    PROVE  Unconditioned(SubSeq(intents, 1, q)) = SubSeq(Unconditioned(intents), 1, q)
<1> DEFINE cut == SubSeq(intents, 1, q)
           u == Unconditioned(intents)
           v == Unconditioned(cut)
           w == SubSeq(u, 1, q)
<1>1. /\ q \in Nat /\ q <= Len(intents) /\ Len(intents) \in Nat
      /\ cut \in Seq(WriteIntent) /\ Len(cut) = q /\ DOMAIN cut = 1 .. q
      /\ \A j \in 1 .. q : cut[j] = intents[j] /\ j \in DOMAIN intents
  OBVIOUS
<1>2. /\ u \in Seq(WriteIntent) /\ Len(u) = Len(intents)
      /\ \A j \in DOMAIN intents : u[j] = [intents[j] EXCEPT !.condition = NoCondition]
  BY UnconditionedType
<1>3. /\ v \in Seq(WriteIntent) /\ Len(v) = q
      /\ \A j \in 1 .. q : v[j] = [cut[j] EXCEPT !.condition = NoCondition]
  <2> HIDE DEF cut
  <2> QED BY <1>1, UnconditionedType
<1> HIDE DEF cut, u, v
<1>4. w \in Seq(WriteIntent) /\ Len(w) = q /\ \A j \in 1 .. q : w[j] = u[j]
  BY <1>1, <1>2
<1> HIDE DEF w
<1>5. \A j \in 1 .. q : v[j] = w[j]
  BY <1>1, <1>2, <1>3, <1>4
<1>6. v = w
  <2>1. Len(v) = Len(w) /\ \A j \in 1 .. Len(v) : v[j] = w[j]
    BY <1>3, <1>4, <1>5
  <2> QED BY <1>3, <1>4, <2>1, SameElements
<1> QED BY <1>6 DEF v, w, u, cut

\* What mirrors a branch mirrors any other with the same work.
LEMMA SameWorkMirrors ==
    ASSUME NEW a, NEW b, NEW s, NEW now, Mirrors(a, b, s, now),
           NEW c, c.entries = b.entries, c.order = b.order, c.changes = b.changes,
           c.intents = b.intents, c.savepoints = b.savepoints, c.score = b.score
    PROVE  Mirrors(a, c, s, now)
BY DEF Mirrors, BufferMirrors

\* The replay of an event that changes no work.
LEMMA ReplayKeepsWork ==
    ASSUME NEW a, NEW b, NEW s \in Store, NEW now, Mirrors(a, b, s, now),
           NEW e \in EventRecord,
           e.type \notin {"WRITE", "SAVEPOINT", "ROLLBACK_TO_SAVEPOINT", "STAGE_BRANCH"}
    PROVE  Mirrors(ReplayOn(a, e, s), b, s, now)
<1>1. WellFormed(a) /\ a \in BranchContext
  BY DEF Mirrors, WellFormed
<1>2. CASE e.type = "READ"
  <2> DEFINE c == ReplayOn(a, e, s)
  <2>1. WellFormed(c)
    BY <1>1, ReplayOnFormed
  <2>2. /\ c.entries = a.entries /\ c.order = a.order /\ c.changes = a.changes
        /\ c.intents = a.intents /\ c.savepoints = a.savepoints /\ c.score = a.score
    <3>1. c = [a EXCEPT !.status = "Running", !.reads = Append(a.reads, RecoveredRead(e))]
      BY <1>2 DEF ReplayOn
    <3> HIDE DEF c
    <3> QED BY <1>1, <3>1 DEF BranchContext
  <2> HIDE DEF c
  <2> QED BY <2>1, <2>2 DEF Mirrors, BufferMirrors, c
<1>3. CASE e.type # "READ"
  <2>1. ReplayOn(a, e, s) = a
    BY <1>3 DEF ReplayOn
  <2> QED BY <2>1
<1> QED BY <1>2, <1>3

\* A write, and its replay without the condition.
LEMMA ReplayWriteMirrors ==
    ASSUME NEW a, NEW b, WellFormed(b), NEW s \in Store, NEW now \in Store,
           Mirrors(a, b, s, now), NEW e \in EventRecord, e.type = "WRITE",
           NEW x \in WriteIntent, RecoveredIntent(e) = [x EXCEPT !.condition = NoCondition]
    PROVE  Mirrors(ReplayOn(a, e, s), BufferWrite(b, x, now), s, now)
<1> DEFINE y == RecoveredIntent(e)
           c == BufferWrite(a, y, s)
           d == BufferWrite(b, x, now)
<1>1. /\ a \in BranchContext /\ b \in BranchContext /\ WellFormed(a)
      /\ y \in WriteIntent
  BY RecoveredType DEF Mirrors, WellFormed
<1>2. y.object = x.object /\ y.type = x.type /\ y.payload = x.payload
  <2> HIDE DEF y
  <2> QED BY DEF WriteIntent, y
<1>3. ReplayOn(a, e, s) = c
  BY DEF ReplayOn
<1> HIDE DEF y
<1>4. BufferMirrors(c, d, s, now)
  BY <1>1, <1>2, BufferWriteMirrors DEF Mirrors
<1>5. WellFormed(c)
  BY <1>1, BufferWriteFormed
<1>6. /\ c.intents = Append(a.intents, y) /\ d.intents = Append(b.intents, x)
      /\ c.savepoints = a.savepoints /\ d.savepoints = b.savepoints
      /\ c.score = a.score /\ d.score = b.score
  BY <1>1, BufferWriteFields
<1>7. Append(a.intents, y) = Unconditioned(Append(b.intents, x))
  <2>1. b.intents \in Seq(WriteIntent)
    BY <1>1, BranchFields
  <2>2. Unconditioned(Append(b.intents, x))
            = Append(Unconditioned(b.intents), [x EXCEPT !.condition = NoCondition])
    BY <2>1, UnconditionedAppend
  <2> QED BY <2>2 DEF Mirrors, y
<1> HIDE DEF c, d
<1>8. Mirrors(c, d, s, now)
  BY <1>4, <1>5, <1>6, <1>7 DEF Mirrors
<1> QED BY <1>3, <1>8 DEF d

\* A savepoint, and its replay.
LEMMA ReplaySavepointMirrors ==
    ASSUME NEW a, NEW b, WellFormed(b), NEW s \in Store, NEW now,
           Mirrors(a, b, s, now), NEW e \in EventRecord, e.type = "SAVEPOINT"
    PROVE  Mirrors(ReplayOn(a, e, s), CreateSavepoint(b, e.id), s, now)
<1> DEFINE c == CreateSavepoint(a, e.id)
           d == CreateSavepoint(b, e.id)
<1>1. /\ a \in BranchContext /\ b \in BranchContext /\ WellFormed(a)
      /\ a.intents = Unconditioned(b.intents) /\ BufferMirrors(a, b, s, now)
      /\ a.savepoints = b.savepoints /\ a.score = Truncated(b.score)
  BY DEF Mirrors, WellFormed
<1>2. ReplayOn(a, e, s) = c
  BY DEF ReplayOn
<1>3. WellFormed(c)
  <2>1. e.id \in SavepointId
    BY EventFields DEF SavepointEvents
  <2> QED BY <1>1, <2>1, CreateSavepointFormed
<1>4. Len(a.changes) = Len(b.changes) /\ Len(a.intents) = Len(b.intents)
  <2>1. b.intents \in Seq(WriteIntent)
    BY <1>1, BranchFields
  <2> QED BY <1>1, <2>1, UnconditionedType DEF BufferMirrors
<1>5. /\ c.entries = a.entries /\ c.order = a.order /\ c.changes = a.changes
      /\ c.intents = a.intents /\ c.score = a.score
      /\ c.savepoints = Append(a.savepoints, [id |-> e.id, write_log_position |-> Len(a.changes),
                                              intent_log_position |-> Len(a.intents)])
  BY <1>1 DEF CreateSavepoint, BranchContext
<1>6. /\ d.entries = b.entries /\ d.order = b.order /\ d.changes = b.changes
      /\ d.intents = b.intents /\ d.score = b.score
      /\ d.savepoints = Append(b.savepoints, [id |-> e.id, write_log_position |-> Len(b.changes),
                                              intent_log_position |-> Len(b.intents)])
  BY <1>1 DEF CreateSavepoint, BranchContext
<1> HIDE DEF c, d
<1>7. c.savepoints = d.savepoints
  BY <1>1, <1>4, <1>5, <1>6
<1>8. Mirrors(c, d, s, now)
  BY <1>1, <1>3, <1>5, <1>6, <1>7 DEF Mirrors, BufferMirrors
<1> QED BY <1>2, <1>8 DEF d

\* A rollback, found or not, and its replay.
LEMMA ReplayRollbackMirrors ==
    ASSUME NEW a, NEW b, WellFormed(b), NEW s \in Store, NEW now,
           Mirrors(a, b, s, now), NEW e \in EventRecord, e.type = "ROLLBACK_TO_SAVEPOINT"
    PROVE  Mirrors(ReplayOn(a, e, s),
                   IF HasSavepoint(b, e.id) THEN RollbackToSavepoint(b, e.id) ELSE b, s, now)
<1> DEFINE id == e.id
           c == RollbackToSavepoint(a, id)
           d == RollbackToSavepoint(b, id)
           i == FirstSavepoint(b, id)
           q == b.savepoints[i].intent_log_position
<1>1. /\ a \in BranchContext /\ b \in BranchContext /\ WellFormed(a)
      /\ a.intents = Unconditioned(b.intents) /\ BufferMirrors(a, b, s, now)
      /\ a.savepoints = b.savepoints /\ a.score = Truncated(b.score)
      /\ PositionsInv(a) /\ PositionsInv(b)
  BY DEF Mirrors, WellFormed
<1>2. ReplayOn(a, e, s) = IF HasSavepoint(a, id) THEN c ELSE a
  BY DEF ReplayOn
<1>3. HasSavepoint(a, id) <=> HasSavepoint(b, id)
  BY <1>1 DEF HasSavepoint
<1>4. CASE HasSavepoint(b, id)
  <2>1. BufferMirrors(c, d, s, now)
    BY <1>1, <1>4, RollbackMirrors
  <2>2. WellFormed(c)
    BY <1>1, <1>3, <1>4, RollbackFormed
  <2>3. FirstSavepoint(a, id) = i
    BY <1>1, <1>4, FirstSavepointSame
  <2>4. /\ d.intents = SubSeq(b.intents, 1, q) /\ d.savepoints = SubSeq(b.savepoints, 1, i)
        /\ d.score = b.score /\ q \in 0 .. Len(b.intents)
    BY <1>1, <1>4, RollbackFields
  <2>5. /\ c.intents = SubSeq(a.intents, 1, q) /\ c.savepoints = SubSeq(a.savepoints, 1, i)
        /\ c.score = a.score
    <3> DEFINE j == FirstSavepoint(a, id)
               r == a.savepoints[j].intent_log_position
    <3>1. /\ c.intents = SubSeq(a.intents, 1, r) /\ c.savepoints = SubSeq(a.savepoints, 1, j)
          /\ c.score = a.score
      BY <1>1, <1>3, <1>4, RollbackFields
    <3>2. j = i /\ r = q
      BY <1>1, <2>3
    <3> HIDE DEF c, j, r, i, q
    <3> QED BY <3>1, <3>2
  <2>6. SubSeq(a.intents, 1, q) = Unconditioned(SubSeq(b.intents, 1, q))
    <3>1. b.intents \in Seq(WriteIntent)
      BY <1>1, BranchFields
    <3> HIDE DEF q
    <3> QED BY <1>1, <2>4, <3>1, UnconditionedCut
  <2> HIDE DEF c, d, i, q
  <2>7. Mirrors(c, d, s, now)
    BY <1>1, <2>1, <2>2, <2>4, <2>5, <2>6 DEF Mirrors
  <2> QED BY <1>2, <1>3, <1>4, <2>7 DEF d
<1>5. CASE ~HasSavepoint(b, id)
  BY <1>2, <1>3, <1>5
<1> QED BY <1>4, <1>5

\* Staging, and its replay without the fraction of the score.
LEMMA ReplayStageMirrors ==
    ASSUME NEW a, NEW b, WellFormed(b), NEW s \in Store, NEW now,
           Mirrors(a, b, s, now), NEW e \in EventRecord, e.type = "STAGE_BRANCH",
           NEW score \in Int, e.score = Truncated(score)
    PROVE  Mirrors(ReplayOn(a, e, s), StageBranch(b, score), s, now)
<1> DEFINE c == StageBranch(a, e.score)
           d == StageBranch(b, score)
<1>1. a \in BranchContext /\ b \in BranchContext /\ WellFormed(a)
  BY DEF Mirrors, WellFormed
<1>2. ReplayOn(a, e, s) = c
  BY DEF ReplayOn
<1>3. WellFormed(c)
  BY <1>1, StageBranchFormed, TruncatedType
<1>4. /\ c.entries = a.entries /\ c.order = a.order /\ c.changes = a.changes
      /\ c.intents = a.intents /\ c.savepoints = a.savepoints /\ c.score = Truncated(score)
  BY <1>1 DEF StageBranch, BranchContext
<1>5. /\ d.entries = b.entries /\ d.order = b.order /\ d.changes = b.changes
      /\ d.intents = b.intents /\ d.savepoints = b.savepoints /\ d.score = score
  BY <1>1 DEF StageBranch, BranchContext
<1> HIDE DEF c, d
<1>6. Mirrors(c, d, s, now)
  BY <1>3, <1>4, <1>5 DEF Mirrors, BufferMirrors
<1> QED BY <1>2, <1>6 DEF d

\* New branches mirror each other.
LEMMA CreateBranchMirrors ==
    ASSUME NEW s, NEW now
    PROVE  Mirrors(CreateBranch, CreateBranch, s, now)
<1> DEFINE b == CreateBranch
<1>1. /\ b.entries = NoBuffer /\ b.order = <<>> /\ b.changes = <<>> /\ b.intents = <<>>
      /\ b.savepoints = <<>> /\ b.score = 0
  BY DEF CreateBranch
<1>2. DOMAIN NoBuffer = {} /\ DOMAIN <<>> = {}
  BY DEF NoBuffer
<1>3. Unconditioned(<<>>) = <<>>
  <2>1. <<>> \in Seq(WriteIntent) /\ Len(<<>>) = 0
    OBVIOUS
  <2>2. Unconditioned(<<>>) \in Seq(WriteIntent) /\ Len(Unconditioned(<<>>)) = 0
    BY <2>1, UnconditionedType
  <2> HIDE DEF Unconditioned
  <2> QED BY <2>2
<1> HIDE DEF b
<1>4. BufferMirrors(b, b, s, now)
  BY <1>1, <1>2 DEF BufferMirrors
<1>5. WellFormed(b)
  BY CreateBranchFormed DEF b
<1>6. Mirrors(b, b, s, now)
  BY <1>1, <1>3, <1>4, <1>5, TruncatedZero DEF Mirrors
<1> QED BY <1>6 DEF b

--------------------------------------------------------------------------------
(* The loop over the events.                                                 *)

\* What the branches are after each event.
ReplayUnrolled(events, count, s, g) ==
    /\ g[0] = SubmitTask(count).branches
    /\ \A n \in DOMAIN events : g[n] = ReplayEvent(g[n - 1], events[n], s)

\* The replay of the first events is what the loop over all of them comes to
\* after those.
LEMMA ReplayedUpTo ==
    ASSUME NEW events \in Seq(EventRecord), NEW count, NEW s, NEW g,
           ReplayUnrolled(events, count, s, g),
           NEW first \in Seq(EventRecord), Len(first) <= Len(events),
           \A n \in DOMAIN first : first[n] = events[n]
    PROVE  Replayed(first, count, s) = g[Len(first)]
<1> DEFINE m == Len(first)
<1>1. m \in Nat /\ DOMAIN first = 1 .. m /\ \A n \in 1 .. m : n \in DOMAIN events
  OBVIOUS
<1>2. PICK h : /\ h[0] = SubmitTask(count).branches
               /\ \A n \in DOMAIN first : h[n] = ReplayEvent(h[n - 1], first[n], s)
               /\ Replayed(first, count, s) = h[m]
  BY ReplayedUnroll
<1> DEFINE S == {n \in 0 .. m : h[n] # g[n]}
<1>3. ASSUME S # {} PROVE FALSE
  <2>1. PICK n \in S : \A j \in S : n <= j
    <3>1. S \in SUBSET (0 .. m)
      OBVIOUS
    <3> HIDE DEF S
    <3> QED BY <1>1, <1>3, <3>1, LeastIndex
  <2>2. n # 0
    BY <1>2, <2>1 DEF ReplayUnrolled
  <2>3. n \in 1 .. m /\ n - 1 \in 0 .. m /\ n - 1 \notin S
    BY <1>1, <2>1, <2>2
  <2>4. h[n - 1] = g[n - 1]
    BY <2>3
  <2>5. h[n] = ReplayEvent(h[n - 1], first[n], s) /\ first[n] = events[n]
    BY <1>1, <1>2, <2>3
  <2>6. g[n] = ReplayEvent(g[n - 1], events[n], s)
    BY <1>1, <2>3 DEF ReplayUnrolled
  <2>7. h[n] = g[n]
    BY <2>4, <2>5, <2>6
  <2> QED BY <2>1, <2>7
<1>4. m \in 0 .. m
  BY <1>1
<1> QED BY <1>2, <1>3, <1>4

\* One more event.
LEMMA ReplayedAppend ==
    ASSUME NEW events \in Seq(EventRecord), NEW e \in EventRecord, NEW count, NEW s
    PROVE  Replayed(Append(events, e), count, s)
             = ReplayEvent(Replayed(events, count, s), e, s)
<1> DEFINE n == Len(events)
           more == Append(events, e)
<1>1. /\ n \in Nat /\ more \in Seq(EventRecord) /\ Len(more) = n + 1 /\ more[n + 1] = e
      /\ n + 1 \in DOMAIN more /\ n <= Len(more) /\ (n + 1) - 1 = n
      /\ \A j \in DOMAIN events : events[j] = more[j]
  OBVIOUS
<1> HIDE DEF more, n
<1>2. PICK g : /\ g[0] = SubmitTask(count).branches
               /\ \A j \in DOMAIN more : g[j] = ReplayEvent(g[j - 1], more[j], s)
               /\ Replayed(more, count, s) = g[Len(more)]
  BY <1>1, ReplayedUnroll
<1>3. ReplayUnrolled(more, count, s, g)
  BY <1>2 DEF ReplayUnrolled
<1>4. Replayed(events, count, s) = g[n]
  BY <1>1, <1>3, ReplayedUpTo DEF n
<1>5. g[n + 1] = ReplayEvent(g[n], e, s)
  BY <1>1, <1>2
<1> QED BY <1>1, <1>2, <1>4, <1>5 DEF more

\* The branches of a replay are those of the plan.
LEMMA ReplayedDomain ==
    ASSUME NEW events \in Seq(EventRecord), NEW count, NEW s
    PROVE  DOMAIN Replayed(events, count, s) = 1 .. count
<1> DEFINE m == Len(events)
<1>1. m \in Nat /\ DOMAIN events = 1 .. m
  OBVIOUS
<1>2. PICK g : /\ g[0] = SubmitTask(count).branches
               /\ \A n \in DOMAIN events : g[n] = ReplayEvent(g[n - 1], events[n], s)
               /\ Replayed(events, count, s) = g[m]
  BY ReplayedUnroll
<1>3. DOMAIN SubmitTask(count).branches = 1 .. count
  BY DEF SubmitTask
<1> DEFINE S == {n \in 0 .. m : DOMAIN g[n] # 1 .. count}
<1>4. ASSUME S # {} PROVE FALSE
  <2>1. PICK n \in S : \A j \in S : n <= j
    <3>1. S \in SUBSET (0 .. m)
      OBVIOUS
    <3> HIDE DEF S
    <3> QED BY <1>1, <1>4, <3>1, LeastIndex
  <2>2. n # 0
    BY <1>2, <1>3, <2>1
  <2>3. n \in 1 .. m /\ n - 1 \in 0 .. m /\ n - 1 \notin S
    BY <1>1, <2>1, <2>2
  <2>4. DOMAIN g[n - 1] = 1 .. count
    BY <2>3
  <2>5. DOMAIN g[n] = DOMAIN g[n - 1]
    <3>1. g[n] = ReplayEvent(g[n - 1], events[n], s)
      BY <1>1, <1>2, <2>3
    <3>2. ReplayEvent(g[n - 1], events[n], s)
            = [i \in DOMAIN g[n - 1] |->
                IF i = events[n].branch THEN ReplayOn(g[n - 1][i], events[n], s) ELSE g[n - 1][i]]
      BY DEF ReplayEvent
    <3> QED BY <3>1, <3>2
  <2> QED BY <2>1, <2>4, <2>5
<1>5. m \in 0 .. m
  BY <1>1
<1> QED BY <1>2, <1>4, <1>5

\* Events that are not about a branch's work leave new branches.
LEMMA ReplayedPlain ==
    ASSUME NEW events \in Seq(EventRecord), NEW count, NEW s,
           \A n \in DOMAIN events :
               events[n].type \notin {"READ", "WRITE", "SAVEPOINT", "ROLLBACK_TO_SAVEPOINT",
                                      "STAGE_BRANCH"}
    PROVE  Replayed(events, count, s) = SubmitTask(count).branches
<1> DEFINE m == Len(events)
           first == SubmitTask(count).branches
<1>1. m \in Nat /\ DOMAIN events = 1 .. m
  OBVIOUS
<1>2. PICK g : /\ g[0] = first
               /\ \A n \in DOMAIN events : g[n] = ReplayEvent(g[n - 1], events[n], s)
               /\ Replayed(events, count, s) = g[m]
  BY ReplayedUnroll
<1>3. first = [i \in DOMAIN first |-> first[i]]
  BY DEF SubmitTask
<1> HIDE DEF first
<1> DEFINE S == {n \in 0 .. m : g[n] # first}
<1>4. ASSUME S # {} PROVE FALSE
  <2>1. PICK n \in S : \A j \in S : n <= j
    <3>1. S \in SUBSET (0 .. m)
      OBVIOUS
    <3> HIDE DEF S
    <3> QED BY <1>1, <1>4, <3>1, LeastIndex
  <2>2. n # 0
    BY <1>2, <2>1
  <2>3. n \in 1 .. m /\ n - 1 \in 0 .. m /\ n - 1 \notin S
    BY <1>1, <2>1, <2>2
  <2>4. g[n - 1] = first
    BY <2>3
  <2>5. n \in DOMAIN events
    BY <1>1, <2>3
  <2>6. \A b : ReplayOn(b, events[n], s) = b
    BY <2>5 DEF ReplayOn
  <2>7. g[n] = [i \in DOMAIN first |->
                  IF i = events[n].branch THEN ReplayOn(first[i], events[n], s) ELSE first[i]]
    BY <1>2, <2>4, <2>5 DEF ReplayEvent
  <2>8. g[n] = first
    BY <1>3, <2>6, <2>7
  <2> QED BY <2>1, <2>8
<1>5. m \in 0 .. m
  BY <1>1
<1> QED BY <1>2, <1>4, <1>5 DEF first

\* One event replayed on both.
LEMMA ReplayOnMirrors ==
    ASSUME NEW a, NEW b, WellFormed(b), NEW s \in Store, NEW now \in Store,
           Mirrors(a, b, s, now), NEW e \in EventRecord,
           e.type = "STAGE_BRANCH" => Truncated(e.score) = e.score
    PROVE  Mirrors(ReplayOn(a, e, s), ReplayOn(b, e, now), s, now)
<1>1. b \in BranchContext
  BY DEF WellFormed
<1>2. CASE e.type = "READ"
  <2> DEFINE c == ReplayOn(a, e, s)
             d == ReplayOn(b, e, now)
  <2>1. Mirrors(c, b, s, now)
    BY <1>2, ReplayKeepsWork
  <2>2. d = [b EXCEPT !.status = "Running", !.reads = Append(@, RecoveredRead(e))]
    BY <1>2 DEF ReplayOn
  <2>3. /\ d.entries = b.entries /\ d.order = b.order /\ d.changes = b.changes
        /\ d.intents = b.intents /\ d.savepoints = b.savepoints /\ d.score = b.score
    <3> HIDE DEF d
    <3> QED BY <1>1, <2>2 DEF BranchContext
  <2> HIDE DEF c, d
  <2>4. Mirrors(c, d, s, now)
    BY <2>1, <2>3, SameWorkMirrors
  <2> QED BY <2>4 DEF c, d
<1>3. CASE e.type = "WRITE"
  <2> DEFINE x == RecoveredIntent(e)
  <2>1. x \in WriteIntent
    BY <1>3, RecoveredType
  <2>2. x = [x EXCEPT !.condition = NoCondition]
    BY DEF RecoveredIntent
  <2>3. ReplayOn(b, e, now) = BufferWrite(b, x, now)
    BY <1>3 DEF ReplayOn
  <2>4. Mirrors(ReplayOn(a, e, s), BufferWrite(b, x, now), s, now)
    <3>1. PICK y \in WriteIntent : y = x
      BY <2>1
    <3>2. RecoveredIntent(e) = [y EXCEPT !.condition = NoCondition]
      BY <2>2, <3>1
    <3> HIDE DEF x
    <3>3. Mirrors(ReplayOn(a, e, s), BufferWrite(b, y, now), s, now)
      BY <1>3, <3>2, ReplayWriteMirrors
    <3> QED BY <3>1, <3>3
  <2> QED BY <2>3, <2>4
<1>4. CASE e.type = "SAVEPOINT"
  <2>1. ReplayOn(b, e, now) = CreateSavepoint(b, e.id)
    BY <1>4 DEF ReplayOn
  <2> QED BY <1>4, <2>1, ReplaySavepointMirrors
<1>5. CASE e.type = "ROLLBACK_TO_SAVEPOINT"
  <2>1. ReplayOn(b, e, now)
          = IF HasSavepoint(b, e.id) THEN RollbackToSavepoint(b, e.id) ELSE b
    BY <1>5 DEF ReplayOn
  <2> QED BY <1>5, <2>1, ReplayRollbackMirrors
<1>6. CASE e.type = "STAGE_BRANCH"
  <2>1. ReplayOn(b, e, now) = StageBranch(b, e.score)
    BY <1>6 DEF ReplayOn
  <2>2. e.score \in Int /\ e.score = Truncated(e.score)
    BY <1>6, EventFields DEF StageEvents
  <2>3. Mirrors(ReplayOn(a, e, s), StageBranch(b, e.score), s, now)
    BY <1>6, <2>2, ReplayStageMirrors
  <2> QED BY <2>1, <2>3
<1>7. CASE e.type \notin {"READ", "WRITE", "SAVEPOINT", "ROLLBACK_TO_SAVEPOINT", "STAGE_BRANCH"}
  <2>1. ReplayOn(b, e, now) = b
    BY <1>7 DEF ReplayOn
  <2> QED BY <1>7, <2>1, ReplayKeepsWork
<1> QED BY <1>2, <1>3, <1>4, <1>5, <1>6, <1>7

\* The same events replayed over two stores.
LEMMA ReplayedMirrors ==
    ASSUME NEW events \in Seq(EventRecord), StagesWhole(events), NEW count,
           NEW s \in Store, NEW now \in Store
    PROVE  \A i \in 1 .. count :
              /\ WellFormed(Replayed(events, count, now)[i])
              /\ Mirrors(Replayed(events, count, s)[i], Replayed(events, count, now)[i], s, now)
<1> DEFINE m == Len(events)
           first == SubmitTask(count).branches
           Good(b, c) == \A i \in 1 .. count : WellFormed(c[i]) /\ Mirrors(b[i], c[i], s, now)
<1>1. m \in Nat /\ DOMAIN events = 1 .. m /\ \A n \in 1 .. m : events[n] \in EventRecord
  OBVIOUS
<1>2. PICK g : /\ g[0] = first
               /\ \A n \in DOMAIN events : g[n] = ReplayEvent(g[n - 1], events[n], s)
               /\ Replayed(events, count, s) = g[m]
  BY ReplayedUnroll
<1>3. PICK h : /\ h[0] = first
               /\ \A n \in DOMAIN events : h[n] = ReplayEvent(h[n - 1], events[n], now)
               /\ Replayed(events, count, now) = h[m]
  BY ReplayedUnroll
<1>4. DOMAIN first = 1 .. count /\ \A i \in 1 .. count : first[i] = CreateBranch
  BY DEF SubmitTask
<1> HIDE DEF first
<1> DEFINE S == {n \in 0 .. m : ~(DOMAIN g[n] = 1 .. count /\ DOMAIN h[n] = 1 .. count
                                  /\ Good(g[n], h[n]))}
<1>5. 0 \notin S
  <2>1. Good(first, first)
    BY <1>4, CreateBranchFormed, CreateBranchMirrors
  <2> HIDE DEF Good
  <2> QED BY <1>2, <1>3, <1>4, <2>1
<1>6. ASSUME NEW n \in 1 .. m, n - 1 \notin S
      PROVE  n \notin S
  <2> DEFINE e == events[n]
             b == g[n - 1]
             c == h[n - 1]
  <2>1. /\ DOMAIN b = 1 .. count /\ DOMAIN c = 1 .. count /\ Good(b, c)
        /\ e \in EventRecord
    BY <1>1, <1>6
  <2>2. /\ g[n] = [i \in 1 .. count |-> IF i = e.branch THEN ReplayOn(b[i], e, s) ELSE b[i]]
        /\ h[n] = [i \in 1 .. count |-> IF i = e.branch THEN ReplayOn(c[i], e, now) ELSE c[i]]
    <3>1. g[n] = ReplayEvent(b, e, s) /\ h[n] = ReplayEvent(c, e, now)
      BY <1>1, <1>2, <1>3
    <3> HIDE DEF b, c, e, S, Good
    <3> QED BY <2>1, <3>1 DEF ReplayEvent
  <2>3. e.type = "STAGE_BRANCH" => Truncated(e.score) = e.score
    BY <1>1 DEF StagesWhole
  <2> HIDE DEF b, c, e
  <2>4. Good(g[n], h[n])
    <3> SUFFICES ASSUME NEW i \in 1 .. count
                 PROVE  WellFormed(h[n][i]) /\ Mirrors(g[n][i], h[n][i], s, now)
      OBVIOUS
    <3>1. WellFormed(c[i]) /\ Mirrors(b[i], c[i], s, now)
      BY <2>1
    <3>2. CASE i = e.branch
      <4>1. g[n][i] = ReplayOn(b[i], e, s) /\ h[n][i] = ReplayOn(c[i], e, now)
        BY <2>2, <3>2
      <4>2. WellFormed(ReplayOn(c[i], e, now))
        BY <2>1, <3>1, ReplayOnFormed
      <4>3. Mirrors(ReplayOn(b[i], e, s), ReplayOn(c[i], e, now), s, now)
        BY <2>1, <2>3, <3>1, ReplayOnMirrors
      <4> QED BY <4>1, <4>2, <4>3
    <3>3. CASE i # e.branch
      <4>1. g[n][i] = b[i] /\ h[n][i] = c[i]
        BY <2>2, <3>3
      <4> QED BY <3>1, <4>1
    <3> QED BY <3>2, <3>3
  <2>5. DOMAIN g[n] = 1 .. count /\ DOMAIN h[n] = 1 .. count
    BY <2>2
  <2> HIDE DEF Good
  <2> QED BY <2>4, <2>5
<1>7. ASSUME S # {} PROVE FALSE
  <2>1. PICK n \in S : \A j \in S : n <= j
    <3>1. S \in SUBSET (0 .. m)
      OBVIOUS
    <3> HIDE DEF S
    <3> QED BY <1>1, <1>7, <3>1, LeastIndex
  <2> HIDE DEF S
  <2>2. n \in 0 .. m /\ n # 0
    BY <1>5, <2>1 DEF S
  <2>3. n \in 1 .. m /\ n - 1 \notin S
    BY <1>1, <2>1, <2>2
  <2> QED BY <1>6, <2>1, <2>3
<1>8. m \in 0 .. m
  BY <1>1
<1>9. Good(g[m], h[m])
  BY <1>7, <1>8
<1> QED BY <1>2, <1>3, <1>9

--------------------------------------------------------------------------------
(* The calls on a session keep what a replay of its events would rebuild.    *)

\* One more event, and what it stands for on every branch.
LEMMA WorkStep ==
    ASSUME NEW branches, NEW events \in Seq(EventRecord), NEW now,
           WorkMirrored(branches, events, now), NEW e \in EventRecord,
           NEW after, DOMAIN after = DOMAIN branches, Len(after) = Len(branches),
           DOMAIN branches = 1 .. Len(branches),
           \A s \in Store : \A i \in DOMAIN branches : \A a :
               Mirrors(a, branches[i], s, now) =>
                   Mirrors(IF i = e.branch THEN ReplayOn(a, e, s) ELSE a, after[i], s, now)
    PROVE  WorkMirrored(after, Append(events, e), now)
<1> SUFFICES ASSUME NEW s \in Store, NEW i \in DOMAIN branches
             PROVE  Mirrors(Replayed(Append(events, e), Len(branches), s)[i], after[i], s, now)
  BY DEF WorkMirrored
<1> DEFINE r == Replayed(events, Len(branches), s)
<1>1. Replayed(Append(events, e), Len(branches), s) = ReplayEvent(r, e, s)
  BY ReplayedAppend
<1>2. DOMAIN r = DOMAIN branches
  BY ReplayedDomain
<1>3. Mirrors(r[i], branches[i], s, now)
  BY DEF WorkMirrored
<1> HIDE DEF r
<1>4. ReplayEvent(r, e, s)[i] = IF i = e.branch THEN ReplayOn(r[i], e, s) ELSE r[i]
  BY <1>2 DEF ReplayEvent
<1>5. Mirrors(IF i = e.branch THEN ReplayOn(r[i], e, s) ELSE r[i], after[i], s, now)
  BY <1>3
<1> QED BY <1>1, <1>4, <1>5

\* Branches of the same work.
LEMMA WorkSame ==
    ASSUME NEW branches, NEW events, NEW now, WorkMirrored(branches, events, now),
           NEW after, DOMAIN after = DOMAIN branches, Len(after) = Len(branches),
           \A i \in DOMAIN branches :
              /\ after[i].entries = branches[i].entries /\ after[i].order = branches[i].order
              /\ after[i].changes = branches[i].changes /\ after[i].intents = branches[i].intents
              /\ after[i].savepoints = branches[i].savepoints
              /\ after[i].score = branches[i].score
    PROVE  WorkMirrored(after, events, now)
<1> SUFFICES ASSUME NEW s \in Store, NEW i \in DOMAIN branches
             PROVE  Mirrors(Replayed(events, Len(branches), s)[i], after[i], s, now)
  BY DEF WorkMirrored
<1>1. Mirrors(Replayed(events, Len(branches), s)[i], branches[i], s, now)
  BY DEF WorkMirrored
<1> QED BY <1>1, SameWorkMirrors

\* What is mirrored still is when the store has moved on.
LEMMA WorkAdvance ==
    ASSUME NEW branches, \A i \in DOMAIN branches : branches[i] \in BranchContext,
           NEW events, NEW now \in Store, NEW next \in Store, MovesOn(now, next),
           WorkMirrored(branches, events, now)
    PROVE  WorkMirrored(branches, events, next)
<1> SUFFICES ASSUME NEW s \in Store, NEW i \in DOMAIN branches
             PROVE  Mirrors(Replayed(events, Len(branches), s)[i], branches[i], s, next)
  BY DEF WorkMirrored
<1> DEFINE a == Replayed(events, Len(branches), s)[i]
           b == branches[i]
<1>1. Mirrors(a, b, s, now)
  BY DEF WorkMirrored
<1>2. b \in BranchContext
  OBVIOUS
<1> HIDE DEF a, b
<1>3. BufferMirrors(a, b, s, next)
  BY <1>1, <1>2, MirrorsAdvance DEF Mirrors
<1>4. Mirrors(a, b, s, next)
  BY <1>1, <1>3 DEF Mirrors
<1> QED BY <1>4 DEF a, b

\* The scores in the events have no fraction, whatever is recorded.
LEMMA AppendWhole ==
    ASSUME NEW events \in Seq(EventRecord), StagesWhole(events), NEW e,
           e.type = "STAGE_BRANCH" => Truncated(e.score) = e.score
    PROVE  StagesWhole(Append(events, e))
BY AppendIndex DEF StagesWhole

\* A session after a call that a replay of its events repeats.
Repeats(s, t) ==
    /\ StagesWhole(t.events)
    /\ WorkMirrored(s.branches, s.events, store) => WorkMirrored(t.branches, t.events, store)

\* The argument for the calls on one branch.
LEMMA BranchCallRepeats ==
    ASSUME NEW s, SessionInv(s), StagesWhole(s.events), NEW i, NEW b,
           NEW e \in EventRecord, e.branch = i,
           e.type = "STAGE_BRANCH" => Truncated(e.score) = e.score,
           Found(s, i) =>
              /\ b \in BranchContext
              /\ \A r \in Store : \A a :
                    Mirrors(a, s.branches[i], r, store) => Mirrors(ReplayOn(a, e, r), b, r, store)
    PROVE  Repeats(s, Record(OnBranch(s, i, b), e))
<1> DEFINE u == OnBranch(s, i, b)
           t == Record(u, e)
<1>1. /\ s \in SessionRecord /\ s.events \in Seq(EventRecord)
      /\ s.branches \in Seq(BranchContext) /\ DOMAIN s.branches = 1 .. Len(s.branches)
  BY DEF SessionInv, SessionRecord
<1>2. /\ u \in SessionRecord /\ u.events = s.events
      /\ Len(u.branches) = Len(s.branches) /\ DOMAIN u.branches = DOMAIN s.branches
      /\ \A j \in DOMAIN s.branches : u.branches[j] = IF j = i THEN b ELSE s.branches[j]
  BY <1>1, OnBranchFields
<1> HIDE DEF u
<1>3. t.events = Append(s.events, e) /\ t.branches = u.branches
  BY <1>2, RecordFields
<1> HIDE DEF t
<1>4. StagesWhole(t.events)
  BY <1>1, <1>3, AppendWhole
<1>5. ASSUME WorkMirrored(s.branches, s.events, store)
      PROVE  WorkMirrored(u.branches, Append(s.events, e), store)
  <2>1. ASSUME NEW r \in Store, NEW j \in DOMAIN s.branches, NEW a,
               Mirrors(a, s.branches[j], r, store)
        PROVE  Mirrors(IF j = e.branch THEN ReplayOn(a, e, r) ELSE a, u.branches[j], r, store)
    <3>1. CASE j = i
      <4>1. Found(s, i) /\ u.branches[j] = b
        BY <1>2, <3>1 DEF Found
      <4> QED BY <2>1, <3>1, <4>1
    <3>2. CASE j # i
      <4>1. u.branches[j] = s.branches[j]
        BY <1>2, <3>2
      <4> QED BY <2>1, <3>2, <4>1
    <3> QED BY <3>1, <3>2
  <2> QED BY <1>1, <1>2, <1>5, <2>1, WorkStep
<1> QED BY <1>3, <1>4, <1>5 DEF Repeats, t, u

\* Read.
LEMMA ReadInRepeats ==
    ASSUME NEW s, SessionInv(s), StagesWhole(s.events), store \in Store,
           NEW i \in Nat, NEW k \in Key
    PROVE  Repeats(s, ReadIn(s, i, k))
<1> DEFINE b == s.branches[i]
           c == ReadObject(b, k, store)
           event == IF ~Found(s, i) THEN ReadEvent(i, k, 0, Empty)
                    ELSE IF IsBuffered(b, k)
                    THEN ReadEvent(i, k, b.entries[k].base_version, b.entries[k].current_value)
                    ELSE ReadEvent(i, k, store[k].version, store[k].value)
<1>1. store[k].version \in Nat /\ store[k].value \in Value /\ Empty \in Value
  BY DEF Store, VersionedValue, Empty, Value
<1>2. Found(s, i) /\ IsBuffered(b, k) =>
          b.entries[k].base_version \in Nat /\ b.entries[k].current_value \in Value
  BY FoundFormed, BranchFields DEF IsBuffered, CacheEntry
<1>3. event \in EventRecord /\ event.type = "READ" /\ event.branch = i
  <2>1. event \in EventRecord
    BY <1>1, <1>2, ReadEventType
  <2> QED BY <2>1 DEF ReadEvent
<1>4. ReadIn(s, i, k) = Record(OnBranch(s, i, c), event)
  BY DEF ReadIn
<1> HIDE DEF event
<1>5. ASSUME Found(s, i)
      PROVE  /\ c \in BranchContext
             /\ \A r \in Store : \A a :
                   Mirrors(a, b, r, store) => Mirrors(ReplayOn(a, event, r), c, r, store)
  <2>1. WellFormed(b) /\ b \in BranchContext
    BY <1>5, FoundFormed
  <2> HIDE DEF b
  <2>2. c \in BranchContext
    BY <2>1, ReadObjectFormed DEF WellFormed
  <2>3. /\ c.entries = b.entries /\ c.order = b.order /\ c.changes = b.changes
        /\ c.intents = b.intents /\ c.savepoints = b.savepoints /\ c.score = b.score
    BY <2>1 DEF ReadObject, BranchContext
  <2> HIDE DEF c
  <2>4. ASSUME NEW r \in Store, NEW a, Mirrors(a, b, r, store)
        PROVE  Mirrors(ReplayOn(a, event, r), c, r, store)
    <3>1. Mirrors(ReplayOn(a, event, r), b, r, store)
      BY <1>3, <2>4, ReplayKeepsWork
    <3> QED BY <2>3, <3>1, SameWorkMirrors
  <2> QED BY <2>2, <2>4
<1> HIDE DEF b, c
<1> QED BY <1>3, <1>4, <1>5, BranchCallRepeats DEF b

\* Write.
LEMMA WriteInRepeats ==
    ASSUME NEW s, SessionInv(s), StagesWhole(s.events), store \in Store,
           NEW i \in Nat, NEW intent \in WriteIntent
    PROVE  Repeats(s, WriteIn(s, i, intent))
<1> DEFINE b == s.branches[i]
           c == BufferWrite(b, intent, store)
           event == WriteEvent(i, intent)
<1>1. event \in EventRecord /\ event.type = "WRITE" /\ event.branch = i
  BY WriteEventType DEF WriteEvent
<1>2. RecoveredIntent(event) = [intent EXCEPT !.condition = NoCondition]
  BY DEF RecoveredIntent, WriteEvent, WriteIntent
<1>3. WriteIn(s, i, intent) = Record(OnBranch(s, i, c), event)
  BY DEF WriteIn
<1> HIDE DEF event
<1>4. ASSUME Found(s, i)
      PROVE  /\ c \in BranchContext
             /\ \A r \in Store : \A a :
                   Mirrors(a, b, r, store) => Mirrors(ReplayOn(a, event, r), c, r, store)
  <2>1. WellFormed(b)
    BY <1>4, FoundFormed
  <2> HIDE DEF b
  <2>2. c \in BranchContext
    BY <2>1, BufferWriteFormed DEF WellFormed
  <2>3. ASSUME NEW r \in Store, NEW a, Mirrors(a, b, r, store)
        PROVE  Mirrors(ReplayOn(a, event, r), c, r, store)
    BY <1>1, <1>2, <2>1, <2>3, ReplayWriteMirrors
  <2> QED BY <2>2, <2>3
<1> HIDE DEF b, c
<1> QED BY <1>1, <1>3, <1>4, BranchCallRepeats DEF b

\* CreateSavepoint.
LEMMA SavepointInRepeats ==
    ASSUME NEW s, SessionInv(s), StagesWhole(s.events), store \in Store,
           NEW i \in Nat, NEW id \in SavepointId
    PROVE  Repeats(s, SavepointIn(s, i, id))
<1> DEFINE b == s.branches[i]
           c == CreateSavepoint(b, id)
           event == SavepointEvent(i, id, IntentsOf(s, i))
<1>1. event \in EventRecord /\ event.type = "SAVEPOINT" /\ event.branch = i /\ event.id = id
  <2>1. IntentsOf(s, i) \in Seq(WriteIntent)
    BY FoundFormed, BranchFields DEF IntentsOf
  <2> QED BY <2>1, SavepointEventType DEF SavepointEvent
<1>2. SavepointIn(s, i, id) = Record(OnBranch(s, i, c), event)
  BY DEF SavepointIn
<1> HIDE DEF event
<1>3. ASSUME Found(s, i)
      PROVE  /\ c \in BranchContext
             /\ \A r \in Store : \A a :
                   Mirrors(a, b, r, store) => Mirrors(ReplayOn(a, event, r), c, r, store)
  <2>1. WellFormed(b)
    BY <1>3, FoundFormed
  <2> HIDE DEF b
  <2>2. c \in BranchContext
    BY <2>1, CreateSavepointFormed DEF WellFormed
  <2>3. ASSUME NEW r \in Store, NEW a, Mirrors(a, b, r, store)
        PROVE  Mirrors(ReplayOn(a, event, r), c, r, store)
    BY <1>1, <2>1, <2>3, ReplaySavepointMirrors
  <2> QED BY <2>2, <2>3
<1> HIDE DEF b, c
<1> QED BY <1>1, <1>2, <1>3, BranchCallRepeats DEF b

\* RollbackToSavepoint.
LEMMA RollbackInRepeats ==
    ASSUME NEW s, SessionInv(s), StagesWhole(s.events), store \in Store,
           NEW i \in Nat, NEW id \in SavepointId
    PROVE  Repeats(s, RollbackIn(s, i, id))
<1>1. CASE FindSavepoint(s, i, id)
  <2> DEFINE b == s.branches[i]
             c == RollbackToSavepoint(b, id)
             event == RollbackEvent(i, id)
  <2>1. /\ event \in EventRecord /\ event.type = "ROLLBACK_TO_SAVEPOINT" /\ event.branch = i
        /\ event.id = id
    BY RollbackEventType DEF RollbackEvent
  <2>2. RollbackIn(s, i, id) = Record(OnBranch(s, i, c), event)
    BY <1>1 DEF RollbackIn
  <2> HIDE DEF event
  <2>3. WellFormed(b) /\ HasSavepoint(b, id)
    BY <1>1, FoundFormed DEF FindSavepoint
  <2> HIDE DEF b
  <2>4. c \in BranchContext
    BY <2>3, RollbackFormed DEF WellFormed
  <2>5. ASSUME NEW r \in Store, NEW a, Mirrors(a, b, r, store)
        PROVE  Mirrors(ReplayOn(a, event, r), c, r, store)
    <3>1. Mirrors(ReplayOn(a, event, r),
                  IF HasSavepoint(b, event.id) THEN RollbackToSavepoint(b, event.id) ELSE b,
                  r, store)
      BY <2>1, <2>3, <2>5, ReplayRollbackMirrors
    <3> QED BY <2>1, <2>3, <3>1
  <2> HIDE DEF c
  <2> QED BY <2>1, <2>2, <2>4, <2>5, BranchCallRepeats DEF b
<1>2. CASE ~FindSavepoint(s, i, id)
  BY <1>2 DEF RollbackIn, Repeats
<1> QED BY <1>1, <1>2

\* StageBranch.
LEMMA StageInRepeats ==
    ASSUME NEW s, SessionInv(s), StagesWhole(s.events), store \in Store,
           NEW i \in Nat, NEW score \in Int
    PROVE  Repeats(s, StageIn(s, i, score))
<1> DEFINE b == s.branches[i]
           c == StageBranch(b, score)
           event == StageEvent(i, score)
<1>1. /\ event \in EventRecord /\ event.type = "STAGE_BRANCH" /\ event.branch = i
      /\ event.score = Truncated(score)
  BY StageEventType DEF StageEvent
<1>2. Truncated(event.score) = event.score
  BY <1>1, TruncatedTwice
<1>3. StageIn(s, i, score) = Record(OnBranch(s, i, c), event)
  BY DEF StageIn
<1> HIDE DEF event
<1>4. ASSUME Found(s, i)
      PROVE  /\ c \in BranchContext
             /\ \A r \in Store : \A a :
                   Mirrors(a, b, r, store) => Mirrors(ReplayOn(a, event, r), c, r, store)
  <2>1. WellFormed(b)
    BY <1>4, FoundFormed
  <2> HIDE DEF b
  <2>2. c \in BranchContext
    BY <2>1, StageBranchFormed DEF WellFormed
  <2>3. ASSUME NEW r \in Store, NEW a, Mirrors(a, b, r, store)
        PROVE  Mirrors(ReplayOn(a, event, r), c, r, store)
    BY <1>1, <2>1, <2>3, ReplayStageMirrors
  <2> QED BY <2>2, <2>3
<1> HIDE DEF b, c
<1> QED BY <1>1, <1>2, <1>3, <1>4, BranchCallRepeats DEF b

\* A commit is attempted: only the statuses change.
LEMMA AttemptedRepeats ==
    ASSUME NEW s, SessionInv(s), StagesWhole(s.events)
    PROVE  Repeats(s, Attempted(s))
<1> DEFINE winner == SelectWinner(s.branches)
           e == Event("COMMIT_ATTEMPT", 0)
           f == MarkWinnerAndLosers(s.branches, winner)
           t == Attempted(s)
<1>1. /\ s \in SessionRecord /\ s.events \in Seq(EventRecord)
      /\ s.branches \in Seq(BranchContext) /\ DOMAIN s.branches = 1 .. Len(s.branches)
      /\ e \in EventRecord /\ e.type = "COMMIT_ATTEMPT"
  <2>1. e \in EventRecord /\ e.type = "COMMIT_ATTEMPT"
    BY PlainEventType DEF Event
  <2>2. /\ s \in SessionRecord /\ s.events \in Seq(EventRecord)
        /\ s.branches \in Seq(BranchContext) /\ DOMAIN s.branches = 1 .. Len(s.branches)
    BY DEF SessionInv, SessionRecord
  <2> QED BY <2>1, <2>2
<1>2. t.branches = f /\ t.events = Append(s.events, e) /\ Len(f) = Len(s.branches)
  <2>1. t.branches = f /\ Len(t.branches) = Len(s.branches)
    BY AttemptedContinues DEF Continues
  <2>2. Record(s, e).events = Append(s.events, e)
    BY <1>1, RecordFields
  <2>3. t.events = Record(s, e).events
    BY DEF Attempted
  <2> QED BY <2>1, <2>2, <2>3
<1>3. DOMAIN f = DOMAIN s.branches
  BY DEF MarkWinnerAndLosers
<1>4. \A j \in DOMAIN s.branches :
          /\ f[j].entries = s.branches[j].entries /\ f[j].order = s.branches[j].order
          /\ f[j].changes = s.branches[j].changes /\ f[j].intents = s.branches[j].intents
          /\ f[j].savepoints = s.branches[j].savepoints /\ f[j].score = s.branches[j].score
  <2> TAKE j \in DOMAIN s.branches
  <2>1. PICK b \in BranchContext : b = s.branches[j]
    BY <1>1
  <2>2. f[j] = [b EXCEPT !.status = IF j = winner THEN "Winner" ELSE "Loser"]
    BY <2>1 DEF MarkWinnerAndLosers
  <2> HIDE DEF f
  <2> QED BY <2>1, <2>2 DEF BranchContext
<1> HIDE DEF f, t, e
<1>5. StagesWhole(t.events)
  BY <1>1, <1>2, AppendWhole
<1>6. ASSUME WorkMirrored(s.branches, s.events, store)
      PROVE  WorkMirrored(f, Append(s.events, e), store)
  <2>1. ASSUME NEW r \in Store, NEW j \in DOMAIN s.branches, NEW a,
               Mirrors(a, s.branches[j], r, store)
        PROVE  Mirrors(IF j = e.branch THEN ReplayOn(a, e, r) ELSE a, f[j], r, store)
    <3>1. Mirrors(a, f[j], r, store)
      BY <1>4, <2>1, SameWorkMirrors
    <3>2. ReplayOn(a, e, r) = a
      BY <1>1 DEF ReplayOn
    <3> QED BY <3>1, <3>2
  <2> QED BY <1>1, <1>2, <1>3, <1>6, <2>1, WorkStep
<1> QED BY <1>2, <1>5, <1>6 DEF Repeats, t

\* The events of a new task, by what they carry.
LEMMA SubmitTaskEvents ==
    ASSUME NEW count \in Nat
    PROVE  LET s == SubmitTask(count)
           IN  /\ s.events \in Seq(EventRecord) /\ Len(s.branches) = count
               /\ DOMAIN s.branches = 1 .. count
               /\ \A i \in 1 .. count : s.branches[i] = CreateBranch
               /\ \A n \in DOMAIN s.events : s.events[n].type \in {"SUBMIT_TASK", "CREATE_BRANCH"}
<1> DEFINE s == SubmitTask(count)
           branches == [i \in 1 .. count |-> CreateBranch]
           plan == [i \in 1 .. count |-> Event("CREATE_BRANCH", i)]
           first == <<Event("SUBMIT_TASK", 0)>>
           Plan == {e \in EventRecord : e.type \in {"SUBMIT_TASK", "CREATE_BRANCH"}}
<1>1. s.branches = branches /\ s.events = first \o plan
  BY DEF SubmitTask
<1>2. Len(branches) = count /\ DOMAIN branches = 1 .. count
      /\ \A i \in 1 .. count : branches[i] = CreateBranch
  <2>1. branches \in [1 .. count -> BranchContext]
    BY CreateBranchType
  <2> QED BY <2>1, FunctionIsSeq
<1>3. plan \in Seq(Plan)
  <2>1. \A i \in 1 .. count : Event("CREATE_BRANCH", i) \in EventRecord
    BY PlainEventType
  <2>2. \A i \in 1 .. count : Event("CREATE_BRANCH", i).type = "CREATE_BRANCH"
    BY DEF Event
  <2>3. plan \in [1 .. count -> Plan]
    BY <2>1, <2>2
  <2> HIDE DEF plan, Plan
  <2> QED BY <2>3, FunctionIsSeq
<1>4. first \in Seq(Plan)
  <2>1. Event("SUBMIT_TASK", 0) \in EventRecord
    BY PlainEventType
  <2>2. Event("SUBMIT_TASK", 0).type = "SUBMIT_TASK"
    BY DEF Event
  <2> QED BY <2>1, <2>2
<1> HIDE DEF plan, first, branches, s
<1>5. first \o plan \in Seq(Plan)
  <2> HIDE DEF Plan
  <2> QED BY <1>3, <1>4
<1>6. s.events \in Seq(EventRecord)
  <2>1. Plan \subseteq EventRecord
    OBVIOUS
  <2> HIDE DEF Plan
  <2> QED BY <1>1, <1>5, <2>1
<1>7. \A n \in DOMAIN s.events : s.events[n] \in Plan
  <2> HIDE DEF Plan
  <2> QED BY <1>1, <1>5
<1> QED BY <1>1, <1>2, <1>6, <1>7 DEF s

\* A new task.
LEMMA SubmitTaskRepeats ==
    ASSUME NEW count \in Nat, NEW now
    PROVE  /\ StagesWhole(SubmitTask(count).events)
           /\ WorkMirrored(SubmitTask(count).branches, SubmitTask(count).events, now)
<1> DEFINE s == SubmitTask(count)
<1>1. /\ s.events \in Seq(EventRecord) /\ Len(s.branches) = count
      /\ DOMAIN s.branches = 1 .. count
      /\ \A i \in 1 .. count : s.branches[i] = CreateBranch
      /\ \A n \in DOMAIN s.events : s.events[n].type \in {"SUBMIT_TASK", "CREATE_BRANCH"}
  BY SubmitTaskEvents
<1> HIDE DEF s
<1>2. \A r : Replayed(s.events, count, r) = s.branches
  BY <1>1, ReplayedPlain DEF s
<1>3. WorkMirrored(s.branches, s.events, now)
  <2> SUFFICES ASSUME NEW r \in Store, NEW i \in DOMAIN s.branches
               PROVE  Mirrors(Replayed(s.events, Len(s.branches), r)[i], s.branches[i], r, now)
    BY DEF WorkMirrored
  <2>1. /\ Replayed(s.events, Len(s.branches), r)[i] = CreateBranch
        /\ s.branches[i] = CreateBranch
    BY <1>1, <1>2
  <2> QED BY <2>1, CreateBranchMirrors
<1>4. StagesWhole(s.events)
  BY <1>1 DEF StagesWhole
<1> QED BY <1>3, <1>4 DEF s

\* A branch that is resumed has the same work.
LEMMA ResumedRepeats ==
    ASSUME NEW s, SessionInv(s), NEW i, Found(s, i), NEW now,
           WorkMirrored(s.branches, s.events, now)
    PROVE  WorkMirrored(Resumed(s, i).branches, Resumed(s, i).events, now)
<1> DEFINE t == Resumed(s, i)
           f == [s.branches EXCEPT ![i].status = "Running"]
<1>1. s \in SessionRecord /\ i \in DOMAIN s.branches
  BY DEF SessionInv, Found
<1>2. s.branches \in Seq(BranchContext) /\ DOMAIN s.branches = 1 .. Len(s.branches)
  BY <1>1 DEF SessionRecord
<1>3. t.branches = f /\ t.events = s.events
  BY <1>1 DEF Resumed, SessionRecord
<1>4. DOMAIN f = DOMAIN s.branches
  BY <1>2
<1>5. Len(t.branches) = Len(s.branches)
  BY ResumedContinues DEF Continues
<1>6. \A j \in DOMAIN s.branches :
          /\ f[j].entries = s.branches[j].entries /\ f[j].order = s.branches[j].order
          /\ f[j].changes = s.branches[j].changes /\ f[j].intents = s.branches[j].intents
          /\ f[j].savepoints = s.branches[j].savepoints /\ f[j].score = s.branches[j].score
  <2> TAKE j \in DOMAIN s.branches
  <2>1. PICK b \in BranchContext : b = s.branches[j]
    BY <1>2
  <2>2. f[j] = b \/ f[j] = [b EXCEPT !.status = "Running"]
    BY <1>1, <1>2, <2>1
  <2> HIDE DEF f
  <2> QED BY <2>1, <2>2 DEF BranchContext
<1> HIDE DEF f, t
<1> QED BY <1>3, <1>4, <1>5, <1>6, WorkSame DEF t
--------------------------------------------------------------------------------
(* The invariant.                                                            *)

\* What is in memory, and what is in the log, is what a replay rebuilds.
WorkInv ==
    /\ Replayable => WorkMirrored(session.branches, session.events, store)
    /\ IsFaithful => WorkMirrored(log.saved, log.events, store)
    /\ StagesWhole(session.events) /\ StagesWhole(log.events)
    /\ RebuildsWork

\* It holds at the start.
LEMMA WorkInvInit == Init => WorkInv
<1> SUFFICES ASSUME Init PROVE WorkInv
  OBVIOUS
<1>1. session = SubmitTask(BranchCount) /\ log = NoLog /\ mode = "working"
  BY DEF Init, InitWith
<1>2. BranchCount \in Nat
  BY PlanAssumption
<1>3. StagesWhole(session.events) /\ WorkMirrored(session.branches, session.events, store)
  BY <1>1, <1>2, SubmitTaskRepeats
<1>4. StagesWhole(log.events)
  BY <1>1 DEF NoLog, StagesWhole
<1>5. ~IsFaithful
  BY <1>1 DEF NoLog, IsFaithful
<1>6. RebuildsWork
  BY <1>1 DEF RebuildsWork
<1> QED BY <1>3, <1>4, <1>5, <1>6 DEF WorkInv

\* An entry whose base is the store's now had the store's base before.
LEMMA PinnedStays ==
    ASSUME NEW b \in BranchContext, NEW k \in DOMAIN b.entries,
           NEW now \in Store, NEW next \in Store, MovesOn(now, next) \/ next = now,
           Pinned(b.entries[k], k, now), VersionIs(next, k, b.entries[k].base_version)
    PROVE  VersionIs(now, k, b.entries[k].base_version)
<1> DEFINE e == b.entries[k]
<1>1. k \in Key /\ e \in CacheEntry
  BY BranchFields
<1>2. e.base_version \in Nat /\ now[k].version \in Nat /\ next[k].version \in Nat
  BY <1>1 DEF CacheEntry, Store, VersionedValue
<1>3. e.base_version <= now[k].version
  BY <1>2 DEF Pinned, SameBase
<1>4. next[k] = now[k] \/ next[k].version > now[k].version
  BY <1>1 DEF MovesOn
<1>5. next[k].version = e.base_version
  BY DEF VersionIs
<1> HIDE DEF e
<1>6. now[k].version = e.base_version
  BY <1>2, <1>3, <1>4, <1>5
<1> QED BY <1>6 DEF VersionIs, e

\* A step that leaves the log, that may move the store on, and that is no
\* recovery.
LEMMA WorkStepInv ==
    ASSUME WorkInv, RecoveryInv, RecoveryInv', log' = log,
           MovesOn(store, store') \/ store' = store,
           StagesWhole(session'.events), mode' # "recovered" \/ UNCHANGED <<mode, session>>,
           Replayable' => WorkMirrored(session'.branches, session'.events, store')
    PROVE  WorkInv'
<1>1. store \in Store /\ store' \in Store /\ log \in LogRecord
  BY DEF RecoveryInv, LogInv
<1>2. log.saved \in Seq(BranchContext) /\ \A i \in DOMAIN log.saved : log.saved[i] \in BranchContext
  <2>1. log.saved \in Seq(BranchContext)
    BY <1>1 DEF LogRecord
  <2> QED BY <2>1
<1>3. IsFaithful' => IsFaithful
  BY DEF IsFaithful
<1>4. IsFaithful => WorkMirrored(log.saved, log.events, store')
  <2>1. CASE store' = store
    BY <2>1 DEF WorkInv
  <2>2. CASE MovesOn(store, store')
    BY <1>1, <1>2, <2>2, WorkAdvance DEF WorkInv
  <2> QED BY <2>1, <2>2
<1>5. (IsFaithful => WorkMirrored(log.saved, log.events, store))'
  BY <1>3, <1>4
<1>6. RebuildsWork'
  <2>1. CASE mode' # "recovered"
    BY <2>1 DEF RebuildsWork
  <2>2. CASE mode = "recovered" /\ UNCHANGED <<mode, session>> /\ IsFaithful
    <3>1. RebuildsWork /\ WorkMirrored(log.saved, log.events, store)
      BY <2>2 DEF WorkInv
    <3>2. ASSUME NEW i \in DOMAIN log.saved, NEW k \in DOMAIN log.saved[i].entries,
                 VersionIs(store', k, log.saved[i].entries[k].base_version)
          PROVE  session.branches[i].entries[k] = log.saved[i].entries[k]
      <4> DEFINE b == log.saved[i]
      <4>1. Pinned(b.entries[k], k, store)
        <5>1. Mirrors(Replayed(log.events, Len(log.saved), store)[i], b, store, store)
          BY <1>1, <3>1 DEF WorkMirrored
        <5> HIDE DEF b
        <5> QED BY <5>1 DEF Mirrors, BufferMirrors, EntryMirrors, b
      <4>2. b \in BranchContext
        BY <1>2
      <4> HIDE DEF b
      <4>3. VersionIs(store, k, b.entries[k].base_version)
        BY <1>1, <3>2, <4>1, <4>2, PinnedStays DEF b
      <4> QED BY <2>2, <3>1, <4>3 DEF RebuildsWork, b
    <3>3. \A i \in DOMAIN log.saved : \A k \in DOMAIN log.saved[i].entries :
            VersionIs(store', k, log.saved[i].entries[k].base_version)
                => session.branches[i].entries[k] = log.saved[i].entries[k]
      BY <3>2
    <3>4. session' = session /\ log' = log
      BY <2>2
    <3> QED BY <2>2, <3>1, <3>3, <3>4 DEF RebuildsWork
  <2>3. CASE ~IsFaithful
    BY <1>3, <2>3 DEF RebuildsWork
  <2> QED BY <2>1, <2>2, <2>3
<1>7. StagesWhole(log'.events)
  BY DEF WorkInv
<1> QED BY <1>5, <1>6, <1>7 DEF WorkInv

\* A session after a call that does not end the task.
Follows(s, t) ==
    /\ t.resumed = s.resumed /\ t.phase = s.phase
    /\ t.events = s.events \/ \E e : t.events = Append(s.events, e)

\* No call on a branch does.
LEMMA CallFollows ==
    ASSUME NEW s \in SessionRecord, NEW i, NEW b, NEW e
    PROVE  Follows(s, s) /\ Follows(s, Record(OnBranch(s, i, b), e))
<1> DEFINE t == Record(OnBranch(s, i, b), e)
<1>1. t.resumed = s.resumed /\ t.phase = s.phase /\ t.events = Append(s.events, e)
  BY DEF Record, OnBranch, SessionRecord
<1> HIDE DEF t
<1> QED BY <1>1 DEF Follows, t

\* A task that has not been committed has not been before.
LEMMA UncommittedBefore ==
    ASSUME NEW events \in Seq(EventRecord), NEW e, Uncommitted(Append(events, e))
    PROVE  Uncommitted(events)
BY AppendIndex DEF Uncommitted

\* The argument for every call on a session.
LEMMA SessionCallWork ==
    ASSUME WorkInv, RecoveryInv, RecoveryInv', mode \in {"working", "continuing"},
           Repeats(session, session'), Follows(session, session'),
           UNCHANGED <<store, mode, log>>
    PROVE  WorkInv'
<1>1. session.events \in Seq(EventRecord)
  BY DEF RecoveryInv, SessionInv, SessionRecord
<1>2. Uncommitted(session'.events) => Uncommitted(session.events)
  BY <1>1, UncommittedBefore DEF Follows
<1>3. Replayable' => Replayable
  BY <1>2 DEF Replayable, Follows
<1>4. WorkMirrored(session.branches, session.events, store)
        => WorkMirrored(session'.branches, session'.events, store')
  BY DEF Repeats
<1>5. Replayable' => WorkMirrored(session'.branches, session'.events, store')
  BY <1>3, <1>4 DEF WorkInv
<1>6. StagesWhole(session'.events)
  BY DEF Repeats
<1> QED BY <1>5, <1>6, WorkStepInv

\* Every operation of a caller.
LEMMA CallsWork ==
    ASSUME WorkInv, RecoveryInv, RecoveryInv',
           \/ \E r \in Reads : Read(r[1], r[2])
           \/ \E w \in Writes : Write(w[1], w[2])
           \/ \E i \in Managed, id \in GivenName : SavepointAt(i, id) \/ Rollback(i, id)
           \/ \E i \in Managed, score \in Score : Stage(i, score)
           \/ CommitThrows
    PROVE  WorkInv'
<1>1. /\ SessionInv(session) /\ store \in Store /\ StagesWhole(session.events)
      /\ session \in SessionRecord
  BY DEF RecoveryInv, WorkInv, SessionInv
<1>2. BranchIds \subseteq Nat /\ Managed \subseteq Nat /\ Score \subseteq Int
      /\ GivenName \subseteq SavepointId
  BY CallsAssumption, ScoreAssumption DEF BranchIds, GivenName
<1>3. ASSUME NEW r \in Reads, Read(r[1], r[2]) PROVE WorkInv'
  <2>1. r[1] \in Nat /\ r[2] \in Key
    BY <1>2, CallsAssumption
  <2>2. Repeats(session, ReadIn(session, r[1], r[2]))
    BY <1>1, <2>1, ReadInRepeats
  <2>3. Follows(session, ReadIn(session, r[1], r[2]))
    BY <1>1, CallFollows DEF ReadIn
  <2> QED BY <1>3, <2>2, <2>3, SessionCallWork, WorkingMode DEF Read
<1>4. ASSUME NEW w \in Writes, Write(w[1], w[2]) PROVE WorkInv'
  <2>1. w[1] \in Nat /\ w[2] \in WriteIntent
    BY <1>2, CallsAssumption
  <2>2. Repeats(session, WriteIn(session, w[1], w[2]))
    BY <1>1, <2>1, WriteInRepeats
  <2>3. Follows(session, WriteIn(session, w[1], w[2]))
    BY <1>1, CallFollows DEF WriteIn
  <2> QED BY <1>4, <2>2, <2>3, SessionCallWork, WorkingMode DEF Write
<1>5. ASSUME NEW i \in Managed, NEW id \in GivenName, SavepointAt(i, id) PROVE WorkInv'
  <2>1. Repeats(session, SavepointIn(session, i, id))
    BY <1>1, <1>2, SavepointInRepeats
  <2>2. Follows(session, SavepointIn(session, i, id))
    BY <1>1, CallFollows DEF SavepointIn
  <2> QED BY <1>5, <2>1, <2>2, SessionCallWork, WorkingMode DEF SavepointAt
<1>6. ASSUME NEW i \in Managed, NEW id \in GivenName, Rollback(i, id) PROVE WorkInv'
  <2>1. Repeats(session, RollbackIn(session, i, id))
    BY <1>1, <1>2, RollbackInRepeats
  <2>2. Follows(session, RollbackIn(session, i, id))
    BY <1>1, CallFollows DEF RollbackIn
  <2> QED BY <1>6, <2>1, <2>2, SessionCallWork, WorkingMode DEF Rollback
<1>7. ASSUME NEW i \in Managed, NEW score \in Score, Stage(i, score) PROVE WorkInv'
  <2>1. Repeats(session, StageIn(session, i, score))
    BY <1>1, <1>2, StageInRepeats
  <2>2. Follows(session, StageIn(session, i, score))
    BY <1>1, CallFollows DEF StageIn
  <2> QED BY <1>7, <2>1, <2>2, SessionCallWork DEF Stage, Working
<1>8. ASSUME CommitThrows PROVE WorkInv'
  <2>1. Repeats(session, Attempted(session))
    BY <1>1, AttemptedRepeats
  <2>2. Follows(session, Attempted(session))
    BY <1>1 DEF Attempted, Record, SessionRecord, Follows
  <2> QED BY <1>8, <2>1, <2>2, SessionCallWork DEF CommitThrows, Working
<1> QED BY <1>3, <1>4, <1>5, <1>6, <1>7, <1>8

\* A task that is aborted is not in progress.
LEMMA AbortedFields ==
    ASSUME NEW s \in SessionRecord, NEW e
    PROVE  /\ Aborted(s, e).phase = "Aborted" /\ Aborted(s, e).committed = FALSE
           /\ Aborted(s, e).events = Append(s.events, e)
BY DEF Aborted, Record, SessionRecord

\* Nor is a task that is committed, and its events say so.
LEMMA CommittedFields ==
    ASSUME NEW s \in SessionRecord, NEW winner
    PROVE  /\ Committed(s, winner).phase = "Committed" /\ Committed(s, winner).committed = TRUE
           /\ Committed(s, winner).events = Append(s.events, Event("COMMIT_TASK", winner))
BY DEF Committed, Record, SessionRecord

\* CommitTask ends the task, and moves the store on if it moves it.
LEMMA CommitOfEnds ==
    ASSUME NEW s, SessionInv(s), StagesWhole(s.events), store \in Store, CommitOf(s)
    PROVE  /\ StagesWhole(session'.events) /\ session'.phase # "Running"
           /\ session'.committed => ~Uncommitted(session'.events)
           /\ MovesOn(store, store') \/ store' = store
<1> DEFINE winner == SelectWinner(s.branches)
           b == s.branches[winner]
           t == Attempted(s)
           e == Event("COMMIT_TASK", winner)
           d == Event("ABORT_TASK", winner)
<1>1. t \in SessionRecord /\ t.events \in Seq(EventRecord)
  <2>1. SessionInv(t)
    BY AttemptedContinues DEF Continues
  <2> HIDE DEF t
  <2> QED BY <2>1 DEF SessionInv, SessionRecord
<1>2. StagesWhole(t.events)
  BY AttemptedRepeats DEF Repeats
<1>3. e.type = "COMMIT_TASK" /\ d.type = "ABORT_TASK"
  BY DEF Event
<1> HIDE DEF t, e, d
<1>4. CASE /\ CommitAccepted(b)
           /\ store' = BatchPut(store, WritesOf(b))
           /\ session' = Committed(t, winner)
           /\ commits' = commits + 1
  <2> HIDE DEF b, winner
  <2>1. /\ session'.phase = "Committed" /\ session'.events = Append(t.events, e)
    BY <1>1, <1>4, CommittedFields DEF e
  <2>2. StagesWhole(session'.events)
    BY <1>1, <1>2, <1>3, <2>1, AppendWhole
  <2>3. ~Uncommitted(session'.events)
    <3>1. Len(t.events) + 1 \in DOMAIN Append(t.events, e)
          /\ Append(t.events, e)[Len(t.events) + 1] = e
      BY <1>1
    <3> QED BY <1>3, <2>1, <3>1 DEF Uncommitted
  <2>4. MovesOn(store, store')
    BY <1>4, BatchPutMovesOn
  <2> QED BY <2>1, <2>2, <2>3, <2>4
<1>5. CASE /\ ~CommitAccepted(b)
           /\ session' = Aborted(t, d)
           /\ UNCHANGED <<store, commits>>
  <2> HIDE DEF b, winner
  <2>1. /\ session'.phase = "Aborted" /\ session'.events = Append(t.events, d)
        /\ session'.committed = FALSE
    BY <1>1, <1>5, AbortedFields
  <2>2. StagesWhole(session'.events)
    BY <1>1, <1>2, <1>3, <2>1, AppendWhole
  <2> QED BY <1>5, <2>1, <2>2
<1> QED BY <1>4, <1>5 DEF CommitOf, t, e, d

\* The steps that end the task.
LEMMA EndsWork ==
    ASSUME WorkInv, RecoveryInv, RecoveryInv',
           \/ CommitTask \/ AbortTask \/ RevalidateCommit
           \/ \E score \in Score : FinishContinuation(score)
    PROVE  WorkInv'
<1>1. /\ SessionInv(session) /\ store \in Store /\ StagesWhole(session.events)
      /\ session \in SessionRecord /\ session.events \in Seq(EventRecord)
      /\ target \in Nat /\ Score \subseteq Int
  BY ScoreAssumption DEF RecoveryInv, WorkInv, SessionInv, SessionRecord
<1>2. CASE CommitTask
  <2>1. /\ CommitOf(session) /\ log' = log /\ mode' = "working"
    BY <1>2 DEF CommitTask, Working
  <2>2. /\ StagesWhole(session'.events) /\ session'.phase # "Running"
        /\ MovesOn(store, store') \/ store' = store
    BY <1>1, <2>1, CommitOfEnds
  <2>3. ~Replayable'
    BY <2>1, <2>2 DEF Replayable
  <2> QED BY <2>1, <2>2, <2>3, WorkStepInv
<1>3. CASE AbortTask
  <2> DEFINE e == Event("ABORT_TASK", 0)
  <2>1. /\ session' = Aborted(session, e) /\ mode' = "working" /\ UNCHANGED <<store, log>>
    BY <1>3 DEF AbortTask, Working
  <2>2. e.type = "ABORT_TASK"
    BY DEF Event
  <2> HIDE DEF e
  <2>3. session'.phase = "Aborted" /\ session'.events = Append(session.events, e)
    BY <1>1, <2>1, AbortedFields
  <2>4. StagesWhole(session'.events)
    BY <1>1, <2>2, <2>3, AppendWhole
  <2>5. ~Replayable'
    BY <2>1, <2>3 DEF Replayable
  <2> QED BY <2>1, <2>4, <2>5, WorkStepInv
<1>4. CASE RevalidateCommit
  <2>1. /\ CommitOf(session) /\ log' = log
        /\ IF session'.committed THEN Proceed ELSE Refuse
    BY <1>4 DEF RevalidateCommit
  <2>2. /\ StagesWhole(session'.events) /\ session'.phase # "Running"
        /\ session'.committed => ~Uncommitted(session'.events)
        /\ MovesOn(store, store') \/ store' = store
    BY <1>1, <2>1, CommitOfEnds
  <2>3. mode' = "working" \/ mode' = "refused" \/ (mode' = "continuing" /\ session'.committed)
    BY <2>1 DEF Proceed, Refuse
  <2>4. ~Replayable'
    BY <2>2, <2>3 DEF Replayable
  <2> QED BY <2>1, <2>2, <2>3, <2>4, WorkStepInv
<1>5. ASSUME NEW score \in Score, FinishContinuation(score) PROVE WorkInv'
  <2> DEFINE s == StageIn(session, target, score)
  <2>1. CommitOf(s) /\ log' = log /\ mode' = "working"
    BY <1>5 DEF FinishContinuation
  <2>2. SessionInv(s)
    BY <1>1, StageInContinues DEF Continues
  <2>3. StagesWhole(s.events)
    BY <1>1, StageInRepeats DEF Repeats
  <2> HIDE DEF s
  <2>4. /\ StagesWhole(session'.events) /\ session'.phase # "Running"
        /\ MovesOn(store, store') \/ store' = store
    BY <1>1, <2>1, <2>2, <2>3, CommitOfEnds
  <2>5. ~Replayable'
    BY <2>1, <2>4 DEF Replayable
  <2> QED BY <2>1, <2>4, <2>5, WorkStepInv
<1> QED BY <1>2, <1>3, <1>4, <1>5

\* The commands of a recovery that do not commit.
LEMMA CommandsWork ==
    ASSUME WorkInv, RecoveryInv, RecoveryInv',
           ExecuteNoop \/ SubmitFreshTask \/ ResumeBranch \/ ResumeFromSavepoint
    PROVE  WorkInv'
<1>1. /\ SessionInv(session) /\ StagesWhole(session.events) /\ session \in SessionRecord
      /\ LogInv /\ RecoveredInv
  BY DEF RecoveryInv, WorkInv, SessionInv
<1>2. mode = "recovered" /\ UNCHANGED <<store, log>> /\ (Proceed \/ Refuse)
  BY DEF ExecuteNoop, SubmitFreshTask, ResumeBranch, ResumeFromSavepoint
<1>3. mode' # "recovered"
  BY <1>2 DEF Proceed, Refuse
<1>4. ~session.resumed => WorkMirrored(session.branches, session.events, store)
  BY <1>2 DEF WorkInv, Replayable
<1>5. CASE session' = session
  <2>1. Replayable' => WorkMirrored(session'.branches, session'.events, store')
    BY <1>2, <1>4, <1>5 DEF Replayable
  <2> QED BY <1>1, <1>2, <1>3, <1>5, <2>1, WorkStepInv
<1>6. CASE SubmitFreshTask
  <2>1. session' = SubmitTask(PlannedBranches) /\ PlannedBranches \in Nat
    BY <1>1, <1>2, <1>6, PlanOfLog DEF SubmitFreshTask, RecoveredInv
  <2>2. /\ StagesWhole(session'.events)
        /\ WorkMirrored(session'.branches, session'.events, store')
    BY <2>1, SubmitTaskRepeats
  <2> QED BY <1>2, <1>3, <2>2, WorkStepInv
<1>7. CASE ResumeBranch /\ session' # session
  <2> DEFINE i == execution.branch
  <2>1. Found(session, i) /\ session' = Resumed(session, i)
    BY <1>7 DEF ResumeBranch
  <2> HIDE DEF i
  <2>2. session'.resumed = session.resumed /\ session'.events = session.events
    BY <1>1, <2>1 DEF Resumed, SessionRecord
  <2>3. ~session.resumed => WorkMirrored(session'.branches, session'.events, store)
    BY <1>1, <1>4, <2>1, ResumedRepeats
  <2>4. Replayable' => WorkMirrored(session'.branches, session'.events, store')
    BY <1>2, <2>2, <2>3 DEF Replayable
  <2> QED BY <1>1, <1>2, <1>3, <2>2, <2>4, WorkStepInv
<1>8. CASE ResumeFromSavepoint /\ session' # session
  <2> DEFINE i == execution.branch
             u == [session EXCEPT !.branches[i] = RollbackToSavepoint(@, execution.savepoint),
                                  !.resumed = TRUE]
  <2>1. session' = Resumed(u, i)
    BY <1>8 DEF ResumeFromSavepoint
  <2>2. u.resumed = TRUE /\ u.events = session.events
    BY <1>1 DEF SessionRecord
  <2> HIDE DEF u, i
  <2>3. session'.resumed = u.resumed /\ session'.events = u.events
    BY <2>1 DEF Resumed
  <2>4. ~Replayable'
    BY <2>2, <2>3 DEF Replayable
  <2> QED BY <1>1, <1>2, <1>3, <2>2, <2>3, <2>4, WorkStepInv
<1>9. CASE ExecuteNoop
  BY <1>5, <1>9 DEF ExecuteNoop
<1> QED BY <1>5, <1>6, <1>7, <1>8, <1>9

\* Another client writes, or nothing happens.
LEMMA OthersWork ==
    ASSUME WorkInv, RecoveryInv, RecoveryInv',
           (\E p \in Puts : ExternalPut(p[1], p[2])) \/ UNCHANGED vars
    PROVE  WorkInv'
<1>1. UNCHANGED <<mode, session, log>>
  BY DEF ExternalPut, vars
<1>2. store \in Store /\ store' \in Store /\ SessionInv(session)
  BY DEF RecoveryInv
<1>3. MovesOn(store, store') \/ store' = store
  <2>1. ASSUME NEW p \in Puts, ExternalPut(p[1], p[2]) PROVE MovesOn(store, store')
    <3>1. p[1] \in Key
      BY PutsAssumption
    <3>2. store' = Put(store, p[1], p[2])
      BY <2>1 DEF ExternalPut
    <3> QED BY <1>2, <3>1, <3>2, PutMovesOn
  <2>2. CASE UNCHANGED vars
    BY <2>2 DEF vars
  <2> QED BY <2>1, <2>2
<1>4. Replayable' => Replayable
  BY <1>1 DEF Replayable
<1>5. WorkMirrored(session.branches, session.events, store)
        => WorkMirrored(session.branches, session.events, store')
  <2>1. \A i \in DOMAIN session.branches : session.branches[i] \in BranchContext
    BY <1>2 DEF SessionInv, WellFormed
  <2> QED BY <1>2, <1>3, <2>1, WorkAdvance
<1>6. Replayable' => WorkMirrored(session'.branches, session'.events, store')
  BY <1>1, <1>4, <1>5 DEF WorkInv
<1>7. StagesWhole(session'.events)
  BY <1>1 DEF WorkInv
<1> QED BY <1>1, <1>3, <1>6, <1>7, WorkStepInv

\* What a session in progress leaves in the log, whole or in part.
LEMMA ImageWork ==
    ASSUME WorkInv, NEW events, StagesWhole(events), log' = Image(session, events),
           store' = store
    PROVE  /\ StagesWhole(log'.events)
           /\ IsFaithful' => WorkMirrored(log'.saved, log'.events, store')
<1>1. /\ log'.events = events /\ log'.phase = session.phase /\ log'.resumed = session.resumed
      /\ log'.whole = (events = session.events)
      /\ log'.saved = IF events = session.events THEN session.branches ELSE <<>>
  BY DEF Image
<1>2. IsFaithful' => /\ events = session.events /\ log'.saved = session.branches
                     /\ session.phase = "Running" /\ ~session.resumed
  BY <1>1 DEF IsFaithful
<1>3. IsFaithful' => WorkMirrored(session.branches, session.events, store)
  BY <1>2 DEF WorkInv, Replayable
<1> QED BY <1>1, <1>2, <1>3

\* A cut leaves the scores.
LEMMA TornWhole ==
    ASSUME NEW events \in Seq(EventRecord), StagesWhole(events),
           NEW n \in 2 .. Len(events), NEW last \in Cuts(events[n])
    PROVE  StagesWhole(Append(SubSeq(events, 1, n - 1), last))
<1> DEFINE head == SubSeq(events, 1, n - 1)
<1>1. /\ n \in DOMAIN events /\ n - 1 \in 0 .. Len(events) /\ n \in Nat
      /\ events[n] \in EventRecord
  OBVIOUS
<1>2. /\ head \in Seq(EventRecord) /\ Len(head) = n - 1 /\ DOMAIN head = 1 .. (n - 1)
      /\ \A j \in 1 .. (n - 1) : head[j] = events[j] /\ j \in DOMAIN events
  BY <1>1
<1> HIDE DEF head
<1>3. StagesWhole(head)
  BY <1>2 DEF StagesWhole
<1>4. last.type = events[n].type
  BY <1>1, CutsType
<1>5. last.type = "STAGE_BRANCH" => last = events[n]
  BY <1>4 DEF Cuts
<1>6. last.type = "STAGE_BRANCH" => Truncated(last.score) = last.score
  BY <1>1, <1>5 DEF StagesWhole
<1>7. StagesWhole(Append(head, last))
  BY <1>2, <1>3, <1>6, AppendWhole
<1> QED BY <1>7 DEF head

\* Crashes, and what they leave of the log.
LEMMA CrashesWork ==
    ASSUME WorkInv, RecoveryInv, RecoveryInv', Crash \/ CrashInWriteLog
    PROVE  WorkInv'
<1>1. mode' = "down" /\ session' = NoSession /\ UNCHANGED store
  BY DEF Crash, CrashInWriteLog, Down
<1>2. ~Replayable' /\ StagesWhole(session'.events)
  BY <1>1 DEF Replayable, NoSession, StagesWhole
<1>3. CASE Crash
  <2>1. log' = log
    BY <1>3 DEF Crash
  <2> QED BY <1>1, <1>2, <2>1, WorkStepInv
<1>4. CASE CrashInWriteLog
  <2>1. log' \in TornImages(session) /\ session.events \in Seq(EventRecord)
        /\ StagesWhole(session.events)
    BY <1>4 DEF CrashInWriteLog, RecoveryInv, SessionInv, SessionRecord, WorkInv
  <2>2. /\ StagesWhole(log'.events)
        /\ IsFaithful' => WorkMirrored(log'.saved, log'.events, store')
    <3>1. CASE log' = NoLog
      <4>1. log'.events = <<>> /\ log'.whole = FALSE
        BY <3>1 DEF NoLog
      <4> QED BY <4>1 DEF IsFaithful, StagesWhole
    <3>2. CASE log' # NoLog
      <4>1. PICK n \in 2 .. Len(session.events) :
                \E last \in Cuts(session.events[n]) :
                    log' = Image(session, Append(SubSeq(session.events, 1, n - 1), last))
        BY <2>1, <3>2 DEF TornImages
      <4>2. PICK last \in Cuts(session.events[n]) :
                log' = Image(session, Append(SubSeq(session.events, 1, n - 1), last))
        BY <4>1
      <4> DEFINE torn == Append(SubSeq(session.events, 1, n - 1), last)
      <4>3. StagesWhole(torn)
        BY <2>1, TornWhole
      <4>4. log' = Image(session, torn)
        BY <4>2
      <4> HIDE DEF torn
      <4> QED BY <1>1, <4>3, <4>4, ImageWork
    <3> QED BY <3>1, <3>2
  <2>3. RebuildsWork'
    BY <1>1 DEF RebuildsWork
  <2> QED BY <1>2, <2>2, <2>3 DEF WorkInv
<1> QED BY <1>3, <1>4

\* The session is written to the log.
LEMMA WriteLogWork ==
    ASSUME WorkInv, RecoveryInv, RecoveryInv', WriteLog
    PROVE  WorkInv'
<1>1. /\ mode \in {"working", "refused"} /\ log' = Image(session, session.events)
      /\ UNCHANGED <<store, mode, session>>
  BY DEF WriteLog
<1>2. StagesWhole(session.events)
  BY DEF WorkInv
<1>3. /\ StagesWhole(log'.events)
      /\ IsFaithful' => WorkMirrored(log'.saved, log'.events, store')
  BY <1>1, <1>2, ImageWork
<1>4. Replayable' => WorkMirrored(session'.branches, session'.events, store')
  BY <1>1 DEF WorkInv, Replayable
<1>5. RebuildsWork'
  BY <1>1 DEF RebuildsWork
<1> QED BY <1>1, <1>2, <1>3, <1>4, <1>5 DEF WorkInv

\* The branches that a recovery builds, up to their statuses.
LEMMA RebuiltFields ==
    ASSUME LogInv, log.readable, store \in Store, NEW i \in 1 .. PlannedBranches
    PROVE  LET a == Replayed(log.events, PlannedBranches, store)[i]
               b == RebuiltSession.branches[i]
           IN  /\ WellFormed(a)
               /\ b.entries = a.entries /\ b.order = a.order /\ b.changes = a.changes
               /\ b.intents = a.intents /\ b.savepoints = a.savepoints /\ b.score = a.score
<1> DEFINE a == Replayed(log.events, PlannedBranches, store)[i]
           b == RebuiltSession.branches[i]
           status == RecoveredStatus(i, a)
<1>1. WellFormed(a) /\ a \in BranchContext
  BY ReplayedRebuilds DEF Rebuilding
<1>2. b = [a EXCEPT !.status = status]
  BY DEF RebuiltSession
<1> HIDE DEF a, b, status
<1>3. /\ b.entries = a.entries /\ b.order = a.order /\ b.changes = a.changes
      /\ b.intents = a.intents /\ b.savepoints = a.savepoints /\ b.score = a.score
  BY <1>1, <1>2 DEF BranchContext
<1> QED BY <1>1, <1>3 DEF a, b

\* The recovery.
LEMMA RecoverWork ==
    ASSUME WorkInv, RecoveryInv, RecoveryInv', Recover
    PROVE  WorkInv'
<1> DEFINE p == PlannedBranches
           r == Replayed(log.events, p, store)
           t == RebuiltSession
<1>1. /\ log.readable /\ mode' = "recovered" /\ session' = t /\ UNCHANGED <<store, log>>
      /\ LogInv /\ store \in Store /\ StagesWhole(log.events)
  BY DEF Recover, RecoveryInv, WorkInv
<1>2. /\ p \in Nat /\ Plans(log.events, p) /\ log.events \in Seq(EventRecord)
      /\ log.saved \in Seq(BranchContext)
  BY <1>1, PlanOfLog DEF LogInv, LogRecord
<1>3. /\ t.branches \in Seq(BranchContext) /\ Len(t.branches) = p /\ DOMAIN t.branches = 1 .. p
  <2>1. SessionInv(t) /\ Len(t.branches) = p
    BY <1>1, RebuiltInv
  <2> HIDE DEF t, p
  <2> QED BY <2>1 DEF SessionInv, SessionRecord
<1>4. \A i \in 1 .. p :
          /\ WellFormed(r[i])
          /\ t.branches[i].entries = r[i].entries /\ t.branches[i].order = r[i].order
          /\ t.branches[i].changes = r[i].changes /\ t.branches[i].intents = r[i].intents
          /\ t.branches[i].savepoints = r[i].savepoints /\ t.branches[i].score = r[i].score
  BY <1>1, RebuiltFields
<1>5. t.events = log.events
  BY DEF RebuiltSession
<1>6. \A s \in Store : \A i \in 1 .. p : Mirrors(Replayed(log.events, p, s)[i], r[i], s, store)
  <2> HIDE DEF p
  <2> QED BY <1>1, <1>2, ReplayedMirrors
<1> HIDE DEF t, p
<1>7. WorkMirrored(t.branches, log.events, store)
  <2> SUFFICES ASSUME NEW s \in Store, NEW i \in DOMAIN t.branches
               PROVE  Mirrors(Replayed(log.events, Len(t.branches), s)[i], t.branches[i], s, store)
    BY DEF WorkMirrored
  <2>1. i \in 1 .. p /\ Mirrors(Replayed(log.events, p, s)[i], r[i], s, store)
    BY <1>3, <1>6
  <2> HIDE DEF r
  <2> QED BY <1>3, <1>4, <2>1, SameWorkMirrors
<1>8. ASSUME IsFaithful
      PROVE  /\ DOMAIN t.branches = DOMAIN log.saved
             /\ \A i \in DOMAIN log.saved :
                 LET b == t.branches[i]
                     saved == log.saved[i]
                 IN  /\ b.intents = Unconditioned(saved.intents)
                     /\ b.order = saved.order
                     /\ b.savepoints = saved.savepoints
                     /\ b.score = Truncated(saved.score)
                     /\ \A k \in DOMAIN saved.entries :
                         VersionIs(store, k, saved.entries[k].base_version)
                             => b.entries[k] = saved.entries[k]
  <2>1. Len(log.saved) = p
    <3>1. Plans(log.events, Len(log.saved)) /\ Len(log.saved) \in Nat
      BY <1>1, <1>2, <1>8 DEF LogInv, IsFaithful
    <3> QED BY <1>2, <3>1, PlanIsOne
  <2>2. DOMAIN t.branches = DOMAIN log.saved
    BY <1>2, <1>3, <2>1
  <2>3. ASSUME NEW i \in DOMAIN log.saved
        PROVE  LET b == t.branches[i]
                   saved == log.saved[i]
               IN  /\ b.intents = Unconditioned(saved.intents)
                   /\ b.order = saved.order
                   /\ b.savepoints = saved.savepoints
                   /\ b.score = Truncated(saved.score)
                   /\ \A k \in DOMAIN saved.entries :
                       VersionIs(store, k, saved.entries[k].base_version)
                           => b.entries[k] = saved.entries[k]
    <3> DEFINE a == r[i]
               b == t.branches[i]
               saved == log.saved[i]
    <3>1. Mirrors(a, saved, store, store)
      BY <1>1, <1>8, <2>1 DEF WorkInv, WorkMirrored
    <3>2. /\ b.entries = a.entries /\ b.order = a.order /\ b.intents = a.intents
          /\ b.savepoints = a.savepoints /\ b.score = a.score
      <4>1. i \in 1 .. p
        BY <1>3, <2>2
      <4> HIDE DEF r
      <4> QED BY <1>4, <4>1
    <3>3. saved \in BranchContext
      BY <1>2
    <3> HIDE DEF a, b, saved, r
    <3>4. ASSUME NEW k \in DOMAIN saved.entries,
                 VersionIs(store, k, saved.entries[k].base_version)
          PROVE  b.entries[k] = saved.entries[k]
      <4> DEFINE e == saved.entries[k]
      <4>1. EntryMirrors(a.entries[k], e, k, store, store)
        BY <3>1 DEF Mirrors, BufferMirrors
      <4>2. k \in Key /\ e \in CacheEntry
        BY <3>3, BranchFields
      <4>3. e.base_version \in Nat /\ store[k].version = e.base_version
        BY <3>4, <4>2 DEF CacheEntry, VersionIs
      <4> HIDE DEF e
      <4>4. SameBase(e, k, store)
        BY <4>1, <4>3 DEF EntryMirrors, Pinned
      <4> QED BY <3>2, <4>1, <4>4 DEF EntryMirrors, e
    <3>5. /\ b.intents = Unconditioned(saved.intents) /\ b.order = saved.order
          /\ b.savepoints = saved.savepoints /\ b.score = Truncated(saved.score)
      BY <3>1, <3>2 DEF Mirrors, BufferMirrors
    <3> QED BY <3>4, <3>5 DEF b, saved
  <2> QED BY <2>2, <2>3
<1>9. RebuildsWork'
  <2>1. IsFaithful' => IsFaithful
    BY <1>1 DEF IsFaithful
  <2>2. session' = t /\ log' = log /\ store' = store
    BY <1>1
  <2> QED BY <1>8, <2>1, <2>2 DEF RebuildsWork
<1>10. (IsFaithful => WorkMirrored(log.saved, log.events, store))'
  <2>1. log' = log /\ store' = store
    BY <1>1
  <2> QED BY <2>1 DEF IsFaithful, WorkInv
<1>11. session'.branches = t.branches /\ session'.events = log.events /\ log' = log
       /\ store' = store
  BY <1>1, <1>5
<1> QED BY <1>1, <1>7, <1>9, <1>10, <1>11 DEF WorkInv

\* Every step keeps it.
LEMMA WorkInvNext == RecoveryInv /\ RecoveryInv' /\ WorkInv /\ [Next]_vars => WorkInv'
BY CallsWork, EndsWork, CommandsWork, CrashesWork, WriteLogWork, RecoverWork, OthersWork DEF Next

\* RebuildRecoveredSessionState: through writes, savepoints and rollbacks in any
\* order on any branch, with other clients writing before and after, the
\* session rebuilt from a log that was saved whole has the intents, the order,
\* the savepoints, the scores and, where the store has not moved on, the
\* entries of the session that was saved.
THEOREM RebuildsWorkHolds == Spec => []RebuildsWork
<1>1. Spec => [](RecoveryInv /\ WorkInv)
  BY RecoveryInvInit, RecoveryInvNext, WorkInvInit, WorkInvNext, PTL DEF Spec
<1>2. WorkInv => RebuildsWork
  BY DEF WorkInv
<1> QED BY <1>1, <1>2, PTL

--------------------------------------------------------------------------------
(* The copies in the savepoint events.                                       *)

\* What a savepoint's event says is what a replay of the events before it
\* comes to, on any store, up to where the task is committed.
CopiesKept(events, count) ==
    \A n \in DOMAIN events :
        (/\ events[n].type = "SAVEPOINT" /\ events[n].branch \in 1 .. count
         /\ \A j \in 1 .. (n - 1) : events[j].type # "COMMIT_TASK") =>
            \A s \in Store :
                Unconditioned(events[n].copy)
                    = Replayed(SubSeq(events, 1, n - 1), count, s)[events[n].branch].intents

\* Sequences that begin with the same elements.
LEMMA SameBeginning ==
    ASSUME NEW S, NEW v \in Seq(S), NEW w \in Seq(S), NEW n \in Nat,
           n <= Len(v), n <= Len(w), \A j \in 1 .. n : v[j] = w[j]
    PROVE  /\ SubSeq(v, 1, n) = SubSeq(w, 1, n)
           /\ SubSeq(v, 1, n) \in Seq(S) /\ Len(SubSeq(v, 1, n)) = n
           /\ \A j \in 1 .. n : SubSeq(v, 1, n)[j] = v[j]
<1> DEFINE a == SubSeq(v, 1, n)
           b == SubSeq(w, 1, n)
<1>1. a \in Seq(S) /\ Len(a) = n /\ \A j \in 1 .. n : a[j] = v[j]
  OBVIOUS
<1>2. b \in Seq(S) /\ Len(b) = n /\ \A j \in 1 .. n : b[j] = w[j]
  OBVIOUS
<1> HIDE DEF a, b
<1>3. Len(a) = Len(b) /\ \A j \in 1 .. Len(a) : a[j] = b[j]
  BY <1>1, <1>2
<1>4. a = b
  BY <1>1, <1>2, <1>3, SameElements
<1> QED BY <1>1, <1>4 DEF a, b

\* All of a sequence.
LEMMA SubSeqWhole ==
    ASSUME NEW S, NEW v \in Seq(S)
    PROVE  SubSeq(v, 1, Len(v)) = v
<1> DEFINE a == SubSeq(v, 1, Len(v))
<1>1. a \in Seq(S) /\ Len(a) = Len(v) /\ \A j \in 1 .. Len(v) : a[j] = v[j]
  OBVIOUS
<1> HIDE DEF a
<1>2. \A j \in 1 .. Len(a) : a[j] = v[j]
  BY <1>1
<1>3. a = v
  BY <1>1, <1>2, SameElements
<1> QED BY <1>3 DEF a

\* One more event: if it is a savepoint's, it says what the replay comes to.
LEMMA CopiesAppend ==
    ASSUME NEW events \in Seq(EventRecord), NEW count, CopiesKept(events, count), NEW e,
           e \in EventRecord,
           (e.type = "SAVEPOINT" /\ e.branch \in 1 .. count /\ Uncommitted(events)) =>
               \A s \in Store :
                   Unconditioned(e.copy) = Replayed(events, count, s)[e.branch].intents
    PROVE  CopiesKept(Append(events, e), count)
<1> DEFINE more == Append(events, e)
           m == Len(events)
<1>1. /\ m \in Nat /\ more \in Seq(EventRecord) /\ Len(more) = m + 1 /\ more[m + 1] = e
      /\ DOMAIN more = 1 .. (m + 1) /\ DOMAIN events = 1 .. m
      /\ \A j \in 1 .. m : more[j] = events[j]
  OBVIOUS
<1> HIDE DEF more
<1>2. SUFFICES ASSUME NEW n \in DOMAIN more,
                      more[n].type = "SAVEPOINT", more[n].branch \in 1 .. count,
                      \A j \in 1 .. (n - 1) : more[j].type # "COMMIT_TASK",
                      NEW s \in Store
               PROVE  Unconditioned(more[n].copy)
                        = Replayed(SubSeq(more, 1, n - 1), count, s)[more[n].branch].intents
  BY DEF CopiesKept, more
<1>3. /\ n - 1 \in Nat /\ n - 1 <= Len(more) /\ n - 1 <= Len(events)
      /\ \A j \in 1 .. (n - 1) : more[j] = events[j] /\ j \in 1 .. m
  BY <1>1
<1>4. SubSeq(more, 1, n - 1) = SubSeq(events, 1, n - 1)
  BY <1>1, <1>3, SameBeginning
<1>5. CASE n = m + 1
  <2>1. SubSeq(events, 1, n - 1) = events
    <3>1. n - 1 = m
      BY <1>1, <1>5
    <3> QED BY <3>1, SubSeqWhole
  <2>2. Uncommitted(events)
    BY <1>1, <1>2, <1>5 DEF Uncommitted
  <2> QED BY <1>1, <1>2, <1>4, <1>5, <2>1, <2>2
<1>6. CASE n # m + 1
  <2>1. n \in DOMAIN events /\ more[n] = events[n]
    BY <1>1, <1>6
  <2>2. \A j \in 1 .. (n - 1) : events[j].type # "COMMIT_TASK"
    BY <1>2, <1>3
  <2> QED BY <1>2, <1>4, <2>1, <2>2 DEF CopiesKept
<1> QED BY <1>5, <1>6

\* A branch is replayed the same whatever other branches there are.
LEMMA ReplayedCount ==
    ASSUME NEW events \in Seq(EventRecord), NEW s, NEW k, NEW m,
           NEW i \in (1 .. k) \cap (1 .. m)
    PROVE  Replayed(events, k, s)[i] = Replayed(events, m, s)[i]
<1> DEFINE last == Len(events)
<1>1. /\ last \in Nat /\ DOMAIN events = 1 .. last
      /\ i \in 1 .. k /\ i \in 1 .. m
  OBVIOUS
<1>2. PICK g : /\ g[0] = SubmitTask(k).branches
               /\ \A n \in DOMAIN events : g[n] = ReplayEvent(g[n - 1], events[n], s)
               /\ Replayed(events, k, s) = g[last]
  BY ReplayedUnroll
<1>3. PICK h : /\ h[0] = SubmitTask(m).branches
               /\ \A n \in DOMAIN events : h[n] = ReplayEvent(h[n - 1], events[n], s)
               /\ Replayed(events, m, s) = h[last]
  BY ReplayedUnroll
<1> DEFINE Same(n) == i \in DOMAIN g[n] /\ i \in DOMAIN h[n] /\ g[n][i] = h[n][i]
           S == {n \in 0 .. last : ~Same(n)}
<1>4. Same(0)
  <2>1. /\ DOMAIN SubmitTask(k).branches = 1 .. k /\ DOMAIN SubmitTask(m).branches = 1 .. m
        /\ SubmitTask(k).branches[i] = CreateBranch /\ SubmitTask(m).branches[i] = CreateBranch
    BY <1>1 DEF SubmitTask
  <2> QED BY <1>1, <1>2, <1>3, <2>1
<1>5. ASSUME NEW n \in 1 .. last, Same(n - 1)
      PROVE  Same(n)
  <2> DEFINE b == g[n - 1]
             c == h[n - 1]
             e == events[n]
  <2>1. g[n] = ReplayEvent(b, e, s) /\ h[n] = ReplayEvent(c, e, s)
    BY <1>1, <1>2, <1>3
  <2>2. i \in DOMAIN b /\ i \in DOMAIN c /\ b[i] = c[i]
    BY <1>5
  <2> HIDE DEF b, c, e
  <2> QED BY <2>1, <2>2 DEF ReplayEvent
<1> HIDE DEF Same
<1>6. ASSUME S # {} PROVE FALSE
  <2>1. PICK n \in S : \A j \in S : n <= j
    <3>1. S \in SUBSET (0 .. last)
      OBVIOUS
    <3> HIDE DEF S
    <3> QED BY <1>1, <1>6, <3>1, LeastIndex
  <2>2. n # 0
    BY <1>4, <2>1
  <2>3. n \in 1 .. last /\ n - 1 \in 0 .. last /\ n - 1 \notin S
    BY <1>1, <2>1, <2>2
  <2> QED BY <1>5, <2>1, <2>3
<1>7. last \in 0 .. last
  BY <1>1
<1>8. Same(last)
  BY <1>6, <1>7
<1> QED BY <1>2, <1>3, <1>8 DEF Same

\* A log that is cut keeps the copies.
LEMMA TornCopies ==
    ASSUME NEW events \in Seq(EventRecord), NEW m \in Nat, CopiesKept(events, m),
           NEW k \in Nat, k <= m,
           NEW n \in 2 .. Len(events), NEW last \in Cuts(events[n])
    PROVE  CopiesKept(Append(SubSeq(events, 1, n - 1), last), k)
<1> DEFINE head == SubSeq(events, 1, n - 1)
           torn == Append(head, last)
<1>1. /\ n \in DOMAIN events /\ n - 1 \in 0 .. Len(events) /\ n \in Nat
      /\ events[n] \in EventRecord
  OBVIOUS
<1>2. /\ head \in Seq(EventRecord) /\ Len(head) = n - 1
      /\ \A j \in 1 .. (n - 1) : head[j] = events[j] /\ j \in DOMAIN events
  BY <1>1
<1> HIDE DEF head
<1>3. /\ last \in EventRecord /\ last.type = events[n].type /\ last.branch = events[n].branch
      /\ (last.type = "SAVEPOINT" => last.copy = events[n].copy)
  <2>1. last \in EventRecord /\ last.type = events[n].type /\ last.branch = events[n].branch
    BY <1>1, CutsType
  <2>2. ASSUME last.type = "SAVEPOINT" PROVE last.copy = events[n].copy
    <3>1. events[n] \in SavepointEvents
      BY <1>1, <2>1, <2>2, EventFields
    <3>2. PICK id : last = [events[n] EXCEPT !.id = id]
      BY <2>1, <2>2 DEF Cuts
    <3> QED BY <3>1, <3>2 DEF SavepointEvents
  <2> QED BY <2>1, <2>2
<1>4. /\ torn \in Seq(EventRecord) /\ DOMAIN torn = 1 .. n /\ Len(torn) = n
      /\ torn[n] = last /\ \A j \in 1 .. (n - 1) : torn[j] = head[j]
  BY <1>1, <1>2, <1>3
<1> HIDE DEF torn
<1>5. SUFFICES ASSUME NEW j \in DOMAIN torn,
                      torn[j].type = "SAVEPOINT", torn[j].branch \in 1 .. k,
                      \A l \in 1 .. (j - 1) : torn[l].type # "COMMIT_TASK",
                      NEW s \in Store
               PROVE  Unconditioned(torn[j].copy)
                        = Replayed(SubSeq(torn, 1, j - 1), k, s)[torn[j].branch].intents
  BY DEF CopiesKept, torn, head
<1>6. /\ j \in DOMAIN events /\ j - 1 \in Nat /\ j - 1 <= Len(torn) /\ j - 1 <= Len(events)
      /\ \A l \in 1 .. (j - 1) : torn[l] = events[l]
  <2>1. \A l \in 1 .. (j - 1) : l \in 1 .. (n - 1)
    BY <1>1, <1>4
  <2> QED BY <1>1, <1>2, <1>4, <2>1
<1>7. /\ SubSeq(torn, 1, j - 1) = SubSeq(events, 1, j - 1)
      /\ SubSeq(torn, 1, j - 1) \in Seq(EventRecord)
  BY <1>4, <1>6, SameBeginning
<1>8. /\ torn[j].branch = events[j].branch /\ torn[j].copy = events[j].copy
      /\ events[j].type = "SAVEPOINT"
  <2>1. CASE j = n
    BY <1>3, <1>4, <1>5, <2>1
  <2>2. CASE j # n
    <3>1. j \in 1 .. (n - 1)
      BY <1>1, <1>4, <2>2
    <3> QED BY <1>2, <1>4, <1>5, <3>1
  <2> QED BY <2>1, <2>2
<1> DEFINE i == torn[j].branch
<1>9. i \in 1 .. k /\ i \in 1 .. m
  BY <1>5
<1>10. Unconditioned(events[j].copy)
         = Replayed(SubSeq(events, 1, j - 1), m, s)[events[j].branch].intents
  BY <1>5, <1>6, <1>8, <1>9 DEF CopiesKept
<1>11. Replayed(SubSeq(torn, 1, j - 1), k, s)[i] = Replayed(SubSeq(torn, 1, j - 1), m, s)[i]
  <2> DEFINE before == SubSeq(torn, 1, j - 1)
  <2>1. before \in Seq(EventRecord)
    BY <1>7
  <2> HIDE DEF i, before
  <2>2. i \in (1 .. k) \cap (1 .. m)
    BY <1>9
  <2>3. Replayed(before, k, s)[i] = Replayed(before, m, s)[i]
    BY <2>1, <2>2, ReplayedCount
  <2> QED BY <2>3 DEF before
<1> QED BY <1>7, <1>8, <1>10, <1>11

\* A savepoint's event has the intents up to where the savepoint was made.
Copied(b, i, events, sp) ==
    \E n \in DOMAIN events :
        /\ events[n].type = "SAVEPOINT" /\ events[n].branch = i /\ events[n].id = sp.id
        /\ Unconditioned(events[n].copy) = SubSeq(b.intents, 1, sp.intent_log_position)

AllCopied(b, i, events) ==
    \A n \in DOMAIN b.savepoints : Copied(b, i, events, b.savepoints[n])

\* What has the same savepoints and intents, up to them, has the same copies.
LEMMA CopiedSame ==
    ASSUME NEW b, WellFormed(b), NEW c, WellFormed(c), NEW i, NEW events,
           AllCopied(b, i, events),
           NEW p \in Nat, p <= Len(b.savepoints), c.savepoints = SubSeq(b.savepoints, 1, p),
           NEW q \in Nat, q <= Len(b.intents), q <= Len(c.intents),
           \A n \in 1 .. q : c.intents[n] = b.intents[n],
           \A n \in DOMAIN c.savepoints : c.savepoints[n].intent_log_position <= q
    PROVE  AllCopied(c, i, events)
<1>1. /\ b \in BranchContext /\ c \in BranchContext
      /\ b.intents \in Seq(WriteIntent) /\ c.intents \in Seq(WriteIntent)
      /\ b.savepoints \in Seq(Savepoint)
  BY BranchFields DEF WellFormed
<1>2. SUFFICES ASSUME NEW n \in DOMAIN c.savepoints
               PROVE  Copied(c, i, events, c.savepoints[n])
  BY DEF AllCopied
<1>3. n \in DOMAIN b.savepoints /\ c.savepoints[n] = b.savepoints[n]
  BY <1>1
<1> DEFINE position == c.savepoints[n].intent_log_position
<1>4. position \in Nat /\ position <= q
  BY <1>1, SavepointFields
<1> HIDE DEF position
<1>5. \A j \in 1 .. position : c.intents[j] = b.intents[j]
  BY <1>4
<1>6. position <= Len(b.intents) /\ position <= Len(c.intents)
  BY <1>1, <1>4
<1>7. SubSeq(c.intents, 1, position) = SubSeq(b.intents, 1, position)
  BY <1>1, <1>4, <1>5, <1>6, SameBeginning
<1>8. Copied(b, i, events, c.savepoints[n])
  BY <1>3 DEF AllCopied
<1> QED BY <1>7, <1>8 DEF Copied, position

\* One more event keeps the copies of the branch it names.
LEMMA ReplayOnCopied ==
    ASSUME NEW b, WellFormed(b), NEW i, NEW events, AllCopied(b, i, events),
           NEW s \in Store, NEW n \in DOMAIN events, events[n] \in EventRecord,
           events[n].branch = i,
           events[n].type = "SAVEPOINT" => Unconditioned(events[n].copy) = b.intents
    PROVE  AllCopied(ReplayOn(b, events[n], s), i, events)
<1> DEFINE e == events[n]
           c == ReplayOn(b, e, s)
<1>1. WellFormed(c)
  BY ReplayOnFormed
<1>2. /\ b \in BranchContext /\ c \in BranchContext
      /\ b.intents \in Seq(WriteIntent) /\ c.intents \in Seq(WriteIntent)
      /\ b.savepoints \in Seq(Savepoint) /\ Len(b.savepoints) \in Nat /\ Len(b.intents) \in Nat
  <2> HIDE DEF c
  <2>1. b \in BranchContext /\ c \in BranchContext
    BY <1>1 DEF WellFormed
  <2> QED BY <2>1, BranchFields
<1>3. \A j \in DOMAIN b.savepoints : b.savepoints[j].intent_log_position <= Len(b.intents)
  BY DEF WellFormed, PositionsInv
<1>4. SubSeq(b.savepoints, 1, Len(b.savepoints)) = b.savepoints
  BY <1>2, SubSeqWhole
<1>5. ASSUME c.savepoints = b.savepoints,
             c.intents = b.intents \/ \E x \in WriteIntent : c.intents = Append(b.intents, x)
      PROVE  AllCopied(c, i, events)
  <2>1. /\ Len(b.intents) <= Len(c.intents)
        /\ \A j \in 1 .. Len(b.intents) : c.intents[j] = b.intents[j]
    <3> HIDE DEF c
    <3>1. CASE c.intents = b.intents
      BY <1>2, <3>1
    <3>2. ASSUME NEW x \in WriteIntent, c.intents = Append(b.intents, x)
          PROVE  /\ Len(b.intents) <= Len(c.intents)
                 /\ \A j \in 1 .. Len(b.intents) : c.intents[j] = b.intents[j]
      BY <1>2, <3>2
    <3> QED BY <1>5, <3>1, <3>2
  <2> DEFINE p == Len(b.savepoints)
             q == Len(b.intents)
  <2>2. /\ p \in Nat /\ p <= Len(b.savepoints) /\ q \in Nat /\ q <= Len(b.intents)
        /\ q <= Len(c.intents) /\ c.savepoints = SubSeq(b.savepoints, 1, p)
    <3> HIDE DEF c
    <3> QED BY <1>2, <1>4, <1>5, <2>1
  <2>3. /\ \A j \in 1 .. q : c.intents[j] = b.intents[j]
        /\ \A j \in DOMAIN c.savepoints : c.savepoints[j].intent_log_position <= q
    <3> HIDE DEF c
    <3> QED BY <1>3, <1>5, <2>1
  <2> HIDE DEF c, p, q
  <2> QED BY <1>1, <2>2, <2>3, CopiedSame
<1>6. CASE e.type = "WRITE"
  <2>1. c = BufferWrite(b, RecoveredIntent(e), s) /\ RecoveredIntent(e) \in WriteIntent
    BY <1>6, RecoveredType DEF ReplayOn
  <2> HIDE DEF c, e
  <2>2. c.intents = Append(b.intents, RecoveredIntent(e)) /\ c.savepoints = b.savepoints
    BY <1>2, <2>1, BufferWriteFields
  <2> QED BY <1>5, <2>1, <2>2 DEF c, e
<1>7. CASE e.type = "SAVEPOINT"
  <2> DEFINE sp == [id |-> e.id, write_log_position |-> Len(b.changes),
                    intent_log_position |-> Len(b.intents)]
  <2>1. c = CreateSavepoint(b, e.id)
    BY <1>7 DEF ReplayOn
  <2>2. c.intents = b.intents /\ c.savepoints = Append(b.savepoints, sp)
    <3> HIDE DEF c
    <3> QED BY <1>2, <2>1 DEF CreateSavepoint, BranchContext
  <2>3. Copied(c, i, events, sp)
    <3>1. SubSeq(b.intents, 1, Len(b.intents)) = b.intents
      BY <1>2, SubSeqWhole
    <3>2. sp.id = e.id /\ sp.intent_log_position = Len(b.intents)
      OBVIOUS
    <3> HIDE DEF sp, c
    <3> QED BY <1>7, <2>2, <3>1, <3>2 DEF Copied
  <2> HIDE DEF sp, c, e
  <2>4. ASSUME NEW j \in DOMAIN c.savepoints
        PROVE  Copied(c, i, events, c.savepoints[j])
    <3>1. \/ j \in DOMAIN b.savepoints /\ c.savepoints[j] = b.savepoints[j]
          \/ c.savepoints[j] = sp
      <4> DEFINE w == b.savepoints
      <4>1. w \in Seq(Savepoint) /\ c.savepoints = Append(w, sp)
        BY <1>2, <2>2
      <4> HIDE DEF w
      <4>2. (j \in DOMAIN w /\ Append(w, sp)[j] = w[j]) \/ Append(w, sp)[j] = sp
        BY <4>1, AppendIndex
      <4> QED BY <4>1, <4>2 DEF w
    <3>2. ASSUME j \in DOMAIN b.savepoints, c.savepoints[j] = b.savepoints[j]
          PROVE  Copied(c, i, events, c.savepoints[j])
      <4>1. Copied(b, i, events, b.savepoints[j])
        BY <3>2 DEF AllCopied
      <4> QED BY <2>2, <3>2, <4>1 DEF Copied
    <3> QED BY <2>3, <3>1, <3>2
  <2> QED BY <2>4 DEF AllCopied, c, e
<1>8. CASE e.type = "ROLLBACK_TO_SAVEPOINT" /\ HasSavepoint(b, e.id)
  <2> DEFINE j == FirstSavepoint(b, e.id)
             q == b.savepoints[j].intent_log_position
  <2>1. c = RollbackToSavepoint(b, e.id)
    BY <1>8 DEF ReplayOn
  <2>2. /\ j \in DOMAIN b.savepoints /\ q \in 0 .. Len(b.intents)
        /\ c.intents = SubSeq(b.intents, 1, q) /\ c.savepoints = SubSeq(b.savepoints, 1, j)
    <3> HIDE DEF c
    <3>1. PositionsInv(b)
      BY DEF WellFormed
    <3> QED BY <1>2, <1>8, <2>1, <3>1, RollbackFields
  <2> HIDE DEF c, j, q
  <2>3. /\ j \in Nat /\ j <= Len(b.savepoints) /\ q \in Nat /\ q <= Len(b.intents)
        /\ Len(c.intents) = q /\ \A l \in 1 .. q : c.intents[l] = b.intents[l]
    BY <1>2, <2>2
  <2>4. \A l \in DOMAIN c.savepoints : c.savepoints[l].intent_log_position <= q
    BY <1>1, <2>3 DEF WellFormed, PositionsInv
  <2>5. q <= Len(c.intents)
    BY <2>3
  <2>6. AllCopied(c, i, events)
    BY <1>1, <2>2, <2>3, <2>4, <2>5, CopiedSame
  <2> QED BY <2>6 DEF c
<1>9. CASE e.type \notin {"WRITE", "SAVEPOINT"} /\ ~(e.type = "ROLLBACK_TO_SAVEPOINT" /\ HasSavepoint(b, e.id))
  <2>1. \/ c = [b EXCEPT !.status = "Running", !.reads = Append(@, RecoveredRead(e))]
        \/ c = StageBranch(b, e.score)
        \/ c = b
    BY <1>9 DEF ReplayOn
  <2> HIDE DEF c
  <2>2. c.intents = b.intents /\ c.savepoints = b.savepoints
    BY <1>2, <2>1 DEF StageBranch, BranchContext
  <2> QED BY <1>5, <2>2 DEF c
<1> QED BY <1>6, <1>7, <1>8, <1>9

\* After a replay every savepoint has its event.
LEMMA ReplayedCopied ==
    ASSUME NEW events \in Seq(EventRecord), NEW count, CopiesKept(events, count),
           Uncommitted(events), NEW s \in Store
    PROVE  \A i \in 1 .. count : AllCopied(Replayed(events, count, s)[i], i, events)
<1> DEFINE m == Len(events)
           first == SubmitTask(count).branches
<1>1. m \in Nat /\ DOMAIN events = 1 .. m /\ \A n \in 1 .. m : events[n] \in EventRecord
  OBVIOUS
<1>2. PICK g : /\ g[0] = first
               /\ \A n \in DOMAIN events : g[n] = ReplayEvent(g[n - 1], events[n], s)
               /\ Replayed(events, count, s) = g[m]
  BY ReplayedUnroll
<1>3. DOMAIN first = 1 .. count /\ \A i \in 1 .. count : first[i] = CreateBranch
  BY DEF SubmitTask
<1>4. \A i \in 1 .. count : WellFormed(first[i]) /\ AllCopied(first[i], i, events)
  <2>1. CreateBranch.savepoints = <<>>
    BY DEF CreateBranch
  <2> HIDE DEF first
  <2> QED BY <1>3, <2>1, CreateBranchFormed DEF AllCopied
<1>5. ReplayUnrolled(events, count, s, g)
  BY <1>2 DEF ReplayUnrolled
<1> HIDE DEF first
<1> DEFINE Done(n) == /\ DOMAIN g[n] = 1 .. count
                      /\ \A i \in 1 .. count :
                            WellFormed(g[n][i]) /\ AllCopied(g[n][i], i, events)
           S == {n \in 0 .. m : ~Done(n)}
<1>6. Done(0)
  BY <1>2, <1>3, <1>4
<1>7. ASSUME NEW n \in 1 .. m, Done(n - 1)
      PROVE  Done(n)
  <2> DEFINE e == events[n]
             b == g[n - 1]
  <2>1. /\ DOMAIN b = 1 .. count
        /\ \A i \in 1 .. count : WellFormed(b[i]) /\ AllCopied(b[i], i, events)
    BY <1>7
  <2>2. g[n] = ReplayEvent(b, e, s) /\ e \in EventRecord /\ n \in DOMAIN events
    BY <1>1, <1>2
  <2>3. ASSUME e.type = "SAVEPOINT", e.branch \in 1 .. count
        PROVE  Unconditioned(e.copy) = b[e.branch].intents
    <3> DEFINE before == SubSeq(events, 1, n - 1)
    <3>1. /\ before \in Seq(EventRecord) /\ Len(before) = n - 1 /\ n - 1 <= Len(events)
          /\ \A j \in DOMAIN before : before[j] = events[j]
      BY <1>1
    <3>2. Replayed(before, count, s) = b
      <4> HIDE DEF before
      <4> QED BY <1>5, <3>1, ReplayedUpTo
    <3>3. \A j \in 1 .. (n - 1) : events[j].type # "COMMIT_TASK"
      BY <1>1 DEF Uncommitted
    <3>4. Unconditioned(e.copy) = Replayed(before, count, s)[e.branch].intents
      BY <1>1, <2>3, <3>3 DEF CopiesKept
    <3> QED BY <3>2, <3>4
  <2> HIDE DEF b
  <2>4. g[n] = [i \in 1 .. count |-> IF i = e.branch THEN ReplayOn(b[i], e, s) ELSE b[i]]
    BY <2>1, <2>2 DEF ReplayEvent
  <2>5. ASSUME NEW i \in 1 .. count
        PROVE  WellFormed(g[n][i]) /\ AllCopied(g[n][i], i, events)
    <3>1. WellFormed(b[i]) /\ AllCopied(b[i], i, events)
      BY <2>1
    <3>2. CASE i = e.branch
      <4>1. g[n][i] = ReplayOn(b[i], e, s)
        BY <2>4, <3>2
      <4>2. WellFormed(ReplayOn(b[i], e, s))
        BY <2>2, <3>1, ReplayOnFormed
      <4>3. e.type = "SAVEPOINT" => Unconditioned(e.copy) = b[i].intents
        BY <2>3, <3>2
      <4>4. AllCopied(ReplayOn(b[i], e, s), i, events)
        BY <2>2, <3>1, <3>2, <4>3, ReplayOnCopied
      <4> QED BY <4>1, <4>2, <4>4
    <3>3. CASE i # e.branch
      BY <2>4, <3>1, <3>3
    <3> QED BY <3>2, <3>3
  <2>6. DOMAIN g[n] = 1 .. count
    BY <2>4
  <2> QED BY <2>5, <2>6
<1> HIDE DEF Done
<1>8. ASSUME S # {} PROVE FALSE
  <2>1. PICK n \in S : \A j \in S : n <= j
    <3>1. S \in SUBSET (0 .. m)
      OBVIOUS
    <3> HIDE DEF S
    <3> QED BY <1>1, <1>8, <3>1, LeastIndex
  <2>2. n # 0
    BY <1>6, <2>1
  <2>3. n \in 1 .. m /\ n - 1 \in 0 .. m /\ n - 1 \notin S
    BY <1>1, <2>1, <2>2
  <2> QED BY <1>7, <2>1, <2>3
<1>9. m \in 0 .. m
  BY <1>1
<1>10. Done(m)
  BY <1>8, <1>9
<1> QED BY <1>2, <1>10 DEF Done

--------------------------------------------------------------------------------
(* The savepoints of the invariant.                                          *)

\* The savepoints in memory, in the log, and of a session that was rebuilt.
CopyInv ==
    /\ ~session.resumed => CopiesKept(session.events, Len(session.branches))
    /\ ~log.resumed => \A m \in Nat : Plans(log.events, m) => CopiesKept(log.events, m)
    /\ (mode = "recovered" /\ ~log.resumed /\ Uncommitted(log.events)) =>
          \A i \in DOMAIN session.branches : AllCopied(session.branches[i], i, log.events)

\* Events without a savepoint keep the copies, whatever the branches.
LEMMA NoCopies ==
    ASSUME NEW events, NEW count, \A n \in DOMAIN events : events[n].type # "SAVEPOINT"
    PROVE  CopiesKept(events, count)
BY DEF CopiesKept

\* A session after a call that records no savepoint.
Plain(s, t) ==
    /\ t.resumed = s.resumed
    /\ t.events = s.events \/ \E e : e.type # "SAVEPOINT" /\ t.events = Append(s.events, e)

\* A call on a branch whose event is none.
LEMMA CallPlain ==
    ASSUME NEW s \in SessionRecord, NEW i, NEW b, NEW e, e.type # "SAVEPOINT"
    PROVE  Plain(s, s) /\ Plain(s, Record(OnBranch(s, i, b), e))
<1> DEFINE t == Record(OnBranch(s, i, b), e)
<1>1. t.resumed = s.resumed /\ t.events = Append(s.events, e)
  BY DEF Record, OnBranch, SessionRecord
<1> HIDE DEF t
<1> QED BY <1>1 DEF Plain, t

\* It keeps the copies.
LEMMA PlainCopies ==
    ASSUME NEW s, SessionInv(s), NEW t, SessionInv(t), Len(t.branches) = Len(s.branches),
           Plain(s, t), ~s.resumed => CopiesKept(s.events, Len(s.branches))
    PROVE  ~t.resumed => CopiesKept(t.events, Len(t.branches))
<1> DEFINE count == Len(s.branches)
<1>1. s.events \in Seq(EventRecord) /\ t.events \in Seq(EventRecord) /\ Len(t.branches) = count
  BY DEF SessionInv, SessionRecord
<1> HIDE DEF count
<1>2. SUFFICES ASSUME CopiesKept(s.events, count)
               PROVE  CopiesKept(t.events, count)
  BY <1>1 DEF Plain, count
<1>3. ASSUME NEW e, e.type # "SAVEPOINT", t.events = Append(s.events, e)
      PROVE  CopiesKept(t.events, count)
  <2>1. e \in EventRecord
    <3>1. /\ Len(s.events) + 1 \in DOMAIN Append(s.events, e)
          /\ Append(s.events, e)[Len(s.events) + 1] = e
      BY <1>1
    <3>2. e = t.events[Len(s.events) + 1] /\ Len(s.events) + 1 \in DOMAIN t.events
      BY <1>3, <3>1
    <3> QED BY <1>1, <3>2
  <2>2. CopiesKept(Append(s.events, e), count)
    BY <1>1, <1>2, <1>3, <2>1, CopiesAppend
  <2> QED BY <1>3, <2>2
<1> QED BY <1>2, <1>3 DEF Plain

\* A step that leaves the log and is no recovery.
LEMMA CopyStep ==
    ASSUME CopyInv, log' = log, mode' # "recovered" \/ UNCHANGED <<mode, session>>,
           ~session'.resumed => CopiesKept(session'.events, Len(session'.branches))
    PROVE  CopyInv'
<1>1. (mode = "recovered" /\ ~log.resumed /\ Uncommitted(log.events))' =>
        \A i \in DOMAIN session'.branches : AllCopied(session'.branches[i], i, log.events)
  <2>1. CASE mode' # "recovered"
    BY <2>1
  <2>2. CASE UNCHANGED <<mode, session>>
    BY <2>2 DEF CopyInv
  <2> QED BY <2>1, <2>2
<1> QED BY <1>1 DEF CopyInv

\* A call that records no savepoint.
LEMMA PlainCopy ==
    ASSUME CopyInv, RecoveryInv, RecoveryInv', mode \in {"working", "continuing"},
           Plain(session, session'), Len(session'.branches) = Len(session.branches),
           UNCHANGED <<mode, log>>
    PROVE  CopyInv'
<1>1. SessionInv(session) /\ SessionInv(session')
  BY DEF RecoveryInv, SessionInv
<1>2. ~session.resumed => CopiesKept(session.events, Len(session.branches))
  BY DEF CopyInv
<1>3. ~session'.resumed => CopiesKept(session'.events, Len(session'.branches))
  BY <1>1, <1>2, PlainCopies
<1> QED BY <1>3, CopyStep

\* A savepoint that is made copies what a replay would come to.
LEMMA SavepointCopy ==
    ASSUME CopyInv, WorkInv, RecoveryInv, RecoveryInv',
           NEW i \in Nat, NEW id \in SavepointId, SavepointAt(i, id)
    PROVE  CopyInv'
<1> DEFINE event == SavepointEvent(i, id, IntentsOf(session, i))
           count == Len(session.branches)
           c == CreateSavepoint(session.branches[i], id)
<1>1. /\ WorkingOn(i) /\ session' = SavepointIn(session, i, id) /\ UNCHANGED <<mode, log>>
      /\ SessionInv(session) /\ session \in SessionRecord
  BY DEF SavepointAt, RecoveryInv, SessionInv
<1>2. mode' # "recovered"
  BY <1>1 DEF WorkingOn, Working
<1>3. Len(session'.branches) = count
  BY <1>1, SavepointInContinues DEF Continues
<1>4. session'.resumed = session.resumed /\ session'.events = Append(session.events, event)
  <2>1. session' = Record(OnBranch(session, i, c), event)
    BY <1>1 DEF SavepointIn
  <2> HIDE DEF event, c
  <2> QED BY <1>1, <2>1 DEF Record, OnBranch, SessionRecord
<1>5. /\ event \in EventRecord /\ event.branch = i /\ event.copy = IntentsOf(session, i)
  <2>1. IntentsOf(session, i) \in Seq(WriteIntent)
    BY <1>1, FoundFormed, BranchFields DEF IntentsOf
  <2> QED BY <2>1, SavepointEventType DEF SavepointEvent
<1>6. session.events \in Seq(EventRecord) /\ DOMAIN session.branches = 1 .. count
  BY <1>1 DEF SessionRecord
<1>7. ASSUME ~session.resumed
      PROVE  CopiesKept(session'.events, count)
  <2>1. CopiesKept(session.events, count)
    BY <1>7 DEF CopyInv
  <2>2. ASSUME i \in 1 .. count, Uncommitted(session.events), NEW s \in Store
        PROVE  Unconditioned(event.copy) = Replayed(session.events, count, s)[i].intents
    <3>1. Replayable
      BY <1>1, <1>7, <2>2 DEF Replayable, WorkingOn, Working
    <3>2. i \in DOMAIN session.branches
      BY <1>6, <2>2
    <3>3. Mirrors(Replayed(session.events, count, s)[i], session.branches[i], s, store)
      BY <3>1, <3>2 DEF WorkInv, WorkMirrored
    <3>4. event.copy = session.branches[i].intents
      BY <1>5, <3>2 DEF IntentsOf, Found
    <3> HIDE DEF event, count
    <3> QED BY <3>3, <3>4 DEF Mirrors
  <2> HIDE DEF event, count
  <2>3. CopiesKept(Append(session.events, event), count)
    BY <1>5, <1>6, <2>1, <2>2, CopiesAppend
  <2> QED BY <1>4, <2>3
<1>8. ~session'.resumed => CopiesKept(session'.events, Len(session'.branches))
  BY <1>3, <1>4, <1>7
<1> QED BY <1>1, <1>2, <1>8, CopyStep

\* The calls of a caller.
LEMMA CallsCopy ==
    ASSUME CopyInv, WorkInv, RecoveryInv, RecoveryInv',
           \/ \E r \in Reads : Read(r[1], r[2])
           \/ \E w \in Writes : Write(w[1], w[2])
           \/ \E i \in Managed, id \in GivenName : SavepointAt(i, id) \/ Rollback(i, id)
           \/ \E i \in Managed, score \in Score : Stage(i, score)
           \/ CommitThrows
    PROVE  CopyInv'
<1>1. SessionInv(session) /\ store \in Store /\ session \in SessionRecord
  BY DEF RecoveryInv, SessionInv
<1>2. BranchIds \subseteq Nat /\ Managed \subseteq Nat /\ Score \subseteq Int
      /\ GivenName \subseteq SavepointId
  BY CallsAssumption, ScoreAssumption DEF BranchIds, GivenName
<1>3. ASSUME NEW r \in Reads, Read(r[1], r[2]) PROVE CopyInv'
  <2> DEFINE s == ReadIn(session, r[1], r[2])
  <2>1. r[1] \in Nat /\ r[2] \in Key
    BY <1>2, CallsAssumption
  <2>2. Len(s.branches) = Len(session.branches)
    BY <1>1, <2>1, ReadInContinues DEF Continues
  <2>3. Plain(session, s)
    <3> DEFINE b == session.branches[r[1]]
               event == IF ~Found(session, r[1]) THEN ReadEvent(r[1], r[2], 0, Empty)
                        ELSE IF IsBuffered(b, r[2])
                        THEN ReadEvent(r[1], r[2], b.entries[r[2]].base_version,
                                       b.entries[r[2]].current_value)
                        ELSE ReadEvent(r[1], r[2], store[r[2]].version, store[r[2]].value)
    <3>1. event.type # "SAVEPOINT"
      BY DEF ReadEvent
    <3>2. s = Record(OnBranch(session, r[1], ReadObject(b, r[2], store)), event)
      BY DEF ReadIn
    <3> HIDE DEF event, b, s
    <3> QED BY <1>1, <3>1, <3>2, CallPlain
  <2> HIDE DEF s
  <2>4. session' = s /\ UNCHANGED <<mode, log>> /\ mode \in {"working", "continuing"}
    BY <1>3, WorkingMode DEF Read, s
  <2> QED BY <2>2, <2>3, <2>4, PlainCopy
<1>4. ASSUME NEW w \in Writes, Write(w[1], w[2]) PROVE CopyInv'
  <2> DEFINE s == WriteIn(session, w[1], w[2])
  <2>1. w[1] \in Nat /\ w[2] \in WriteIntent
    BY <1>2, CallsAssumption
  <2>2. Len(s.branches) = Len(session.branches)
    BY <1>1, <2>1, WriteInContinues DEF Continues
  <2>3. Plain(session, s)
    <3>1. WriteEvent(w[1], w[2]).type # "SAVEPOINT"
      BY DEF WriteEvent
    <3> QED BY <1>1, <3>1, CallPlain DEF WriteIn
  <2> HIDE DEF s
  <2>4. session' = s /\ UNCHANGED <<mode, log>> /\ mode \in {"working", "continuing"}
    BY <1>4, WorkingMode DEF Write, s
  <2> QED BY <2>2, <2>3, <2>4, PlainCopy
<1>5. ASSUME NEW i \in Managed, NEW id \in GivenName, SavepointAt(i, id) PROVE CopyInv'
  BY <1>2, <1>5, SavepointCopy
<1>6. ASSUME NEW i \in Managed, NEW id \in GivenName, Rollback(i, id) PROVE CopyInv'
  <2> DEFINE s == RollbackIn(session, i, id)
  <2>1. Len(s.branches) = Len(session.branches)
    BY <1>1, <1>2, RollbackInContinues DEF Continues
  <2>2. Plain(session, s)
    <3>1. RollbackEvent(i, id).type # "SAVEPOINT"
      BY DEF RollbackEvent
    <3> QED BY <1>1, <3>1, CallPlain DEF RollbackIn
  <2> HIDE DEF s
  <2>3. session' = s /\ UNCHANGED <<mode, log>> /\ mode \in {"working", "continuing"}
    BY <1>6, WorkingMode DEF Rollback, s
  <2> QED BY <2>1, <2>2, <2>3, PlainCopy
<1>7. ASSUME NEW i \in Managed, NEW score \in Score, Stage(i, score) PROVE CopyInv'
  <2> DEFINE s == StageIn(session, i, score)
  <2>1. Len(s.branches) = Len(session.branches)
    BY <1>1, <1>2, StageInContinues DEF Continues
  <2>2. Plain(session, s)
    <3>1. StageEvent(i, score).type # "SAVEPOINT"
      BY DEF StageEvent
    <3> QED BY <1>1, <3>1, CallPlain DEF StageIn
  <2> HIDE DEF s
  <2>3. session' = s /\ UNCHANGED <<mode, log>> /\ mode \in {"working", "continuing"}
    BY <1>7 DEF Stage, Working, s
  <2> QED BY <2>1, <2>2, <2>3, PlainCopy
<1>8. ASSUME CommitThrows PROVE CopyInv'
  <2> DEFINE s == Attempted(session)
  <2>1. Len(s.branches) = Len(session.branches)
    BY <1>1, AttemptedContinues DEF Continues
  <2>2. Plain(session, s)
    <3>1. Event("COMMIT_ATTEMPT", 0).type # "SAVEPOINT"
      BY DEF Event
    <3> QED BY <1>1, <3>1 DEF Attempted, Record, SessionRecord, Plain
  <2> HIDE DEF s
  <2>3. session' = s /\ UNCHANGED <<mode, log>> /\ mode \in {"working", "continuing"}
    BY <1>8 DEF CommitThrows, Working, s
  <2> QED BY <2>1, <2>2, <2>3, PlainCopy
<1> QED BY <1>3, <1>4, <1>5, <1>6, <1>7, <1>8

\* CommitTask records no savepoint.
LEMMA CommitCopies ==
    ASSUME NEW s, SessionInv(s), s.branches # <<>>, CommitOf(s),
           ~s.resumed => CopiesKept(s.events, Len(s.branches))
    PROVE  ~session'.resumed => CopiesKept(session'.events, Len(session'.branches))
<1> DEFINE winner == SelectWinner(s.branches)
           u == Attempted(s)
           n == Len(s.branches)
           e == Event("ABORT_TASK", winner)
<1>1. s.branches \in Seq(BranchContext) /\ n \in Nat \ {0} /\ s \in SessionRecord
  BY DEF SessionInv, SessionRecord
<1>2. winner \in Nat
  <2>1. s.branches \in [1 .. n -> BranchContext]
    BY <1>1
  <2>2. SelectWinner(s.branches) \in 1 .. n
    <3> HIDE DEF n
    <3> QED BY <1>1, <2>1, SelectWinnerType
  <2> QED BY <1>1, <2>2
<1>3. SessionInv(u) /\ Len(u.branches) = Len(s.branches) /\ u \in SessionRecord
  BY AttemptedContinues DEF Continues, SessionInv
<1>4. Plain(s, u)
  <2>1. Event("COMMIT_ATTEMPT", 0).type # "SAVEPOINT"
    BY DEF Event
  <2> QED BY <1>1, <2>1 DEF Attempted, Record, SessionRecord, Plain
<1> HIDE DEF u
<1>5. ~u.resumed => CopiesKept(u.events, Len(u.branches))
  BY <1>3, <1>4, PlainCopies
<1>6. session' = Committed(u, winner) \/ session' = Aborted(u, e)
  BY DEF CommitOf, u
<1> HIDE DEF winner
<1>7. /\ SessionInv(session') /\ Len(session'.branches) = Len(u.branches)
      /\ Plain(u, session')
  <2>1. CASE session' = Committed(u, winner)
    <3>1. SessionInv(session') /\ Len(session'.branches) = Len(u.branches)
      BY <1>2, <1>3, <2>1, CommittedKeeps
    <3>2. Event("COMMIT_TASK", winner).type # "SAVEPOINT"
      BY DEF Event
    <3>3. session'.events = Append(u.events, Event("COMMIT_TASK", winner))
      BY <1>3, <2>1, CommittedFields
    <3>4. session'.resumed = u.resumed
      BY <1>3, <2>1 DEF Committed, Record, SessionRecord
    <3> QED BY <3>1, <3>2, <3>3, <3>4 DEF Plain
  <2>2. CASE session' = Aborted(u, e)
    <3>1. SessionInv(session') /\ Len(session'.branches) = Len(u.branches)
      BY <1>2, <1>3, <2>2, AbortedContinues DEF Continues
    <3>2. e.type # "SAVEPOINT"
      BY DEF Event
    <3> HIDE DEF e
    <3>3. session'.events = Append(u.events, e)
      BY <1>3, <2>2, AbortedFields
    <3>4. session'.resumed = u.resumed
      BY <1>3, <2>2 DEF Aborted, Record, SessionRecord
    <3> QED BY <3>1, <3>2, <3>3, <3>4 DEF Plain
  <2> QED BY <1>6, <2>1, <2>2
<1> QED BY <1>3, <1>5, <1>7, PlainCopies

\* The steps that end the task.
LEMMA EndsCopy ==
    ASSUME CopyInv, RecoveryInv, RecoveryInv',
           \/ CommitTask \/ AbortTask \/ RevalidateCommit
           \/ \E score \in Score : FinishContinuation(score)
    PROVE  CopyInv'
<1>1. /\ SessionInv(session) /\ store \in Store /\ session \in SessionRecord
      /\ target \in Nat /\ Score \subseteq Int
      /\ ~session.resumed => CopiesKept(session.events, Len(session.branches))
      /\ SessionInv(session')
  BY ScoreAssumption DEF RecoveryInv, CopyInv, SessionInv
<1>2. ASSUME CommitTask \/ RevalidateCommit PROVE CopyInv'
  <2>1. CommitOf(session) /\ log' = log /\ mode # "down" /\ mode' # "recovered"
    BY <1>2 DEF CommitTask, RevalidateCommit, Working, Proceed, Refuse
  <2>2. session.branches # <<>>
    BY <2>1 DEF RecoveryInv
  <2>3. ~session'.resumed => CopiesKept(session'.events, Len(session'.branches))
    BY <1>1, <2>1, <2>2, CommitCopies
  <2> QED BY <2>1, <2>3, CopyStep
<1>3. CASE AbortTask
  <2> DEFINE e == Event("ABORT_TASK", 0)
  <2>1. /\ session' = Aborted(session, e) /\ mode = "working" /\ UNCHANGED <<mode, log>>
    BY <1>3 DEF AbortTask, Working
  <2>2. e.type # "SAVEPOINT"
    BY DEF Event
  <2>3. Len(session'.branches) = Len(session.branches)
    BY <1>1, <2>1, AbortedContinues DEF Continues
  <2> HIDE DEF e
  <2>4. session'.events = Append(session.events, e)
    BY <1>1, <2>1, AbortedFields
  <2>5. session'.resumed = session.resumed
    BY <1>1, <2>1 DEF Aborted, Record, SessionRecord
  <2>6. Plain(session, session')
    BY <2>2, <2>4, <2>5 DEF Plain
  <2> QED BY <2>1, <2>3, <2>6, PlainCopy
<1>4. ASSUME NEW score \in Score, FinishContinuation(score) PROVE CopyInv'
  <2> DEFINE s == StageIn(session, target, score)
  <2>1. CommitOf(s) /\ log' = log /\ mode = "continuing" /\ mode' = "working"
    BY <1>4 DEF FinishContinuation
  <2>2. SessionInv(s) /\ Len(s.branches) = Len(session.branches)
    BY <1>1, StageInContinues DEF Continues
  <2>3. Plain(session, s)
    <3>1. StageEvent(target, score).type # "SAVEPOINT"
      BY DEF StageEvent
    <3> QED BY <1>1, <3>1, CallPlain DEF StageIn
  <2> HIDE DEF s
  <2>4. s.branches # <<>>
    <3>1. session.branches # <<>>
      BY <2>1 DEF RecoveryInv
    <3>2. /\ s.branches \in Seq(BranchContext) /\ session.branches \in Seq(BranchContext)
      BY <1>1, <2>2 DEF SessionInv, SessionRecord
    <3> QED BY <2>2, <3>1, <3>2
  <2>5. ~s.resumed => CopiesKept(s.events, Len(s.branches))
    BY <1>1, <2>2, <2>3, PlainCopies
  <2>6. ~session'.resumed => CopiesKept(session'.events, Len(session'.branches))
    BY <2>1, <2>2, <2>4, <2>5, CommitCopies
  <2> QED BY <2>1, <2>6, CopyStep
<1> QED BY <1>2, <1>3, <1>4

\* The commands of a recovery that do not commit.
LEMMA CommandsCopy ==
    ASSUME CopyInv, RecoveryInv, RecoveryInv',
           ExecuteNoop \/ SubmitFreshTask \/ ResumeBranch \/ ResumeFromSavepoint
    PROVE  CopyInv'
<1>1. /\ SessionInv(session) /\ session \in SessionRecord /\ LogInv /\ RecoveredInv
      /\ ~session.resumed => CopiesKept(session.events, Len(session.branches))
  BY DEF RecoveryInv, CopyInv, SessionInv
<1>2. mode = "recovered" /\ UNCHANGED log /\ (Proceed \/ Refuse)
  BY DEF ExecuteNoop, SubmitFreshTask, ResumeBranch, ResumeFromSavepoint
<1>3. mode' # "recovered"
  BY <1>2 DEF Proceed, Refuse
<1>4. CASE session' = session
  BY <1>1, <1>2, <1>3, <1>4, CopyStep
<1>5. CASE SubmitFreshTask
  <2> DEFINE p == PlannedBranches
  <2>1. session' = SubmitTask(p) /\ p \in Nat
    BY <1>1, <1>2, <1>5, PlanOfLog DEF SubmitFreshTask, RecoveredInv
  <2> HIDE DEF p
  <2>2. \A n \in DOMAIN session'.events : session'.events[n].type # "SAVEPOINT"
    BY <2>1, SubmitTaskEvents
  <2>3. CopiesKept(session'.events, Len(session'.branches))
    BY <2>2, NoCopies
  <2> QED BY <1>2, <1>3, <2>3, CopyStep
<1>6. CASE ResumeBranch /\ session' # session
  <2> DEFINE i == execution.branch
  <2>1. Found(session, i) /\ session' = Resumed(session, i)
    BY <1>6 DEF ResumeBranch
  <2> HIDE DEF i
  <2>2. session'.resumed = session.resumed /\ session'.events = session.events
    BY <1>1, <2>1 DEF Resumed, SessionRecord
  <2>3. Len(session'.branches) = Len(session.branches)
    BY <1>1, <2>1, ResumedContinues DEF Continues
  <2> QED BY <1>1, <1>2, <1>3, <2>2, <2>3, CopyStep
<1>7. CASE ResumeFromSavepoint /\ session' # session
  <2> DEFINE i == execution.branch
             u == [session EXCEPT !.branches[i] = RollbackToSavepoint(@, execution.savepoint),
                                  !.resumed = TRUE]
  <2>1. session' = Resumed(u, i)
    BY <1>7 DEF ResumeFromSavepoint
  <2>2. u.resumed = TRUE
    BY <1>1 DEF SessionRecord
  <2> HIDE DEF u, i
  <2>3. session'.resumed = TRUE
    BY <2>1, <2>2 DEF Resumed
  <2> QED BY <1>2, <1>3, <2>3, CopyStep
<1>8. CASE ExecuteNoop
  BY <1>4, <1>8 DEF ExecuteNoop
<1> QED BY <1>4, <1>5, <1>6, <1>7, <1>8

\* Another client writes, or nothing happens.
LEMMA OthersCopy ==
    ASSUME CopyInv, (\E p \in Puts : ExternalPut(p[1], p[2])) \/ UNCHANGED vars
    PROVE  CopyInv'
<1>1. UNCHANGED <<mode, session, log>>
  BY DEF ExternalPut, vars
<1> QED BY <1>1, CopyStep DEF CopyInv

\* What a crash leaves of the log.
LEMMA CrashesCopy ==
    ASSUME CopyInv, RecoveryInv, Crash \/ CrashInWriteLog
    PROVE  CopyInv'
<1>1. mode' = "down" /\ session' = NoSession
  BY DEF Crash, CrashInWriteLog, Down
<1>2. CopiesKept(session'.events, Len(session'.branches))
  <2>1. session'.events = <<>>
    BY <1>1 DEF NoSession
  <2> QED BY <2>1, NoCopies
<1>3. CASE Crash
  <2>1. log' = log
    BY <1>3 DEF Crash
  <2> QED BY <1>1, <1>2, <2>1, CopyStep
<1>4. CASE CrashInWriteLog
  <2> DEFINE m == Len(session.branches)
  <2>1. /\ log' \in TornImages(session) /\ session.events \in Seq(EventRecord)
        /\ Plans(session.events, m) /\ m \in Nat /\ m <= BranchCount
        /\ mode # "down" /\ session.branches \in Seq(BranchContext)
    BY <1>4 DEF CrashInWriteLog, RecoveryInv, SessionInv, SessionRecord
  <2>2. m \in BranchIds
    <3>1. session.branches # <<>>
      BY <2>1 DEF RecoveryInv
    <3>2. m # 0
      BY <2>1, <3>1
    <3> HIDE DEF m
    <3> QED BY <2>1, <3>2, PlanAssumption DEF BranchIds
  <2>3. ~session.resumed => CopiesKept(session.events, m)
    BY DEF CopyInv
  <2> HIDE DEF m
  <2>4. ASSUME ~log'.resumed, NEW k \in Nat, Plans(log'.events, k)
        PROVE  CopiesKept(log'.events, k)
    <3>1. CASE log' = NoLog
      <4>1. log'.events = <<>>
        BY <3>1 DEF NoLog
      <4> QED BY <4>1, NoCopies
    <3>2. CASE log' # NoLog
      <4>1. PICK n \in 2 .. Len(session.events) :
                \E last \in Cuts(session.events[n]) :
                    log' = Image(session, Append(SubSeq(session.events, 1, n - 1), last))
        BY <2>1, <3>2 DEF TornImages
      <4>2. PICK last \in Cuts(session.events[n]) :
                log' = Image(session, Append(SubSeq(session.events, 1, n - 1), last))
        BY <4>1
      <4> DEFINE events == session.events
                 torn == Append(SubSeq(events, 1, n - 1), last)
      <4>3. log'.events = torn /\ log'.resumed = session.resumed
        BY <4>2 DEF Image
      <4>4. CopiesKept(events, m)
        BY <2>3, <2>4, <4>3
      <4>5. /\ DOMAIN torn = 1 .. n
            /\ \A j \in 1 .. n : j \in DOMAIN events /\ torn[j].type = events[j].type
        BY <2>1, <2>2, TornEvents
      <4>6. events \in Seq(EventRecord) /\ Plans(events, m)
        BY <2>1
      <4>7. n \in 2 .. Len(events) /\ last \in Cuts(events[n])
        OBVIOUS
      <4> HIDE DEF events
      <4>8. k <= m
        <5> HIDE DEF torn
        <5>1. Plans(torn, k)
          BY <2>4, <4>3
        <5>2. ASSUME k > 0 PROVE k + 1 \in 2 .. (m + 1)
          <6>1. k + 1 \in 2 .. (k + 1)
            BY <5>2
          <6>2. k + 1 \in DOMAIN torn /\ torn[k + 1].type = "CREATE_BRANCH"
            BY <5>1, <6>1 DEF Plans
          <6>3. k + 1 \in DOMAIN events /\ events[k + 1].type = "CREATE_BRANCH"
            BY <4>5, <6>2
          <6> QED BY <4>6, <6>3 DEF Plans
        <5> QED BY <2>1, <5>2
      <4>9. CopiesKept(torn, k)
        BY <2>1, <4>4, <4>6, <4>7, <4>8, TornCopies
      <4> QED BY <4>3, <4>9
    <3> QED BY <3>1, <3>2
  <2> QED BY <1>1, <1>2, <2>4 DEF CopyInv
<1> QED BY <1>3, <1>4

\* The session is written to the log.
LEMMA WriteLogCopy ==
    ASSUME CopyInv, RecoveryInv, WriteLog
    PROVE  CopyInv'
<1>1. /\ mode \in {"working", "refused"} /\ log' = Image(session, session.events)
      /\ UNCHANGED <<mode, session>>
  BY DEF WriteLog
<1> DEFINE m == Len(session.branches)
<1>2. Plans(session.events, m) /\ m \in Nat
  BY DEF RecoveryInv, SessionInv, SessionRecord
<1>3. ~session.resumed => CopiesKept(session.events, m)
  BY DEF CopyInv
<1> HIDE DEF m
<1>4. log'.events = session.events /\ log'.resumed = session.resumed
  BY <1>1 DEF Image
<1>5. ASSUME ~log'.resumed, NEW k \in Nat, Plans(log'.events, k)
      PROVE  CopiesKept(log'.events, k)
  <2>1. k = m
    BY <1>2, <1>4, <1>5, PlanIsOne
  <2> QED BY <1>3, <1>4, <1>5, <2>1
<1>6. ~session'.resumed => CopiesKept(session'.events, Len(session'.branches))
  BY <1>1, <1>3 DEF m
<1>7. mode' # "recovered"
  BY <1>1
<1> QED BY <1>5, <1>6, <1>7 DEF CopyInv

\* The recovery.
LEMMA RecoverCopy ==
    ASSUME CopyInv, RecoveryInv, Recover
    PROVE  CopyInv'
<1> DEFINE p == PlannedBranches
           r == Replayed(log.events, p, store)
           t == RebuiltSession
<1>1. /\ log.readable /\ mode' = "recovered" /\ session' = t /\ UNCHANGED <<store, log>>
      /\ LogInv /\ store \in Store
  BY DEF Recover, RecoveryInv
<1>2. p \in Nat /\ Plans(log.events, p) /\ log.events \in Seq(EventRecord)
  BY <1>1, PlanOfLog
<1>3. /\ t.branches \in Seq(BranchContext) /\ Len(t.branches) = p /\ DOMAIN t.branches = 1 .. p
  <2>1. SessionInv(t) /\ Len(t.branches) = p
    BY <1>1, RebuiltInv
  <2> HIDE DEF t, p
  <2> QED BY <2>1 DEF SessionInv, SessionRecord
<1>4. t.events = log.events /\ t.resumed = log.resumed
  BY DEF RebuiltSession
<1>5. \A i \in 1 .. p :
          t.branches[i].intents = r[i].intents /\ t.branches[i].savepoints = r[i].savepoints
  BY <1>1, RebuiltFields
<1>6. ~log.resumed => CopiesKept(log.events, p)
  BY <1>2 DEF CopyInv
<1>7. ASSUME ~log.resumed, Uncommitted(log.events), NEW i \in 1 .. p
      PROVE  AllCopied(t.branches[i], i, log.events)
  <2>1. AllCopied(r[i], i, log.events)
    <3> HIDE DEF p
    <3> QED BY <1>1, <1>2, <1>6, <1>7, ReplayedCopied
  <2> HIDE DEF r, t
  <2> QED BY <1>5, <1>7, <2>1 DEF AllCopied, Copied
<1> HIDE DEF t, r, p
<1>8. session' = t /\ log' = log
  BY <1>1
<1>9. (~session'.resumed) => CopiesKept(session'.events, Len(session'.branches))
  BY <1>3, <1>4, <1>6, <1>8
<1>10. (~log'.resumed) => \A m \in Nat : Plans(log'.events, m) => CopiesKept(log'.events, m)
  BY <1>8 DEF CopyInv
<1>11. (~log'.resumed /\ Uncommitted(log'.events)) =>
          \A i \in DOMAIN session'.branches : AllCopied(session'.branches[i], i, log'.events)
  BY <1>3, <1>7, <1>8
<1> QED BY <1>9, <1>10, <1>11 DEF CopyInv

\* It holds at the start.
LEMMA CopyInvInit == Init => CopyInv
<1> SUFFICES ASSUME Init PROVE CopyInv
  OBVIOUS
<1>1. session = SubmitTask(BranchCount) /\ log = NoLog /\ mode = "working"
  BY DEF Init, InitWith
<1>2. \A n \in DOMAIN session.events : session.events[n].type # "SAVEPOINT"
  BY <1>1, PlanAssumption, SubmitTaskEvents
<1>3. log.events = <<>>
  BY <1>1 DEF NoLog
<1>4. \A m : CopiesKept(session.events, m) /\ CopiesKept(log.events, m)
  BY <1>2, <1>3, NoCopies
<1> QED BY <1>1, <1>4 DEF CopyInv

\* Every step keeps it.
LEMMA CopyInvNext == RecoveryInv /\ RecoveryInv' /\ WorkInv /\ CopyInv /\ [Next]_vars => CopyInv'
BY CallsCopy, EndsCopy, CommandsCopy, CrashesCopy, WriteLogCopy, RecoverCopy, OthersCopy DEF Next

\* A resumption from a savepoint finds the work that was there.
LEMMA ResumesStep ==
    ASSUME RecoveryInv, CopyInv, ResumeFromSavepoint, mode' # "refused", ~log.resumed,
           Uncommitted(log.events)
    PROVE  \E n \in DOMAIN log.events :
             /\ log.events[n].type = "SAVEPOINT" /\ log.events[n].branch = execution.branch
             /\ log.events[n].id = execution.savepoint
             /\ session'.branches[execution.branch].intents = Unconditioned(log.events[n].copy)
<1> DEFINE i == execution.branch
           id == execution.savepoint
           b == session.branches[i]
           c == RollbackToSavepoint(b, id)
           u == [session EXCEPT !.branches[i] = RollbackToSavepoint(@, id), !.resumed = TRUE]
           j == FirstSavepoint(b, id)
<1>1. /\ mode = "recovered" /\ FindSavepoint(session, i, id) /\ session' = Resumed(u, i)
  BY DEF ResumeFromSavepoint, Refuse
<1>2. /\ SessionInv(session) /\ session \in SessionRecord /\ i \in DOMAIN session.branches
      /\ HasSavepoint(b, id)
  BY <1>1 DEF RecoveryInv, SessionInv, FindSavepoint, Found
<1>3. WellFormed(b) /\ b \in BranchContext /\ PositionsInv(b)
  BY <1>2, FoundFormed DEF Found, WellFormed
<1>4. session'.branches[i].intents = c.intents
  <2>1. u.branches = [session.branches EXCEPT ![i] = c]
    BY <1>2 DEF SessionRecord
  <2>2. u.branches[i] = c /\ i \in DOMAIN u.branches
    BY <1>2, <2>1
  <2>3. session'.branches = [u.branches EXCEPT ![i].status = "Running"]
    <3> DEFINE f == [session.branches EXCEPT ![i] = c]
    <3>1. session = [phase |-> session.phase, committed |-> session.committed,
                     resumed |-> session.resumed, branches |-> session.branches,
                     events |-> session.events]
      BY <1>2 DEF SessionRecord
    <3>2. u = [session EXCEPT !.branches = f, !.resumed = TRUE]
      OBVIOUS
    <3> HIDE DEF u, f
    <3>3. u = [phase |-> session.phase, committed |-> session.committed, resumed |-> TRUE,
               branches |-> f, events |-> session.events]
      BY <3>1, <3>2
    <3> QED BY <1>1, <3>3 DEF Resumed
  <2>4. c \in BranchContext
    BY <1>2, <1>3, RollbackFormed DEF WellFormed
  <2> HIDE DEF u, c
  <2>5. session'.branches[i] = [c EXCEPT !.status = "Running"]
    BY <2>2, <2>3
  <2> QED BY <2>4, <2>5 DEF BranchContext
<1>5. /\ j \in DOMAIN b.savepoints /\ b.savepoints[j].id = id
      /\ c.intents = SubSeq(b.intents, 1, b.savepoints[j].intent_log_position)
  <2> HIDE DEF b
  <2> QED BY <1>2, <1>3, RollbackFields
<1>6. AllCopied(b, i, log.events)
  BY <1>1, <1>2 DEF CopyInv
<1> HIDE DEF b, c, j, u
<1>7. Copied(b, i, log.events, b.savepoints[j])
  BY <1>5, <1>6 DEF AllCopied
<1>8. PICK n \in DOMAIN log.events :
        /\ log.events[n].type = "SAVEPOINT" /\ log.events[n].branch = i
        /\ log.events[n].id = b.savepoints[j].id
        /\ Unconditioned(log.events[n].copy)
             = SubSeq(b.intents, 1, b.savepoints[j].intent_log_position)
  BY <1>7 DEF Copied
<1> QED BY <1>4, <1>5, <1>8

\* ExecuteRecoveryExecution, RESUME_FROM_SAVEPOINT: unless an earlier one has
\* rolled back without a trace in the log, the branch it resumes has the
\* intents it had when a savepoint of that name was made, whatever other
\* branches did, however often it was rolled back, and wherever the log was
\* cut after that.
THEOREM ResumesAtSavepointHolds == Spec => ResumesAtSavepoint
<1>1. Spec => [](RecoveryInv /\ WorkInv /\ CopyInv)
  BY RecoveryInvInit, RecoveryInvNext, WorkInvInit, WorkInvNext, CopyInvInit, CopyInvNext, PTL
     DEF Spec
<1>2. RecoveryInv /\ CopyInv =>
        [(ResumeFromSavepoint /\ mode' # "refused" /\ ~log.resumed /\ Uncommitted(log.events)) =>
            \E n \in DOMAIN log.events :
                /\ log.events[n].type = "SAVEPOINT" /\ log.events[n].branch = execution.branch
                /\ log.events[n].id = execution.savepoint
                /\ session'.branches[execution.branch].intents
                     = Unconditioned(log.events[n].copy)]_vars
  BY ResumesStep
<1> QED BY <1>1, <1>2, PTL DEF ResumesAtSavepoint
=================================================================================
