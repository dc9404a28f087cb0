--------------------------------- MODULE Branch ---------------------------------
(****************************************************************************)
(* One candidate branch: its read set, write buffer, intent log, savepoints *)
(* and score, and what BranchManager and RollbackManager do to them.  All   *)
(* operators are functions of a branch record and of the store; the modules *)
(* that use them say when they happen.                                      *)
(*                                                                          *)
(* The write buffer is kept as the code keeps it: `entries` (the current    *)
(* entry of each buffered object), `order` (objects in order of first       *)
(* buffering) and `changes` (one undo record per Upsert, `previous` empty   *)
(* when the object was not buffered before).                                *)
(****************************************************************************)
EXTENDS IntentPolicy

INSTANCE VersionedKV

CONSTANTS SavepointId,  \* names of savepoints
          Score         \* scores a branch may be staged with

\* Scores are doubles in the code; only their order matters.
ASSUME ScoreAssumption == Score \subseteq Int

NoBuffer == [k \in {} |-> Empty]

\* A read set entry is [object, version]; `seen` is history, the value Read
\* returned to the caller at that version.
ReadRecord == [object : Key, version : Nat, seen : Value]

CacheEntry == [base_value : Value, base_version : Nat, current_value : Value,
               intent_type : IntentType]

ChangeRecord == [object : Key, previous : Seq(CacheEntry)]

Savepoint ==
    [id : SavepointId, write_log_position : Nat, intent_log_position : Nat]

\* The buffered objects and their entries.
Entries == UNION {[S -> CacheEntry] : S \in SUBSET Key}

BranchContext ==
    [status     : {"Created", "Running", "Staged", "Winner", "Loser", "Committed", "Aborted", "Discarded"},
     reads      : Seq(ReadRecord),
     entries    : Entries,
     order      : Seq(Key),
     changes    : Seq(ChangeRecord),
     intents    : Seq(WriteIntent),
     savepoints : Seq(Savepoint),
     score      : Int]

CreateBranch ==
    [status |-> "Created", reads |-> <<>>, entries |-> NoBuffer, order |-> <<>>,
     changes |-> <<>>, intents |-> <<>>, savepoints |-> <<>>, score |-> 0]

IsBuffered(b, k) == k \in DOMAIN b.entries

\* ReadObject: a buffered object is answered from the buffer and leaves no
\* trace in the read set.
ReadObject(b, k, store) ==
    LET record == [object |-> k, version |-> store[k].version, seen |-> store[k].value]
    IN  [b EXCEPT !.status = "Running",
                  !.reads = IF IsBuffered(b, k) THEN @ ELSE Append(@, record)]

\* Mutant of EntryBefore: every write takes the base anew.
EntryBeforeRefreshed(b, k, store) ==
    [base_value |-> store[k].value, base_version |-> store[k].version,
     current_value |-> IF IsBuffered(b, k) THEN b.entries[k].current_value ELSE store[k].value,
     intent_type |-> "Read"]

\* The entry BufferWrite starts from: the buffered one, or the store's value
\* as the base.
EntryBefore(b, k, store) ==
    IF IsBuffered(b, k)
    THEN b.entries[k]
    ELSE [base_value |-> store[k].value, base_version |-> store[k].version,
          current_value |-> store[k].value, intent_type |-> "Read"]

\* Mutant of EntryAfter: the intent is applied to the base, not to the buffer.
EntryAfterFromBase(b, intent, store) ==
    LET before == EntryBefore(b, intent.object, store)
    IN  [before EXCEPT
            !.intent_type = intent.type,
            !.current_value = BufferedValue(before.base_value, before.base_value, intent)]

EntryAfter(b, intent, store) ==
    LET before == EntryBefore(b, intent.object, store)
    IN  [before EXCEPT
            !.intent_type = intent.type,
            !.current_value = BufferedValue(before.base_value, @, intent)]

\* Upsert: the undo record is taken before the entry is replaced.
Upsert(b, k, entry) ==
    [b EXCEPT
        !.changes = Append(@, [object |-> k,
                               previous |-> IF IsBuffered(b, k) THEN <<b.entries[k]>> ELSE <<>>]),
        !.order   = IF IsBuffered(b, k) THEN @ ELSE Append(@, k),
        !.entries = [j \in DOMAIN @ \cup {k} |-> IF j = k THEN entry ELSE b.entries[j]]]

BufferWrite(b, intent, store) ==
    LET buffered == Upsert(b, intent.object, EntryAfter(b, intent, store))
    IN  [buffered EXCEPT !.status = "Running", !.intents = Append(@, intent)]

\* Mutant of CreateSavepoint: the position of the last change, not after it.
CreateSavepointBeforeLast(b, id) ==
    [b EXCEPT !.savepoints =
        Append(@, [id |-> id, write_log_position |-> Len(b.changes) - 1,
                   intent_log_position |-> Len(b.intents)])]

CreateSavepoint(b, id) ==
    [b EXCEPT !.savepoints =
        Append(@, [id |-> id, write_log_position |-> Len(b.changes),
                   intent_log_position |-> Len(b.intents)])]

StageBranch(b, score) == [b EXCEPT !.score = score, !.status = "Staged"]

\* std::find in the order, and erase of what it found.
EraseFirst(order, k) ==
    LET found == {i \in DOMAIN order : order[i] = k}
        first == CHOOSE i \in found : \A j \in found : i <= j
    IN  IF found = {} THEN order
        ELSE SubSeq(order, 1, first - 1) \o SubSeq(order, first + 1, Len(order))

\* One turn of the loop of WriteBuffer::Truncate: the last change is undone.
UndoLast(b) ==
    LET change == b.changes[Len(b.changes)]
        earlier == SubSeq(b.changes, 1, Len(b.changes) - 1)
        fresh == change.previous = <<>>
    IN  [b EXCEPT
            !.changes = earlier,
            !.entries = IF fresh
                        THEN [j \in DOMAIN @ \ {change.object} |-> b.entries[j]]
                        ELSE [@ EXCEPT ![change.object] = change.previous[1]],
            !.order   = IF fresh THEN EraseFirst(@, change.object) ELSE @]

\* Mutant of TruncateBuffer: an if in place of the loop.
TruncateBufferOnce(b, size) == IF Len(b.changes) > size THEN UndoLast(b) ELSE b

TruncateBuffer(b, size) ==
    LET undone[n \in 0 .. Len(b.changes)] == IF n = 0 THEN b ELSE UndoLast(undone[n - 1])
    IN  IF Len(b.changes) > size THEN undone[Len(b.changes) - size] ELSE b

\* Mutant of TruncateIntents: the intent log is forgotten.
TruncateIntentsForgotten(b, size) == b

TruncateIntents(b, size) ==
    IF Len(b.intents) > size THEN [b EXCEPT !.intents = SubSeq(@, 1, size)] ELSE b

HasSavepoint(b, id) == \E i \in DOMAIN b.savepoints : b.savepoints[i].id = id

\* Mutant of FirstSavepoint: the last savepoint of that name.
LastSavepoint(b, id) ==
    CHOOSE i \in DOMAIN b.savepoints :
        b.savepoints[i].id = id /\ \A j \in (i + 1) .. Len(b.savepoints) : b.savepoints[j].id # id

\* find_if: the first savepoint of that name.
FirstSavepoint(b, id) ==
    CHOOSE i \in DOMAIN b.savepoints :
        b.savepoints[i].id = id /\ \A j \in 1 .. (i - 1) : b.savepoints[j].id # id

\* RollbackToSavepoint; the read set is left alone.
RollbackToSavepoint(b, id) ==
    LET i == FirstSavepoint(b, id)
        sp == b.savepoints[i]
        truncated == TruncateIntents(TruncateBuffer(b, sp.write_log_position), sp.intent_log_position)
    IN  [truncated EXCEPT !.savepoints = SubSeq(@, 1, i)]

\* Mutant of DiscardBranch: the read set goes too.
DiscardBranchAndReads(b) == [CreateBranch EXCEPT !.status = "Discarded", !.score = b.score]

\* DiscardBranch truncates buffer and intent log to 0, which empties them
\* (BranchWorkspace checks that), and forgets the savepoints.
DiscardBranch(b) ==
    [b EXCEPT !.status = "Discarded", !.entries = NoBuffer, !.order = <<>>,
              !.changes = <<>>, !.intents = <<>>, !.savepoints = <<>>]

\* The intents on one object, and the last of them (latest_intents in
\* ValidateWinner and in CommitWinner).
IntentsOn(b, k) == {i \in DOMAIN b.intents : b.intents[i].object = k}
HasIntent(b, k) == IntentsOn(b, k) # {}
LatestIntent(b, k) ==
    b.intents[CHOOSE i \in IntentsOn(b, k) : \A j \in IntentsOn(b, k) : j <= i]

\* A read of an object whose latest intent is rebased is not validated.
Rebased(b, k) == HasIntent(b, k) /\ UsesSemanticRebase(LatestIntent(b, k).type)

NoChecks == [k \in {} |-> 0]

\* The reads become version checks, unless one key was read at two versions.
ReadsAgree(reads) ==
    \A i, j \in DOMAIN reads :
        reads[i].object = reads[j].object => reads[i].version = reads[j].version

\* Mutant of ReadChecks: the reads are not checked again.
ReadChecksDropped(reads) == NoChecks

ReadChecks(reads) ==
    [k \in {reads[i].object : i \in DOMAIN reads} |->
        reads[CHOOSE i \in DOMAIN reads : reads[i].object = k].version]

\* Mutant of SelectWinner: the last of the branches of highest score.
SelectLastWinner(branches) ==
    CHOOSE i \in DOMAIN branches :
        /\ \A j \in DOMAIN branches : branches[j].score <= branches[i].score
        /\ \A j \in DOMAIN branches : j > i => branches[j].score < branches[i].score

\* SelectWinner: max_element, so the first of the branches of highest score.
\* Branches are numbered in the order they were created.
SelectWinner(branches) ==
    CHOOSE i \in DOMAIN branches :
        /\ \A j \in DOMAIN branches : branches[j].score <= branches[i].score
        /\ \A j \in DOMAIN branches : j < i => branches[j].score < branches[i].score

MarkWinnerAndLosers(branches, winner) ==
    [i \in DOMAIN branches |->
        [branches[i] EXCEPT !.status = IF i = winner THEN "Winner" ELSE "Loser"]]
=================================================================================
