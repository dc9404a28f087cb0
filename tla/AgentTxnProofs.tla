----------------------------- MODULE AgentTxnProofs -----------------------------
(****************************************************************************)
(* Invariants of AgentTxn for any numbers of keys, transactions, branches,  *)
(* operations and puts, any intents and any initial store.                  *)
(****************************************************************************)
EXTENDS AgentTxn, BranchProofs

Phases ==
    {"running", "validating", "resolving", "checking", "putting", "undoing",
     "committed", "aborted"}

\* The phases of SelectWinnerAndCommit after a winner was chosen.
Committing == {"validating", "resolving", "checking", "putting", "undoing"}

VersionChecks == UNION {[S -> Nat] : S \in SUBSET Key}

StoreTypeInv == store \in Store /\ puts \in 0 .. MaxPuts

BranchTypeInv ==
    /\ phase \in [Txn -> Phases]
    /\ branches \in [Txn -> [BranchIds -> BranchContext]]
    /\ winner \in [Txn -> BranchIds \cup {0}]

CommitTypeInv ==
    /\ cursor \in [Txn -> Nat \ {0}]
    /\ checks \in [Txn -> VersionChecks]
    /\ writes \in [Txn -> Seq(WriteOp)]
    /\ current \in [Txn -> VersionedValue]
    /\ applied \in [Txn -> Seq(AppliedWrite)]

\* The indices the code uses without looking are in range: the winner's id once
\* there is one, the object of a buffer position, and the write being put.
WinnerInv == \A t \in Txn : phase[t] \in Committing => winner[t] \in BranchIds

OrderIsBuffered(b) == \A n \in DOMAIN b.order : b.order[n] \in DOMAIN b.entries
OrderInv == \A t \in Txn, i \in BranchIds : OrderIsBuffered(branches[t][i])

PuttingInv == \A t \in Txn : phase[t] = "putting" => cursor[t] <= Len(writes[t])

TypeInv ==
    /\ StoreTypeInv /\ BranchTypeInv /\ CommitTypeInv
    /\ WinnerInv /\ OrderInv /\ PuttingInv

--------------------------------------------------------------------------------
(* What the branch operators do to the order of the buffer.                  *)

\* A new branch has an empty buffer.
LEMMA CreateBranchOrder == OrderIsBuffered(CreateBranch)
BY DEF CreateBranch, OrderIsBuffered

\* A discarded branch has an empty buffer.
LEMMA DiscardBranchOrder ==
    ASSUME NEW b \in BranchContext
    PROVE  OrderIsBuffered(DiscardBranch(b))
BY DEF DiscardBranch, OrderIsBuffered, BranchContext

\* A read leaves the buffer alone.
LEMMA ReadObjectOrder ==
    ASSUME NEW b \in BranchContext, OrderIsBuffered(b), NEW k \in Key, NEW s
    PROVE  OrderIsBuffered(ReadObject(b, k, s))
BY DEF ReadObject, OrderIsBuffered, BranchContext

\* Staging leaves the buffer alone.
LEMMA StageBranchOrder ==
    ASSUME NEW b \in BranchContext, OrderIsBuffered(b), NEW score
    PROVE  OrderIsBuffered(StageBranch(b, score))
BY DEF StageBranch, OrderIsBuffered, BranchContext

\* A write appends to the order the object it buffers.
LEMMA BufferWriteOrder ==
    ASSUME NEW b \in BranchContext, OrderIsBuffered(b), NEW intent \in WriteIntent, NEW s \in Store
    PROVE  OrderIsBuffered(BufferWrite(b, intent, s))
<1> DEFINE k == intent.object
           entry == EntryAfter(b, intent, s)
           c == Upsert(b, k, entry)
<1>1. k \in Key /\ b.order \in Seq(Key)
  BY DEF WriteIntent, BranchContext
<1>2. c.order = IF IsBuffered(b, k) THEN b.order ELSE Append(b.order, k)
  BY DEF Upsert, BranchContext
<1>3. c.entries = [j \in DOMAIN b.entries \cup {k} |-> IF j = k THEN entry ELSE b.entries[j]]
  BY DEF Upsert, BranchContext
<1>4. \A n \in DOMAIN c.order : c.order[n] \in DOMAIN b.entries \cup {k}
  BY <1>1, <1>2 DEF OrderIsBuffered
<1>5. OrderIsBuffered(c)
  BY <1>3, <1>4 DEF OrderIsBuffered
<1>6. c \in BranchContext
  BY UpsertType, EntryAfterType, <1>1
<1>7. /\ BufferWrite(b, intent, s).order = c.order
      /\ BufferWrite(b, intent, s).entries = c.entries
  <2> HIDE DEF c
  <2>1. BufferWrite(b, intent, s) =
            [c EXCEPT !.status = "Running", !.intents = Append(@, intent)]
    BY DEF BufferWrite, c
  <2> QED BY <1>6, <2>1 DEF BranchContext
<1> QED BY <1>5, <1>7 DEF OrderIsBuffered

\* Marking changes statuses only.
LEMMA MarkWinnerAndLosersOrder ==
    ASSUME NEW bs \in [BranchIds -> BranchContext], NEW w,
           \A i \in BranchIds : OrderIsBuffered(bs[i])
    PROVE  \A i \in BranchIds : OrderIsBuffered(MarkWinnerAndLosers(bs, w)[i])
BY DEF MarkWinnerAndLosers, OrderIsBuffered, BranchContext

--------------------------------------------------------------------------------
(* Type correctness.                                                         *)

\* What it is to be a function from checked keys to versions.
LEMMA VersionChecksDef ==
    ASSUME NEW c
    PROVE  c \in VersionChecks <=> DOMAIN c \in SUBSET Key /\ c \in [DOMAIN c -> Nat]
<1>1. c \in VersionChecks <=> \E S \in SUBSET Key : c \in [S -> Nat]
  BY DEF VersionChecks
<1> QED BY <1>1

\* The checks made of a read set have versions as values.
LEMMA ReadChecksType ==
    ASSUME NEW reads \in Seq(ReadRecord)
    PROVE  ReadChecks(reads) \in VersionChecks
<1> DEFINE S == {reads[i].object : i \in DOMAIN reads}
<1>1. \A i \in DOMAIN reads : reads[i] \in ReadRecord
  OBVIOUS
<1>2. S \in SUBSET Key
  BY <1>1 DEF ReadRecord
<1>3. ASSUME NEW k \in S
      PROVE  reads[CHOOSE i \in DOMAIN reads : reads[i].object = k].version \in Nat
  <2>1. \E i \in DOMAIN reads : reads[i].object = k
    OBVIOUS
  <2>2. (CHOOSE i \in DOMAIN reads : reads[i].object = k) \in DOMAIN reads
    BY <2>1
  <2> QED BY <2>2, <1>1 DEF ReadRecord
<1>4. ReadChecks(reads) \in [S -> Nat]
  BY <1>3 DEF ReadChecks
<1> QED BY <1>2, <1>4, VersionChecksDef

\* The invariant holds at the start.
LEMMA InitType == Init => TypeInv
<1> SUFFICES ASSUME Init PROVE TypeInv
  OBVIOUS
<1> USE DEF Init
<1>1. StoreTypeInv
  BY InitialStoreAssumption, MaxPutsAssumption DEF StoreTypeInv, Store
<1>2. BranchTypeInv
  BY CreateBranchType DEF BranchTypeInv, Phases
<1>3. CommitTypeInv
  <2>1. NoChecks \in VersionChecks
    BY VersionChecksDef DEF NoChecks
  <2> QED BY <2>1, AbsentType DEF CommitTypeInv
<1>4. WinnerInv /\ PuttingInv
  BY DEF WinnerInv, PuttingInv, Committing
<1>5. OrderInv
  BY CreateBranchOrder DEF OrderInv
<1> QED BY <1>1, <1>2, <1>3, <1>4, <1>5 DEF TypeInv

\* A step that changes one branch of t, and nothing else, to a branch again.
LEMMA BranchStepType ==
    ASSUME TypeInv, NEW t \in Txn, NEW i \in BranchIds, NEW b \in BranchContext,
           OrderIsBuffered(b),
           branches' = [branches EXCEPT ![t][i] = b],
           UNCHANGED <<store, puts, phase, winner, cursor, checks, writes, current, applied>>
    PROVE  TypeInv'
<1> USE DEF TypeInv
<1>1. StoreTypeInv' /\ CommitTypeInv'
  BY DEF StoreTypeInv, CommitTypeInv
<1>2. BranchTypeInv'
  BY DEF BranchTypeInv
<1>3. WinnerInv' /\ PuttingInv'
  BY DEF WinnerInv, PuttingInv
<1>4. OrderInv'
  BY DEF OrderInv, BranchTypeInv
<1> QED BY <1>1, <1>2, <1>3, <1>4

\* The part of a step that ends t, whichever way.
LEMMA AbortType ==
    ASSUME TypeInv, NEW t \in Txn, Abort(t), UNCHANGED winner
    PROVE  BranchTypeInv' /\ WinnerInv' /\ OrderInv' /\ phase'[t] = "aborted"
<1> USE DEF TypeInv, Abort
<1> DEFINE discarded == [i \in BranchIds |-> DiscardBranch(branches[t][i])]
<1>1. discarded \in [BranchIds -> BranchContext]
  BY DiscardBranchType DEF BranchTypeInv
<1>2. \A i \in BranchIds : OrderIsBuffered(discarded[i])
  BY DiscardBranchOrder DEF BranchTypeInv
<1>3. BranchTypeInv' /\ phase'[t] = "aborted"
  BY <1>1 DEF BranchTypeInv, Phases
<1>4. WinnerInv'
  BY DEF WinnerInv, BranchTypeInv, Committing
<1>5. OrderInv'
  <2> HIDE DEF discarded
  <2>1. branches' = [branches EXCEPT ![t] = discarded]
    BY DEF discarded
  <2> QED BY <1>2, <2>1 DEF OrderInv, BranchTypeInv
<1> QED BY <1>3, <1>4, <1>5

\* A commit marks and discards branches; that keeps the invariant's branch parts.
LEMMA FinishType ==
    ASSUME TypeInv, NEW t \in Txn, Finish(t), UNCHANGED winner
    PROVE  BranchTypeInv' /\ WinnerInv' /\ OrderInv' /\ phase'[t] = "committed"
<1> USE DEF TypeInv
<1> DEFINE finished ==
        [i \in BranchIds |-> IF i = winner[t] THEN [branches[t][i] EXCEPT !.status = "Committed"]
                             ELSE DiscardBranch(branches[t][i])]
<1>1. \A b \in BranchContext : [b EXCEPT !.status = "Committed"] \in BranchContext
  BY DEF BranchContext
<1>2. finished \in [BranchIds -> BranchContext]
  BY <1>1, DiscardBranchType DEF BranchTypeInv
<1>3. ASSUME NEW b \in BranchContext, OrderIsBuffered(b)
      PROVE  OrderIsBuffered([b EXCEPT !.status = "Committed"])
  BY <1>3 DEF OrderIsBuffered, BranchContext
<1>4. \A i \in BranchIds : OrderIsBuffered(finished[i])
  BY <1>3, DiscardBranchOrder DEF BranchTypeInv, OrderInv
<1>5. branches' = [branches EXCEPT ![t] = finished] /\ phase' = [phase EXCEPT ![t] = "committed"]
  BY DEF Finish, BranchTypeInv
<1> HIDE DEF finished
<1>6. BranchTypeInv' /\ phase'[t] = "committed"
  BY <1>2, <1>5 DEF BranchTypeInv, Phases
<1>7. WinnerInv'
  BY <1>5 DEF WinnerInv, BranchTypeInv, Committing
<1>8. OrderInv'
  BY <1>4, <1>5 DEF OrderInv, BranchTypeInv
<1> QED BY <1>6, <1>7, <1>8

\* TaskRuntime::Read keeps the invariant.
LEMMA ReadType ==
    ASSUME TypeInv, NEW t \in Txn, NEW i \in BranchIds, NEW k \in Key, Read(t, i, k)
    PROVE  TypeInv'
<1>1. branches[t][i] \in BranchContext /\ OrderIsBuffered(branches[t][i])
  BY DEF TypeInv, BranchTypeInv, OrderInv
<1>2. ReadObject(branches[t][i], k, store) \in BranchContext
  BY <1>1, ReadObjectType DEF TypeInv, StoreTypeInv
<1>3. OrderIsBuffered(ReadObject(branches[t][i], k, store))
  BY <1>1, ReadObjectOrder
<1>4. branches' = [branches EXCEPT ![t][i] = ReadObject(branches[t][i], k, store)]
  BY DEF Read
<1> QED BY <1>2, <1>3, <1>4, BranchStepType DEF Read

\* TaskRuntime::Write keeps the invariant.
LEMMA WriteType ==
    ASSUME TypeInv, NEW t \in Txn, NEW i \in BranchIds, NEW intent \in Intents, Write(t, i, intent)
    PROVE  TypeInv'
<1>1. branches[t][i] \in BranchContext /\ OrderIsBuffered(branches[t][i])
  BY DEF TypeInv, BranchTypeInv, OrderInv
<1>2. store \in Store /\ intent \in WriteIntent
  BY IntentsAssumption DEF TypeInv, StoreTypeInv
<1>3. BufferWrite(branches[t][i], intent, store) \in BranchContext
  BY <1>1, <1>2, BufferWriteType
<1>4. OrderIsBuffered(BufferWrite(branches[t][i], intent, store))
  BY <1>1, <1>2, BufferWriteOrder
<1>5. branches' = [branches EXCEPT ![t][i] = BufferWrite(branches[t][i], intent, store)]
  BY DEF Write
<1> QED BY <1>3, <1>4, <1>5, BranchStepType DEF Write

\* TaskRuntime::StageBranch keeps the invariant.
LEMMA StageType ==
    ASSUME TypeInv, NEW t \in Txn, NEW i \in BranchIds, NEW score \in Score, Stage(t, i, score)
    PROVE  TypeInv'
<1>1. branches[t][i] \in BranchContext /\ OrderIsBuffered(branches[t][i])
  BY DEF TypeInv, BranchTypeInv, OrderInv
<1>2. StageBranch(branches[t][i], score) \in BranchContext
  BY <1>1, ScoreAssumption, StageBranchType
<1>3. OrderIsBuffered(StageBranch(branches[t][i], score))
  BY <1>1, StageBranchOrder
<1>4. branches' = [branches EXCEPT ![t][i] = StageBranch(branches[t][i], score)]
  BY DEF Stage
<1> QED BY <1>2, <1>3, <1>4, BranchStepType DEF Stage

\* TaskRuntime::AbortTask keeps the invariant.
LEMMA AbortTaskType ==
    ASSUME TypeInv, NEW t \in Txn, AbortTask(t)
    PROVE  TypeInv'
<1> USE DEF AbortTask
<1>1. BranchTypeInv' /\ WinnerInv' /\ OrderInv'
  BY AbortType
<1>2. StoreTypeInv' /\ CommitTypeInv'
  BY DEF TypeInv, StoreTypeInv, CommitTypeInv
<1>3. PuttingInv'
  BY DEF TypeInv, PuttingInv, Abort, BranchTypeInv
<1> QED BY <1>1, <1>2, <1>3 DEF TypeInv

\* Choosing the winner keeps the invariant: SelectWinner returns a branch.
LEMMA CommitTaskType ==
    ASSUME TypeInv, NEW t \in Txn, CommitTask(t)
    PROVE  TypeInv'
<1> USE DEF TypeInv
<1> DEFINE w == SelectWinner(branches[t])
           marked == MarkWinnerAndLosers(branches[t], w)
<1>1. branches[t] \in [BranchIds -> BranchContext] /\ \A i \in BranchIds : OrderIsBuffered(branches[t][i])
  BY DEF BranchTypeInv, OrderInv
<1>2. w \in BranchIds
  BY <1>1, SelectWinnerType, BranchCountAssumption DEF BranchIds
<1>3. marked \in [BranchIds -> BranchContext]
  BY <1>1, MarkWinnerAndLosersType, BranchCountAssumption DEF BranchIds
<1>4. \A i \in BranchIds : OrderIsBuffered(marked[i])
  BY <1>1, MarkWinnerAndLosersOrder
<1>5. /\ winner' = [winner EXCEPT ![t] = w]
      /\ branches' = [branches EXCEPT ![t] = marked]
      /\ phase' = [phase EXCEPT ![t] = "validating"]
      /\ UNCHANGED <<store, puts, cursor, checks, writes, current, applied>>
  BY DEF CommitTask
<1> HIDE DEF w, marked
<1>6. StoreTypeInv' /\ CommitTypeInv'
  BY <1>5 DEF StoreTypeInv, CommitTypeInv
<1>7. BranchTypeInv'
  BY <1>2, <1>3, <1>5 DEF BranchTypeInv, Phases
<1>8. WinnerInv' /\ PuttingInv'
  BY <1>2, <1>5 DEF WinnerInv, PuttingInv, BranchTypeInv
<1>9. OrderInv'
  BY <1>4, <1>5 DEF OrderInv, BranchTypeInv
<1> QED BY <1>6, <1>7, <1>8, <1>9

\* A step of t that changes neither its phase nor any branch.
LEMMA SameBranchesType ==
    ASSUME TypeInv, UNCHANGED <<phase, branches, winner>>
    PROVE  BranchTypeInv' /\ WinnerInv' /\ OrderInv'
BY DEF TypeInv, BranchTypeInv, WinnerInv, OrderInv

\* A step of t from one phase of the commit to another.
LEMMA NextPhaseType ==
    ASSUME TypeInv, NEW t \in Txn, phase[t] \in Committing, NEW p \in Committing,
           phase' = [phase EXCEPT ![t] = p], UNCHANGED <<branches, winner>>
    PROVE  BranchTypeInv' /\ WinnerInv' /\ OrderInv' /\ phase'[t] = p
BY DEF TypeInv, BranchTypeInv, WinnerInv, OrderInv, Committing, Phases

\* A commit step of t leaves the other transactions' puts in range, and its own
\* unless it goes on to put.
LEMMA NotPuttingType ==
    ASSUME TypeInv, NEW t \in Txn, phase'[t] # "putting",
           \A u \in Txn \ {t} : phase'[u] = phase[u] /\ cursor'[u] = cursor[u]
                                /\ writes'[u] = writes[u]
    PROVE  PuttingInv'
BY DEF TypeInv, PuttingInv

\* A turn of ValidateWinner keeps the invariant.
LEMMA ValidateReadType ==
    ASSUME TypeInv, NEW t \in Txn, ValidateRead(t)
    PROVE  TypeInv'
<1> USE DEF ValidateRead
<1>1. CASE UNCHANGED <<phase, branches>> /\ cursor' = [cursor EXCEPT ![t] = @ + 1]
  <2>1. BranchTypeInv' /\ WinnerInv' /\ OrderInv'
    BY <1>1, SameBranchesType
  <2>2. StoreTypeInv' /\ CommitTypeInv'
    BY <1>1 DEF TypeInv, StoreTypeInv, CommitTypeInv
  <2>3. PuttingInv'
    BY <1>1, NotPuttingType DEF TypeInv, CommitTypeInv
  <2> QED BY <2>1, <2>2, <2>3 DEF TypeInv
<1>2. CASE Abort(t) /\ UNCHANGED cursor
  <2>1. BranchTypeInv' /\ WinnerInv' /\ OrderInv' /\ phase'[t] = "aborted"
    BY <1>2, AbortType
  <2>2. StoreTypeInv' /\ CommitTypeInv'
    BY <1>2 DEF TypeInv, StoreTypeInv, CommitTypeInv
  <2>3. PuttingInv'
    BY <1>2, <2>1, NotPuttingType DEF Abort, TypeInv, BranchTypeInv
  <2> QED BY <2>1, <2>2, <2>3 DEF TypeInv
<1> QED BY <1>1, <1>2

\* Turning the reads into checks keeps the invariant.
LEMMA CheckReadsType ==
    ASSUME TypeInv, NEW t \in Txn, CheckReads(t)
    PROVE  TypeInv'
<1> USE DEF CheckReads
<1>1. CASE ReadsAgree(Winner(t).reads)
  <2> DEFINE c == ReadChecks(Winner(t).reads)
  <2>1. winner[t] \in BranchIds
    BY DEF TypeInv, WinnerInv, Committing
  <2>2. Winner(t).reads \in Seq(ReadRecord)
    BY <2>1 DEF TypeInv, BranchTypeInv, Winner, BranchContext
  <2>3. c \in VersionChecks
    BY <2>2, ReadChecksType
  <2>4. /\ phase' = [phase EXCEPT ![t] = "resolving"]
        /\ cursor' = [cursor EXCEPT ![t] = 1]
        /\ checks' = [checks EXCEPT ![t] = c]
        /\ UNCHANGED <<branches, store, puts, winner, writes, current, applied>>
    BY <1>1
  <2> HIDE DEF c
  <2>5. BranchTypeInv' /\ WinnerInv' /\ OrderInv' /\ phase'[t] = "resolving"
    BY <2>4, NextPhaseType DEF Committing
  <2>6. StoreTypeInv' /\ CommitTypeInv'
    BY <2>3, <2>4 DEF TypeInv, StoreTypeInv, CommitTypeInv
  <2>7. PuttingInv'
    BY <2>4, <2>5, NotPuttingType DEF TypeInv, BranchTypeInv, CommitTypeInv
  <2> QED BY <2>5, <2>6, <2>7 DEF TypeInv
<1>2. CASE ~ReadsAgree(Winner(t).reads)
  <2>1. Abort(t) /\ UNCHANGED <<cursor, checks, store, puts, winner, writes, current, applied>>
    BY <1>2
  <2>2. BranchTypeInv' /\ WinnerInv' /\ OrderInv' /\ phase'[t] = "aborted"
    BY <2>1, AbortType
  <2>3. StoreTypeInv' /\ CommitTypeInv'
    BY <2>1 DEF TypeInv, StoreTypeInv, CommitTypeInv
  <2>4. PuttingInv'
    BY <2>1, <2>2, NotPuttingType DEF Abort, TypeInv, BranchTypeInv
  <2> QED BY <2>2, <2>3, <2>4 DEF TypeInv
<1> QED BY <1>1, <1>2

\* The buffered entry at the cursor, and what becomes of it.
LEMMA ResolvingEntry ==
    ASSUME TypeInv, NEW t \in Txn, phase[t] = "resolving", cursor[t] <= Len(Winner(t).order)
    PROVE  LET k == Winner(t).order[cursor[t]]
           IN  /\ Winner(t) \in BranchContext
               /\ k \in Key /\ k \in DOMAIN Winner(t).entries
               /\ Winner(t).entries[k] \in CacheEntry
<1>1. Winner(t) \in BranchContext /\ OrderIsBuffered(Winner(t))
  BY DEF TypeInv, WinnerInv, OrderInv, BranchTypeInv, Winner, Committing
<1>2. Winner(t).order \in Seq(Key) /\ Winner(t).entries \in Entries
  BY <1>1 DEF BranchContext
<1>3. cursor[t] \in DOMAIN Winner(t).order
  BY <1>2 DEF TypeInv, CommitTypeInv
<1> QED BY <1>1, <1>2, <1>3, EntriesDef DEF OrderIsBuffered

\* A buffered entry at the cursor resolves to a value of the right type.
LEMMA ResolvedTypes ==
    ASSUME TypeInv, NEW t \in Txn, Winner(t) \in BranchContext,
           NEW k \in Key, k \in DOMAIN Winner(t).entries, HasIntent(Winner(t), k)
    PROVE  ResolvedWrite(t, k).value \in Value /\ ExpectedVersion(t, k) \in Nat
<1>1. Winner(t).entries[k] \in CacheEntry
  <2>1. Winner(t).entries \in Entries
    BY DEF BranchContext
  <2> QED BY <2>1, EntriesDef
<1>2. LatestIntent(Winner(t), k) \in WriteIntent
  BY LatestIntentType
<1>3. store[k].value \in Value /\ store[k].version \in Nat
  BY DEF TypeInv, StoreTypeInv, Store, VersionedValue
<1>4. ResolvedWrite(t, k).value \in Value
  BY <1>1, <1>2, <1>3, ResolveWriteType DEF ResolvedWrite
<1> QED BY <1>1, <1>3, <1>4 DEF ExpectedVersion, CacheEntry

\* Resolving a buffered entry keeps the invariant.
LEMMA ResolveEntryType ==
    ASSUME TypeInv, NEW t \in Txn, ResolveEntry(t)
    PROVE  TypeInv'
<1> DEFINE k == Winner(t).order[cursor[t]]
           c == [j \in DOMAIN checks[t] \cup {k} |->
                    IF j = k THEN ExpectedVersion(t, k) ELSE checks[t][j]]
           w == Append(writes[t], [key |-> k, value |-> ResolvedWrite(t, k).value])
<1>1. phase[t] = "resolving" /\ cursor[t] <= Len(Winner(t).order)
  BY DEF ResolveEntry
<1>2. StoreTypeInv'
  BY DEF TypeInv, StoreTypeInv, ResolveEntry
<1>3. CASE ~EntryAccepted(t, k)
  <2>1. Abort(t) /\ UNCHANGED <<cursor, checks, writes, winner, current, applied>>
    BY <1>3 DEF ResolveEntry
  <2>2. BranchTypeInv' /\ WinnerInv' /\ OrderInv' /\ phase'[t] = "aborted"
    BY <2>1, AbortType
  <2>3. CommitTypeInv'
    BY <2>1 DEF TypeInv, CommitTypeInv
  <2>4. PuttingInv'
    BY <2>1, <2>2, NotPuttingType DEF Abort, TypeInv, BranchTypeInv
  <2> QED BY <1>2, <2>2, <2>3, <2>4 DEF TypeInv
<1>4. CASE EntryAccepted(t, k)
  <2>1. /\ Winner(t) \in BranchContext /\ k \in Key /\ k \in DOMAIN Winner(t).entries
    BY <1>1, ResolvingEntry
  <2>2. ResolvedWrite(t, k).value \in Value /\ ExpectedVersion(t, k) \in Nat
    <3> HIDE DEF k
    <3> QED BY <1>4, <2>1, ResolvedTypes DEF EntryAccepted
  <2>3. c \in VersionChecks
    <3>1. DOMAIN checks[t] \in SUBSET Key /\ checks[t] \in [DOMAIN checks[t] -> Nat]
      BY VersionChecksDef DEF TypeInv, CommitTypeInv
    <3> HIDE DEF k
    <3> QED BY <2>1, <2>2, <3>1, VersionChecksDef
  <2>4. w \in Seq(WriteOp)
    <3>1. [key |-> k, value |-> ResolvedWrite(t, k).value] \in WriteOp
      BY <2>1, <2>2 DEF WriteOp
    <3> QED BY <3>1 DEF TypeInv, CommitTypeInv
  <2>5. /\ cursor' = [cursor EXCEPT ![t] = @ + 1]
        /\ checks' \in {checks, [checks EXCEPT ![t] = c]}
        /\ writes' \in {writes, [writes EXCEPT ![t] = w]}
        /\ UNCHANGED <<phase, branches, winner, current, applied>>
    BY <1>4 DEF ResolveEntry, TypeInv, CommitTypeInv
  <2> HIDE DEF c, w, k
  <2>6. BranchTypeInv' /\ WinnerInv' /\ OrderInv'
    BY <2>5, SameBranchesType
  <2>7. CommitTypeInv'
    <3> USE DEF TypeInv, CommitTypeInv
    <3>1. checks' \in [Txn -> VersionChecks]
      BY <2>3, <2>5
    <3>2. writes' \in [Txn -> Seq(WriteOp)]
      BY <2>4, <2>5
    <3>3. cursor' \in [Txn -> Nat \ {0}]
      BY <2>5
    <3> QED BY <2>5, <3>1, <3>2, <3>3
  <2>8. PuttingInv'
    BY <1>1, <2>5, NotPuttingType DEF TypeInv, CommitTypeInv
  <2> QED BY <1>2, <2>6, <2>7, <2>8 DEF TypeInv
<1> QED BY <1>3, <1>4

\* BatchPutIfVersion keeps the invariant, whether it succeeds or not.
LEMMA BatchCommitType ==
    ASSUME TypeInv, NEW t \in Txn, BatchCommit(t)
    PROVE  TypeInv'
<1> USE DEF BatchCommit
<1>1. CommitTypeInv'
  BY DEF TypeInv, CommitTypeInv
<1>2. CASE store' = BatchPut(store, writes[t]) /\ Finish(t)
  <2>1. BranchTypeInv' /\ WinnerInv' /\ OrderInv' /\ phase'[t] = "committed"
    BY <1>2, FinishType
  <2>2. StoreTypeInv'
    BY <1>2, BatchPutType DEF TypeInv, StoreTypeInv, CommitTypeInv
  <2>3. PuttingInv'
    BY <1>2, <2>1, NotPuttingType DEF Finish, TypeInv, BranchTypeInv
  <2> QED BY <1>1, <2>1, <2>2, <2>3 DEF TypeInv
<1>3. CASE Abort(t) /\ UNCHANGED store
  <2>1. BranchTypeInv' /\ WinnerInv' /\ OrderInv' /\ phase'[t] = "aborted"
    BY <1>3, AbortType
  <2>2. StoreTypeInv'
    BY <1>3 DEF TypeInv, StoreTypeInv
  <2>3. PuttingInv'
    BY <1>3, <2>1, NotPuttingType DEF Abort, TypeInv, BranchTypeInv
  <2> QED BY <1>1, <2>1, <2>2, <2>3 DEF TypeInv
<1> QED BY <1>2, <1>3

\* Entering the sequential path keeps the invariant.
LEMMA StartWritesType ==
    ASSUME TypeInv, NEW t \in Txn, StartWrites(t)
    PROVE  TypeInv'
<1> USE DEF StartWrites
<1>1. BranchTypeInv' /\ WinnerInv' /\ OrderInv' /\ phase'[t] = "checking"
  BY NextPhaseType DEF Resolved, Committing
<1>2. StoreTypeInv' /\ CommitTypeInv'
  BY DEF TypeInv, StoreTypeInv, CommitTypeInv
<1>3. PuttingInv'
  BY <1>1, NotPuttingType DEF TypeInv, BranchTypeInv, CommitTypeInv
<1> QED BY <1>1, <1>2, <1>3 DEF TypeInv

\* The write at the cursor names a key and a value.
LEMMA NextWriteType ==
    ASSUME TypeInv, NEW t \in Txn, cursor[t] <= Len(writes[t])
    PROVE  NextWrite(t).key \in Key /\ NextWrite(t).value \in Value
<1>1. writes[t] \in Seq(WriteOp) /\ cursor[t] \in 1 .. Len(writes[t])
  BY DEF TypeInv, CommitTypeInv
<1>2. NextWrite(t) \in WriteOp
  BY <1>1 DEF NextWrite
<1> QED BY <1>2 DEF WriteOp

\* The Get before a PutIfVersion keeps the invariant.
LEMMA CheckWriteType ==
    ASSUME TypeInv, NEW t \in Txn, CheckWrite(t)
    PROVE  TypeInv'
<1> DEFINE p == IF VersionIs(store, NextWrite(t).key, checks[t][NextWrite(t).key])
                THEN "putting" ELSE "undoing"
<1>1. p \in Committing /\ phase' = [phase EXCEPT ![t] = p] /\ phase[t] \in Committing
  BY DEF Committing, CheckWrite
<1>2. BranchTypeInv' /\ WinnerInv' /\ OrderInv' /\ phase'[t] = p
  <2> HIDE DEF p
  <2> QED BY <1>1, NextPhaseType DEF CheckWrite
<1>3. StoreTypeInv' /\ CommitTypeInv'
  <2>1. store[NextWrite(t).key] \in VersionedValue
    BY NextWriteType DEF CheckWrite, TypeInv, StoreTypeInv, Store
  <2> QED BY <2>1 DEF CheckWrite, TypeInv, StoreTypeInv, CommitTypeInv
<1>4. PuttingInv'
  <2> HIDE DEF p
  <2> QED BY <1>1 DEF CheckWrite, TypeInv, PuttingInv, BranchTypeInv
<1> QED BY <1>2, <1>3, <1>4 DEF TypeInv

\* The PutIfVersion of the sequential path keeps the invariant.
LEMMA PutWriteType ==
    ASSUME TypeInv, NEW t \in Txn, PutWrite(t)
    PROVE  TypeInv'
<1>1. NextWrite(t).key \in Key /\ NextWrite(t).value \in Value
  BY NextWriteType DEF PutWrite, TypeInv, PuttingInv
<1>2. StoreTypeInv'
  BY <1>1, PutIfVersionType DEF PutWrite, TypeInv, StoreTypeInv
<1>3. CASE VersionIs(store, NextWrite(t).key, checks[t][NextWrite(t).key])
  <2>1. /\ phase' = [phase EXCEPT ![t] = "checking"]
        /\ cursor' = [cursor EXCEPT ![t] = @ + 1]
        /\ applied' = [applied EXCEPT ![t] = Append(@, AppliedBy(t))]
        /\ UNCHANGED <<branches, winner, checks, writes, current>>
    BY <1>3 DEF PutWrite
  <2>2. BranchTypeInv' /\ WinnerInv' /\ OrderInv' /\ phase'[t] = "checking"
    BY <2>1, NextPhaseType DEF PutWrite, Committing
  <2>3. AppliedBy(t) \in AppliedWrite
    BY <1>1 DEF AppliedBy, AppliedWrite, TypeInv, CommitTypeInv
  <2>4. CommitTypeInv'
    BY <2>1, <2>3 DEF TypeInv, CommitTypeInv
  <2>5. PuttingInv'
    BY <2>1, <2>2, NotPuttingType DEF TypeInv, BranchTypeInv, CommitTypeInv
  <2> QED BY <1>2, <2>2, <2>4, <2>5 DEF TypeInv
<1>4. CASE ~VersionIs(store, NextWrite(t).key, checks[t][NextWrite(t).key])
  <2>1. /\ phase' = [phase EXCEPT ![t] = "undoing"]
        /\ UNCHANGED <<applied, cursor, branches, winner, checks, writes, current>>
    BY <1>4 DEF PutWrite
  <2>2. BranchTypeInv' /\ WinnerInv' /\ OrderInv' /\ phase'[t] = "undoing"
    BY <2>1, NextPhaseType DEF PutWrite, Committing
  <2>3. CommitTypeInv'
    BY <2>1 DEF TypeInv, CommitTypeInv
  <2>4. PuttingInv'
    BY <2>1, <2>2, NotPuttingType DEF TypeInv, BranchTypeInv
  <2> QED BY <1>2, <2>2, <2>3, <2>4 DEF TypeInv
<1> QED BY <1>3, <1>4

\* The end of the sequential path keeps the invariant.
LEMMA FinishWritesType ==
    ASSUME TypeInv, NEW t \in Txn, FinishWrites(t)
    PROVE  TypeInv'
<1> USE DEF FinishWrites
<1>1. BranchTypeInv' /\ WinnerInv' /\ OrderInv' /\ phase'[t] = "committed"
  BY FinishType
<1>2. StoreTypeInv' /\ CommitTypeInv'
  BY DEF TypeInv, StoreTypeInv, CommitTypeInv
<1>3. PuttingInv'
  BY <1>1, NotPuttingType DEF Finish, TypeInv, BranchTypeInv
<1> QED BY <1>1, <1>2, <1>3 DEF TypeInv

\* The last applied write names a key and the value that was there before.
LEMMA LastAppliedType ==
    ASSUME TypeInv, NEW t \in Txn, applied[t] # <<>>
    PROVE  applied[t][Len(applied[t])] \in AppliedWrite
<1>1. applied[t] \in Seq(AppliedWrite) /\ Len(applied[t]) \in DOMAIN applied[t]
  BY DEF TypeInv, CommitTypeInv
<1> QED BY <1>1

\* A turn of RollbackAppliedWrites keeps the invariant.
LEMMA UndoWriteType ==
    ASSUME TypeInv, NEW t \in Txn, UndoWrite(t)
    PROVE  TypeInv'
<1> DEFINE last == applied[t][Len(applied[t])]
<1>1. last \in AppliedWrite
  BY LastAppliedType DEF UndoWrite
<1>2. StoreTypeInv'
  <2>1. last.key \in Key /\ last.previous.value \in Value
    BY <1>1 DEF AppliedWrite, VersionedValue
  <2>2. store \in Store
    BY DEF TypeInv, StoreTypeInv
  <2>3. store' \in {PutIfVersion(store, last.key, UndoVersion(last), last.previous.value),
                    DeleteIfVersion(store, last.key, UndoVersion(last))}
    BY DEF UndoWrite
  <2>4. store' \in Store
    <3> HIDE DEF last
    <3> QED BY <2>1, <2>2, <2>3, PutIfVersionType, DeleteIfVersionType
  <2> QED BY <2>4 DEF UndoWrite, TypeInv, StoreTypeInv
<1>3. CASE VersionIs(store, last.key, UndoVersion(last))
  <2>1. /\ applied' = [applied EXCEPT ![t] = SubSeq(@, 1, Len(@) - 1)]
        /\ UNCHANGED <<phase, branches, winner, cursor, checks, writes, current>>
    BY <1>3 DEF UndoWrite
  <2>2. BranchTypeInv' /\ WinnerInv' /\ OrderInv'
    BY <2>1, SameBranchesType
  <2>3. SubSeq(applied[t], 1, Len(applied[t]) - 1) \in Seq(AppliedWrite)
    BY DEF TypeInv, CommitTypeInv, UndoWrite
  <2>4. CommitTypeInv'
    BY <2>1, <2>3 DEF TypeInv, CommitTypeInv
  <2>5. PuttingInv'
    BY <2>1 DEF TypeInv, PuttingInv
  <2> QED BY <1>2, <2>2, <2>4, <2>5 DEF TypeInv
<1>4. CASE ~VersionIs(store, last.key, UndoVersion(last))
  <2>1. Abort(t) /\ UNCHANGED <<applied, winner, cursor, checks, writes, current>>
    BY <1>4 DEF UndoWrite, UndoFails
  <2>2. BranchTypeInv' /\ WinnerInv' /\ OrderInv' /\ phase'[t] = "aborted"
    BY <2>1, AbortType
  <2>3. CommitTypeInv'
    BY <2>1 DEF TypeInv, CommitTypeInv
  <2>4. PuttingInv'
    BY <2>1, <2>2, NotPuttingType DEF Abort, TypeInv, BranchTypeInv
  <2> QED BY <1>2, <2>2, <2>3, <2>4 DEF TypeInv
<1> QED BY <1>3, <1>4

\* The end of the rollback keeps the invariant.
LEMMA FinishUndoType ==
    ASSUME TypeInv, NEW t \in Txn, FinishUndo(t)
    PROVE  TypeInv'
<1> USE DEF FinishUndo
<1>1. BranchTypeInv' /\ WinnerInv' /\ OrderInv' /\ phase'[t] = "aborted"
  BY AbortType
<1>2. StoreTypeInv' /\ CommitTypeInv'
  BY DEF TypeInv, StoreTypeInv, CommitTypeInv
<1>3. PuttingInv'
  BY <1>1, NotPuttingType DEF Abort, TypeInv, BranchTypeInv
<1> QED BY <1>1, <1>2, <1>3 DEF TypeInv

\* Another client's Put keeps the invariant.
LEMMA ExternalPutType ==
    ASSUME TypeInv, NEW k \in Key, NEW v \in PutValues, ExternalPut(k, v)
    PROVE  TypeInv'
<1> USE DEF ExternalPut, txnVars
<1>1. StoreTypeInv'
  BY PutType, PutValuesAssumption, MaxPutsAssumption DEF TypeInv, StoreTypeInv
<1>2. BranchTypeInv' /\ WinnerInv' /\ OrderInv'
  BY SameBranchesType
<1>3. CommitTypeInv' /\ PuttingInv'
  BY DEF TypeInv, CommitTypeInv, PuttingInv
<1> QED BY <1>1, <1>2, <1>3 DEF TypeInv

\* A step that changes nothing keeps the invariant.
LEMMA StutterType ==
    ASSUME TypeInv, UNCHANGED vars
    PROVE  TypeInv'
<1> USE DEF TypeInv, vars, txnVars
<1>1. BranchTypeInv' /\ WinnerInv' /\ OrderInv'
  BY SameBranchesType
<1>2. StoreTypeInv' /\ CommitTypeInv' /\ PuttingInv'
  BY DEF StoreTypeInv, CommitTypeInv, PuttingInv
<1> QED BY <1>1, <1>2

\* Every step keeps the invariant.
LEMMA NextType == TypeInv /\ [Next]_vars => TypeInv'
<1> SUFFICES ASSUME TypeInv, [Next]_vars PROVE TypeInv'
  OBVIOUS
<1>1. CASE UNCHANGED vars
  BY <1>1, StutterType
<1>2. ASSUME NEW t \in Txn, BranchStep(t)
      PROVE  TypeInv'
  BY <1>2, ReadType, WriteType, StageType, AbortTaskType, CommitTaskType DEF BranchStep
<1>3. ASSUME NEW t \in Txn, CommitStep(t)
      PROVE  TypeInv'
  BY <1>3, ValidateReadType, CheckReadsType, ResolveEntryType, BatchCommitType,
     StartWritesType, CheckWriteType, PutWriteType, FinishWritesType,
     UndoWriteType, FinishUndoType DEF CommitStep
<1>4. ASSUME NEW k \in Key, NEW v \in PutValues, ExternalPut(k, v)
      PROVE  TypeInv'
  BY <1>4, ExternalPutType
<1> QED BY <1>1, <1>2, <1>3, <1>4 DEF Next

\* The state of the store and of every transaction stays within the code's
\* types: a winner is always one of the branches, a buffered or resolved value
\* is always a value, and an index into a log or batch is always in range.
THEOREM TypeCorrect == Spec => []TypeInv
<1>1. Init => TypeInv
  BY InitType
<1>2. TypeInv /\ [Next]_vars => TypeInv'
  BY NextType
<1> QED BY <1>1, <1>2, PTL DEF Spec

\* The inductive invariant is at least what the runs check.
LEMMA TypeInvImpliesTypeOK == TypeInv => TypeOK
<1> SUFFICES ASSUME TypeInv PROVE TypeOK
  OBVIOUS
<1> USE DEF TypeInv
<1>1. store \in [Key -> VersionedValue] /\ puts \in 0 .. MaxPuts
  BY DEF StoreTypeInv, Store
<1>2. /\ phase \in [Txn -> Phases] /\ winner \in [Txn -> BranchIds \cup {0}]
      /\ \A t \in Txn : DOMAIN branches[t] = BranchIds
  BY DEF BranchTypeInv
<1>3. ASSUME NEW t \in Txn, NEW i \in BranchIds
      PROVE  LET b == branches[t][i]
             IN  /\ b.reads \in Seq(ReadRecord)
                 /\ DOMAIN b.entries \subseteq Key
                 /\ \A k \in DOMAIN b.entries : b.entries[k] \in CacheEntry
                 /\ b.order \in Seq(Key)
                 /\ b.intents \in Seq(WriteIntent)
  <2>1. branches[t][i] \in BranchContext
    BY DEF BranchTypeInv
  <2>2. branches[t][i].entries \in Entries
    BY <2>1 DEF BranchContext
  <2> QED BY <2>1, <2>2, EntriesDef DEF BranchContext
<1>4. ASSUME NEW t \in Txn
      PROVE  DOMAIN checks[t] \subseteq Key /\ \A k \in DOMAIN checks[t] : checks[t][k] \in Nat
  <2>1. checks[t] \in VersionChecks
    BY DEF CommitTypeInv
  <2> QED BY <2>1, VersionChecksDef
<1>5. /\ cursor \in [Txn -> Nat] /\ writes \in [Txn -> Seq(WriteOp)]
      /\ current \in [Txn -> VersionedValue] /\ applied \in [Txn -> Seq(AppliedWrite)]
  BY DEF CommitTypeInv
<1> QED BY <1>1, <1>2, <1>3, <1>4, <1>5 DEF TypeOK, Phases

\* TypeOK, which the runs check on small instances, always holds.
THEOREM TypeOKHolds == Spec => []TypeOK
BY TypeCorrect, TypeInvImpliesTypeOK, PTL

--------------------------------------------------------------------------------
(* A version names one value.  The invariant is not inductive by itself: the *)
(* rollback of the sequential path deletes keys, which resets their version. *)
(* What excludes it for a key that was there from the start is that the keys *)
(* which existed go on existing, and that every rollback knows it.           *)

\* With an atomic batch nothing is written, or rolled back, one by one.
BatchPhaseInv ==
    AtomicBatch => \A t \in Txn : phase[t] \notin {"checking", "putting", "undoing"}

WasThere(k) == InitialStore[k].exists

KeyInv == \A k \in Key : WasThere(k) => store[k].exists

CurrentInv ==
    \A t \in Txn : phase[t] = "putting" /\ WasThere(NextWrite(t).key) => current[t].exists

AppliedInv ==
    \A t \in Txn : \A n \in DOMAIN applied[t] :
        WasThere(applied[t][n].key) => applied[t][n].previous.exists

BranchPinned(b) ==
    /\ \A k \in DOMAIN b.entries : KeepsVersions(k) =>
            Pins(k, b.entries[k].base_version, b.entries[k].base_value)
    /\ \A n \in DOMAIN b.reads : KeepsVersions(b.reads[n].object) =>
            Pins(b.reads[n].object, b.reads[n].version, b.reads[n].seen)

StoreInv == TypeInv /\ BatchPhaseInv /\ KeyInv /\ CurrentInv /\ AppliedInv

\* What every step may do to a key whose version is kept: nothing, or give it a
\* new value at a later version.
Advances(old, new) ==
    /\ old.version <= new.version
    /\ new.version = old.version => new.value = old.value

\* An entry left alone has advanced.
LEMMA AdvancesRefl ==
    ASSUME NEW s \in Store, NEW k \in Key
    PROVE  Advances(s[k], s[k])
BY DEF Advances, Store, VersionedValue

\* Put raises the version.
LEMMA PutAdvances ==
    ASSUME NEW s \in Store, NEW j \in Key, NEW value \in Value, NEW k \in Key
    PROVE  Advances(s[k], Put(s, j, value)[k]) /\ (s[k].exists => Put(s, j, value)[k].exists)
<1>1. s[k].version \in Nat
  BY DEF Store, VersionedValue
<1>2. CASE k = j
  <2>1. Put(s, j, value)[k] = Stored(value, s[k].version + 1)
    BY <1>2 DEF Put, Store
  <2> QED BY <1>1, <2>1 DEF Advances, Stored
<1>3. CASE k # j
  BY <1>3, AdvancesRefl DEF Put, Store
<1> QED BY <1>2, <1>3

\* PutIfVersion raises the version, or leaves version and value alone.
LEMMA PutIfVersionAdvances ==
    ASSUME NEW s \in Store, NEW j \in Key, NEW value \in Value, NEW expected, NEW k \in Key
    PROVE  /\ Advances(s[k], PutIfVersion(s, j, expected, value)[k])
           /\ s[k].exists => PutIfVersion(s, j, expected, value)[k].exists
<1>1. CASE VersionIs(s, j, expected)
  BY <1>1, PutAdvances DEF PutIfVersion
<1>2. CASE ~VersionIs(s, j, expected)
  BY <1>2 DEF PutIfVersion, Advances, Store, VersionedValue
<1> QED BY <1>1, <1>2

\* BatchPutIfVersion raises the versions of the written keys only.
LEMMA BatchPutAdvances ==
    ASSUME NEW s \in Store, NEW batch \in Seq(WriteOp), NEW k \in Key
    PROVE  Advances(s[k], BatchPut(s, batch)[k]) /\ (s[k].exists => BatchPut(s, batch)[k].exists)
<1>1. s[k].version \in Nat
  BY DEF Store, VersionedValue
<1>2. CASE k \in KeysOf(batch)
  <2>1. PICK v : BatchPut(s, batch)[k] = Stored(v, s[k].version + 1)
    BY <1>2 DEF BatchPut, Store
  <2> QED BY <1>1, <2>1 DEF Advances, Stored
<1>3. CASE k \notin KeysOf(batch)
  BY <1>3, AdvancesRefl DEF BatchPut, Store
<1> QED BY <1>2, <1>3

\* Deleting a key leaves the other keys alone.
LEMMA DeleteElsewhere ==
    ASSUME NEW s \in Store, NEW j \in Key, NEW expected, NEW k \in Key, k # j
    PROVE  DeleteIfVersion(s, j, expected)[k] = s[k]
BY DEF DeleteIfVersion, Store

\* No step takes a kept key's version back, and none removes a key that was
\* there from the start.
LEMMA StoreAdvances ==
    ASSUME StoreInv, [Next]_vars, NEW k \in Key
    PROVE  /\ KeepsVersions(k) => Advances(store[k], store'[k])
           /\ WasThere(k) => store'[k].exists
<1> USE DEF StoreInv
<1>1. store \in Store /\ (WasThere(k) => store[k].exists)
  BY DEF TypeInv, StoreTypeInv, KeyInv
<1>2. CASE UNCHANGED store
  BY <1>1, <1>2, AdvancesRefl
<1>3. ASSUME NEW j \in Key, NEW v \in PutValues, ExternalPut(j, v)
      PROVE  Advances(store[k], store'[k]) /\ (WasThere(k) => store'[k].exists)
  BY <1>1, <1>3, PutAdvances, PutValuesAssumption DEF ExternalPut
<1>4. ASSUME NEW t \in Txn, BatchCommit(t)
      PROVE  Advances(store[k], store'[k]) /\ (WasThere(k) => store'[k].exists)
  <2>1. writes[t] \in Seq(WriteOp)
    BY DEF TypeInv, CommitTypeInv
  <2> QED BY <1>1, <1>2, <1>4, <2>1, AdvancesRefl, BatchPutAdvances DEF BatchCommit
<1>5. ASSUME NEW t \in Txn, PutWrite(t)
      PROVE  Advances(store[k], store'[k]) /\ (WasThere(k) => store'[k].exists)
  <2>1. NextWrite(t).key \in Key /\ NextWrite(t).value \in Value
    BY <1>5, NextWriteType DEF PutWrite, TypeInv, PuttingInv
  <2> QED BY <1>1, <1>5, <2>1, PutIfVersionAdvances DEF PutWrite
<1>6. ASSUME NEW t \in Txn, UndoWrite(t)
      PROVE  /\ KeepsVersions(k) => Advances(store[k], store'[k])
             /\ WasThere(k) => store'[k].exists
  <2> DEFINE last == applied[t][Len(applied[t])]
  <2>1. last \in AppliedWrite
    BY <1>6, LastAppliedType DEF UndoWrite
  <2>2. last.key \in Key /\ last.previous.value \in Value
    BY <2>1 DEF AppliedWrite, VersionedValue
  <2>3. WasThere(last.key) => last.previous.exists
    <3>1. applied[t] \in Seq(AppliedWrite) /\ applied[t] # <<>>
      BY <1>6 DEF TypeInv, CommitTypeInv, UndoWrite
    <3>2. Len(applied[t]) \in DOMAIN applied[t]
      BY <3>1
    <3> QED BY <3>2 DEF AppliedInv
  <2>4. CASE last.previous.exists
    <3>1. store' = PutIfVersion(store, last.key, UndoVersion(last), last.previous.value)
      BY <1>6, <2>4 DEF UndoWrite
    <3> HIDE DEF last
    <3> QED BY <1>1, <2>2, <3>1, PutIfVersionAdvances
  <2>5. CASE ~last.previous.exists
    <3>1. store' = DeleteIfVersion(store, last.key, UndoVersion(last))
      BY <1>6, <2>5 DEF UndoWrite
    <3>2. ~AtomicBatch
      BY <1>6 DEF UndoWrite, BatchPhaseInv
    <3>3. ~WasThere(last.key) /\ ~KeepsVersions(last.key)
      BY <2>3, <2>5, <3>2 DEF KeepsVersions, WasThere
    <3> HIDE DEF last
    <3>4. k # last.key => store'[k] = store[k]
      BY <1>1, <2>2, <3>1, DeleteElsewhere
    <3> QED BY <1>1, <3>3, <3>4, AdvancesRefl
  <2> QED BY <2>4, <2>5
<1>7. ASSUME NEW t \in Txn, BranchStep(t)
      PROVE  UNCHANGED store
  BY <1>7 DEF BranchStep, Read, Write, Stage, AbortTask, CommitTask
<1>8. ASSUME NEW t \in Txn, CommitStep(t)
      PROVE  UNCHANGED store \/ BatchCommit(t) \/ PutWrite(t) \/ UndoWrite(t)
  BY <1>8 DEF CommitStep, ValidateRead, CheckReads, ResolveEntry, StartWrites, CheckWrite,
              FinishWrites, FinishUndo
<1>9. UNCHANGED vars => UNCHANGED store
  BY DEF vars
<1> QED BY <1>2, <1>3, <1>4, <1>5, <1>6, <1>7, <1>8, <1>9 DEF Next

\* Every step keeps StoreInv.
LEMMA StoreInvNext == StoreInv /\ [Next]_vars => StoreInv'
<1> SUFFICES ASSUME StoreInv, [Next]_vars PROVE StoreInv'
  OBVIOUS
<1>1. TypeInv'
  BY NextType DEF StoreInv
<1>2. KeyInv'
  BY StoreAdvances DEF KeyInv, WasThere
<1>3. BatchPhaseInv'
  <2> SUFFICES ASSUME AtomicBatch, NEW t \in Txn
               PROVE  phase'[t] \notin {"checking", "putting", "undoing"}
    BY DEF BatchPhaseInv
  <2> USE DEF StoreInv, TypeInv, BranchTypeInv, BatchPhaseInv
  <2>1. CASE UNCHANGED vars
    BY <2>1 DEF vars, txnVars
  <2>2. ASSUME NEW u \in Txn, BranchStep(u)
        PROVE  phase'[t] \in {phase[t], "aborted", "validating"}
    BY <2>2 DEF BranchStep, Read, Write, Stage, AbortTask, CommitTask, Abort
  <2>3. ASSUME NEW u \in Txn, CommitStep(u)
        PROVE  phase'[t] \in {phase[t], "aborted", "resolving", "committed"}
    <3>1. CASE ValidateRead(u) \/ CheckReads(u) \/ ResolveEntry(u)
      BY <3>1 DEF ValidateRead, CheckReads, ResolveEntry, Abort
    <3>2. CASE BatchCommit(u)
      BY <3>2 DEF BatchCommit, Finish, Abort
    <3> QED BY <2>3, <3>1, <3>2 DEF CommitStep, StartWrites, CheckWrite, PutWrite,
                                   FinishWrites, UndoWrite, FinishUndo
  <2>4. (\E k \in Key, v \in PutValues : ExternalPut(k, v)) => UNCHANGED phase
    BY DEF ExternalPut, txnVars
  <2> QED BY <2>1, <2>2, <2>3, <2>4 DEF Next
<1>4. CurrentInv' /\ AppliedInv'
  <2> USE DEF StoreInv, TypeInv, BranchTypeInv, CommitTypeInv
  <2>1. CASE UNCHANGED <<phase, cursor, writes, current, applied>>
    BY <2>1 DEF CurrentInv, AppliedInv, NextWrite
  <2>2. ASSUME NEW u \in Txn, CheckWrite(u)
        PROVE  CurrentInv' /\ AppliedInv'
    <3>1. NextWrite(u).key \in Key
      BY <2>2, NextWriteType DEF CheckWrite
    <3>2. WasThere(NextWrite(u).key) => store[NextWrite(u).key].exists
      BY <3>1 DEF KeyInv
    <3> QED BY <2>2, <3>2 DEF CheckWrite, CurrentInv, AppliedInv, NextWrite, WasThere
  <2>3. ASSUME NEW u \in Txn, PutWrite(u)
        PROVE  CurrentInv' /\ AppliedInv'
    <3>1. CurrentInv'
      BY <2>3 DEF PutWrite, CurrentInv, NextWrite
    <3>2. CASE UNCHANGED applied
      BY <3>1, <3>2 DEF AppliedInv
    <3>3. CASE applied' = [applied EXCEPT ![u] = Append(@, AppliedBy(u))]
      <4>1. WasThere(AppliedBy(u).key) => AppliedBy(u).previous.exists
        BY <2>3 DEF PutWrite, CurrentInv, AppliedBy
      <4>2. applied[u] \in Seq(AppliedWrite) /\ applied'[u] = Append(applied[u], AppliedBy(u))
        BY <3>3
      <4>3. \A n \in DOMAIN applied'[u] :
                applied'[u][n] = AppliedBy(u) \/ \E m \in DOMAIN applied[u] : applied'[u][n] = applied[u][m]
        BY <4>2
      <4>4. \A t \in Txn \ {u} : applied'[t] = applied[t]
        BY <3>3
      <4>5. AppliedInv'
        <5> SUFFICES ASSUME NEW t \in Txn, NEW n \in DOMAIN applied'[t], WasThere(applied'[t][n].key)
                     PROVE  applied'[t][n].previous.exists
          BY DEF AppliedInv, WasThere
        <5>1. CASE t = u
          BY <5>1, <4>1, <4>3 DEF AppliedInv
        <5>2. CASE t # u
          BY <5>2, <4>4 DEF AppliedInv
        <5> QED BY <5>1, <5>2
      <4> QED BY <3>1, <4>5
    <3> QED BY <2>3, <3>2, <3>3 DEF PutWrite
  <2>4. ASSUME NEW u \in Txn, UndoWrite(u)
        PROVE  CurrentInv' /\ AppliedInv'
    <3>1. CurrentInv'
      BY <2>4 DEF UndoWrite, UndoFails, Abort, CurrentInv, NextWrite
    <3>2. CASE UNCHANGED applied
      BY <3>1, <3>2 DEF AppliedInv
    <3>3. CASE applied' = [applied EXCEPT ![u] = SubSeq(@, 1, Len(@) - 1)]
      <4>1. applied[u] \in Seq(AppliedWrite) /\ applied'[u] = SubSeq(applied[u], 1, Len(applied[u]) - 1)
        BY <3>3
      <4>2. \A n \in DOMAIN applied'[u] :
                n \in DOMAIN applied[u] /\ applied'[u][n] = applied[u][n]
        BY <4>1
      <4>3. \A t \in Txn \ {u} : applied'[t] = applied[t]
        BY <3>3
      <4>4. AppliedInv'
        BY <4>2, <4>3 DEF AppliedInv, WasThere
      <4> QED BY <3>1, <4>4
    <3> QED BY <2>4, <3>2, <3>3 DEF UndoWrite
  <2>5. ASSUME NEW u \in Txn, BranchStep(u)
        PROVE  CurrentInv' /\ AppliedInv'
    BY <2>5 DEF BranchStep, Read, Write, Stage, AbortTask, CommitTask, Abort,
                CurrentInv, AppliedInv, NextWrite
  <2>6. ASSUME NEW u \in Txn, ValidateRead(u) \/ CheckReads(u)
        PROVE  CurrentInv' /\ AppliedInv'
    BY <2>6 DEF ValidateRead, CheckReads, Abort, CurrentInv, AppliedInv, NextWrite
  <2>7. ASSUME NEW u \in Txn, ResolveEntry(u)
        PROVE  CurrentInv' /\ AppliedInv'
    BY <2>7 DEF ResolveEntry, Abort, CurrentInv, AppliedInv, NextWrite
  <2>8. ASSUME NEW u \in Txn, BatchCommit(u) \/ StartWrites(u) \/ FinishWrites(u) \/ FinishUndo(u)
        PROVE  CurrentInv' /\ AppliedInv'
    BY <2>8 DEF BatchCommit, StartWrites, FinishWrites, FinishUndo, Finish, Abort,
                CurrentInv, AppliedInv, NextWrite
  <2>9. (\E k \in Key, v \in PutValues : ExternalPut(k, v)) \/ UNCHANGED vars
            => UNCHANGED <<phase, cursor, writes, current, applied>>
    BY DEF ExternalPut, txnVars, vars
  <2> QED BY <2>1, <2>2, <2>3, <2>4, <2>5, <2>6, <2>7, <2>8, <2>9 DEF Next, CommitStep
<1> QED BY <1>1, <1>2, <1>3, <1>4 DEF StoreInv

\* What an operation of a branch may do to what it has seen of the store: keep
\* it, forget the buffer, or add what the store holds now.
SeesNothingNew(b, c) ==
    /\ c.reads = b.reads
    /\ \A k \in DOMAIN c.entries : k \in DOMAIN b.entries /\ c.entries[k] = b.entries[k]
    /\ c.order \in {b.order, <<>>}
    /\ \/ c.entries = b.entries /\ c.order = b.order /\ c.intents = b.intents
       \/ c.entries = NoBuffer /\ c.order = <<>> /\ c.intents = <<>>

\* A branch that has seen nothing new stays pinned.
LEMMA NothingNewPinned ==
    ASSUME NEW b \in BranchContext, NEW c \in BranchContext, BranchPinned(b), SeesNothingNew(b, c)
    PROVE  BranchPinned(c)
BY DEF BranchPinned, SeesNothingNew

\* A read pins the value it returns to the version it records.
LEMMA ReadObjectPinned ==
    ASSUME NEW b \in BranchContext, BranchPinned(b), NEW k \in Key, store \in Store
    PROVE  BranchPinned(ReadObject(b, k, store))
<1> DEFINE c == ReadObject(b, k, store)
           record == [object |-> k, version |-> store[k].version, seen |-> store[k].value]
<1>1. c.entries = b.entries
  BY DEF ReadObject, BranchContext
<1>2. c.reads = IF IsBuffered(b, k) THEN b.reads ELSE Append(b.reads, record)
  BY DEF ReadObject, BranchContext
<1>3. b.reads \in Seq(ReadRecord)
  BY DEF BranchContext
<1>4. record \in ReadRecord
  BY DEF ReadRecord, Store, VersionedValue
<1>5. \A n \in DOMAIN c.reads :
          c.reads[n] = record \/ \E m \in DOMAIN b.reads : c.reads[n] = b.reads[m]
  <2> HIDE DEF record, c
  <2> QED BY <1>2, <1>3, <1>4
<1>6. Pins(record.object, record.version, record.seen)
  BY DEF Pins, Store, VersionedValue
<1> HIDE DEF record, c
<1> QED BY <1>1, <1>5, <1>6 DEF BranchPinned, c

\* A write takes as base what the store holds, or keeps the base it has.
LEMMA BufferWritePinned ==
    ASSUME NEW b \in BranchContext, BranchPinned(b), NEW intent \in WriteIntent, store \in Store
    PROVE  BranchPinned(BufferWrite(b, intent, store))
<1> DEFINE k == intent.object
           before == EntryBefore(b, k, store)
           entry == EntryAfter(b, intent, store)
           c == Upsert(b, k, entry)
           d == BufferWrite(b, intent, store)
<1>1. k \in Key /\ before \in CacheEntry /\ entry \in CacheEntry /\ c \in BranchContext
  BY EntryBeforeType, EntryAfterType, UpsertType DEF WriteIntent
<1>2. entry.base_value = before.base_value /\ entry.base_version = before.base_version
  <2> HIDE DEF before
  <2>1. entry = [before EXCEPT
                    !.intent_type = intent.type,
                    !.current_value = BufferedValue(before.base_value, @, intent)]
    BY DEF EntryAfter, before
  <2> QED BY <1>1, <2>1 DEF CacheEntry
<1>3. KeepsVersions(k) => Pins(k, before.base_version, before.base_value)
  <2>1. CASE IsBuffered(b, k)
    BY <2>1 DEF EntryBefore, IsBuffered, BranchPinned
  <2>2. CASE ~IsBuffered(b, k)
    BY <1>1, <2>2 DEF EntryBefore, Pins, Store, VersionedValue
  <2> QED BY <2>1, <2>2
<1>4. d.reads = c.reads /\ d.entries = c.entries
  <2> HIDE DEF c
  <2>1. d = [c EXCEPT !.status = "Running", !.intents = Append(@, intent)]
    BY DEF BufferWrite, c
  <2> QED BY <1>1, <2>1 DEF BranchContext
<1>5. c.reads = b.reads
  BY DEF Upsert, BranchContext
<1>6. c.entries = [j \in DOMAIN b.entries \cup {k} |-> IF j = k THEN entry ELSE b.entries[j]]
  BY DEF Upsert, BranchContext
<1> HIDE DEF before, entry, c, d, k
<1>7. \A j \in DOMAIN d.entries : KeepsVersions(j) =>
            Pins(j, d.entries[j].base_version, d.entries[j].base_value)
  BY <1>2, <1>3, <1>4, <1>6 DEF BranchPinned
<1> QED BY <1>4, <1>5, <1>7 DEF BranchPinned, d

\* A value stays pinned while its key's version advances.
LEMMA PinsAdvance ==
    ASSUME store \in Store, store' \in Store, NEW k \in Key, NEW version \in Nat, NEW value,
           Advances(store[k], store'[k]), Pins(k, version, value)
    PROVE  Pins(k, version, value)'
BY DEF Pins, Advances, Store, VersionedValue

\* A step of another transaction, or of the store's clients, keeps what a branch
\* has seen pinned.
LEMMA SameBranchPinned ==
    ASSUME StoreInv, [Next]_vars, NEW b \in BranchContext, BranchPinned(b)
    PROVE  BranchPinned(b)'
<1>1. store \in Store /\ store' \in Store
  BY StoreInvNext DEF StoreInv, TypeInv, StoreTypeInv
<1>2. ASSUME NEW k \in DOMAIN b.entries, KeepsVersions(k)
      PROVE  Pins(k, b.entries[k].base_version, b.entries[k].base_value)'
  <2>1. b.entries \in Entries
    BY DEF BranchContext
  <2>2. k \in Key /\ b.entries[k] \in CacheEntry
    BY <2>1, EntriesDef
  <2> QED BY <1>1, <1>2, <2>2, StoreAdvances, PinsAdvance DEF BranchPinned, CacheEntry
<1>3. ASSUME NEW n \in DOMAIN b.reads, KeepsVersions(b.reads[n].object)
      PROVE  Pins(b.reads[n].object, b.reads[n].version, b.reads[n].seen)'
  <2>1. b.reads \in Seq(ReadRecord)
    BY DEF BranchContext
  <2>2. b.reads[n] \in ReadRecord
    BY <2>1
  <2> QED BY <1>1, <1>3, <2>2, StoreAdvances, PinsAdvance DEF BranchPinned, ReadRecord
<1> QED BY <1>2, <1>3 DEF BranchPinned, KeepsVersions

\* Every operation of BranchManager on a branch, as far as it concerns what the
\* branch has seen of the store.
LEMMA SeesNothingNewOps ==
    ASSUME NEW b \in BranchContext
    PROVE  /\ SeesNothingNew(b, b)
           /\ SeesNothingNew(b, DiscardBranch(b))
           /\ \A score : SeesNothingNew(b, StageBranch(b, score))
           /\ \A status : SeesNothingNew(b, [b EXCEPT !.status = status])
BY DEF SeesNothingNew, DiscardBranch, StageBranch, NoBuffer, BranchContext

\* A step reads into, writes into, or adds nothing to what a branch has seen.
LEMMA BranchChanges ==
    ASSUME TypeInv, [Next]_vars, NEW t \in Txn, NEW i \in BranchIds
    PROVE  LET b == branches[t][i]
               c == branches'[t][i]
           IN  \/ SeesNothingNew(b, c)
               \/ UNCHANGED store /\ \E k \in Key : c = ReadObject(b, k, store)
               \/ UNCHANGED store /\ \E intent \in Intents : c = BufferWrite(b, intent, store)
<1> DEFINE b == branches[t][i]
           c == branches'[t][i]
<1> USE DEF TypeInv, BranchTypeInv
<1>0. b \in BranchContext
  OBVIOUS
<1>1. UNCHANGED branches => SeesNothingNew(b, c)
  BY <1>0, SeesNothingNewOps
<1>2. ASSUME NEW u \in Txn, Abort(u)
      PROVE  SeesNothingNew(b, c)
  BY <1>0, <1>2, SeesNothingNewOps DEF Abort
<1>3. ASSUME NEW u \in Txn, Finish(u)
      PROVE  SeesNothingNew(b, c)
  BY <1>0, <1>3, SeesNothingNewOps DEF Finish
<1>4. ASSUME NEW u \in Txn, CommitStep(u)
      PROVE  SeesNothingNew(b, c)
  <2>1. ValidateRead(u) \/ CheckReads(u) \/ ResolveEntry(u) => UNCHANGED branches \/ Abort(u)
    BY DEF ValidateRead, CheckReads, ResolveEntry
  <2>2. BatchCommit(u) \/ FinishWrites(u) \/ FinishUndo(u) => Finish(u) \/ Abort(u)
    BY DEF BatchCommit, FinishWrites, FinishUndo
  <2>3. StartWrites(u) \/ CheckWrite(u) \/ PutWrite(u) => UNCHANGED branches
    BY DEF StartWrites, CheckWrite, PutWrite
  <2>4. UndoWrite(u) => UNCHANGED branches \/ Abort(u)
    BY DEF UndoWrite, UndoFails
  <2>5. UNCHANGED branches \/ Abort(u) \/ Finish(u)
    BY <1>4, <2>1, <2>2, <2>3, <2>4 DEF CommitStep
  <2> QED BY <1>1, <1>2, <1>3, <2>5
<1>5. ASSUME NEW u \in Txn, NEW j \in BranchIds, NEW k \in Key, Read(u, j, k)
      PROVE  SeesNothingNew(b, c) \/ (UNCHANGED store /\ c = ReadObject(b, k, store))
  <2>1. CASE u = t /\ j = i
    BY <1>5, <2>1 DEF Read
  <2>2. CASE ~(u = t /\ j = i)
    BY <1>0, <1>5, <2>2, SeesNothingNewOps DEF Read
  <2> QED BY <2>1, <2>2
<1>6. ASSUME NEW u \in Txn, NEW j \in BranchIds, NEW intent \in Intents, Write(u, j, intent)
      PROVE  SeesNothingNew(b, c) \/ (UNCHANGED store /\ c = BufferWrite(b, intent, store))
  <2>1. CASE u = t /\ j = i
    BY <1>6, <2>1 DEF Write
  <2>2. CASE ~(u = t /\ j = i)
    BY <1>0, <1>6, <2>2, SeesNothingNewOps DEF Write
  <2> QED BY <2>1, <2>2
<1>7. ASSUME NEW u \in Txn, NEW j \in BranchIds, NEW score \in Score, Stage(u, j, score)
      PROVE  SeesNothingNew(b, c)
  BY <1>0, <1>7, SeesNothingNewOps DEF Stage
<1>8. ASSUME NEW u \in Txn, CommitTask(u)
      PROVE  SeesNothingNew(b, c)
  <2>1. PICK w : branches' = [branches EXCEPT ![u] = MarkWinnerAndLosers(branches[u], w)]
    BY <1>8 DEF CommitTask
  <2>2. c = b \/ c = [b EXCEPT !.status = "Winner"] \/ c = [b EXCEPT !.status = "Loser"]
    BY <2>1 DEF MarkWinnerAndLosers
  <2> HIDE DEF b, c
  <2>3. /\ SeesNothingNew(b, b)
        /\ SeesNothingNew(b, [b EXCEPT !.status = "Winner"])
        /\ SeesNothingNew(b, [b EXCEPT !.status = "Loser"])
    BY <1>0, SeesNothingNewOps
  <2> QED BY <2>2, <2>3
<1>9. ASSUME NEW u \in Txn, AbortTask(u)
      PROVE  SeesNothingNew(b, c)
  BY <1>2, <1>9 DEF AbortTask
<1>10. (\E k \in Key, v \in PutValues : ExternalPut(k, v)) \/ UNCHANGED vars => UNCHANGED branches
  BY DEF ExternalPut, txnVars, vars
<1> HIDE DEF b, c
<1>11. ASSUME NEW u \in Txn, BranchStep(u)
       PROVE  \/ SeesNothingNew(b, c)
              \/ UNCHANGED store /\ \E k \in Key : c = ReadObject(b, k, store)
              \/ UNCHANGED store /\ \E intent \in Intents : c = BufferWrite(b, intent, store)
  BY <1>5, <1>6, <1>7, <1>8, <1>9, <1>11 DEF BranchStep
<1> QED BY <1>1, <1>4, <1>10, <1>11 DEF Next, b, c

\* Every step keeps VersionsPinValues, given StoreInv.
LEMMA VersionsPinNext == StoreInv /\ VersionsPinValues /\ [Next]_vars => VersionsPinValues'
<1> SUFFICES ASSUME StoreInv, VersionsPinValues, [Next]_vars, NEW t \in Txn, NEW i \in BranchIds
             PROVE  BranchPinned(branches[t][i])'
  BY DEF VersionsPinValues, BranchPinned
<1> DEFINE b == branches[t][i]
           c == branches'[t][i]
<1>1. /\ b \in BranchContext /\ store \in Store
      /\ c \in BranchContext /\ StoreInv'
  BY StoreInvNext DEF StoreInv, TypeInv, BranchTypeInv, StoreTypeInv
<1>2. BranchPinned(b)
  BY DEF VersionsPinValues, BranchPinned
<1>3. BranchPinned(c)
  <2>1. CASE SeesNothingNew(b, c)
    BY <1>1, <1>2, <2>1, NothingNewPinned
  <2>2. ASSUME NEW k \in Key, c = ReadObject(b, k, store)
        PROVE  BranchPinned(c)
    BY <1>1, <1>2, <2>2, ReadObjectPinned
  <2>3. ASSUME NEW intent \in Intents, c = BufferWrite(b, intent, store)
        PROVE  BranchPinned(c)
    BY <1>1, <1>2, <2>3, BufferWritePinned, IntentsAssumption
  <2> QED BY <2>1, <2>2, <2>3, BranchChanges DEF StoreInv
<1>4. PICK x \in BranchContext : x = c
  BY <1>1
<1>5. BranchPinned(x)'
  BY <1>3, <1>4, SameBranchPinned
<1> QED BY <1>4, <1>5 DEF BranchPinned, Pins, KeepsVersions

\* StoreInv and VersionsPinValues hold at the start: nothing has been read.
LEMMA StoreInvInit == Init => StoreInv /\ VersionsPinValues
<1> SUFFICES ASSUME Init PROVE StoreInv /\ VersionsPinValues
  OBVIOUS
<1>1. TypeInv
  BY InitType
<1>2. BatchPhaseInv /\ KeyInv /\ CurrentInv /\ AppliedInv
  BY DEF Init, BatchPhaseInv, KeyInv, CurrentInv, AppliedInv, WasThere
<1>3. VersionsPinValues
  BY DEF Init, VersionsPinValues, CreateBranch, NoBuffer
<1> QED BY <1>1, <1>2, <1>3 DEF StoreInv

\* A version number names one value, for every key whose version no rollback can
\* reset: what a branch read, or took as the base of a write, at some version is
\* what the store holds as long as it is at that version.
THEOREM VersionsPinValuesHolds == Spec => []VersionsPinValues
<1>1. StoreInv /\ VersionsPinValues /\ [Next]_vars => (StoreInv /\ VersionsPinValues)'
  BY StoreInvNext, VersionsPinNext
<1> QED BY <1>1, StoreInvInit, PTL DEF Spec

--------------------------------------------------------------------------------
(* The sequential path: a write made stays recognisable until it is undone.  *)

\* What applied[t] holds: the first writes of t, in their order.
MadeInv ==
    \A t \in Txn :
        /\ phase[t] \in {"running", "validating", "resolving"} => applied[t] = <<>>
        /\ phase[t] \in {"checking", "putting"} => Len(applied[t]) = cursor[t] - 1
        /\ \A n \in DOMAIN applied[t] :
                n \in DOMAIN writes[t] /\ applied[t][n].key = writes[t][n].key

\* A key that was missing had no version: in the store, in what a transaction
\* about to put has read, and in what it remembers of the writes it made.
MissingInv == \A k \in Key : ~store[k].exists => store[k].version = 0

CheckedInv ==
    \A t \in Txn : phase[t] = "putting" =>
        /\ current[t].version = checks[t][NextWrite(t).key]
        /\ ~current[t].exists => current[t].version = 0

CreatedInv ==
    \A t \in Txn : \A n \in DOMAIN applied[t] :
        ~applied[t][n].previous.exists => applied[t][n].previous.version = 0

\* No two writes, of one transaction or of two, were made to a key at the same
\* version.
DistinctInv ==
    \A t, u \in Txn : \A n \in DOMAIN applied[t], m \in DOMAIN applied[u] :
        (/\ applied[t][n].key = applied[u][m].key
         /\ applied[t][n].previous.version = applied[u][m].previous.version)
            => t = u /\ n = m

SeqInv ==
    /\ StoreInv
    /\ MadeInv /\ MissingInv /\ CheckedInv /\ CreatedInv /\ DistinctInv
    /\ CandidateIsMarked

\* What every call but a successful delete does to an entry: a later version, or
\* the same entry, made to exist if it was missing.
Moves(old, new) ==
    \/ new.version > old.version
    \/ new.version = old.version /\ (old.exists => new = old)

\* A candidate is marked in an entry: see CandidateIsMarked.
Marks(entry, value, version) ==
    entry = Stored(value, version + 1) \/ entry.version > version + 1

\* Moving an entry keeps a candidate marked.
LEMMA MarksMove ==
    ASSUME NEW old \in VersionedValue, NEW new \in VersionedValue, NEW value, NEW version \in Nat,
           Marks(old, value, version), Moves(old, new)
    PROVE  Marks(new, value, version)
<1>1. old.version \in Nat /\ new.version \in Nat
  BY DEF VersionedValue
<1>2. CASE old = Stored(value, version + 1)
  <2>1. old.exists /\ old.version = version + 1
    BY <1>2 DEF Stored
  <2>2. new = old \/ new.version > version + 1
    BY <2>1 DEF Moves
  <2> QED BY <1>2, <2>2 DEF Marks
<1>3. CASE old.version > version + 1
  <2>1. new.version >= old.version
    BY <1>1 DEF Moves
  <2>2. new.version > version + 1
    BY <1>1, <1>3, <2>1
  <2> QED BY <2>2 DEF Marks
<1> QED BY <1>2, <1>3 DEF Marks

\* A marked candidate's key is past the version the candidate replaced.
LEMMA MarksVersion ==
    ASSUME NEW entry \in VersionedValue, NEW value, NEW version \in Nat, Marks(entry, value, version)
    PROVE  entry.version > version
<1>1. entry.version \in Nat
  BY DEF VersionedValue
<1>2. CASE entry = Stored(value, version + 1)
  BY <1>2 DEF Stored
<1>3. CASE entry.version > version + 1
  BY <1>1, <1>3
<1> QED BY <1>2, <1>3 DEF Marks

\* Put makes the key's entry a later one.
LEMMA PutMoves ==
    ASSUME NEW s \in Store, NEW j \in Key, NEW value \in Value, NEW k \in Key
    PROVE  /\ Moves(s[k], Put(s, j, value)[k])
           /\ (~s[k].exists => s[k].version = 0)
                => (~Put(s, j, value)[k].exists => Put(s, j, value)[k].version = 0)
<1>1. s[k].version \in Nat
  BY DEF Store, VersionedValue
<1>2. CASE k = j
  <2>1. Put(s, j, value)[k] = Stored(value, s[k].version + 1)
    BY <1>2 DEF Put, Store
  <2> QED BY <1>1, <2>1 DEF Moves, Stored
<1>3. CASE k # j
  <2>1. Put(s, j, value)[k] = s[k]
    BY <1>3 DEF Put, Store
  <2> QED BY <1>1, <2>1 DEF Moves
<1> QED BY <1>2, <1>3

\* PutIfVersion does too, or makes the entry exist.
LEMMA PutIfVersionMoves ==
    ASSUME NEW s \in Store, NEW j \in Key, NEW value \in Value, NEW expected, NEW k \in Key
    PROVE  LET new == PutIfVersion(s, j, expected, value)[k]
           IN  /\ Moves(s[k], new)
               /\ (~s[k].exists => s[k].version = 0) => (~new.exists => new.version = 0)
<1>1. CASE VersionIs(s, j, expected)
  BY <1>1, PutMoves DEF PutIfVersion
<1>2. CASE ~VersionIs(s, j, expected)
  <2> DEFINE new == PutIfVersion(s, j, expected, value)[k]
  <2>1. s[k] \in VersionedValue
    BY DEF Store
  <2>2. new = IF k = j THEN [s[k] EXCEPT !.exists = TRUE] ELSE s[k]
    BY <1>2 DEF PutIfVersion, Store
  <2>3. new.version = s[k].version /\ (s[k].exists => new = s[k])
    BY <2>1, <2>2 DEF VersionedValue
  <2>4. new.exists \/ new = s[k]
    BY <2>1, <2>2 DEF VersionedValue
  <2> HIDE DEF new
  <2>5. Moves(s[k], new) /\ ((~s[k].exists => s[k].version = 0) => (~new.exists => new.version = 0))
    BY <2>3, <2>4 DEF Moves
  <2> QED BY <2>5 DEF new
<1> QED BY <1>1, <1>2

\* BatchPutIfVersion makes the entries of the written keys later ones.
LEMMA BatchPutMoves ==
    ASSUME NEW s \in Store, NEW batch \in Seq(WriteOp), NEW k \in Key
    PROVE  LET new == BatchPut(s, batch)[k]
           IN  /\ Moves(s[k], new)
               /\ (~s[k].exists => s[k].version = 0) => (~new.exists => new.version = 0)
<1>1. s[k].version \in Nat
  BY DEF Store, VersionedValue
<1>2. CASE k \in KeysOf(batch)
  <2>1. PICK v : BatchPut(s, batch)[k] = Stored(v, s[k].version + 1)
    BY <1>2 DEF BatchPut, Store
  <2> QED BY <1>1, <2>1 DEF Moves, Stored
<1>3. CASE k \notin KeysOf(batch)
  <2>1. BatchPut(s, batch)[k] = s[k]
    BY <1>3 DEF BatchPut, Store
  <2> QED BY <1>1, <2>1 DEF Moves
<1> QED BY <1>2, <1>3

\* What a step of the sequential path, or of anybody else, does to an entry,
\* unless it undoes a write that created the key.
LEMMA StoreMoves ==
    ASSUME TypeInv, [Next]_vars, NEW k \in Key,
           \A t \in Txn : ~UndoWrite(t)
    PROVE  /\ Moves(store[k], store'[k])
           /\ (~store[k].exists => store[k].version = 0)
                => (~store'[k].exists => store'[k].version = 0)
<1>1. store \in Store /\ store[k].version \in Nat
  BY DEF TypeInv, StoreTypeInv, Store, VersionedValue
<1>2. CASE UNCHANGED store
  BY <1>1, <1>2 DEF Moves
<1>3. ASSUME NEW j \in Key, NEW v \in PutValues, ExternalPut(j, v)
      PROVE  store' = Put(store, j, v) /\ v \in Value
  BY <1>3, PutValuesAssumption DEF ExternalPut
<1>4. ASSUME NEW t \in Txn, BatchCommit(t)
      PROVE  UNCHANGED store \/ (store' = BatchPut(store, writes[t]) /\ writes[t] \in Seq(WriteOp))
  BY <1>4 DEF BatchCommit, TypeInv, CommitTypeInv
<1>5. ASSUME NEW t \in Txn, PutWrite(t)
      PROVE  /\ store' = PutIfVersion(store, NextWrite(t).key, checks[t][NextWrite(t).key],
                                      NextWrite(t).value)
             /\ NextWrite(t).key \in Key /\ NextWrite(t).value \in Value
  BY <1>5, NextWriteType DEF PutWrite, TypeInv, PuttingInv
<1>6. ASSUME NEW t \in Txn, BranchStep(t)
      PROVE  UNCHANGED store
  BY <1>6 DEF BranchStep, Read, Write, Stage, AbortTask, CommitTask
<1>7. ASSUME NEW t \in Txn, CommitStep(t)
      PROVE  UNCHANGED store \/ BatchCommit(t) \/ PutWrite(t)
  BY <1>7 DEF CommitStep, ValidateRead, CheckReads, ResolveEntry, StartWrites, CheckWrite,
              FinishWrites, FinishUndo
<1>8. UNCHANGED vars => UNCHANGED store
  BY DEF vars
<1>9. \/ UNCHANGED store
      \/ \E j \in Key, v \in Value : store' = Put(store, j, v)
      \/ \E t \in Txn : store' = BatchPut(store, writes[t]) /\ writes[t] \in Seq(WriteOp)
      \/ \E j \in Key, v \in Value : \E e : store' = PutIfVersion(store, j, e, v)
  BY <1>3, <1>4, <1>5, <1>6, <1>7, <1>8 DEF Next
<1> QED BY <1>1, <1>2, <1>9, PutMoves, BatchPutMoves, PutIfVersionMoves

\* What a step that makes no write does to the writes made: it keeps them, but
\* may drop the last one.
AppliedShrinks ==
    \A t \in Txn : \A n \in DOMAIN applied'[t] :
        /\ n \in DOMAIN applied[t] /\ applied'[t][n] = applied[t][n]
        /\ writes'[t] = writes[t]

\* A step that makes no write and moves the entries of the writes that stay
\* keeps what is known of them.
LEMMA ShrinkSeq ==
    ASSUME SeqInv, store' \in Store, AppliedShrinks,
           \A t \in Txn : \A n \in DOMAIN applied'[t] :
               Moves(store[applied[t][n].key], store'[applied[t][n].key])
    PROVE  CreatedInv' /\ DistinctInv' /\ CandidateIsMarked'
<1>1. CreatedInv'
  BY DEF SeqInv, CreatedInv, AppliedShrinks
<1>2. DistinctInv'
  <2> SUFFICES ASSUME NEW t \in Txn, NEW u \in Txn,
                      NEW n \in DOMAIN applied'[t], NEW m \in DOMAIN applied'[u],
                      applied'[t][n].key = applied'[u][m].key,
                      applied'[t][n].previous.version = applied'[u][m].previous.version
               PROVE  t = u /\ n = m
    BY DEF DistinctInv
  <2>1. /\ n \in DOMAIN applied[t] /\ applied'[t][n] = applied[t][n]
        /\ m \in DOMAIN applied[u] /\ applied'[u][m] = applied[u][m]
    BY DEF AppliedShrinks
  <2> QED BY <2>1 DEF SeqInv, DistinctInv
<1>3. CandidateIsMarked'
  <2> SUFFICES ASSUME NEW t \in Txn, NEW n \in DOMAIN applied'[t]
               PROVE  Marks(store'[applied'[t][n].key], writes'[t][n].value,
                            applied'[t][n].previous.version)
    BY DEF CandidateIsMarked, Marks
  <2> DEFINE write == applied[t][n]
  <2>1. n \in DOMAIN applied[t] /\ applied'[t][n] = write /\ writes'[t] = writes[t]
    BY DEF AppliedShrinks
  <2>2. applied[t] \in Seq(AppliedWrite)
    BY DEF SeqInv, StoreInv, TypeInv, CommitTypeInv
  <2>3. write \in AppliedWrite
    BY <2>1, <2>2
  <2>4. write.key \in Key /\ write.previous.version \in Nat
    BY <2>3 DEF AppliedWrite, VersionedValue
  <2>5. store[write.key] \in VersionedValue /\ store'[write.key] \in VersionedValue
    BY <2>4 DEF SeqInv, StoreInv, TypeInv, StoreTypeInv, Store
  <2>6. Marks(store[write.key], writes[t][n].value, write.previous.version)
    BY <2>1 DEF SeqInv, CandidateIsMarked, Marks
  <2>7. Moves(store[write.key], store'[write.key])
    OBVIOUS
  <2> HIDE DEF write
  <2> QED BY <2>1, <2>4, <2>5, <2>6, <2>7, MarksMove
<1> QED BY <1>1, <1>2, <1>3

\* A PutIfVersion that succeeds: the new candidate is marked, and no earlier one
\* replaced the version it replaced.
LEMMA PutWriteSeq ==
    ASSUME SeqInv, store' \in Store, NEW u \in Txn, PutWrite(u),
           VersionIs(store, NextWrite(u).key, checks[u][NextWrite(u).key])
    PROVE  CreatedInv' /\ DistinctInv' /\ CandidateIsMarked'
<1> DEFINE k == NextWrite(u).key
           new == AppliedBy(u)
           last == Len(applied[u]) + 1
<1> USE DEF SeqInv, StoreInv, TypeInv
<1>1. /\ phase[u] = "putting" /\ UNCHANGED writes
      /\ store' = Put(store, k, NextWrite(u).value)
      /\ applied' = [applied EXCEPT ![u] = Append(@, new)]
  BY DEF PutWrite, PutIfVersion
<1>2. k \in Key /\ NextWrite(u).value \in Value
  BY <1>1, NextWriteType DEF PuttingInv
<1>3. /\ new.key = k /\ new.previous.version = store[k].version
      /\ ~new.previous.exists => new.previous.version = 0
  BY <1>1 DEF CheckedInv, AppliedBy, VersionIs
<1>4. store \in Store /\ store[k].version \in Nat
  BY <1>2 DEF StoreTypeInv, Store, VersionedValue
<1>5. last = cursor[u]
  BY <1>1 DEF MadeInv, CommitTypeInv
<1>6. \A t \in Txn : applied[t] \in Seq(AppliedWrite)
  BY DEF CommitTypeInv
<1>7. \A t \in Txn \ {u} : applied'[t] = applied[t]
  BY <1>1 DEF CommitTypeInv
<1>8. applied'[u] = Append(applied[u], new)
  BY <1>1 DEF CommitTypeInv
<1> HIDE DEF new, k, last
<1>9. /\ DOMAIN applied'[u] = DOMAIN applied[u] \cup {last}
      /\ last \notin DOMAIN applied[u] /\ applied'[u][last] = new
      /\ \A n \in DOMAIN applied[u] : applied'[u][n] = applied[u][n]
  BY <1>6, <1>8 DEF last
<1>10. ASSUME NEW t \in Txn, NEW n \in DOMAIN applied'[t]
       PROVE  \/ n \in DOMAIN applied[t] /\ applied'[t][n] = applied[t][n]
              \/ t = u /\ n = last /\ applied'[t][n] = new
  <2>1. CASE t = u
    BY <1>9, <2>1
  <2>2. CASE t # u
    BY <1>7, <2>2
  <2> QED BY <2>1, <2>2
<1>11. ASSUME NEW t \in Txn, NEW n \in DOMAIN applied[t]
       PROVE  /\ applied[t][n].key \in Key /\ applied[t][n].previous.version \in Nat
              /\ store[applied[t][n].key].version > applied[t][n].previous.version
              /\ Marks(store'[applied[t][n].key], writes[t][n].value, applied[t][n].previous.version)
  <2> DEFINE write == applied[t][n]
  <2>1. write \in AppliedWrite
    BY <1>6
  <2>2. write.key \in Key /\ write.previous.version \in Nat
    BY <2>1 DEF AppliedWrite, VersionedValue
  <2>3. store[write.key] \in VersionedValue /\ store'[write.key] \in VersionedValue
    BY <1>4, <2>2 DEF Store
  <2>4. Marks(store[write.key], writes[t][n].value, write.previous.version)
    BY DEF CandidateIsMarked, Marks
  <2>5. Moves(store[write.key], store'[write.key])
    BY <1>1, <1>2, <1>4, <2>2, PutMoves
  <2> HIDE DEF write
  <2>6. store[write.key].version > write.previous.version
    BY <2>2, <2>3, <2>4, MarksVersion
  <2>7. Marks(store'[write.key], writes[t][n].value, write.previous.version)
    BY <2>2, <2>3, <2>4, <2>5, MarksMove
  <2> QED BY <2>2, <2>6, <2>7 DEF write
<1>12. CreatedInv'
  BY <1>3, <1>10 DEF CreatedInv
<1>13. DistinctInv'
  <2> SUFFICES ASSUME NEW t \in Txn, NEW s \in Txn,
                      NEW n \in DOMAIN applied'[t], NEW m \in DOMAIN applied'[s],
                      applied'[t][n].key = applied'[s][m].key,
                      applied'[t][n].previous.version = applied'[s][m].previous.version
               PROVE  t = s /\ n = m
    BY DEF DistinctInv
  <2>1. CASE n \in DOMAIN applied[t] /\ applied'[t][n] = applied[t][n]
             /\ m \in DOMAIN applied[s] /\ applied'[s][m] = applied[s][m]
    BY <2>1 DEF DistinctInv
  <2>2. CASE applied'[t][n] = new /\ m \in DOMAIN applied[s] /\ applied'[s][m] = applied[s][m]
    <3>1. applied[s][m].key = k /\ applied[s][m].previous.version = store[k].version
      BY <1>3, <2>2
    <3>2. store[k].version > applied[s][m].previous.version
      BY <1>11, <2>2, <3>1
    <3> QED BY <1>4, <3>1, <3>2
  <2>3. CASE applied'[s][m] = new /\ n \in DOMAIN applied[t] /\ applied'[t][n] = applied[t][n]
    <3>1. applied[t][n].key = k /\ applied[t][n].previous.version = store[k].version
      BY <1>3, <2>3
    <3>2. store[k].version > applied[t][n].previous.version
      BY <1>11, <2>3, <3>1
    <3> QED BY <1>4, <3>1, <3>2
  <2>4. CASE t = u /\ n = last /\ s = u /\ m = last
    BY <2>4
  <2> QED BY <1>10, <2>1, <2>2, <2>3, <2>4
<1>14. CandidateIsMarked'
  <2> SUFFICES ASSUME NEW t \in Txn, NEW n \in DOMAIN applied'[t]
               PROVE  Marks(store'[applied'[t][n].key], writes'[t][n].value,
                            applied'[t][n].previous.version)
    BY DEF CandidateIsMarked, Marks
  <2>1. CASE n \in DOMAIN applied[t] /\ applied'[t][n] = applied[t][n]
    BY <1>1, <1>11, <2>1
  <2>2. CASE t = u /\ n = last /\ applied'[t][n] = new
    <3>1. writes'[t][n] = NextWrite(u)
      BY <1>1, <1>5, <2>2 DEF NextWrite
    <3>2. store'[k] = Stored(NextWrite(u).value, store[k].version + 1)
      BY <1>1, <1>2, <1>4 DEF Put, Store
    <3> QED BY <1>3, <2>2, <3>1, <3>2 DEF Marks
  <2> QED BY <1>10, <2>1, <2>2
<1> QED BY <1>12, <1>13, <1>14

\* What is known of the write that a turn of RollbackAppliedWrites looks at.
LEMMA LastMarked ==
    ASSUME SeqInv, NEW t \in Txn, applied[t] # <<>>
    PROVE  LET n == Len(applied[t])
               last == applied[t][n]
           IN  /\ n \in DOMAIN applied[t] /\ last \in AppliedWrite
               /\ last.key \in Key /\ last.previous.value \in Value /\ last.previous.version \in Nat
               /\ Marks(store[last.key], writes[t][n].value, last.previous.version)
<1> DEFINE n == Len(applied[t])
           last == applied[t][n]
<1>1. applied[t] \in Seq(AppliedWrite)
  BY DEF SeqInv, StoreInv, TypeInv, CommitTypeInv
<1>2. n \in DOMAIN applied[t] /\ last \in AppliedWrite
  BY <1>1
<1>3. last.key \in Key /\ last.previous.value \in Value /\ last.previous.version \in Nat
  BY <1>2 DEF AppliedWrite, VersionedValue
<1>4. Marks(store[last.key], writes[t][n].value, last.previous.version)
  BY <1>2 DEF SeqInv, CandidateIsMarked, Marks
<1> QED BY <1>2, <1>3, <1>4

\* A turn of RollbackAppliedWrites: putting the previous value back is a later
\* version, and a key is only deleted at version one, when no other write of it
\* is remembered anywhere.
LEMMA UndoWriteSeq ==
    ASSUME SeqInv, store' \in Store, NEW u \in Txn, UndoWrite(u)
    PROVE  MissingInv' /\ CreatedInv' /\ DistinctInv' /\ CandidateIsMarked'
<1> DEFINE top == Len(applied[u])
           last == applied[u][top]
<1> USE DEF SeqInv, StoreInv, TypeInv
<1>1. /\ top \in DOMAIN applied[u] /\ last \in AppliedWrite
      /\ last.key \in Key /\ last.previous.value \in Value /\ last.previous.version \in Nat
      /\ Marks(store[last.key], writes[u][top].value, last.previous.version)
  BY LastMarked DEF UndoWrite
<1>2. store \in Store /\ \A k \in Key : store[k].version \in Nat
  BY DEF StoreTypeInv, Store, VersionedValue
<1>3. /\ UNCHANGED writes
      /\ \/ UNCHANGED applied /\ ~VersionIs(store, last.key, UndoVersion(last))
         \/ /\ applied' = [applied EXCEPT ![u] = SubSeq(@, 1, Len(@) - 1)]
            /\ VersionIs(store, last.key, UndoVersion(last))
  BY DEF UndoWrite
<1>4. \A t \in Txn : applied[t] \in Seq(AppliedWrite)
  BY DEF CommitTypeInv
<1>5. AppliedShrinks /\ (VersionIs(store, last.key, UndoVersion(last)) => top \notin DOMAIN applied'[u])
  <2>1. CASE UNCHANGED applied /\ ~VersionIs(store, last.key, UndoVersion(last))
    BY <1>3, <2>1 DEF AppliedShrinks
  <2>2. CASE applied' = [applied EXCEPT ![u] = SubSeq(@, 1, Len(@) - 1)]
    <3>1. applied'[u] = SubSeq(applied[u], 1, Len(applied[u]) - 1)
          /\ \A t \in Txn \ {u} : applied'[t] = applied[t]
      BY <2>2 DEF CommitTypeInv
    <3>2. /\ top \notin DOMAIN applied'[u]
          /\ \A n \in DOMAIN applied'[u] : n \in DOMAIN applied[u] /\ applied'[u][n] = applied[u][n]
      BY <1>4, <3>1
    <3> QED BY <1>3, <3>1, <3>2 DEF AppliedShrinks
  <2> QED BY <1>3, <2>1, <2>2
<1>6. \A t \in Txn : \A n \in DOMAIN applied'[t] :
          n \in DOMAIN applied[t] /\ applied[t][n].key \in Key
            /\ applied[t][n].previous.version \in Nat
  <2> SUFFICES ASSUME NEW t \in Txn, NEW n \in DOMAIN applied'[t]
               PROVE  n \in DOMAIN applied[t] /\ applied[t][n] \in AppliedWrite
    BY DEF AppliedWrite, VersionedValue
  <2>1. n \in DOMAIN applied[t]
    BY <1>5 DEF AppliedShrinks
  <2> QED BY <1>4, <2>1
<1>7. CASE last.previous.exists
  <2>1. store' = PutIfVersion(store, last.key, UndoVersion(last), last.previous.value)
    BY <1>7 DEF UndoWrite
  <2> HIDE DEF last, top
  <2>2. MissingInv'
    BY <1>1, <1>2, <2>1, PutIfVersionMoves DEF MissingInv
  <2>3. \A k \in Key : Moves(store[k], store'[k])
    BY <1>1, <1>2, <2>1, PutIfVersionMoves
  <2>4. \A t \in Txn : \A n \in DOMAIN applied'[t] :
            Moves(store[applied[t][n].key], store'[applied[t][n].key])
    BY <1>6, <2>3
  <2> QED BY <1>5, <2>2, <2>4, ShrinkSeq
<1>8. CASE ~last.previous.exists
  <2>1. store' = DeleteIfVersion(store, last.key, UndoVersion(last))
    BY <1>8 DEF UndoWrite
  <2>2. last.previous.version = 0
    BY <1>1, <1>8 DEF CreatedInv
  <2>3. CASE VersionIs(store, last.key, UndoVersion(last))
    <3>1. store[last.key].version = 1
      BY <2>2, <2>3 DEF VersionIs, UndoVersion
    <3>2. ASSUME NEW t \in Txn, NEW n \in DOMAIN applied'[t]
          PROVE  applied[t][n].key # last.key
      <4> SUFFICES ASSUME applied[t][n].key = last.key PROVE FALSE
        OBVIOUS
      <4>1. n \in DOMAIN applied[t] /\ applied[t][n].previous.version \in Nat
        BY <1>6
      <4>2. Marks(store[last.key], writes[t][n].value, applied[t][n].previous.version)
        BY <4>1 DEF CandidateIsMarked, Marks
      <4>3. store[last.key] \in VersionedValue
        BY <1>1, <1>2 DEF Store
      <4>4. store[last.key].version > applied[t][n].previous.version
        BY <4>1, <4>2, <4>3, MarksVersion
      <4>5. applied[t][n].previous.version = 0
        BY <3>1, <4>1, <4>4
      <4>6. t = u /\ n = top
        BY <1>1, <2>2, <4>1, <4>5 DEF DistinctInv
      <4> QED BY <1>5, <2>3, <4>6
    <3> HIDE DEF last, top
    <3>3. \A k \in Key : k # last.key => store'[k] = store[k]
      BY <1>1, <1>2, <2>1, DeleteElsewhere
    <3>4. \A t \in Txn : \A n \in DOMAIN applied'[t] :
              Moves(store[applied[t][n].key], store'[applied[t][n].key])
      BY <1>2, <1>6, <3>2, <3>3 DEF Moves
    <3>5. store'[last.key] = Absent
      BY <1>1, <1>2, <2>1, <2>3 DEF DeleteIfVersion, Store
    <3>6. MissingInv'
      BY <3>3, <3>5 DEF MissingInv, Absent
    <3> QED BY <1>5, <3>4, <3>6, ShrinkSeq
  <2>4. CASE ~VersionIs(store, last.key, UndoVersion(last))
    <3>1. store' = store
      BY <2>1, <2>4 DEF DeleteIfVersion
    <3>2. MissingInv'
      BY <3>1 DEF MissingInv
    <3>3. \A t \in Txn : \A n \in DOMAIN applied'[t] :
              Moves(store[applied[t][n].key], store'[applied[t][n].key])
      BY <1>2, <1>6, <3>1 DEF Moves
    <3> QED BY <1>5, <3>2, <3>3, ShrinkSeq
  <2> QED BY <2>3, <2>4
<1> QED BY <1>7, <1>8

\* Every step keeps applied a record of the first writes.
LEMMA MadeNext == SeqInv /\ [Next]_vars => MadeInv'
<1> SUFFICES ASSUME SeqInv, [Next]_vars PROVE MadeInv'
  OBVIOUS
<1> USE DEF SeqInv, StoreInv, TypeInv, BranchTypeInv, CommitTypeInv
<1>1. CASE UNCHANGED <<phase, cursor, writes, applied>>
  BY <1>1 DEF MadeInv
<1>2. ASSUME NEW u \in Txn, BranchStep(u)
      PROVE  MadeInv'
  BY <1>2 DEF BranchStep, Read, Write, Stage, AbortTask, CommitTask, Abort, MadeInv
<1>3. ASSUME NEW u \in Txn, ValidateRead(u) \/ CheckReads(u)
      PROVE  MadeInv'
  <2>1. /\ phase[u] = "validating" /\ UNCHANGED <<applied, writes>>
        /\ \A t \in Txn \ {u} : phase'[t] = phase[t] /\ cursor'[t] = cursor[t]
    BY <1>3 DEF ValidateRead, CheckReads, Abort
  <2>2. phase'[u] \in {"validating", "resolving", "aborted"}
    BY <1>3 DEF ValidateRead, CheckReads, Abort
  <2> QED BY <2>1, <2>2 DEF MadeInv
<1>4. ASSUME NEW u \in Txn, ResolveEntry(u)
      PROVE  MadeInv'
  <2>1. /\ applied[u] = <<>> /\ UNCHANGED applied
        /\ phase'[u] \in {"resolving", "aborted"}
        /\ \A t \in Txn \ {u} : phase'[t] = phase[t] /\ cursor'[t] = cursor[t] /\ writes'[t] = writes[t]
    BY <1>4 DEF ResolveEntry, Abort, MadeInv
  <2> SUFFICES ASSUME NEW t \in Txn
               PROVE  /\ phase'[t] \in {"running", "validating", "resolving"} => applied'[t] = <<>>
                      /\ phase'[t] \in {"checking", "putting"} => Len(applied'[t]) = cursor'[t] - 1
                      /\ \A n \in DOMAIN applied'[t] :
                            n \in DOMAIN writes'[t] /\ applied'[t][n].key = writes'[t][n].key
    BY DEF MadeInv
  <2>2. CASE t = u
    <3>1. applied'[t] = <<>> /\ phase'[t] \in {"resolving", "aborted"}
      BY <2>1, <2>2
    <3>2. DOMAIN applied'[t] = {}
      BY <3>1
    <3> QED BY <3>1, <3>2
  <2>3. CASE t # u
    BY <2>1, <2>3 DEF MadeInv
  <2> QED BY <2>2, <2>3
<1>5. ASSUME NEW u \in Txn, BatchCommit(u) \/ FinishWrites(u) \/ FinishUndo(u)
      PROVE  MadeInv'
  BY <1>5 DEF BatchCommit, FinishWrites, FinishUndo, Finish, Abort, MadeInv
<1>6. ASSUME NEW u \in Txn, StartWrites(u) \/ CheckWrite(u)
      PROVE  MadeInv'
  BY <1>6 DEF StartWrites, CheckWrite, Resolved, MadeInv
<1>7. ASSUME NEW u \in Txn, PutWrite(u)
      PROVE  MadeInv'
  <2>1. CASE UNCHANGED <<applied, cursor>> /\ phase' = [phase EXCEPT ![u] = "undoing"]
    BY <1>7, <2>1 DEF PutWrite, MadeInv
  <2>2. CASE /\ applied' = [applied EXCEPT ![u] = Append(@, AppliedBy(u))]
             /\ cursor' = [cursor EXCEPT ![u] = @ + 1]
             /\ phase' = [phase EXCEPT ![u] = "checking"]
    <3>1. /\ applied[u] \in Seq(AppliedWrite) /\ writes[u] \in Seq(WriteOp)
          /\ applied'[u] = Append(applied[u], AppliedBy(u)) /\ UNCHANGED writes
          /\ Len(applied[u]) = cursor[u] - 1 /\ cursor[u] \in Nat \ {0}
      BY <1>7, <2>2 DEF PutWrite, MadeInv
    <3>2. cursor[u] \in DOMAIN writes[u] /\ AppliedBy(u).key = writes[u][cursor[u]].key
      BY <1>7, <3>1 DEF PutWrite, PuttingInv, AppliedBy, NextWrite
    <3>3. Len(applied'[u]) = cursor'[u] - 1
      BY <2>2, <3>1
    <3>4. \A n \in DOMAIN applied'[u] :
              \/ n \in DOMAIN applied[u] /\ applied'[u][n] = applied[u][n]
              \/ n = cursor[u] /\ applied'[u][n] = AppliedBy(u)
      BY <3>1
    <3>5. \A n \in DOMAIN applied'[u] :
              n \in DOMAIN writes[u] /\ applied'[u][n].key = writes[u][n].key
      BY <3>2, <3>4 DEF MadeInv
    <3>6. \A t \in Txn \ {u} : phase'[t] = phase[t] /\ cursor'[t] = cursor[t] /\ applied'[t] = applied[t]
      BY <2>2
    <3>7. phase'[u] = "checking"
      BY <2>2
    <3> SUFFICES ASSUME NEW t \in Txn
                 PROVE  /\ phase'[t] \in {"running", "validating", "resolving"} => applied'[t] = <<>>
                        /\ phase'[t] \in {"checking", "putting"} => Len(applied'[t]) = cursor'[t] - 1
                        /\ \A n \in DOMAIN applied'[t] :
                              n \in DOMAIN writes'[t] /\ applied'[t][n].key = writes'[t][n].key
      BY DEF MadeInv
    <3>8. CASE t = u
      BY <3>1, <3>3, <3>5, <3>7, <3>8
    <3>9. CASE t # u
      BY <3>1, <3>6, <3>9 DEF MadeInv
    <3> QED BY <3>8, <3>9
  <2> QED BY <1>7, <2>1, <2>2 DEF PutWrite
<1>8. ASSUME NEW u \in Txn, UndoWrite(u)
      PROVE  MadeInv'
  <2>1. /\ UNCHANGED <<writes, cursor>> /\ phase'[u] \in {"undoing", "aborted"}
        /\ \A t \in Txn \ {u} : phase'[t] = phase[t]
    BY <1>8 DEF UndoWrite, UndoFails, Abort
  <2>2. CASE UNCHANGED applied
    BY <2>1, <2>2 DEF MadeInv
  <2>3. CASE applied' = [applied EXCEPT ![u] = SubSeq(@, 1, Len(@) - 1)]
    <3>1. applied[u] \in Seq(AppliedWrite) /\ applied'[u] = SubSeq(applied[u], 1, Len(applied[u]) - 1)
      BY <2>3
    <3>2. \A n \in DOMAIN applied'[u] : n \in DOMAIN applied[u] /\ applied'[u][n] = applied[u][n]
      BY <3>1
    <3>3. \A t \in Txn \ {u} : applied'[t] = applied[t]
      BY <2>3
    <3> QED BY <2>1, <3>2, <3>3 DEF MadeInv
  <2> QED BY <1>8, <2>2, <2>3 DEF UndoWrite
<1>9. (\E k \in Key, v \in PutValues : ExternalPut(k, v)) \/ UNCHANGED vars
          => UNCHANGED <<phase, cursor, writes, applied>>
  BY DEF ExternalPut, txnVars, vars
<1> QED BY <1>1, <1>2, <1>3, <1>4, <1>5, <1>6, <1>7, <1>8, <1>9 DEF Next, CommitStep

\* What a transaction about to put has read is the version it will check.
LEMMA CheckedNext == SeqInv /\ [Next]_vars => CheckedInv'
<1> SUFFICES ASSUME SeqInv, [Next]_vars PROVE CheckedInv'
  OBVIOUS
<1> USE DEF SeqInv, StoreInv, TypeInv, BranchTypeInv, CommitTypeInv
<1>1. CASE UNCHANGED <<phase, cursor, checks, writes, current>>
  BY <1>1 DEF CheckedInv, NextWrite
<1>2. ASSUME NEW u \in Txn, BranchStep(u)
      PROVE  CheckedInv'
  BY <1>2 DEF BranchStep, Read, Write, Stage, AbortTask, CommitTask, Abort, CheckedInv, NextWrite
<1>3. ASSUME NEW u \in Txn, phase'[u] # "putting",
             \A t \in Txn \ {u} : /\ phase'[t] = phase[t] /\ cursor'[t] = cursor[t]
                                  /\ checks'[t] = checks[t] /\ writes'[t] = writes[t]
                                  /\ current'[t] = current[t]
      PROVE  CheckedInv'
  <2> SUFFICES ASSUME NEW t \in Txn, phase'[t] = "putting"
               PROVE  /\ current'[t].version = checks'[t][NextWrite(t)'.key]
                      /\ ~current'[t].exists => current'[t].version = 0
    BY DEF CheckedInv
  <2>1. t # u
    BY <1>3
  <2>2. NextWrite(t)' = NextWrite(t)
    BY <1>3, <2>1 DEF NextWrite
  <2> QED BY <1>3, <2>1, <2>2 DEF CheckedInv
<1>4. ASSUME NEW u \in Txn, ValidateRead(u) \/ CheckReads(u)
      PROVE  CheckedInv'
  BY <1>3, <1>4 DEF ValidateRead, CheckReads, Abort
<1>5. ASSUME NEW u \in Txn, ResolveEntry(u)
      PROVE  CheckedInv'
  BY <1>3, <1>5 DEF ResolveEntry, Abort
<1>6. ASSUME NEW u \in Txn, BatchCommit(u) \/ StartWrites(u) \/ FinishWrites(u) \/ FinishUndo(u)
      PROVE  CheckedInv'
  BY <1>3, <1>6 DEF BatchCommit, StartWrites, FinishWrites, FinishUndo, Finish, Abort
<1>7. ASSUME NEW u \in Txn, PutWrite(u) \/ UndoWrite(u)
      PROVE  CheckedInv'
  BY <1>3, <1>7 DEF PutWrite, UndoWrite, UndoFails, Abort
<1>8. ASSUME NEW u \in Txn, CheckWrite(u)
      PROVE  CheckedInv'
  <2> DEFINE k == NextWrite(u).key
  <2>1. k \in Key
    BY <1>8, NextWriteType DEF CheckWrite
  <2>2. /\ current' = [current EXCEPT ![u] = store[k]]
        /\ UNCHANGED <<cursor, checks, writes>>
        /\ phase' = [phase EXCEPT ![u] = IF VersionIs(store, k, checks[u][k])
                                         THEN "putting" ELSE "undoing"]
    BY <1>8 DEF CheckWrite
  <2>3. ~store[k].exists => store[k].version = 0
    BY <2>1 DEF MissingInv
  <2>4. CASE VersionIs(store, k, checks[u][k])
    <3>1. current'[u].version = checks'[u][k] /\ (~current'[u].exists => current'[u].version = 0)
      BY <2>2, <2>3, <2>4 DEF VersionIs
    <3>2. NextWrite(u)'.key = k
      BY <2>2 DEF NextWrite
    <3>3. \A t \in Txn \ {u} : phase'[t] = phase[t] /\ current'[t] = current[t]
      BY <2>2
    <3> HIDE DEF k
    <3> QED BY <2>2, <3>1, <3>2, <3>3 DEF CheckedInv, NextWrite
  <2>5. CASE ~VersionIs(store, k, checks[u][k])
    <3>1. /\ phase'[u] # "putting"
          /\ \A t \in Txn \ {u} : phase'[t] = phase[t] /\ current'[t] = current[t]
      BY <2>2, <2>5
    <3> QED BY <1>3, <2>2, <3>1
  <2> QED BY <2>4, <2>5
<1>9. (\E k \in Key, v \in PutValues : ExternalPut(k, v)) \/ UNCHANGED vars
          => UNCHANGED <<phase, cursor, checks, writes, current>>
  BY DEF ExternalPut, txnVars, vars
<1> QED BY <1>1, <1>2, <1>4, <1>5, <1>6, <1>7, <1>8, <1>9 DEF Next, CommitStep

\* A step other than a turn of the two writing loops leaves the writes made
\* alone, and what they were made of.
LEMMA AppliedKept ==
    ASSUME SeqInv, [Next]_vars, \A t \in Txn : ~UndoWrite(t),
           \A t \in Txn : PutWrite(t) => UNCHANGED applied
    PROVE  AppliedShrinks
<1> USE DEF SeqInv, StoreInv, TypeInv, CommitTypeInv
<1>1. UNCHANGED <<applied, writes>> => AppliedShrinks
  BY DEF AppliedShrinks
<1>2. ASSUME NEW u \in Txn, BranchStep(u)
      PROVE  UNCHANGED <<applied, writes>>
  BY <1>2 DEF BranchStep, Read, Write, Stage, AbortTask, CommitTask
<1>3. ASSUME NEW u \in Txn, ResolveEntry(u)
      PROVE  AppliedShrinks
  <2>1. /\ applied[u] = <<>> /\ UNCHANGED applied
        /\ \A t \in Txn \ {u} : writes'[t] = writes[t]
    BY <1>3 DEF ResolveEntry, MadeInv
  <2> QED BY <2>1 DEF AppliedShrinks
<1>4. ASSUME NEW u \in Txn, CommitStep(u)
      PROVE  UNCHANGED <<applied, writes>> \/ ResolveEntry(u)
  BY <1>4 DEF CommitStep, ValidateRead, CheckReads, BatchCommit, StartWrites, CheckWrite,
              PutWrite, FinishWrites, FinishUndo
<1>5. (\E k \in Key, v \in PutValues : ExternalPut(k, v)) \/ UNCHANGED vars
          => UNCHANGED <<applied, writes>>
  BY DEF ExternalPut, txnVars, vars
<1> QED BY <1>1, <1>2, <1>3, <1>4, <1>5 DEF Next

\* Every step keeps SeqInv.
LEMMA SeqInvNext == SeqInv /\ [Next]_vars => SeqInv'
<1> SUFFICES ASSUME SeqInv, [Next]_vars PROVE SeqInv'
  OBVIOUS
<1>1. StoreInv' /\ store' \in Store
  BY StoreInvNext DEF SeqInv, StoreInv, TypeInv, StoreTypeInv
<1>2. MadeInv' /\ CheckedInv'
  BY MadeNext, CheckedNext
<1>3. ASSUME NEW u \in Txn, UndoWrite(u)
      PROVE  MissingInv' /\ CreatedInv' /\ DistinctInv' /\ CandidateIsMarked'
  BY <1>1, <1>3, UndoWriteSeq
<1>4. ASSUME \A t \in Txn : ~UndoWrite(t)
      PROVE  MissingInv' /\ CreatedInv' /\ DistinctInv' /\ CandidateIsMarked'
  <2>1. \A k \in Key : /\ Moves(store[k], store'[k])
                       /\ (~store[k].exists => store[k].version = 0)
                            => (~store'[k].exists => store'[k].version = 0)
    BY <1>4, StoreMoves DEF SeqInv, StoreInv
  <2>2. MissingInv'
    BY <2>1 DEF SeqInv, MissingInv
  <2>3. CASE \A t \in Txn : PutWrite(t) => UNCHANGED applied
    <3>1. AppliedShrinks
      BY <1>4, <2>3, AppliedKept
    <3>2. \A t \in Txn : \A n \in DOMAIN applied'[t] : applied[t][n].key \in Key
      <4> SUFFICES ASSUME NEW t \in Txn, NEW n \in DOMAIN applied'[t]
                   PROVE  applied[t][n] \in AppliedWrite
        BY DEF AppliedWrite
      <4>1. n \in DOMAIN applied[t] /\ applied[t] \in Seq(AppliedWrite)
        BY <3>1 DEF AppliedShrinks, SeqInv, StoreInv, TypeInv, CommitTypeInv
      <4> QED BY <4>1
    <3> QED BY <1>1, <2>1, <2>2, <3>1, <3>2, ShrinkSeq
  <2>4. ASSUME NEW u \in Txn, PutWrite(u), ~UNCHANGED applied
        PROVE  CreatedInv' /\ DistinctInv' /\ CandidateIsMarked'
    <3>1. VersionIs(store, NextWrite(u).key, checks[u][NextWrite(u).key])
      BY <2>4 DEF PutWrite
    <3> QED BY <1>1, <2>4, <3>1, PutWriteSeq
  <2> QED BY <2>2, <2>3, <2>4
<1>5. MissingInv' /\ CreatedInv' /\ DistinctInv' /\ CandidateIsMarked'
  BY <1>3, <1>4
<1> QED BY <1>1, <1>2, <1>5 DEF SeqInv

\* SeqInv holds at the start: nothing has been written, and a key without an
\* entry has no version.
LEMMA SeqInvInit == Init => SeqInv
<1> SUFFICES ASSUME Init PROVE SeqInv
  OBVIOUS
<1>1. StoreInv
  BY StoreInvInit
<1>2. \A t \in Txn : phase[t] = "running" /\ applied[t] = <<>> /\ DOMAIN applied[t] = {}
  BY DEF Init
<1>3. MadeInv /\ CheckedInv /\ CreatedInv /\ DistinctInv /\ CandidateIsMarked
  BY <1>2 DEF MadeInv, CheckedInv, CreatedInv, DistinctInv, CandidateIsMarked
<1>4. MissingInv
  BY InitialStoreAssumption DEF Init, MissingInv, Absent
<1> QED BY <1>1, <1>3, <1>4 DEF SeqInv

\* What CommitWinnerWithoutBatch remembers of a write it made is enough to know
\* it again, for any numbers of transactions, keys and clients: the key holds the
\* candidate one version up, or somebody has written a later version, although
\* the rollbacks of other transactions reset versions by deleting keys.
THEOREM CandidateIsMarkedHolds == Spec => []CandidateIsMarked
<1>1. SeqInv => CandidateIsMarked
  BY DEF SeqInv
<1> QED BY <1>1, SeqInvInit, SeqInvNext, PTL DEF Spec

\* A turn of RollbackAppliedWrites changes a value only where the value is one
\* the transaction wrote itself.
LEMMA UndoesOwnStep ==
    ASSUME SeqInv, NEW t \in Txn, NEW k \in Key, UndoWrite(t), store'[k].value # store[k].value
    PROVE  \E n \in DOMAIN writes[t] : writes[t][n] = [key |-> k, value |-> store[k].value]
<1> DEFINE n == Len(applied[t])
           last == applied[t][n]
           version == UndoVersion(last)
<1>1. /\ n \in DOMAIN applied[t]
      /\ last.key \in Key /\ last.previous.value \in Value /\ last.previous.version \in Nat
      /\ Marks(store[last.key], writes[t][n].value, last.previous.version)
  BY LastMarked DEF UndoWrite
<1>2. store \in Store
  BY DEF SeqInv, StoreInv, TypeInv, StoreTypeInv
<1>3. \/ store' = PutIfVersion(store, last.key, version, last.previous.value)
      \/ store' = DeleteIfVersion(store, last.key, version)
  BY DEF UndoWrite
<1>4. n \in DOMAIN writes[t] /\ last.key = writes[t][n].key /\ writes[t] \in Seq(WriteOp)
  BY <1>1 DEF SeqInv, MadeInv, StoreInv, TypeInv, CommitTypeInv
<1> HIDE DEF last, n
<1>5. k = last.key /\ VersionIs(store, last.key, version)
  <2>1. k # last.key => store'[k] = store[k]
    BY <1>1, <1>2, <1>3 DEF PutIfVersion, Put, DeleteIfVersion, Store
  <2>2. ~VersionIs(store, last.key, version) => store'[k].value = store[k].value
    BY <1>1, <1>2, <1>3 DEF PutIfVersion, DeleteIfVersion, Store, VersionedValue
  <2> QED BY <2>1, <2>2
<1>6. store[k] = Stored(writes[t][n].value, last.previous.version + 1)
  <2>1. store[k].version = last.previous.version + 1
    BY <1>5 DEF VersionIs, UndoVersion
  <2>2. ~(store[k].version > last.previous.version + 1)
    BY <1>1, <2>1
  <2> QED BY <1>1, <1>5, <2>2 DEF Marks
<1>7. store[k].value = writes[t][n].value
  BY <1>6 DEF Stored
<1>8. writes[t][n] \in WriteOp
  BY <1>4
<1>9. writes[t][n] = [key |-> k, value |-> store[k].value]
  BY <1>4, <1>5, <1>7, <1>8 DEF WriteOp
<1> QED BY <1>4, <1>9

\* The rollback of a failed commit takes back the transaction's own candidates
\* only: the version one above the remembered one is there only while nobody
\* else has written the key.
THEOREM UndoesOwnWritesOnlyHolds == Spec => UndoesOwnWritesOnly
<1>1. SeqInv /\ [Next]_vars =>
        \A t \in Txn, k \in Key :
            (UndoWrite(t) /\ store'[k].value # store[k].value)
                => \E n \in DOMAIN writes[t] : writes[t][n] = [key |-> k, value |-> store[k].value]
  BY UndoesOwnStep
<1> QED BY <1>1, SeqInvInit, SeqInvNext, PTL DEF Spec, UndoesOwnWritesOnly

=================================================================================
