------------------------------ MODULE BranchProofs ------------------------------
(****************************************************************************)
(* What the operators of VersionedKV, IntentPolicy and Branch return and    *)
(* preserve, for every value of their constants: the lemmas on which the    *)
(* invariants of AgentTxn rest.                                             *)
(****************************************************************************)
EXTENDS Branch, TLAPS, FiniteSetTheorems

\* The first n indices, or any nonempty set of them, have a greatest member;
\* it is why LatestIntent names an intent.
LEMMA GreatestIndex ==
    ASSUME NEW n \in Nat, NEW S \in SUBSET (1 .. n), S # {}
    PROVE  \E m \in S : \A j \in S : j <= m
<1> DEFINE tails == {m .. n : m \in S}
<1>1. tails \subseteq FiniteSubsetsOf(Int) /\ tails # {}
  <2>1. \A m \in S : m .. n \in SUBSET Int /\ IsFiniteSet(m .. n)
    BY FS_Interval
  <2> QED BY <2>1 DEF FiniteSubsetsOf
<1>2. PICK T \in tails : \A U \in tails : <<U, T>> \notin StrictSubsetOrdering(Int)
  <2> HIDE DEF tails
  <2> QED BY <1>1, WFMin, FS_StrictSubsetOrderingWellFounded
<1>3. PICK m \in S : T = m .. n
  OBVIOUS
<1>4. ASSUME NEW j \in S, ~(j <= m)
      PROVE  FALSE
  <2>1. j .. n \subseteq T /\ m \in T /\ m \notin j .. n
    BY <1>3, <1>4
  <2>2. <<j .. n, T>> \in StrictSubsetOrdering(Int)
    BY <2>1, <1>3 DEF StrictSubsetOrdering
  <2> QED BY <2>2, <1>2
<1> QED BY <1>4

\* A nonempty set of numbers up to n has a least member.
LEMMA LeastIndex ==
    ASSUME NEW n \in Nat, NEW S \in SUBSET (0 .. n), S # {}
    PROVE  \E m \in S : \A j \in S : m <= j
<1> DEFINE T == {n + 1 - i : i \in S}
<1>1. T \in SUBSET (1 .. (n + 1)) /\ T # {}
  <2>1. \A i \in S : n + 1 - i \in 1 .. (n + 1)
    OBVIOUS
  <2> QED BY <2>1
<1>2. PICK t \in T : \A u \in T : u <= t
  <2> HIDE DEF T
  <2>1. n + 1 \in Nat
    OBVIOUS
  <2> QED BY <1>1, <2>1, GreatestIndex
<1>3. PICK m \in S : t = n + 1 - m
  BY <1>2
<1>4. \A j \in S : n + 1 - j <= n + 1 - m
  BY <1>2, <1>3
<1>5. \A j \in S : m <= j
  <2>1. m \in Int /\ n \in Int /\ \A j \in S : j \in Int
    OBVIOUS
  <2> HIDE <1>2, <1>3
  <2> QED BY <1>4, <2>1
<1> QED BY <1>5

\* A finite family of numbers has a first greatest one: max_element over the
\* branches in SelectWinner is defined.
LEMMA FirstGreatest ==
    ASSUME NEW n \in Nat \ {0}, NEW score \in [1 .. n -> Int]
    PROVE  \E i \in 1 .. n :
              /\ \A j \in 1 .. n : score[j] <= score[i]
              /\ \A j \in 1 .. n : j < i => score[j] < score[i]
<1> DEFINE above(i) == {j \in 1 .. n : score[j] >= score[i]}
           aboves == {above(i) : i \in 1 .. n}
<1>1. aboves \subseteq FiniteSubsetsOf(1 .. n) /\ aboves # {}
  <2>1. IsFiniteSet(1 .. n)
    BY FS_Interval
  <2>2. \A i \in 1 .. n : above(i) \in SUBSET (1 .. n)
    OBVIOUS
  <2>3. \A i \in 1 .. n : IsFiniteSet(above(i))
    BY <2>1, <2>2, FS_Subset
  <2>4. above(1) \in aboves
    OBVIOUS
  <2> HIDE DEF above
  <2> QED BY <2>2, <2>3, <2>4 DEF FiniteSubsetsOf
<1>2. PICK T \in aboves : \A U \in aboves : <<U, T>> \notin StrictSubsetOrdering(1 .. n)
  <2> HIDE DEF aboves
  <2> QED BY <1>1, WFMin, FS_StrictSubsetOrderingWellFounded
<1>3. PICK top \in 1 .. n : T = above(top)
  OBVIOUS
<1>4. ASSUME NEW j \in 1 .. n
      PROVE  score[j] <= score[top]
  <2>1. SUFFICES ASSUME score[j] > score[top] PROVE FALSE
    OBVIOUS
  <2>2. above(j) \subseteq T /\ top \in T /\ top \notin above(j)
    BY <1>3, <2>1
  <2>3. <<above(j), T>> \in StrictSubsetOrdering(1 .. n)
    BY <2>2, <1>3 DEF StrictSubsetOrdering
  <2> QED BY <2>3, <1>2
\* Among the greatest, the first is the one with the fewest indices up to it.
<1> DEFINE best == {i \in 1 .. n : score[i] = score[top]}
           heads == {1 .. i : i \in best}
<1>5. heads \subseteq FiniteSubsetsOf(Int) /\ heads # {}
  BY FS_Interval DEF FiniteSubsetsOf
<1>6. PICK H \in heads : \A U \in heads : <<U, H>> \notin StrictSubsetOrdering(Int)
  <2> HIDE DEF heads
  <2> QED BY <1>5, WFMin, FS_StrictSubsetOrderingWellFounded
<1>7. PICK i \in best : H = 1 .. i
  OBVIOUS
<1>8. ASSUME NEW j \in 1 .. n, j < i
      PROVE  score[j] < score[i]
  <2>1. SUFFICES ASSUME j \in best PROVE FALSE
    BY <1>4
  <2>2. 1 .. j \subseteq H /\ i \in H /\ i \notin 1 .. j
    BY <1>7, <1>8
  <2>3. <<1 .. j, H>> \in StrictSubsetOrdering(Int)
    BY <2>2, <1>7 DEF StrictSubsetOrdering
  <2> QED BY <2>1, <2>3, <1>6
<1> QED BY <1>4, <1>8

--------------------------------------------------------------------------------
(* The store.                                                                *)

Store == [Key -> VersionedValue]

\* Every call on the store leaves a store.
LEMMA StoredType ==
    ASSUME NEW value \in Value, NEW version \in Nat
    PROVE  Stored(value, version) \in VersionedValue
BY DEF Stored, VersionedValue

\* What Get returns for a missing key is a versioned value.
LEMMA AbsentType == Absent \in VersionedValue
BY DEF Absent, VersionedValue, Empty, Value

\* Put keeps the store's type.
LEMMA PutType ==
    ASSUME NEW store \in Store, NEW k \in Key, NEW value \in Value
    PROVE  Put(store, k, value) \in Store
BY DEF Put, Store, Stored, VersionedValue

\* PutIfVersion keeps the store's type.
LEMMA PutIfVersionType ==
    ASSUME NEW store \in Store, NEW k \in Key, NEW value \in Value, NEW expected
    PROVE  PutIfVersion(store, k, expected, value) \in Store
<1>1. CASE VersionIs(store, k, expected)
  BY <1>1, PutType DEF PutIfVersion
<1>2. CASE ~VersionIs(store, k, expected)
  BY <1>2 DEF PutIfVersion, Store, VersionedValue
<1> QED BY <1>1, <1>2

\* DeleteIfVersion keeps the store's type.
LEMMA DeleteIfVersionType ==
    ASSUME NEW store \in Store, NEW k \in Key, NEW expected
    PROVE  DeleteIfVersion(store, k, expected) \in Store
BY AbsentType DEF DeleteIfVersion, Store

\* BatchPutIfVersion keeps the store's type.
LEMMA BatchPutType ==
    ASSUME NEW store \in Store, NEW writes \in Seq(WriteOp)
    PROVE  BatchPut(store, writes) \in Store
<1>1. ASSUME NEW k \in Key, k \in KeysOf(writes)
      PROVE  BatchPut(store, writes)[k] \in VersionedValue
  <2> DEFINE i == CHOOSE j \in DOMAIN writes : writes[j].key = k
  <2>1. i \in DOMAIN writes
    BY <1>1 DEF KeysOf
  <2>2. writes[i].value \in Value
    <3>1. \A j \in DOMAIN writes : writes[j] \in WriteOp
      OBVIOUS
    <3> QED BY <2>1, <3>1 DEF WriteOp
  <2>3. store[k].version + 1 \in Nat
    BY DEF Store, VersionedValue
  <2>4. BatchPut(store, writes)[k] = Stored(writes[i].value, store[k].version + 1)
    BY <1>1 DEF BatchPut, Store
  <2> QED BY <2>2, <2>3, <2>4, StoredType
<1>2. ASSUME NEW k \in Key, k \notin KeysOf(writes)
      PROVE  BatchPut(store, writes)[k] \in VersionedValue
  BY <1>2 DEF BatchPut, Store
<1> QED BY <1>1, <1>2 DEF BatchPut, Store

--------------------------------------------------------------------------------
(* The policy: a buffered or resolved value is a value.                      *)

\* A value that parses as an integer has one.
LEMMA IntOfType ==
    ASSUME NEW v \in Value, IsInt(v)
    PROVE  IntOf(v) \in Int
BY DEF Value, Chunk, IsInt, IntOf

\* An integer is a value.
LEMMA NumeralType ==
    ASSUME NEW n \in Int
    PROVE  Numeral(n) \in Value
BY DEF Value, Chunk, Numeral

\* Buffering an intent gives a value.
LEMMA BufferedValueType ==
    ASSUME NEW base \in Value, NEW now \in Value, NEW intent \in WriteIntent
    PROVE  BufferedValue(base, now, intent) \in Value
<1>1. intent.payload \in Value /\ intent.type \in IntentType
  BY DEF WriteIntent
<1>2. now \o intent.payload \in Value
  BY <1>1 DEF Value
<1>3. (IsInt(now) /\ IsInt(intent.payload))
          => Numeral(IntOf(now) + IntOf(intent.payload)) \in Value
  BY <1>1, IntOfType, NumeralType
<1> QED BY <1>1, <1>2, <1>3 DEF BufferedValue, IntentType

\* Resolving a write gives a value.
LEMMA ResolveWriteType ==
    ASSUME NEW entry \in CacheEntry, NEW intent \in WriteIntent, NEW now \in Value
    PROVE  ResolveWrite(entry, intent, now).value \in Value
<1> USE DEF WriteOf
<1>1. /\ intent.payload \in Value /\ intent.type \in IntentType
      /\ entry.base_value \in Value /\ entry.current_value \in Value
  BY DEF WriteIntent, CacheEntry
<1>2. NoWrite.value \in Value /\ Refused.value \in Value
  BY DEF NoWrite, Refused, Empty, Value
<1>3. ResolveAppend(entry, intent, now).value \in Value
  <2>1. HasPrefix(entry.current_value, entry.base_value)
            => Suffix(entry.current_value, entry.base_value) \in Value
    <3> SUFFICES ASSUME HasPrefix(entry.current_value, entry.base_value)
                 PROVE  Suffix(entry.current_value, entry.base_value) \in Value
      OBVIOUS
    <3> QED BY <1>1 DEF HasPrefix, Suffix, Value
  <2>2. \A v \in Value : now \o v \in Value
    BY DEF Value
  <2> QED BY <1>1, <2>1, <2>2 DEF ResolveAppend
<1>4. ResolveDelta(entry, intent, now).value \in Value
  <2>1. (IsInt(now) /\ IsInt(entry.base_value) /\ IsInt(entry.current_value))
            => Numeral(IntOf(now) + (IntOf(entry.current_value) - IntOf(entry.base_value))) \in Value
    BY <1>1, IntOfType, NumeralType
  <2>2. (IsInt(now) /\ IsInt(intent.payload))
            => Numeral(IntOf(now) + IntOf(intent.payload)) \in Value
    BY <1>1, IntOfType, NumeralType
  <2> QED BY <1>2, <2>1, <2>2 DEF ResolveDelta
<1> QED BY <1>1, <1>2, <1>3, <1>4 DEF ResolveWrite, IntentType

--------------------------------------------------------------------------------
(* The branch: every operation on a branch leaves a branch.                  *)

\* What it is to be the entries of a buffer.
LEMMA EntriesDef ==
    ASSUME NEW e
    PROVE  e \in Entries <=> DOMAIN e \in SUBSET Key /\ e \in [DOMAIN e -> CacheEntry]
<1>1. e \in Entries <=> \E S \in SUBSET Key : e \in [S -> CacheEntry]
  BY DEF Entries
<1> QED BY <1>1

\* A new branch is a BranchContext.
LEMMA CreateBranchType == CreateBranch \in BranchContext
<1>1. NoBuffer \in Entries
  BY EntriesDef DEF NoBuffer
<1> QED BY <1>1 DEF CreateBranch, BranchContext

\* A read gives a BranchContext.
LEMMA ReadObjectType ==
    ASSUME NEW b \in BranchContext, NEW k \in Key, NEW store \in Store
    PROVE  ReadObject(b, k, store) \in BranchContext
<1>1. [object |-> k, version |-> store[k].version, seen |-> store[k].value] \in ReadRecord
  BY DEF Store, VersionedValue, ReadRecord
<1>2. (IF IsBuffered(b, k) THEN b.reads
       ELSE Append(b.reads,
                [object |-> k, version |-> store[k].version, seen |-> store[k].value]))
          \in Seq(ReadRecord)
  BY <1>1 DEF BranchContext
<1> QED BY <1>2 DEF ReadObject, BranchContext

\* Staging gives a BranchContext.
LEMMA StageBranchType ==
    ASSUME NEW b \in BranchContext, NEW score \in Int
    PROVE  StageBranch(b, score) \in BranchContext
BY DEF StageBranch, BranchContext

\* Discarding gives a BranchContext.
LEMMA DiscardBranchType ==
    ASSUME NEW b \in BranchContext
    PROVE  DiscardBranch(b) \in BranchContext
<1>1. NoBuffer \in Entries
  BY EntriesDef DEF NoBuffer
<1>2. /\ <<>> \in Seq(Key) /\ <<>> \in Seq(ChangeRecord)
      /\ <<>> \in Seq(WriteIntent) /\ <<>> \in Seq(Savepoint)
  OBVIOUS
<1> QED BY <1>1, <1>2 DEF DiscardBranch, BranchContext

\* The entry a write starts from is a CacheEntry.
LEMMA EntryBeforeType ==
    ASSUME NEW b \in BranchContext, NEW k \in Key, NEW store \in Store
    PROVE  EntryBefore(b, k, store) \in CacheEntry
<1>1. CASE IsBuffered(b, k)
  <2>1. b.entries \in Entries
    BY DEF BranchContext
  <2> QED BY <1>1, <2>1, EntriesDef DEF EntryBefore, IsBuffered
<1>2. CASE ~IsBuffered(b, k)
  BY <1>2 DEF EntryBefore, CacheEntry, IntentType, Store, VersionedValue
<1> QED BY <1>1, <1>2

\* The entry a write leaves is a CacheEntry.
LEMMA EntryAfterType ==
    ASSUME NEW b \in BranchContext, NEW intent \in WriteIntent, NEW store \in Store
    PROVE  EntryAfter(b, intent, store) \in CacheEntry
<1> DEFINE before == EntryBefore(b, intent.object, store)
<1>1. before \in CacheEntry
  BY EntryBeforeType DEF WriteIntent
<1>2. BufferedValue(before.base_value, before.current_value, intent) \in Value
  BY <1>1, BufferedValueType DEF CacheEntry
<1>3. intent.type \in IntentType
  BY DEF WriteIntent
<1> HIDE DEF before
<1>4. [before EXCEPT
            !.intent_type = intent.type,
            !.current_value = BufferedValue(before.base_value, @, intent)] \in CacheEntry
  BY <1>1, <1>2, <1>3 DEF CacheEntry
<1> QED BY <1>4 DEF EntryAfter, before

\* Upsert gives a BranchContext.
LEMMA UpsertType ==
    ASSUME NEW b \in BranchContext, NEW k \in Key, NEW entry \in CacheEntry
    PROVE  Upsert(b, k, entry) \in BranchContext
<1>1. b.entries \in Entries
  BY DEF BranchContext
<1>2. (IF IsBuffered(b, k) THEN <<b.entries[k]>> ELSE <<>>) \in Seq(CacheEntry)
  BY <1>1, EntriesDef DEF IsBuffered
<1>3. [object |-> k, previous |-> IF IsBuffered(b, k) THEN <<b.entries[k]>> ELSE <<>>]
          \in ChangeRecord
  BY <1>2 DEF ChangeRecord
<1>4. [j \in DOMAIN b.entries \cup {k} |-> IF j = k THEN entry ELSE b.entries[j]] \in Entries
  BY <1>1, EntriesDef
<1>5. Append(b.changes,
          [object |-> k, previous |-> IF IsBuffered(b, k) THEN <<b.entries[k]>> ELSE <<>>])
          \in Seq(ChangeRecord)
  BY <1>3 DEF BranchContext
<1>6. (IF IsBuffered(b, k) THEN b.order ELSE Append(b.order, k)) \in Seq(Key)
  BY DEF BranchContext
<1> QED BY <1>4, <1>5, <1>6 DEF Upsert, BranchContext

\* A write gives a BranchContext.
LEMMA BufferWriteType ==
    ASSUME NEW b \in BranchContext, NEW intent \in WriteIntent, NEW store \in Store
    PROVE  BufferWrite(b, intent, store) \in BranchContext
<1>1. Upsert(b, intent.object, EntryAfter(b, intent, store)) \in BranchContext
  BY UpsertType, EntryAfterType DEF WriteIntent
<1>2. ASSUME NEW c \in BranchContext
      PROVE  [c EXCEPT !.status = "Running", !.intents = Append(@, intent)] \in BranchContext
  <2>1. Append(c.intents, intent) \in Seq(WriteIntent)
    BY DEF BranchContext
  <2> QED BY <2>1 DEF BranchContext
<1> QED BY <1>1, <1>2 DEF BufferWrite

\* An object with an intent has a latest one.
LEMMA LatestIntentType ==
    ASSUME NEW b \in BranchContext, NEW k, HasIntent(b, k)
    PROVE  LatestIntent(b, k) \in WriteIntent
<1>1. b.intents \in Seq(WriteIntent) /\ IntentsOn(b, k) \in SUBSET (1 .. Len(b.intents))
  BY DEF BranchContext, IntentsOn
<1>2. \E m \in IntentsOn(b, k) : \A j \in IntentsOn(b, k) : j <= m
  <2>1. Len(b.intents) \in Nat
    BY <1>1
  <2> QED BY <1>1, <2>1, GreatestIndex DEF HasIntent
<1> QED BY <1>1, <1>2 DEF LatestIntent

\* SelectWinner selects a branch.
LEMMA SelectWinnerType ==
    ASSUME NEW n \in Nat \ {0}, NEW branches \in [1 .. n -> BranchContext]
    PROVE  SelectWinner(branches) \in 1 .. n
<1> DEFINE score == [i \in 1 .. n |-> branches[i].score]
<1>1. score \in [1 .. n -> Int]
  <2>1. \A i \in 1 .. n : branches[i].score \in Int
    BY DEF BranchContext
  <2> QED BY <2>1
<1>2. \E i \in 1 .. n :
          /\ \A j \in 1 .. n : score[j] <= score[i]
          /\ \A j \in 1 .. n : j < i => score[j] < score[i]
  <2> HIDE DEF score
  <2> QED BY <1>1, FirstGreatest
<1>3. \E i \in DOMAIN branches :
          /\ \A j \in DOMAIN branches : branches[j].score <= branches[i].score
          /\ \A j \in DOMAIN branches : j < i => branches[j].score < branches[i].score
  BY <1>2
<1> QED BY <1>3 DEF SelectWinner

\* Marking winner and losers gives BranchContexts.
LEMMA MarkWinnerAndLosersType ==
    ASSUME NEW n \in Nat, NEW branches \in [1 .. n -> BranchContext], NEW w
    PROVE  MarkWinnerAndLosers(branches, w) \in [1 .. n -> BranchContext]
<1>1. \A b \in BranchContext : [b EXCEPT !.status = "Winner"] \in BranchContext
  BY DEF BranchContext
<1>2. \A b \in BranchContext : [b EXCEPT !.status = "Loser"] \in BranchContext
  BY DEF BranchContext
<1> QED BY <1>1, <1>2 DEF MarkWinnerAndLosers

--------------------------------------------------------------------------------
(* Rollbacks.                                                                *)

\* The types of a branch's fields.
LEMMA BranchFields ==
    ASSUME NEW b \in BranchContext
    PROVE  /\ DOMAIN b.entries \in SUBSET Key /\ b.entries \in [DOMAIN b.entries -> CacheEntry]
           /\ b.order \in Seq(Key) /\ b.reads \in Seq(ReadRecord)
           /\ b.changes \in Seq(ChangeRecord) /\ b.intents \in Seq(WriteIntent)
           /\ b.savepoints \in Seq(Savepoint)
           /\ \A i \in DOMAIN b.changes :
                b.changes[i].object \in Key /\ b.changes[i].previous \in Seq(CacheEntry)
<1>1. b.entries \in Entries /\ b.changes \in Seq(ChangeRecord)
  BY DEF BranchContext
<1>2. \A i \in DOMAIN b.changes : b.changes[i] \in ChangeRecord
  BY <1>1
<1> QED BY <1>1, <1>2, EntriesDef DEF BranchContext, ChangeRecord

\* What one turn of the loop does to each field.
LEMMA UndoLastFields ==
    ASSUME NEW b \in BranchContext
    PROVE  LET c == UndoLast(b)
               change == b.changes[Len(b.changes)]
           IN  /\ c.changes = SubSeq(b.changes, 1, Len(b.changes) - 1)
               /\ c.entries = IF change.previous = <<>>
                              THEN [j \in DOMAIN b.entries \ {change.object} |-> b.entries[j]]
                              ELSE [b.entries EXCEPT ![change.object] = change.previous[1]]
               /\ c.order = IF change.previous = <<>>
                            THEN EraseFirst(b.order, change.object) ELSE b.order
               /\ c.intents = b.intents /\ c.savepoints = b.savepoints
               /\ c.reads = b.reads /\ c.status = b.status /\ c.score = b.score
BY DEF UndoLast, BranchContext

\* TruncateBuffer's loop: what is left after each number of turns.
Undone(b) ==
    LET undone[n \in 0 .. Len(b.changes)] == IF n = 0 THEN b ELSE UndoLast(undone[n - 1])
    IN  undone

Unrolled(b, m, f) == f = [n \in 0 .. m |-> IF n = 0 THEN b ELSE UndoLast(f[n - 1])]

\* The loop can be run any number of turns.
LEMMA UnrolledExists ==
    ASSUME NEW b, NEW m \in Nat
    PROVE  \E f : Unrolled(b, m, f)
<1> DEFINE S == {n \in 0 .. m : ~\E f : Unrolled(b, n, f)}
<1>1. SUFFICES ASSUME S # {} PROVE FALSE
  OBVIOUS
<1>2. PICK n \in S : \A j \in S : n <= j
  <2> HIDE DEF S
  <2>1. S \in SUBSET (0 .. m)
    BY DEF S
  <2> QED BY <1>1, <2>1, LeastIndex
<1>3. CASE n = 0
  <2> DEFINE f == [i \in 0 .. 0 |-> b]
  <2>1. Unrolled(b, 0, f)
    BY DEF Unrolled
  <2> QED BY <1>2, <1>3, <2>1
<1>4. CASE n # 0
  <2>1. n \in Nat /\ n - 1 \in 0 .. m /\ n - 1 \notin S
    BY <1>2, <1>4
  <2>2. PICK g : Unrolled(b, n - 1, g)
    BY <2>1
  <2> DEFINE f == [i \in 0 .. n |-> IF i = n THEN UndoLast(g[n - 1]) ELSE g[i]]
  <2>3. \A i \in 0 .. (n - 1) : f[i] = g[i] /\ g[i] = IF i = 0 THEN b ELSE UndoLast(g[i - 1])
    BY <2>1, <2>2 DEF Unrolled
  <2>4. f[n] = UndoLast(f[n - 1])
    BY <2>1, <2>3
  <2>5. \A i \in 0 .. n : f[i] = IF i = 0 THEN b ELSE UndoLast(f[i - 1])
    <3> SUFFICES ASSUME NEW i \in 0 .. n PROVE f[i] = IF i = 0 THEN b ELSE UndoLast(f[i - 1])
      OBVIOUS
    <3>1. CASE i = n
      BY <1>4, <2>4, <3>1
    <3>2. CASE i # n
      <4>1. i \in 0 .. (n - 1) /\ (i # 0 => i - 1 \in 0 .. (n - 1))
        BY <2>1, <3>2
      <4> HIDE DEF f
      <4> QED BY <2>3, <4>1
    <3> QED BY <3>1, <3>2
  <2>6. Unrolled(b, n, f)
    <3>1. f = [i \in 0 .. n |-> f[i]]
      OBVIOUS
    <3> HIDE DEF f
    <3> QED BY <2>5, <3>1 DEF Unrolled
  <2> QED BY <1>2, <2>6
<1> QED BY <1>3, <1>4

\* The turns of TruncateBuffer's loop.
LEMMA UndoneUnroll ==
    ASSUME NEW b, Len(b.changes) \in Nat
    PROVE  /\ Undone(b)[0] = b
           /\ \A n \in 1 .. Len(b.changes) : Undone(b)[n] = UndoLast(Undone(b)[n - 1])
<1> DEFINE m == Len(b.changes)
<1>1. Undone(b) = CHOOSE f : Unrolled(b, m, f)
  BY DEF Undone, Unrolled
<1>2. Unrolled(b, m, Undone(b))
  <2> HIDE DEF m
  <2>1. \E f : Unrolled(b, m, f)
    BY UnrolledExists DEF m
  <2> QED BY <1>1, <2>1
<1> QED BY <1>2 DEF Unrolled

\* TruncateBuffer runs the loop until the log has the size.
LEMMA TruncateIsUndone ==
    ASSUME NEW b, NEW size
    PROVE  TruncateBuffer(b, size) = IF Len(b.changes) > size
                                     THEN Undone(b)[Len(b.changes) - size] ELSE b
BY DEF TruncateBuffer, Undone

\* The types of a savepoint.
LEMMA SavepointFields ==
    ASSUME NEW b \in BranchContext, NEW i \in DOMAIN b.savepoints
    PROVE  /\ b.savepoints[i].id \in SavepointId
           /\ b.savepoints[i].write_log_position \in Nat
           /\ b.savepoints[i].intent_log_position \in Nat
<1>1. b.savepoints[i] \in Savepoint
  BY BranchFields
<1> QED BY <1>1 DEF Savepoint

\* find_if finds the first savepoint of a name that there is.
LEMMA FirstSavepointIs ==
    ASSUME NEW b \in BranchContext, NEW id, HasSavepoint(b, id)
    PROVE  LET i == FirstSavepoint(b, id)
           IN  /\ i \in DOMAIN b.savepoints /\ b.savepoints[i].id = id
               /\ \A j \in 1 .. (i - 1) : b.savepoints[j].id # id
<1> DEFINE S == {i \in DOMAIN b.savepoints : b.savepoints[i].id = id}
<1>1. Len(b.savepoints) \in Nat /\ DOMAIN b.savepoints = 1 .. Len(b.savepoints)
  BY BranchFields
<1>2. S \in SUBSET (0 .. Len(b.savepoints)) /\ S # {}
  BY <1>1 DEF HasSavepoint
<1>3. PICK i \in S : \A j \in S : i <= j
  <2> HIDE DEF S
  <2> QED BY <1>1, <1>2, LeastIndex
<1>4. i \in DOMAIN b.savepoints /\ b.savepoints[i].id = id
      /\ \A j \in 1 .. (i - 1) : b.savepoints[j].id # id
  BY <1>1, <1>3
<1> QED BY <1>4 DEF FirstSavepoint
\* The order without the element that std::find finds.
LEMMA EraseFirstIs ==
    ASSUME NEW order \in Seq(Key), NEW k
    PROVE  LET erased == EraseFirst(order, k)
           IN  /\ erased \in Seq(Key)
               /\ \/ erased = order /\ \A i \in DOMAIN order : order[i] # k
                  \/ \E f \in DOMAIN order :
                        /\ order[f] = k /\ Len(erased) = Len(order) - 1
                        /\ \A i \in DOMAIN erased :
                            erased[i] = order[IF i < f THEN i ELSE i + 1]
<1> DEFINE found == {i \in DOMAIN order : order[i] = k}
           first == CHOOSE i \in found : \A j \in found : i <= j
           erased == EraseFirst(order, k)
<1>1. CASE found = {}
  BY <1>1 DEF EraseFirst
<1>2. CASE found # {}
  <2>1. found \in SUBSET (0 .. Len(order)) /\ Len(order) \in Nat
    OBVIOUS
  <2>2. \E m \in found : \A j \in found : m <= j
    <3> HIDE DEF found
    <3> QED BY <1>2, <2>1, LeastIndex
  <2>3. first \in found
    <3> HIDE DEF found
    <3> QED BY <2>2
  <2>4. first \in 1 .. Len(order) /\ order[first] = k
    <3> HIDE DEF first
    <3> QED BY <2>3
  <2> DEFINE head == SubSeq(order, 1, first - 1)
             tail == SubSeq(order, first + 1, Len(order))
  <2>5. erased = head \o tail
    BY <1>2 DEF EraseFirst
  <2> HIDE DEF first, erased
  <2>6. /\ head \in Seq(Key) /\ Len(head) = first - 1
        /\ \A i \in 1 .. (first - 1) : head[i] = order[i]
    BY <2>4
  <2>7. /\ tail \in Seq(Key) /\ Len(tail) = Len(order) - first
        /\ \A i \in 1 .. (Len(order) - first) : tail[i] = order[first + i]
    BY <2>4
  <2> HIDE DEF head, tail
  <2>8. erased \in Seq(Key) /\ Len(erased) = Len(order) - 1
    <3>1. head \o tail \in Seq(Key) /\ Len(head \o tail) = Len(head) + Len(tail)
      BY <2>6, <2>7
    <3>2. (first - 1) + (Len(order) - first) = Len(order) - 1
      BY <2>4
    <3> QED BY <2>5, <2>6, <2>7, <3>1, <3>2
  <2>9. ASSUME NEW i \in DOMAIN erased
        PROVE  erased[i] = order[IF i < first THEN i ELSE i + 1]
    <3>1. i \in 1 .. (Len(order) - 1)
      BY <2>4, <2>8
    <3>2. CASE i < first
      <4>1. erased[i] = head[i] /\ i \in 1 .. (first - 1)
        BY <2>4, <2>5, <2>6, <2>7, <3>1, <3>2
      <4> QED BY <2>6, <3>2, <4>1
    <3>3. CASE ~(i < first)
      <4>1. erased[i] = tail[i - (first - 1)] /\ i - (first - 1) \in 1 .. (Len(order) - first)
        BY <2>4, <2>5, <2>6, <2>7, <3>1, <3>3
      <4>2. first + (i - (first - 1)) = i + 1
        BY <2>4, <3>1
      <4> QED BY <2>7, <3>3, <4>1, <4>2
    <3> QED BY <3>2, <3>3
  <2> QED BY <2>4, <2>8, <2>9 DEF erased
<1> QED BY <1>1, <1>2

\* The order lists buffered objects, each once.
BufferOrdered(b) ==
    /\ \A i \in DOMAIN b.order : b.order[i] \in DOMAIN b.entries
    /\ \A i, j \in DOMAIN b.order : b.order[i] = b.order[j] => i = j

\* Without one of its elements the order lists the others.
LEMMA EraseFirstOrdered ==
    ASSUME NEW order \in Seq(Key), NEW k,
           \A i, j \in DOMAIN order : order[i] = order[j] => i = j
    PROVE  LET erased == EraseFirst(order, k)
           IN  /\ \A i \in DOMAIN erased :
                    erased[i] # k /\ \E j \in DOMAIN order : order[j] = erased[i]
               /\ \A i, j \in DOMAIN erased : erased[i] = erased[j] => i = j
<1> DEFINE erased == EraseFirst(order, k)
<1>1. CASE erased = order /\ \A i \in DOMAIN order : order[i] # k
  BY <1>1
<1>2. CASE \E f \in DOMAIN order :
              /\ order[f] = k /\ Len(erased) = Len(order) - 1
              /\ \A i \in DOMAIN erased : erased[i] = order[IF i < f THEN i ELSE i + 1]
  <2>1. PICK f \in DOMAIN order :
            /\ order[f] = k /\ Len(erased) = Len(order) - 1
            /\ \A i \in DOMAIN erased : erased[i] = order[IF i < f THEN i ELSE i + 1]
    BY <1>2
  <2>2. erased \in Seq(Key)
    BY EraseFirstIs
  <2> HIDE DEF erased
  <2>3. \A i \in DOMAIN erased :
            /\ (IF i < f THEN i ELSE i + 1) \in DOMAIN order
            /\ (IF i < f THEN i ELSE i + 1) # f
    BY <2>1, <2>2
  <2>4. \A i, j \in DOMAIN erased :
            (IF i < f THEN i ELSE i + 1) = (IF j < f THEN j ELSE j + 1) => i = j
    BY <2>1, <2>2
  <2>5. \A i \in DOMAIN erased :
            erased[i] # k /\ \E j \in DOMAIN order : order[j] = erased[i]
    BY <2>1, <2>3
  <2>6. \A i, j \in DOMAIN erased : erased[i] = erased[j] => i = j
    BY <2>1, <2>3, <2>4
  <2> QED BY <2>5, <2>6 DEF erased
<1> QED BY <1>1, <1>2, EraseFirstIs

\* One turn of the loop keeps the order that of the buffered objects.
LEMMA UndoLastOrdered ==
    ASSUME NEW b \in BranchContext, BufferOrdered(b)
    PROVE  BufferOrdered(UndoLast(b))
<1> DEFINE c == UndoLast(b)
           k == b.changes[Len(b.changes)].object
           previous == b.changes[Len(b.changes)].previous
<1>1. /\ c.entries = IF previous = <<>> THEN [j \in DOMAIN b.entries \ {k} |-> b.entries[j]]
                     ELSE [b.entries EXCEPT ![k] = previous[1]]
      /\ c.order = IF previous = <<>> THEN EraseFirst(b.order, k) ELSE b.order
  BY UndoLastFields
<1>2. b.order \in Seq(Key)
  BY BranchFields
<1> HIDE DEF c, k, previous
<1>3. CASE previous = <<>>
  <2> DEFINE erased == EraseFirst(b.order, k)
  <2>1. /\ \A i \in DOMAIN erased :
              erased[i] # k /\ \E j \in DOMAIN b.order : b.order[j] = erased[i]
        /\ \A i, j \in DOMAIN erased : erased[i] = erased[j] => i = j
    BY <1>2, EraseFirstOrdered DEF BufferOrdered
  <2>2. c.order = erased /\ DOMAIN c.entries = DOMAIN b.entries \ {k}
    BY <1>1, <1>3
  <2> HIDE DEF erased
  <2> QED BY <2>1, <2>2 DEF BufferOrdered, c
<1>4. CASE previous # <<>>
  BY <1>1, <1>4 DEF BufferOrdered, c
<1> QED BY <1>3, <1>4

\* One turn of the loop leaves a BranchContext with one change less.
LEMMA UndoLastType ==
    ASSUME NEW b \in BranchContext, b.changes # <<>>
    PROVE  UndoLast(b) \in BranchContext /\ Len(UndoLast(b).changes) = Len(b.changes) - 1
<1> DEFINE c == UndoLast(b)
           n == Len(b.changes)
           k == b.changes[n].object
           previous == b.changes[n].previous
<1>1. b.changes \in Seq(ChangeRecord) /\ n \in Nat \ {0} /\ n \in DOMAIN b.changes
  BY BranchFields
<1>2. k \in Key /\ previous \in Seq(CacheEntry) /\ (previous # <<>> => previous[1] \in CacheEntry)
  BY <1>1, BranchFields
<1>3. DOMAIN b.entries \in SUBSET Key /\ b.entries \in [DOMAIN b.entries -> CacheEntry]
      /\ b.order \in Seq(Key)
  BY BranchFields
<1>4. /\ c.changes = SubSeq(b.changes, 1, n - 1)
      /\ c.entries = IF previous = <<>> THEN [j \in DOMAIN b.entries \ {k} |-> b.entries[j]]
                     ELSE [b.entries EXCEPT ![k] = previous[1]]
      /\ c.order = IF previous = <<>> THEN EraseFirst(b.order, k) ELSE b.order
  BY UndoLastFields
<1>5. c.changes \in Seq(ChangeRecord) /\ Len(c.changes) = n - 1
  BY <1>1, <1>4
<1>6. c.order \in Seq(Key)
  BY <1>3, <1>4, EraseFirstIs
<1>7. c.entries \in Entries
  <2>1. DOMAIN c.entries \in SUBSET Key /\ c.entries \in [DOMAIN c.entries -> CacheEntry]
    <3>1. CASE previous = <<>>
      BY <1>3, <1>4, <3>1
    <3>2. CASE previous # <<>>
      BY <1>2, <1>3, <1>4, <3>2
    <3> QED BY <3>1, <3>2
  <2> QED BY <2>1, EntriesDef
<1>8. c = [b EXCEPT !.changes = c.changes, !.entries = c.entries, !.order = c.order]
  BY DEF UndoLast, BranchContext
<1> HIDE DEF c
<1> QED BY <1>5, <1>6, <1>7, <1>8 DEF BranchContext, c

\* A branch whose buffer was truncated to a position.
Shortened(b, c, p) ==
    /\ c \in BranchContext /\ Len(c.changes) = p
    /\ c.intents = b.intents /\ c.savepoints = b.savepoints /\ c.reads = b.reads
    /\ c.status = b.status /\ c.score = b.score
    /\ BufferOrdered(b) => BufferOrdered(c)

\* TruncateBuffer runs its loop as often as it takes.
LEMMA TruncateBufferShortens ==
    ASSUME NEW b \in BranchContext, NEW p \in 0 .. Len(b.changes)
    PROVE  Shortened(b, TruncateBuffer(b, p), p)
<1> DEFINE n == Len(b.changes)
           S == {i \in 0 .. n : ~Shortened(b, Undone(b)[i], n - i)}
<1>1. n \in Nat
  BY BranchFields
<1>2. Shortened(b, b, n)
  BY DEF Shortened
<1>3. Undone(b)[0] = b /\ \A i \in 1 .. n : Undone(b)[i] = UndoLast(Undone(b)[i - 1])
  BY <1>1, UndoneUnroll
<1>4. ASSUME S # {} PROVE FALSE
  <2>1. PICK m \in S : \A j \in S : m <= j
    <3>1. S \in SUBSET (0 .. n)
      OBVIOUS
    <3> HIDE DEF S
    <3> QED BY <1>1, <1>4, <3>1, LeastIndex
  <2>2. m # 0
    BY <1>1, <1>2, <1>3, <2>1
  <2>3. m \in 1 .. n /\ m - 1 \in 0 .. n /\ m - 1 \notin S
    BY <1>1, <2>1, <2>2
  <2> DEFINE c == Undone(b)[m - 1]
             q == n - (m - 1)
  <2>4. Shortened(b, c, q) /\ q \in Nat \ {0} /\ q - 1 = n - m
    BY <1>1, <2>3
  <2>5. Shortened(b, UndoLast(c), q - 1)
    <3> HIDE DEF c, q, n, S
    <3>1. c \in BranchContext /\ Len(c.changes) = q /\ Len(<<>>) = 0
      BY <2>4 DEF Shortened
    <3>2. c.changes # <<>>
      BY <2>4, <3>1
    <3>3. BufferOrdered(b) => BufferOrdered(UndoLast(c))
      BY <2>4, <3>1, UndoLastOrdered DEF Shortened
    <3> QED BY <2>4, <3>1, <3>2, <3>3, UndoLastType, UndoLastFields DEF Shortened
  <2> QED BY <1>3, <2>1, <2>3, <2>4, <2>5
<1>5. CASE Len(b.changes) > p
  <2>1. n - p \in 0 .. n /\ n - (n - p) = p
    BY <1>1
  <2>2. Shortened(b, Undone(b)[n - p], p)
    BY <1>4, <2>1
  <2> QED BY <1>5, <2>2, TruncateIsUndone
<1>6. CASE ~(Len(b.changes) > p)
  <2>1. p = n
    BY <1>1, <1>6
  <2> QED BY <1>2, <1>6, <2>1, TruncateIsUndone
<1> QED BY <1>5, <1>6

\* The positions of the savepoints are in both logs, and in order.
PositionsInv(b) ==
    /\ \A i \in DOMAIN b.savepoints :
        /\ b.savepoints[i].write_log_position <= Len(b.changes)
        /\ b.savepoints[i].intent_log_position <= Len(b.intents)
    /\ \A i, j \in DOMAIN b.savepoints : i < j =>
        /\ b.savepoints[i].write_log_position <= b.savepoints[j].write_log_position
        /\ b.savepoints[i].intent_log_position <= b.savepoints[j].intent_log_position

\* RollbackToSavepoint cuts both logs where the savepoint was made; what was
\* read stays.
LEMMA RollbackToSavepointType ==
    ASSUME NEW b \in BranchContext, PositionsInv(b), NEW id, HasSavepoint(b, id)
    PROVE  LET c == RollbackToSavepoint(b, id)
           IN  /\ c \in BranchContext /\ PositionsInv(c)
               /\ BufferOrdered(b) => BufferOrdered(c)
               /\ c.reads = b.reads /\ c.status = b.status /\ c.score = b.score
<1> DEFINE c == RollbackToSavepoint(b, id)
           i == FirstSavepoint(b, id)
           p == b.savepoints[i].write_log_position
           q == b.savepoints[i].intent_log_position
           t == TruncateBuffer(b, p)
           u == TruncateIntents(t, q)
           savepoints == SubSeq(b.savepoints, 1, i)
<1>1. /\ b.savepoints \in Seq(Savepoint) /\ b.intents \in Seq(WriteIntent)
      /\ Len(b.changes) \in Nat /\ Len(b.intents) \in Nat
  BY BranchFields
<1>2. i \in DOMAIN b.savepoints
  BY FirstSavepointIs
<1>3. p \in 0 .. Len(b.changes) /\ q \in 0 .. Len(b.intents)
  <2>1. p \in Nat /\ q \in Nat
    BY <1>2, SavepointFields
  <2> QED BY <1>1, <1>2, <2>1 DEF PositionsInv
<1>4. c = [u EXCEPT !.savepoints = SubSeq(@, 1, i)]
  BY DEF RollbackToSavepoint
<1>5. Shortened(b, t, p)
  <2> HIDE DEF p, i
  <2> QED BY <1>3, TruncateBufferShortens
<1> HIDE DEF t
<1>6. /\ u \in BranchContext /\ u.changes = t.changes /\ Len(u.intents) = q
      /\ u.entries = t.entries /\ u.order = t.order
      /\ u.savepoints = b.savepoints /\ u.reads = b.reads
      /\ u.status = b.status /\ u.score = b.score
  <2> HIDE DEF p, q, i
  <2>1. CASE Len(t.intents) > q
    <3> DEFINE intents == SubSeq(t.intents, 1, q)
    <3>1. intents \in Seq(WriteIntent) /\ Len(intents) = q
      BY <1>1, <1>3, <1>5 DEF Shortened
    <3>2. u = [t EXCEPT !.intents = intents]
      BY <2>1 DEF TruncateIntents
    <3> HIDE DEF u, intents
    <3> QED BY <1>5, <3>1, <3>2 DEF Shortened, BranchContext
  <2>2. CASE ~(Len(t.intents) > q)
    <3>1. u = t /\ Len(b.intents) = q
      BY <1>1, <1>3, <1>5, <2>2 DEF TruncateIntents, Shortened
    <3> QED BY <1>5, <3>1 DEF Shortened
  <2> QED BY <2>1, <2>2
<1>7. /\ savepoints \in Seq(Savepoint) /\ DOMAIN savepoints = 1 .. i
      /\ \A j \in 1 .. i : savepoints[j] = b.savepoints[j]
      /\ i \in Nat /\ \A j \in 1 .. i : j \in DOMAIN b.savepoints
  BY <1>1, <1>2
<1> HIDE DEF u
<1>8. c = [u EXCEPT !.savepoints = savepoints]
  BY <1>4, <1>6
<1> HIDE DEF c, savepoints
<1>9. /\ c \in BranchContext /\ c.savepoints = savepoints
      /\ c.changes = t.changes /\ c.intents = u.intents
      /\ c.entries = t.entries /\ c.order = t.order
      /\ c.reads = b.reads /\ c.status = b.status /\ c.score = b.score
  BY <1>6, <1>7, <1>8 DEF BranchContext
<1>10. PositionsInv(c)
  <2>1. Len(c.changes) = p /\ Len(c.intents) = q /\ DOMAIN c.savepoints = 1 .. i
        /\ \A j \in 1 .. i : c.savepoints[j] = b.savepoints[j]
    BY <1>5, <1>6, <1>7, <1>9 DEF Shortened
  <2>2. \A j \in 1 .. i : /\ b.savepoints[j].write_log_position <= p
                          /\ b.savepoints[j].intent_log_position <= q
    <3> SUFFICES ASSUME NEW j \in 1 .. i
                 PROVE  /\ b.savepoints[j].write_log_position <= p
                        /\ b.savepoints[j].intent_log_position <= q
      OBVIOUS
    <3>1. CASE j = i
      BY <1>3, <3>1 DEF p, q
    <3>2. CASE j # i
      <4>1. j < i
        BY <1>7, <3>2
      <4> QED BY <1>2, <1>7, <4>1 DEF p, q, PositionsInv
    <3> QED BY <3>1, <3>2
  <2> QED BY <1>7, <2>1, <2>2 DEF PositionsInv
<1>11. BufferOrdered(b) => BufferOrdered(c)
  BY <1>5, <1>9 DEF Shortened, BufferOrdered
<1> QED BY <1>9, <1>10, <1>11 DEF c

--------------------------------------------------------------------------------
(* What every operation on a branch keeps.                                   *)

\* The order and the positions of a branch are in order.
WellFormed(b) == b \in BranchContext /\ BufferOrdered(b) /\ PositionsInv(b)

\* A new branch is well formed.
LEMMA CreateBranchFormed == WellFormed(CreateBranch)
<1>1. CreateBranch.order = <<>> /\ CreateBranch.savepoints = <<>>
  BY DEF CreateBranch
<1> QED BY <1>1, CreateBranchType DEF WellFormed, BufferOrdered, PositionsInv

\* Reading keeps a branch well formed; it only adds to the read set.
LEMMA ReadObjectFormed ==
    ASSUME NEW b, WellFormed(b), NEW k \in Key, NEW store \in Store
    PROVE  WellFormed(ReadObject(b, k, store))
<1> DEFINE c == ReadObject(b, k, store)
<1>1. b \in BranchContext
  BY DEF WellFormed
<1>2. /\ c.entries = b.entries /\ c.order = b.order /\ c.changes = b.changes
      /\ c.intents = b.intents /\ c.savepoints = b.savepoints
  BY <1>1 DEF ReadObject, BranchContext
<1>3. c \in BranchContext
  BY <1>1, ReadObjectType
<1> HIDE DEF c
<1> QED BY <1>2, <1>3 DEF WellFormed, BufferOrdered, PositionsInv, c

\* Staging keeps a branch well formed.
LEMMA StageBranchFormed ==
    ASSUME NEW b, WellFormed(b), NEW score \in Int
    PROVE  /\ WellFormed(StageBranch(b, score))
           /\ StageBranch(b, score).reads = b.reads
<1> DEFINE c == StageBranch(b, score)
<1>1. b \in BranchContext
  BY DEF WellFormed
<1>2. /\ c.entries = b.entries /\ c.order = b.order /\ c.changes = b.changes
      /\ c.intents = b.intents /\ c.savepoints = b.savepoints /\ c.reads = b.reads
  BY <1>1 DEF StageBranch, BranchContext
<1>3. c \in BranchContext
  BY <1>1, StageBranchType
<1> HIDE DEF c
<1> QED BY <1>2, <1>3 DEF WellFormed, BufferOrdered, PositionsInv, c

\* A change of the status keeps a branch well formed.
LEMMA StatusFormed ==
    ASSUME NEW b, WellFormed(b),
           NEW status \in {"Created", "Running", "Staged", "Winner", "Loser", "Committed",
                           "Aborted", "Discarded"}
    PROVE  /\ WellFormed([b EXCEPT !.status = status])
           /\ [b EXCEPT !.status = status].reads = b.reads
<1> DEFINE c == [b EXCEPT !.status = status]
<1>1. b \in BranchContext
  BY DEF WellFormed
<1>2. /\ c.entries = b.entries /\ c.order = b.order /\ c.changes = b.changes
      /\ c.intents = b.intents /\ c.savepoints = b.savepoints /\ c.reads = b.reads
      /\ c \in BranchContext
  BY <1>1 DEF BranchContext
<1> HIDE DEF c
<1> QED BY <1>2 DEF WellFormed, BufferOrdered, PositionsInv, c

\* Discarding keeps a branch well formed, and what it read.
LEMMA DiscardBranchFormed ==
    ASSUME NEW b, WellFormed(b)
    PROVE  /\ WellFormed(DiscardBranch(b))
           /\ DiscardBranch(b).reads = b.reads
<1> DEFINE c == DiscardBranch(b)
<1>1. b \in BranchContext
  BY DEF WellFormed
<1>2. c.order = <<>> /\ c.savepoints = <<>> /\ c.reads = b.reads
  BY <1>1 DEF DiscardBranch, BranchContext
<1>3. c \in BranchContext
  BY <1>1, DiscardBranchType
<1> HIDE DEF c
<1> QED BY <1>2, <1>3 DEF WellFormed, BufferOrdered, PositionsInv, c

\* A write buffers its object at the end of the order, if it is not there.
LEMMA BufferWriteFormed ==
    ASSUME NEW b, WellFormed(b), NEW intent \in WriteIntent, NEW store \in Store
    PROVE  /\ WellFormed(BufferWrite(b, intent, store))
           /\ BufferWrite(b, intent, store).reads = b.reads
<1> DEFINE c == BufferWrite(b, intent, store)
           k == intent.object
<1>1. b \in BranchContext /\ b.order \in Seq(Key)
      /\ Len(b.changes) \in Nat /\ Len(b.intents) \in Nat
  BY BranchFields DEF WellFormed
<1>2. /\ DOMAIN c.entries = DOMAIN b.entries \cup {k}
      /\ c.order = IF IsBuffered(b, k) THEN b.order ELSE Append(b.order, k)
      /\ Len(c.changes) = Len(b.changes) + 1 /\ Len(c.intents) = Len(b.intents) + 1
      /\ c.savepoints = b.savepoints /\ c.reads = b.reads
  <2> DEFINE change == [object |-> k,
                        previous |-> IF IsBuffered(b, k) THEN <<b.entries[k]>> ELSE <<>>]
  <2>1. /\ DOMAIN c.entries = DOMAIN b.entries \cup {k}
        /\ c.order = IF IsBuffered(b, k) THEN b.order ELSE Append(b.order, k)
        /\ c.changes = Append(b.changes, change) /\ c.intents = Append(b.intents, intent)
        /\ c.savepoints = b.savepoints /\ c.reads = b.reads
    BY <1>1 DEF BufferWrite, Upsert, BranchContext
  <2>2. b.changes \in Seq(ChangeRecord) /\ b.intents \in Seq(WriteIntent)
    BY <1>1, BranchFields
  <2> HIDE DEF change, c
  <2> QED BY <2>1, <2>2
<1>3. c \in BranchContext
  BY <1>1, BufferWriteType
<1>4. BufferOrdered(c)
  <2>1. CASE IsBuffered(b, k)
    <3> HIDE DEF c
    <3> QED BY <1>2, <2>1 DEF WellFormed, BufferOrdered
  <2>2. CASE ~IsBuffered(b, k)
    <3> DEFINE n == Len(b.order)
    <3>1. /\ n \in Nat /\ DOMAIN c.order = 1 .. (n + 1) /\ DOMAIN b.order = 1 .. n
          /\ c.order[n + 1] = k /\ \A i \in 1 .. n : c.order[i] = b.order[i]
      <4> HIDE DEF c
      <4> QED BY <1>1, <1>2, <2>2
    <3>2. \A i \in 1 .. n : b.order[i] # k /\ b.order[i] \in DOMAIN b.entries
      BY <2>2, <3>1 DEF WellFormed, BufferOrdered, IsBuffered
    <3>3. \A i \in 1 .. (n + 1) : i = n + 1 \/ i \in 1 .. n
      BY <3>1
    <3> HIDE DEF c, n, k
    <3>4. \A i \in DOMAIN c.order : c.order[i] \in DOMAIN c.entries
      BY <1>2, <3>1, <3>2, <3>3
    <3>5. ASSUME NEW i \in DOMAIN c.order, NEW j \in DOMAIN c.order, c.order[i] = c.order[j]
          PROVE  i = j
      BY <3>1, <3>2, <3>3, <3>5 DEF WellFormed, BufferOrdered
    <3> QED BY <3>4, <3>5 DEF BufferOrdered
  <2> QED BY <2>1, <2>2
<1>5. PositionsInv(c)
  <2>1. \A i \in DOMAIN b.savepoints : /\ b.savepoints[i].write_log_position \in Nat
                                       /\ b.savepoints[i].intent_log_position \in Nat
    BY <1>1, SavepointFields
  <2> HIDE DEF c
  <2> QED BY <1>1, <1>2, <2>1 DEF WellFormed, PositionsInv
<1> HIDE DEF c
<1> QED BY <1>2, <1>3, <1>4, <1>5 DEF WellFormed, c

\* A savepoint notes where both logs end.
LEMMA CreateSavepointFormed ==
    ASSUME NEW b, WellFormed(b), NEW id \in SavepointId
    PROVE  /\ WellFormed(CreateSavepoint(b, id))
           /\ CreateSavepoint(b, id).reads = b.reads
<1> DEFINE c == CreateSavepoint(b, id)
           sp == [id |-> id, write_log_position |-> Len(b.changes),
                  intent_log_position |-> Len(b.intents)]
           n == Len(b.savepoints)
<1>1. b \in BranchContext /\ b.savepoints \in Seq(Savepoint)
      /\ Len(b.changes) \in Nat /\ Len(b.intents) \in Nat
  BY BranchFields DEF WellFormed
<1>2. /\ c.entries = b.entries /\ c.order = b.order /\ c.changes = b.changes
      /\ c.intents = b.intents /\ c.savepoints = Append(b.savepoints, sp) /\ c.reads = b.reads
      /\ c = [b EXCEPT !.savepoints = Append(b.savepoints, sp)]
  BY <1>1 DEF CreateSavepoint, BranchContext
<1>3. Append(b.savepoints, sp) \in Seq(Savepoint)
  BY <1>1 DEF Savepoint
<1> HIDE DEF c
<1>4. c \in BranchContext
  BY <1>1, <1>2, <1>3 DEF BranchContext
<1>5. BufferOrdered(c)
  BY <1>2 DEF WellFormed, BufferOrdered
<1>6. PositionsInv(c)
  <2>1. /\ n \in Nat /\ DOMAIN b.savepoints = 1 .. n /\ DOMAIN c.savepoints = 1 .. (n + 1)
        /\ c.savepoints[n + 1] = sp /\ \A i \in 1 .. n : c.savepoints[i] = b.savepoints[i]
    BY <1>1, <1>2
  <2>2. sp.write_log_position = Len(b.changes) /\ sp.intent_log_position = Len(b.intents)
    OBVIOUS
  <2>3. \A i \in 1 .. (n + 1) : i \in 1 .. n \/ i = n + 1
    BY <2>1
  <2> HIDE DEF sp, n
  <2>4. \A i, j \in 1 .. (n + 1) : i < j => i \in 1 .. n
    BY <2>1
  <2>5. ASSUME NEW i \in DOMAIN c.savepoints
        PROVE  /\ c.savepoints[i].write_log_position <= Len(c.changes)
               /\ c.savepoints[i].intent_log_position <= Len(c.intents)
    BY <1>1, <1>2, <2>1, <2>2, <2>3 DEF WellFormed, PositionsInv
  <2>6. ASSUME NEW i \in DOMAIN c.savepoints, NEW j \in DOMAIN c.savepoints, i < j
        PROVE  /\ c.savepoints[i].write_log_position <= c.savepoints[j].write_log_position
               /\ c.savepoints[i].intent_log_position <= c.savepoints[j].intent_log_position
    BY <1>1, <2>1, <2>2, <2>3, <2>4, <2>6 DEF WellFormed, PositionsInv
  <2> QED BY <2>5, <2>6 DEF PositionsInv
<1> QED BY <1>2, <1>4, <1>5, <1>6 DEF WellFormed, c

\* A rollback keeps a branch well formed, and what it read.
LEMMA RollbackFormed ==
    ASSUME NEW b, WellFormed(b), NEW id, HasSavepoint(b, id)
    PROVE  /\ WellFormed(RollbackToSavepoint(b, id))
           /\ RollbackToSavepoint(b, id).reads = b.reads
BY RollbackToSavepointType DEF WellFormed

\* What a rollback leaves of each log, and of the savepoints.
LEMMA RollbackFields ==
    ASSUME NEW b \in BranchContext, PositionsInv(b), NEW id, HasSavepoint(b, id)
    PROVE  LET c == RollbackToSavepoint(b, id)
               i == FirstSavepoint(b, id)
               p == b.savepoints[i].write_log_position
               q == b.savepoints[i].intent_log_position
               t == TruncateBuffer(b, p)
           IN  /\ i \in DOMAIN b.savepoints /\ b.savepoints[i].id = id
               /\ p \in 0 .. Len(b.changes) /\ q \in 0 .. Len(b.intents)
               /\ c.entries = t.entries /\ c.order = t.order /\ c.changes = t.changes
               /\ c.intents = SubSeq(b.intents, 1, q)
               /\ c.savepoints = SubSeq(b.savepoints, 1, i)
               /\ c.score = b.score
<1> DEFINE i == FirstSavepoint(b, id)
           p == b.savepoints[i].write_log_position
           q == b.savepoints[i].intent_log_position
           t == TruncateBuffer(b, p)
           u == TruncateIntents(t, q)
           c == RollbackToSavepoint(b, id)
<1>1. /\ b.savepoints \in Seq(Savepoint) /\ b.intents \in Seq(WriteIntent)
      /\ Len(b.changes) \in Nat /\ Len(b.intents) \in Nat
  BY BranchFields
<1>2. i \in DOMAIN b.savepoints /\ b.savepoints[i].id = id
  BY FirstSavepointIs
<1>3. p \in 0 .. Len(b.changes) /\ q \in 0 .. Len(b.intents)
  <2>1. p \in Nat /\ q \in Nat
    BY <1>2, SavepointFields
  <2> QED BY <1>1, <1>2, <2>1 DEF PositionsInv
<1>4. c = [u EXCEPT !.savepoints = SubSeq(@, 1, i)]
  BY DEF RollbackToSavepoint
<1>5. Shortened(b, t, p)
  <2> HIDE DEF p, i
  <2> QED BY <1>3, TruncateBufferShortens
<1> HIDE DEF p, q, i, t
<1>6. t \in BranchContext /\ t.intents = b.intents /\ t.savepoints = b.savepoints /\ t.score = b.score
  BY <1>5 DEF Shortened
<1>7. u = [t EXCEPT !.intents = SubSeq(b.intents, 1, q)]
  <2>1. CASE Len(t.intents) > q
    BY <1>6, <2>1 DEF TruncateIntents
  <2>2. CASE ~(Len(t.intents) > q)
    <3>1. u = t /\ Len(b.intents) = q
      BY <1>1, <1>3, <1>6, <2>2 DEF TruncateIntents
    <3>2. SubSeq(b.intents, 1, q) = t.intents
      BY <1>1, <1>6, <3>1
    <3>3. t = [t EXCEPT !.intents = t.intents]
      BY <1>6 DEF BranchContext
    <3> QED BY <3>1, <3>2, <3>3
  <2> QED BY <2>1, <2>2
<1> HIDE DEF u
<1>8. c = [t EXCEPT !.intents = SubSeq(b.intents, 1, q), !.savepoints = SubSeq(b.savepoints, 1, i)]
  BY <1>4, <1>6, <1>7 DEF BranchContext
<1> HIDE DEF c
<1>9. /\ c.entries = t.entries /\ c.order = t.order /\ c.changes = t.changes
      /\ c.intents = SubSeq(b.intents, 1, q) /\ c.savepoints = SubSeq(b.savepoints, 1, i)
      /\ c.score = b.score
  BY <1>6, <1>8 DEF BranchContext
<1> QED BY <1>2, <1>3, <1>9 DEF p, q, i, t, c

\* TruncateBuffer, one turn at a time.
LEMMA TruncateBufferNext ==
    ASSUME NEW b \in BranchContext
    PROVE  /\ TruncateBuffer(b, Len(b.changes)) = b
           /\ \A p \in 0 .. (Len(b.changes) - 1) :
                TruncateBuffer(b, p) = UndoLast(TruncateBuffer(b, p + 1))
<1> DEFINE n == Len(b.changes)
<1>1. n \in Nat
  BY BranchFields
<1>2. TruncateBuffer(b, n) = b
  BY <1>1, TruncateIsUndone
<1>3. ASSUME NEW p \in 0 .. (n - 1)
      PROVE  TruncateBuffer(b, p) = UndoLast(TruncateBuffer(b, p + 1))
  <2>1. Undone(b)[0] = b /\ \A i \in 1 .. n : Undone(b)[i] = UndoLast(Undone(b)[i - 1])
    BY <1>1, UndoneUnroll
  <2>2. n > p /\ n - p \in 1 .. n /\ (n - p) - 1 = n - (p + 1)
    BY <1>1
  <2>3. TruncateBuffer(b, p) = UndoLast(Undone(b)[n - (p + 1)])
    BY <2>1, <2>2, TruncateIsUndone
  <2>4. TruncateBuffer(b, p + 1) = Undone(b)[n - (p + 1)]
    <3>1. CASE n > p + 1
      BY <3>1, TruncateIsUndone
    <3>2. CASE ~(n > p + 1)
      <4>1. n = p + 1 /\ n - (p + 1) = 0
        BY <1>1, <2>2, <3>2
      <4> QED BY <1>2, <2>1, <4>1
    <3> QED BY <3>1, <3>2
  <2> QED BY <2>3, <2>4
<1> QED BY <1>2, <1>3

--------------------------------------------------------------------------------
(* The same calls on two branches, over two stores: `s` the one of the first *)
(* branch, `now` the one the second has come to.                             *)

\* The base of an entry is what a store holds.
SameBase(e, k, s) == e.base_version = s[k].version /\ e.base_value = s[k].value

\* It is what the store holds, or the store has moved on.
Pinned(e, k, now) == e.base_version < now[k].version \/ SameBase(e, k, now)

\* The entries agree if their bases do.
EntryMirrors(d, e, k, s, now) == Pinned(e, k, now) /\ (SameBase(e, k, s) => d = e)

ChangeMirrors(d, e, s, now) ==
    /\ d.object = e.object
    /\ d.previous = <<>> <=> e.previous = <<>>
    /\ e.previous # <<>> => EntryMirrors(d.previous[1], e.previous[1], e.object, s, now)

BufferMirrors(a, b, s, now) ==
    /\ a.order = b.order
    /\ DOMAIN a.entries = DOMAIN b.entries
    /\ \A k \in DOMAIN b.entries : EntryMirrors(a.entries[k], b.entries[k], k, s, now)
    /\ Len(a.changes) = Len(b.changes)
    /\ \A n \in DOMAIN b.changes : ChangeMirrors(a.changes[n], b.changes[n], s, now)

\* One turn of the loop of WriteBuffer::Truncate on both.
LEMMA UndoLastMirrors ==
    ASSUME NEW a \in BranchContext, NEW b \in BranchContext, NEW s, NEW now,
           BufferMirrors(a, b, s, now), b.changes # <<>>
    PROVE  BufferMirrors(UndoLast(a), UndoLast(b), s, now)
<1> DEFINE c == UndoLast(a)
           d == UndoLast(b)
           n == Len(b.changes)
           k == b.changes[n].object
           old == a.changes[n].previous
           previous == b.changes[n].previous
<1>1. /\ a.changes \in Seq(ChangeRecord) /\ b.changes \in Seq(ChangeRecord)
      /\ n \in Nat \ {0} /\ n \in DOMAIN b.changes /\ Len(a.changes) = n
      /\ n \in DOMAIN a.changes
  <2>1. a.changes \in Seq(ChangeRecord) /\ b.changes \in Seq(ChangeRecord)
    BY BranchFields
  <2> QED BY <2>1 DEF BufferMirrors
<1>2. ChangeMirrors(a.changes[n], b.changes[n], s, now)
  BY <1>1 DEF BufferMirrors
<1>3. a.changes[n].object = k /\ (old = <<>> <=> previous = <<>>)
      /\ (previous # <<>> => EntryMirrors(old[1], previous[1], k, s, now))
  BY <1>2 DEF ChangeMirrors
<1>4. /\ c.changes = SubSeq(a.changes, 1, n - 1)
      /\ c.entries = IF old = <<>> THEN [j \in DOMAIN a.entries \ {k} |-> a.entries[j]]
                     ELSE [a.entries EXCEPT ![k] = old[1]]
      /\ c.order = IF old = <<>> THEN EraseFirst(a.order, k) ELSE a.order
  <2> DEFINE change == a.changes[Len(a.changes)]
  <2>1. /\ c.changes = SubSeq(a.changes, 1, Len(a.changes) - 1)
        /\ c.entries = IF change.previous = <<>>
                       THEN [j \in DOMAIN a.entries \ {change.object} |-> a.entries[j]]
                       ELSE [a.entries EXCEPT ![change.object] = change.previous[1]]
        /\ c.order = IF change.previous = <<>>
                     THEN EraseFirst(a.order, change.object) ELSE a.order
    BY UndoLastFields
  <2>2. Len(a.changes) = n /\ change.object = k /\ change.previous = old
    BY <1>1, <1>3
  <2> HIDE DEF change, c, n, k, old
  <2> QED BY <2>1, <2>2
<1>5. /\ d.changes = SubSeq(b.changes, 1, n - 1)
      /\ d.entries = IF previous = <<>> THEN [j \in DOMAIN b.entries \ {k} |-> b.entries[j]]
                     ELSE [b.entries EXCEPT ![k] = previous[1]]
      /\ d.order = IF previous = <<>> THEN EraseFirst(b.order, k) ELSE b.order
  BY UndoLastFields
<1>6. /\ Len(c.changes) = n - 1 /\ Len(d.changes) = n - 1
      /\ DOMAIN d.changes = 1 .. (n - 1)
      /\ \A j \in 1 .. (n - 1) : c.changes[j] = a.changes[j] /\ d.changes[j] = b.changes[j]
                                 /\ j \in DOMAIN b.changes
  BY <1>1, <1>4, <1>5
<1>7. /\ DOMAIN a.entries = DOMAIN b.entries
      /\ \A j \in DOMAIN b.entries : EntryMirrors(a.entries[j], b.entries[j], j, s, now)
      /\ a.order = b.order
      /\ \A j \in DOMAIN b.changes : ChangeMirrors(a.changes[j], b.changes[j], s, now)
  BY DEF BufferMirrors
<1> HIDE DEF c, d, n, k, old, previous
<1>8. c.order = d.order
  <2>1. CASE previous = <<>>
    BY <1>3, <1>4, <1>5, <1>7, <2>1
  <2>2. CASE previous # <<>>
    BY <1>3, <1>4, <1>5, <1>7, <2>2
  <2> QED BY <2>1, <2>2
<1>9. DOMAIN c.entries = DOMAIN d.entries
      /\ \A j \in DOMAIN d.entries : EntryMirrors(c.entries[j], d.entries[j], j, s, now)
  <2>1. CASE previous = <<>>
    BY <1>3, <1>4, <1>5, <1>7, <2>1
  <2>2. CASE previous # <<>>
    BY <1>3, <1>4, <1>5, <1>7, <2>2
  <2> QED BY <2>1, <2>2
<1>10. \A j \in DOMAIN d.changes : ChangeMirrors(c.changes[j], d.changes[j], s, now)
  <2> TAKE j \in DOMAIN d.changes
  <2>1. c.changes[j] = a.changes[j] /\ d.changes[j] = b.changes[j] /\ j \in DOMAIN b.changes
    BY <1>6
  <2> QED BY <1>7, <2>1
<1> QED BY <1>6, <1>8, <1>9, <1>10 DEF BufferMirrors, c, d

\* The whole loop on both.
LEMMA TruncateMirrors ==
    ASSUME NEW a \in BranchContext, NEW b \in BranchContext, NEW s, NEW now,
           BufferMirrors(a, b, s, now), NEW p \in 0 .. Len(b.changes)
    PROVE  BufferMirrors(TruncateBuffer(a, p), TruncateBuffer(b, p), s, now)
<1> DEFINE n == Len(b.changes)
           Good(q) == BufferMirrors(TruncateBuffer(a, q), TruncateBuffer(b, q), s, now)
           S == {i \in 0 .. n : ~Good(n - i)}
<1>1. n \in Nat /\ Len(a.changes) = n
  BY BranchFields DEF BufferMirrors
<1>2. Good(n)
  <2>1. TruncateBuffer(a, n) = a /\ TruncateBuffer(b, n) = b
    BY <1>1, TruncateBufferNext
  <2> QED BY <2>1
<1>3. ASSUME NEW q \in 0 .. (n - 1), Good(q + 1)
      PROVE  Good(q)
  <2> DEFINE c == TruncateBuffer(a, q + 1)
             d == TruncateBuffer(b, q + 1)
  <2>1. q + 1 \in 0 .. n /\ q + 1 # 0
    BY <1>1
  <2>2. Shortened(a, c, q + 1) /\ Shortened(b, d, q + 1)
    BY <1>1, <2>1, TruncateBufferShortens
  <2>3. TruncateBuffer(a, q) = UndoLast(c) /\ TruncateBuffer(b, q) = UndoLast(d)
    BY <1>1, TruncateBufferNext
  <2>4. BufferMirrors(c, d, s, now)
    BY <1>3
  <2> HIDE DEF c, d, n
  <2>5. c \in BranchContext /\ d \in BranchContext /\ d.changes # <<>>
    <3>1. Len(<<>>) = 0
      OBVIOUS
    <3> QED BY <2>1, <2>2, <3>1 DEF Shortened
  <2> QED BY <2>3, <2>4, <2>5, UndoLastMirrors
<1> HIDE DEF Good
<1>4. ASSUME S # {} PROVE FALSE
  <2>1. PICK m \in S : \A j \in S : m <= j
    <3>1. S \in SUBSET (0 .. n)
      OBVIOUS
    <3> HIDE DEF S
    <3> QED BY <1>1, <1>4, <3>1, LeastIndex
  <2>2. m # 0
    BY <1>1, <1>2, <2>1
  <2>3. m \in 1 .. n /\ m - 1 \in 0 .. n /\ m - 1 \notin S
    BY <1>1, <2>1, <2>2
  <2>4. n - m \in 0 .. (n - 1) /\ (n - m) + 1 = n - (m - 1)
    BY <1>1, <2>3
  <2>5. Good(n - (m - 1))
    BY <2>3
  <2>6. Good(n - m)
    <3> HIDE DEF S, n
    <3> QED BY <1>3, <2>4, <2>5
  <2> QED BY <2>1, <2>6
<1>5. n - p \in 0 .. n /\ n - (n - p) = p
  BY <1>1
<1>6. Good(p)
  BY <1>4, <1>5
<1> QED BY <1>6 DEF Good

\* An intent and one that does the same to the buffer.
LEMMA EntryAfterMirrors ==
    ASSUME NEW a \in BranchContext, NEW b \in BranchContext,
           NEW s \in Store, NEW now \in Store, BufferMirrors(a, b, s, now),
           NEW x \in WriteIntent, NEW y \in WriteIntent,
           y.object = x.object, y.type = x.type, y.payload = x.payload
    PROVE  EntryMirrors(EntryAfter(a, y, s), EntryAfter(b, x, now), x.object, s, now)
<1> DEFINE k == x.object
           d == EntryBefore(a, k, s)
           e == EntryBefore(b, k, now)
           after(before) == [before EXCEPT
                                !.intent_type = x.type,
                                !.current_value = BufferedValue(before.base_value, @, x)]
<1>1. k \in Key /\ d \in CacheEntry /\ e \in CacheEntry
  BY EntryBeforeType DEF WriteIntent
<1>2. EntryAfter(b, x, now) = after(e)
  BY DEF EntryAfter
<1>3. EntryAfter(a, y, s) = after(d)
  <2>1. \A base, current : BufferedValue(base, current, y) = BufferedValue(base, current, x)
    BY DEF BufferedValue
  <2>2. EntryAfter(a, y, s) = [d EXCEPT
                                !.intent_type = y.type,
                                !.current_value = BufferedValue(d.base_value, @, y)]
    BY DEF EntryAfter
  <2> HIDE DEF d
  <2> QED BY <2>1, <2>2
<1>4. EntryMirrors(d, e, k, s, now)
  <2>1. CASE IsBuffered(b, k)
    BY <2>1 DEF BufferMirrors, EntryBefore, IsBuffered
  <2>2. CASE ~IsBuffered(b, k)
    <3>1. /\ e = [base_value |-> now[k].value, base_version |-> now[k].version,
                  current_value |-> now[k].value, intent_type |-> "Read"]
          /\ d = [base_value |-> s[k].value, base_version |-> s[k].version,
                  current_value |-> s[k].value, intent_type |-> "Read"]
      BY <2>2 DEF BufferMirrors, EntryBefore, IsBuffered
    <3> HIDE DEF d, e, k
    <3> QED BY <3>1 DEF EntryMirrors, Pinned, SameBase
  <2> QED BY <2>1, <2>2
<1>5. after(e).base_version = e.base_version /\ after(e).base_value = e.base_value
  <2> HIDE DEF e
  <2> QED BY <1>1 DEF CacheEntry
<1> HIDE DEF d, e, k, after
<1>6. d = e => after(d) = after(e)
  OBVIOUS
<1> QED BY <1>2, <1>3, <1>4, <1>5, <1>6 DEF EntryMirrors, Pinned, SameBase, k

\* What a write leaves of the fields other than the buffer.
LEMMA BufferWriteFields ==
    ASSUME NEW b \in BranchContext, NEW intent \in WriteIntent, NEW store
    PROVE  LET c == BufferWrite(b, intent, store)
           IN  /\ c.intents = Append(b.intents, intent)
               /\ c.savepoints = b.savepoints /\ c.score = b.score
BY DEF BufferWrite, Upsert, BranchContext

\* The same write on both buffers.
LEMMA BufferWriteMirrors ==
    ASSUME NEW a \in BranchContext, NEW b \in BranchContext,
           NEW s \in Store, NEW now \in Store, BufferMirrors(a, b, s, now),
           NEW x \in WriteIntent, NEW y \in WriteIntent,
           y.object = x.object, y.type = x.type, y.payload = x.payload
    PROVE  BufferMirrors(BufferWrite(a, y, s), BufferWrite(b, x, now), s, now)
<1> DEFINE k == x.object
           c == BufferWrite(a, y, s)
           d == BufferWrite(b, x, now)
           entryA == EntryAfter(a, y, s)
           entryB == EntryAfter(b, x, now)
           changeA == [object |-> k,
                       previous |-> IF IsBuffered(a, k) THEN <<a.entries[k]>> ELSE <<>>]
           changeB == [object |-> k,
                       previous |-> IF IsBuffered(b, k) THEN <<b.entries[k]>> ELSE <<>>]
           n == Len(b.changes)
<1>1. EntryMirrors(entryA, entryB, k, s, now)
  BY EntryAfterMirrors
<1>2. /\ c.changes = Append(a.changes, changeA)
      /\ c.order = IF IsBuffered(a, k) THEN a.order ELSE Append(a.order, k)
      /\ c.entries = [j \in DOMAIN a.entries \cup {k} |-> IF j = k THEN entryA ELSE a.entries[j]]
  <2>1. /\ c.changes = Append(a.changes,
                              [object |-> y.object,
                               previous |-> IF IsBuffered(a, y.object)
                                            THEN <<a.entries[y.object]>> ELSE <<>>])
        /\ c.order = IF IsBuffered(a, y.object) THEN a.order ELSE Append(a.order, y.object)
        /\ c.entries = [j \in DOMAIN a.entries \cup {y.object} |->
                            IF j = y.object THEN entryA ELSE a.entries[j]]
    BY DEF BufferWrite, Upsert, BranchContext
  <2> HIDE DEF c, entryA
  <2> QED BY <2>1
<1>3. /\ d.changes = Append(b.changes, changeB)
      /\ d.order = IF IsBuffered(b, k) THEN b.order ELSE Append(b.order, k)
      /\ d.entries = [j \in DOMAIN b.entries \cup {k} |-> IF j = k THEN entryB ELSE b.entries[j]]
  BY DEF BufferWrite, Upsert, BranchContext
<1>4. /\ a.changes \in Seq(ChangeRecord) /\ b.changes \in Seq(ChangeRecord)
      /\ n \in Nat /\ Len(a.changes) = n /\ DOMAIN b.changes = 1 .. n
  <2>1. a.changes \in Seq(ChangeRecord) /\ b.changes \in Seq(ChangeRecord)
    BY BranchFields
  <2> QED BY <2>1 DEF BufferMirrors
<1>5. /\ DOMAIN a.entries = DOMAIN b.entries /\ a.order = b.order
      /\ \A j \in DOMAIN b.entries : EntryMirrors(a.entries[j], b.entries[j], j, s, now)
      /\ \A j \in DOMAIN b.changes : ChangeMirrors(a.changes[j], b.changes[j], s, now)
  BY DEF BufferMirrors
<1>6. IsBuffered(a, k) <=> IsBuffered(b, k)
  BY <1>5 DEF IsBuffered
<1>7. ChangeMirrors(changeA, changeB, s, now)
  <2>1. CASE IsBuffered(b, k)
    <3>1. EntryMirrors(a.entries[k], b.entries[k], k, s, now)
      BY <1>5, <2>1 DEF IsBuffered
    <3>2. changeA = [object |-> k, previous |-> <<a.entries[k]>>]
          /\ changeB = [object |-> k, previous |-> <<b.entries[k]>>]
      BY <1>6, <2>1
    <3>3. \A u : <<u>> # <<>> /\ <<u>>[1] = u
      OBVIOUS
    <3> HIDE DEF changeA, changeB, k
    <3> QED BY <3>1, <3>2, <3>3 DEF ChangeMirrors
  <2>2. CASE ~IsBuffered(b, k)
    <3>1. changeA = [object |-> k, previous |-> <<>>] /\ changeB = [object |-> k, previous |-> <<>>]
      BY <1>6, <2>2
    <3> HIDE DEF changeA, changeB, k
    <3> QED BY <3>1 DEF ChangeMirrors
  <2> QED BY <2>1, <2>2
<1> HIDE DEF c, d, entryA, entryB, changeA, changeB, k, n
<1>8. /\ Len(c.changes) = n + 1 /\ Len(d.changes) = n + 1 /\ DOMAIN d.changes = 1 .. (n + 1)
      /\ c.changes[n + 1] = changeA /\ d.changes[n + 1] = changeB
      /\ \A j \in 1 .. n : c.changes[j] = a.changes[j] /\ d.changes[j] = b.changes[j]
  BY <1>2, <1>3, <1>4
<1>9. c.order = d.order
  <2>1. CASE IsBuffered(b, k)
    BY <1>2, <1>3, <1>5, <1>6, <2>1
  <2>2. CASE ~IsBuffered(b, k)
    BY <1>2, <1>3, <1>5, <1>6, <2>2
  <2> QED BY <2>1, <2>2
<1>10. /\ DOMAIN c.entries = DOMAIN d.entries
       /\ \A j \in DOMAIN d.entries : EntryMirrors(c.entries[j], d.entries[j], j, s, now)
  BY <1>1, <1>2, <1>3, <1>5
<1>11. \A j \in DOMAIN d.changes : ChangeMirrors(c.changes[j], d.changes[j], s, now)
  <2> TAKE j \in DOMAIN d.changes
  <2>1. j = n + 1 \/ j \in 1 .. n
    BY <1>4, <1>8
  <2>2. CASE j = n + 1
    BY <1>7, <1>8, <2>2
  <2>3. CASE j \in 1 .. n
    <3>1. c.changes[j] = a.changes[j] /\ d.changes[j] = b.changes[j]
      BY <1>8, <2>3
    <3>2. ChangeMirrors(a.changes[j], b.changes[j], s, now)
      BY <1>4, <1>5, <2>3
    <3> QED BY <3>1, <3>2
  <2> QED BY <2>1, <2>2, <2>3
<1> QED BY <1>8, <1>9, <1>10, <1>11 DEF BufferMirrors, c, d

\* Branches with the same savepoints find the same one.
LEMMA FirstSavepointSame ==
    ASSUME NEW a \in BranchContext, NEW b \in BranchContext, a.savepoints = b.savepoints,
           NEW id, HasSavepoint(b, id)
    PROVE  HasSavepoint(a, id) /\ FirstSavepoint(a, id) = FirstSavepoint(b, id)
<1> DEFINE i == FirstSavepoint(a, id)
           j == FirstSavepoint(b, id)
<1>1. HasSavepoint(a, id)
  BY DEF HasSavepoint
<1>2. /\ i \in DOMAIN b.savepoints /\ b.savepoints[i].id = id
      /\ \A n \in 1 .. (i - 1) : b.savepoints[n].id # id
  BY <1>1, FirstSavepointIs
<1>3. /\ j \in DOMAIN b.savepoints /\ b.savepoints[j].id = id
      /\ \A n \in 1 .. (j - 1) : b.savepoints[n].id # id
  BY FirstSavepointIs
<1>4. Len(b.savepoints) \in Nat /\ DOMAIN b.savepoints = 1 .. Len(b.savepoints)
  BY BranchFields
<1> HIDE DEF i, j
<1>5. i = j
  <2>1. ~(i < j) /\ ~(j < i)
    BY <1>2, <1>3, <1>4
  <2> QED BY <1>2, <1>3, <1>4, <2>1
<1> QED BY <1>1, <1>5 DEF i, j

\* The same rollback on both.
LEMMA RollbackMirrors ==
    ASSUME NEW a, WellFormed(a), NEW b, WellFormed(b), NEW s, NEW now,
           BufferMirrors(a, b, s, now), a.savepoints = b.savepoints,
           NEW id, HasSavepoint(b, id)
    PROVE  /\ HasSavepoint(a, id)
           /\ BufferMirrors(RollbackToSavepoint(a, id), RollbackToSavepoint(b, id), s, now)
<1> DEFINE i == FirstSavepoint(b, id)
           p == b.savepoints[i].write_log_position
           c == RollbackToSavepoint(a, id)
           d == RollbackToSavepoint(b, id)
           t == TruncateBuffer(a, p)
           u == TruncateBuffer(b, p)
<1>1. a \in BranchContext /\ b \in BranchContext /\ PositionsInv(a) /\ PositionsInv(b)
  BY DEF WellFormed
<1>2. HasSavepoint(a, id) /\ FirstSavepoint(a, id) = i
  BY <1>1, FirstSavepointSame
<1>3. /\ c.entries = t.entries /\ c.order = t.order /\ c.changes = t.changes
  <2> DEFINE j == FirstSavepoint(a, id)
             q == a.savepoints[j].write_log_position
             v == TruncateBuffer(a, q)
  <2>1. c.entries = v.entries /\ c.order = v.order /\ c.changes = v.changes
    BY <1>1, <1>2, RollbackFields
  <2>2. q = p
    BY <1>2
  <2> HIDE DEF c, p, q
  <2> QED BY <2>1, <2>2
<1>4. /\ d.entries = u.entries /\ d.order = u.order /\ d.changes = u.changes
      /\ p \in 0 .. Len(b.changes)
  BY <1>1, RollbackFields
<1>5. BufferMirrors(t, u, s, now)
  <2> HIDE DEF p
  <2> QED BY <1>1, <1>4, TruncateMirrors
<1> HIDE DEF c, d, t, u, p, i
<1>6. BufferMirrors(c, d, s, now)
  BY <1>3, <1>4, <1>5 DEF BufferMirrors
<1> QED BY <1>2, <1>6 DEF c, d

\* The store has moved on.
MovesOn(now, next) ==
    \A k \in Key : next[k] = now[k] \/ next[k].version > now[k].version

\* What mirrors does so when the store has moved on.
LEMMA MirrorsAdvance ==
    ASSUME NEW a, NEW b \in BranchContext, NEW s,
           NEW now \in Store, NEW next \in Store, MovesOn(now, next),
           BufferMirrors(a, b, s, now)
    PROVE  BufferMirrors(a, b, s, next)
<1>1. ASSUME NEW d, NEW e \in CacheEntry, NEW k \in Key, EntryMirrors(d, e, k, s, now)
      PROVE  EntryMirrors(d, e, k, s, next)
  <2>1. e.base_version \in Nat /\ now[k].version \in Nat /\ next[k].version \in Nat
    BY DEF CacheEntry, Store, VersionedValue
  <2>2. next[k] = now[k] \/ next[k].version > now[k].version
    BY DEF MovesOn
  <2>3. Pinned(e, k, now) => Pinned(e, k, next)
    <3>1. CASE next[k] = now[k]
      BY <3>1 DEF Pinned, SameBase
    <3>2. CASE next[k].version > now[k].version
      <4>1. Pinned(e, k, now) => e.base_version <= now[k].version
        BY <2>1 DEF Pinned, SameBase
      <4> QED BY <2>1, <3>2, <4>1 DEF Pinned
    <3> QED BY <2>2, <3>1, <3>2
  <2> QED BY <1>1, <2>3 DEF EntryMirrors
<1>2. /\ DOMAIN b.entries \in SUBSET Key /\ b.entries \in [DOMAIN b.entries -> CacheEntry]
      /\ \A i \in DOMAIN b.changes :
            b.changes[i].object \in Key /\ b.changes[i].previous \in Seq(CacheEntry)
  BY BranchFields
<1>3. \A k \in DOMAIN b.entries : EntryMirrors(a.entries[k], b.entries[k], k, s, next)
  <2> TAKE k \in DOMAIN b.entries
  <2>1. k \in Key /\ b.entries[k] \in CacheEntry
    BY <1>2
  <2>2. EntryMirrors(a.entries[k], b.entries[k], k, s, now)
    BY DEF BufferMirrors
  <2> QED BY <1>1, <2>1, <2>2
<1>4. \A n \in DOMAIN b.changes : ChangeMirrors(a.changes[n], b.changes[n], s, next)
  <2> TAKE n \in DOMAIN b.changes
  <2> DEFINE e == b.changes[n]
             d == a.changes[n]
  <2>1. ChangeMirrors(d, e, s, now)
    BY DEF BufferMirrors
  <2>2. e.object \in Key /\ e.previous \in Seq(CacheEntry)
    BY <1>2
  <2> HIDE DEF d, e
  <2>3. e.previous # <<>> => e.previous[1] \in CacheEntry
    BY <2>2
  <2>4. ChangeMirrors(d, e, s, next)
    BY <1>1, <2>1, <2>2, <2>3 DEF ChangeMirrors
  <2> QED BY <2>4 DEF d, e
<1> QED BY <1>3, <1>4 DEF BufferMirrors

\* Put moves the store on.
LEMMA PutMovesOn ==
    ASSUME NEW store \in Store, NEW k \in Key, NEW value
    PROVE  MovesOn(store, Put(store, k, value))
BY DEF MovesOn, Put, Stored, Store, VersionedValue

\* A batch moves the store on.
LEMMA BatchPutMovesOn ==
    ASSUME NEW store \in Store, NEW writes
    PROVE  MovesOn(store, BatchPut(store, writes))
BY DEF MovesOn, BatchPut, Stored, Store, VersionedValue
=================================================================================
