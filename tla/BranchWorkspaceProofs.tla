------------------------- MODULE BranchWorkspaceProofs -------------------------
(****************************************************************************)
(* Invariants of BranchWorkspace for any keys, texts, intents, savepoint    *)
(* names and bounds, and the proof that the undo log implements savepoints  *)
(* that keep copies.                                                        *)
(****************************************************************************)
EXTENDS BranchWorkspace, BranchProofs

--------------------------------------------------------------------------------
(* The replay of the intents, unrolled step by step.                         *)

\* One step of the replay of intents on an object.
NextValue(intents, k, base, value, n) ==
    IF intents[n].object = k THEN BufferedValue(base, value, intents[n]) ELSE value

Replays(intents, k, base, m, f) ==
    f = [n \in 0 .. m |-> IF n = 0 THEN base
                          ELSE IF intents[n].object = k
                               THEN BufferedValue(base, f[n - 1], intents[n])
                               ELSE f[n - 1]]

\* Any number of intents can be replayed.
LEMMA ReplaysExists ==
    ASSUME NEW intents, NEW k, NEW base, NEW m \in Nat
    PROVE  \E f : Replays(intents, k, base, m, f)
<1> DEFINE S == {n \in 0 .. m : ~\E f : Replays(intents, k, base, n, f)}
<1>1. SUFFICES ASSUME S # {} PROVE FALSE
  OBVIOUS
<1>2. PICK n \in S : \A j \in S : n <= j
  <2> HIDE DEF S
  <2>1. S \in SUBSET (0 .. m)
    BY DEF S
  <2> QED BY <1>1, <2>1, LeastIndex
<1>3. CASE n = 0
  <2> DEFINE f == [i \in 0 .. 0 |-> base]
  <2>1. Replays(intents, k, base, 0, f)
    BY DEF Replays
  <2> QED BY <1>2, <1>3, <2>1
<1>4. CASE n # 0
  <2>1. n \in Nat /\ n - 1 \in 0 .. m /\ n - 1 \notin S
    BY <1>2, <1>4
  <2>2. PICK g : Replays(intents, k, base, n - 1, g)
    BY <2>1
  <2> DEFINE f == [i \in 0 .. n |-> IF i = n THEN NextValue(intents, k, base, g[n - 1], n) ELSE g[i]]
  <2>3. \A i \in 0 .. (n - 1) :
            f[i] = g[i] /\ g[i] = IF i = 0 THEN base ELSE NextValue(intents, k, base, g[i - 1], i)
    BY <2>1, <2>2 DEF Replays, NextValue
  <2>4. f[n] = NextValue(intents, k, base, f[n - 1], n)
    BY <2>1, <2>3
  <2>5. \A i \in 0 .. n : f[i] = IF i = 0 THEN base ELSE NextValue(intents, k, base, f[i - 1], i)
    <3> SUFFICES ASSUME NEW i \in 0 .. n
                 PROVE  f[i] = IF i = 0 THEN base ELSE NextValue(intents, k, base, f[i - 1], i)
      OBVIOUS
    <3>1. CASE i = n
      BY <1>4, <2>4, <3>1
    <3>2. CASE i # n
      <4>1. i \in 0 .. (n - 1) /\ (i # 0 => i - 1 \in 0 .. (n - 1))
        BY <2>1, <3>2
      <4> HIDE DEF f
      <4> QED BY <2>3, <4>1
    <3> QED BY <3>1, <3>2
  <2>6. Replays(intents, k, base, n, f)
    <3>1. f = [i \in 0 .. n |-> f[i]]
      OBVIOUS
    <3> HIDE DEF f
    <3> QED BY <2>5, <3>1 DEF Replays, NextValue
  <2> QED BY <1>2, <2>6
<1> QED BY <1>3, <1>4

\* The steps of the replay.
LEMMA ValueAfterUnroll ==
    ASSUME NEW intents, NEW k, NEW base, Len(intents) \in Nat
    PROVE  /\ ValueAfter(intents, k, base)[0] = base
           /\ \A n \in 1 .. Len(intents) :
                ValueAfter(intents, k, base)[n]
                    = NextValue(intents, k, base, ValueAfter(intents, k, base)[n - 1], n)
<1> DEFINE m == Len(intents)
           v == ValueAfter(intents, k, base)
<1>1. v = CHOOSE f : Replays(intents, k, base, m, f)
  BY DEF ValueAfter, Replays
<1>2. Replays(intents, k, base, m, v)
  <2> HIDE DEF m, v
  <2>1. \E f : Replays(intents, k, base, m, f)
    BY ReplaysExists DEF m
  <2> QED BY <1>1, <2>1
<1> HIDE DEF v
<1>3. v[0] = base /\ \A n \in 1 .. m : v[n] = NextValue(intents, k, base, v[n - 1], n)
  BY <1>2 DEF Replays, NextValue
<1> QED BY <1>3 DEF v

\* The replay of two logs agrees as long as the logs do.
LEMMA ValueAfterPrefix ==
    ASSUME NEW r, NEW s, NEW k, NEW base, Len(r) \in Nat, Len(s) \in Nat,
           NEW m \in Nat, m <= Len(r), m <= Len(s), \A n \in 1 .. m : r[n] = s[n]
    PROVE  \A n \in 0 .. m : ValueAfter(r, k, base)[n] = ValueAfter(s, k, base)[n]
<1> DEFINE v == ValueAfter(r, k, base)
           w == ValueAfter(s, k, base)
           S == {n \in 0 .. m : v[n] # w[n]}
<1>1. SUFFICES ASSUME S # {} PROVE FALSE
  OBVIOUS
<1>2. /\ v[0] = base /\ \A n \in 1 .. m : v[n] = NextValue(r, k, base, v[n - 1], n)
      /\ w[0] = base /\ \A n \in 1 .. m : w[n] = NextValue(s, k, base, w[n - 1], n)
  <2>1. \A n \in 1 .. m : n \in 1 .. Len(r) /\ n \in 1 .. Len(s)
    OBVIOUS
  <2> HIDE DEF v, w
  <2> QED BY <2>1, ValueAfterUnroll DEF v, w
<1> HIDE DEF v, w
<1>3. PICK n \in S : \A j \in S : n <= j
  <2> HIDE DEF S
  <2>1. S \in SUBSET (0 .. m)
    BY DEF S
  <2> QED BY <1>1, <2>1, LeastIndex
<1>4. n # 0 /\ n \in 1 .. m /\ n - 1 \in 0 .. m /\ n - 1 \notin S
  BY <1>2, <1>3
<1>5. v[n - 1] = w[n - 1] /\ r[n] = s[n]
  BY <1>4
<1> QED BY <1>2, <1>3, <1>4, <1>5 DEF NextValue

--------------------------------------------------------------------------------
(* The undo log of a branch.                                                 *)

\* The i-th change is the first of its object, or the last; it follows another.
FirstOn(b, i) == \A j \in 1 .. (i - 1) : b.changes[j].object # b.changes[i].object

LastOn(b, i) == \A j \in DOMAIN b.changes : j > i => b.changes[j].object # b.changes[i].object

Follows(b, i, n) ==
    /\ i < n /\ b.changes[n].object = b.changes[i].object
    /\ \A j \in (i + 1) .. (n - 1) : b.changes[j].object # b.changes[i].object

\* Every change is of a buffered object, and the first of an object, and no
\* other, has nothing to go back to.
ChangesInv(b) ==
    \A i \in DOMAIN b.changes :
        /\ b.changes[i].object \in DOMAIN b.entries
        /\ b.changes[i].previous = <<>> <=> FirstOn(b, i)
        /\ b.changes[i].previous # <<>> => Len(b.changes[i].previous) = 1

BufferedInv(b) ==
    \A k \in DOMAIN b.entries : \E i \in DOMAIN b.changes : b.changes[i].object = k

\* The order lists the buffered objects once, by their first changes.
SortedInv(b) ==
    /\ {b.order[i] : i \in DOMAIN b.order} = DOMAIN b.entries
    /\ \A i, j \in DOMAIN b.order : b.order[i] = b.order[j] => i = j
    /\ \A i, j \in DOMAIN b.order, m, n \in DOMAIN b.changes :
        (/\ i < j
         /\ b.changes[m].object = b.order[i] /\ FirstOn(b, m)
         /\ b.changes[n].object = b.order[j] /\ FirstOn(b, n)) => m < n

\* A change stands for the intent at its position; the intent log may be longer
\* while RollbackToSavepoint is between its two truncations.
LoggedInv(b) ==
    /\ Len(b.changes) <= Len(b.intents)
    /\ \A i \in DOMAIN b.changes : b.intents[i].object = b.changes[i].object

\* An entry, current or recorded, has the type of the intent that made it,
TypesInv(b) ==
    /\ \A i \in DOMAIN b.changes : LastOn(b, i) =>
            b.entries[b.changes[i].object].intent_type = b.intents[i].type
    /\ \A i, n \in DOMAIN b.changes : Follows(b, i, n) =>
            b.changes[n].previous[1].intent_type = b.intents[i].type

\* the base of the object's first write,
BasesInv(b) ==
    \A n \in DOMAIN b.changes : b.changes[n].previous # <<>> =>
        /\ b.changes[n].previous[1].base_value = b.entries[b.changes[n].object].base_value
        /\ b.changes[n].previous[1].base_version = b.entries[b.changes[n].object].base_version

\* and the value that the intents up to it make of the base.
ValuesInv(b) ==
    /\ \A k \in DOMAIN b.entries :
        b.entries[k].current_value
            = ValueAfter(b.intents, k, b.entries[k].base_value)[Len(b.changes)]
    /\ \A n \in DOMAIN b.changes : b.changes[n].previous # <<>> =>
        b.changes[n].previous[1].current_value
            = ValueAfter(b.intents, b.changes[n].object,
                         b.entries[b.changes[n].object].base_value)[n - 1]

Consistent(b) ==
    /\ ChangesInv(b) /\ BufferedInv(b) /\ SortedInv(b)
    /\ LoggedInv(b) /\ TypesInv(b) /\ BasesInv(b) /\ ValuesInv(b)

\* The last of the order is erased by cutting it off.
LEMMA EraseLast ==
    ASSUME NEW order \in Seq(Key), NEW k, order # <<>>, order[Len(order)] = k,
           \A i, j \in DOMAIN order : order[i] = order[j] => i = j
    PROVE  EraseFirst(order, k) = SubSeq(order, 1, Len(order) - 1)
<1> DEFINE n == Len(order)
           found == {i \in DOMAIN order : order[i] = k}
           first == CHOOSE i \in found : \A j \in found : i <= j
<1>1. n \in Nat /\ n \in DOMAIN order
  OBVIOUS
<1>2. found = {n}
  BY <1>1
<1>3. first = n
  <2>1. \E i \in found : \A j \in found : i <= j
    BY <1>1, <1>2
  <2> HIDE DEF found
  <2>2. first \in found
    BY <2>1
  <2> QED BY <1>2, <2>2
<1>4. EraseFirst(order, k) = SubSeq(order, 1, first - 1) \o SubSeq(order, first + 1, Len(order))
  BY <1>2 DEF EraseFirst
<1>5. SubSeq(order, n + 1, Len(order)) = <<>>
  BY <1>1
<1> HIDE DEF first, found
<1>6. SubSeq(order, 1, n - 1) \o <<>> = SubSeq(order, 1, n - 1)
  <2>1. SubSeq(order, 1, n - 1) \in Seq(Key)
    BY <1>1
  <2> QED BY <2>1
<1> QED BY <1>3, <1>4, <1>5, <1>6

\* An object with a change has a first one, and a buffered object has one.
LEMMA FirstChange ==
    ASSUME NEW b \in BranchContext, NEW i \in DOMAIN b.changes
    PROVE  \E m \in DOMAIN b.changes :
              m <= i /\ FirstOn(b, m) /\ b.changes[m].object = b.changes[i].object
<1> DEFINE S == {j \in DOMAIN b.changes : b.changes[j].object = b.changes[i].object}
<1>1. b.changes \in Seq(ChangeRecord) /\ Len(b.changes) \in Nat /\ DOMAIN b.changes = 1 .. Len(b.changes)
  BY BranchFields
<1>2. S \in SUBSET (0 .. Len(b.changes)) /\ S # {}
  BY <1>1
<1>3. PICK m \in S : \A j \in S : m <= j
  <2> HIDE DEF S
  <2> QED BY <1>1, <1>2, LeastIndex
<1>4. m <= i /\ i \in S
  BY <1>3
<1>5. FirstOn(b, m)
  BY <1>1, <1>3 DEF FirstOn
<1> QED BY <1>3, <1>4, <1>5

\* The last change of a consistent branch, when it is the first of its object,
\* is of the last object of the order.
LEMMA LastIsNewest ==
    ASSUME NEW b \in BranchContext, Consistent(b), b.changes # <<>>,
           b.changes[Len(b.changes)].previous = <<>>
    PROVE  b.order # <<>> /\ b.order[Len(b.order)] = b.changes[Len(b.changes)].object
<1> DEFINE n == Len(b.changes)
           k == b.changes[n].object
<1>1. /\ b.changes \in Seq(ChangeRecord) /\ n \in Nat /\ n \in DOMAIN b.changes
      /\ b.order \in Seq(Key) /\ Len(b.order) \in Nat
      /\ DOMAIN b.order = 1 .. Len(b.order) /\ DOMAIN b.changes = 1 .. n
  BY BranchFields
<1>2. FirstOn(b, n) /\ k \in DOMAIN b.entries
  BY <1>1 DEF Consistent, ChangesInv
<1>3. PICK i \in DOMAIN b.order : b.order[i] = k
  BY <1>2 DEF Consistent, SortedInv
<1>4. ASSUME i # Len(b.order) PROVE FALSE
  <2> DEFINE j == Len(b.order)
  <2>1. j \in DOMAIN b.order /\ i < j
    BY <1>1, <1>3, <1>4
  <2>2. b.order[j] \in DOMAIN b.entries
    BY <2>1 DEF Consistent, SortedInv
  <2>3. PICK l \in DOMAIN b.changes : b.changes[l].object = b.order[j]
    BY <2>2 DEF Consistent, BufferedInv
  <2>4. PICK m \in DOMAIN b.changes : FirstOn(b, m) /\ b.changes[m].object = b.order[j]
    BY <2>3, FirstChange
  <2>5. n < m
    BY <1>1, <1>2, <1>3, <2>1, <2>4 DEF Consistent, SortedInv
  <2> QED BY <1>1, <2>4, <2>5
<1> QED BY <1>1, <1>3, <1>4

\* A branch one change back, read element by element.
OneBack(b, c) ==
    LET n == Len(b.changes)
        k == b.changes[n].object
    IN  /\ b.changes \in Seq(ChangeRecord) /\ c.changes \in Seq(ChangeRecord)
        /\ b.order \in Seq(Key) /\ c.order \in Seq(Key)
        /\ n \in Nat \ {0} /\ DOMAIN b.changes = 1 .. n /\ DOMAIN c.changes = 1 .. (n - 1)
        /\ Len(c.changes) = n - 1
        /\ \A i \in 1 .. (n - 1) : c.changes[i] = b.changes[i]
        /\ \A j \in DOMAIN b.entries \ {k} : j \in DOMAIN c.entries /\ c.entries[j] = b.entries[j]
        /\ b.changes[n].previous = <<>> =>
            /\ DOMAIN c.entries = DOMAIN b.entries \ {k}
            /\ Len(b.order) \in Nat \ {0} /\ b.order[Len(b.order)] = k
            /\ DOMAIN b.order = 1 .. Len(b.order) /\ DOMAIN c.order = 1 .. (Len(b.order) - 1)
            /\ Len(c.order) = Len(b.order) - 1
            /\ \A i \in 1 .. (Len(b.order) - 1) : c.order[i] = b.order[i]
        /\ b.changes[n].previous # <<>> =>
            /\ DOMAIN c.entries = DOMAIN b.entries
            /\ c.entries[k] = b.changes[n].previous[1]
            /\ c.order = b.order
        /\ c.intents = b.intents

\* One turn of the loop goes one change back, and leaves the rest alone.
LEMMA UndoLastBack ==
    ASSUME NEW b \in BranchContext, Consistent(b), b.changes # <<>>
    PROVE  LET c == UndoLast(b)
           IN  /\ OneBack(b, c) /\ c \in BranchContext
               /\ c.savepoints = b.savepoints /\ c.reads = b.reads
               /\ c.status = b.status /\ c.score = b.score
<1> DEFINE c == UndoLast(b)
           n == Len(b.changes)
           k == b.changes[n].object
           previous == b.changes[n].previous
<1>1. /\ b.changes \in Seq(ChangeRecord) /\ n \in Nat \ {0} /\ DOMAIN b.changes = 1 .. n
      /\ b.order \in Seq(Key) /\ Len(b.order) \in Nat /\ DOMAIN b.order = 1 .. Len(b.order)
  BY BranchFields
<1>2. k \in Key /\ previous \in Seq(CacheEntry) /\ k \in DOMAIN b.entries
      /\ (previous # <<>> => Len(previous) = 1)
  <2>1. n \in DOMAIN b.changes
    BY <1>1
  <2>2. k \in Key /\ previous \in Seq(CacheEntry)
    BY <2>1, BranchFields
  <2>3. k \in DOMAIN b.entries /\ (previous # <<>> => Len(previous) = 1)
    BY <2>1 DEF Consistent, ChangesInv
  <2> QED BY <2>2, <2>3
<1>3. DOMAIN b.entries \in SUBSET Key /\ b.entries \in [DOMAIN b.entries -> CacheEntry]
  BY BranchFields
<1>4. /\ c.changes = SubSeq(b.changes, 1, n - 1)
      /\ c.entries = IF previous = <<>> THEN [j \in DOMAIN b.entries \ {k} |-> b.entries[j]]
                     ELSE [b.entries EXCEPT ![k] = previous[1]]
      /\ c.order = IF previous = <<>> THEN EraseFirst(b.order, k) ELSE b.order
      /\ c.intents = b.intents /\ c.savepoints = b.savepoints
      /\ c.reads = b.reads /\ c.status = b.status /\ c.score = b.score
  BY UndoLastFields
<1>5. previous = <<>> =>
        /\ Len(b.order) \in Nat \ {0} /\ b.order[Len(b.order)] = k
        /\ c.order = SubSeq(b.order, 1, Len(b.order) - 1)
  <2> SUFFICES ASSUME previous = <<>>
               PROVE  /\ Len(b.order) \in Nat \ {0} /\ b.order[Len(b.order)] = k
                      /\ c.order = SubSeq(b.order, 1, Len(b.order) - 1)
    OBVIOUS
  <2>1. b.order # <<>> /\ b.order[Len(b.order)] = k
    BY LastIsNewest
  <2>2. \A i, j \in DOMAIN b.order : b.order[i] = b.order[j] => i = j
    BY DEF Consistent, SortedInv
  <2>3. EraseFirst(b.order, k) = SubSeq(b.order, 1, Len(b.order) - 1)
    BY <1>1, <2>1, <2>2, EraseLast
  <2> QED BY <1>1, <1>4, <2>1, <2>3
<1>6. c.changes \in Seq(ChangeRecord) /\ DOMAIN c.changes = 1 .. (n - 1) /\ Len(c.changes) = n - 1
      /\ \A i \in 1 .. (n - 1) : c.changes[i] = b.changes[i]
  BY <1>1, <1>4
<1>7. previous # <<>> => previous[1] \in CacheEntry
  BY <1>2
<1>8. /\ DOMAIN c.entries \in SUBSET Key /\ c.entries \in [DOMAIN c.entries -> CacheEntry]
      /\ \A j \in DOMAIN b.entries \ {k} : j \in DOMAIN c.entries /\ c.entries[j] = b.entries[j]
      /\ previous = <<>> => DOMAIN c.entries = DOMAIN b.entries \ {k}
      /\ previous # <<>> => DOMAIN c.entries = DOMAIN b.entries /\ c.entries[k] = previous[1]
  <2>1. CASE previous = <<>>
    BY <1>3, <1>4, <2>1
  <2>2. CASE previous # <<>>
    BY <1>2, <1>3, <1>4, <1>7, <2>2
  <2> QED BY <2>1, <2>2
<1>9. previous = <<>> =>
        /\ c.order \in Seq(Key) /\ DOMAIN c.order = 1 .. (Len(b.order) - 1)
        /\ Len(c.order) = Len(b.order) - 1
        /\ \A i \in 1 .. (Len(b.order) - 1) : c.order[i] = b.order[i]
  <2> HIDE DEF c, k, previous
  <2>1. ASSUME NEW s \in Seq(Key), Len(s) \in Nat \ {0}
        PROVE  /\ SubSeq(s, 1, Len(s) - 1) \in Seq(Key)
               /\ DOMAIN SubSeq(s, 1, Len(s) - 1) = 1 .. (Len(s) - 1)
               /\ Len(SubSeq(s, 1, Len(s) - 1)) = Len(s) - 1
               /\ \A i \in 1 .. (Len(s) - 1) : SubSeq(s, 1, Len(s) - 1)[i] = s[i]
    <3> DEFINE m == Len(s) - 1
               t == SubSeq(s, 1, m)
    <3>1. m \in Nat /\ m <= Len(s)
      BY <2>1
    <3> HIDE DEF m
    <3>2. t \in Seq(Key) /\ Len(t) = m /\ DOMAIN t = 1 .. m /\ \A i \in 1 .. m : t[i] = s[i]
      BY <3>1
    <3> QED BY <3>2 DEF m
  <2> QED BY <1>1, <1>5, <2>1
<1>10. c.order \in Seq(Key) /\ (previous # <<>> => c.order = b.order)
  BY <1>1, <1>4, <1>9
<1>11. c \in BranchContext
  <2>1. c.entries \in Entries
    BY <1>8, EntriesDef
  <2>2. c = [b EXCEPT !.changes = c.changes, !.entries = c.entries, !.order = c.order]
    BY DEF UndoLast, BranchContext
  <2> HIDE DEF c
  <2> QED BY <2>1, <2>2, <1>6, <1>10 DEF BranchContext
<1> HIDE DEF c
<1>12. OneBack(b, c)
  BY <1>1, <1>4, <1>5, <1>6, <1>8, <1>9, <1>10 DEF OneBack
<1> QED BY <1>4, <1>11, <1>12 DEF c

\* Going one change back, the other changes are where they were.
LEMMA BackChanges ==
    ASSUME NEW b, NEW c, OneBack(b, c)
    PROVE  LET n == Len(b.changes)
           IN  /\ \A i \in 1 .. (n - 1) : FirstOn(c, i) <=> FirstOn(b, i)
               /\ \A i, j \in 1 .. (n - 1) : Follows(c, i, j) <=> Follows(b, i, j)
               /\ \A i \in 1 .. (n - 1) : LastOn(c, i) =>
                    IF b.changes[i].object = b.changes[n].object THEN Follows(b, i, n)
                    ELSE LastOn(b, i)
<1> DEFINE n == Len(b.changes)
<1>1. /\ n \in Nat \ {0} /\ DOMAIN b.changes = 1 .. n /\ DOMAIN c.changes = 1 .. (n - 1)
      /\ \A i \in 1 .. (n - 1) : c.changes[i] = b.changes[i]
  BY DEF OneBack
<1>2. \A i \in 1 .. (n - 1) : FirstOn(c, i) <=> FirstOn(b, i)
  <2> SUFFICES ASSUME NEW i \in 1 .. (n - 1) PROVE FirstOn(c, i) <=> FirstOn(b, i)
    OBVIOUS
  <2>1. \A j \in 1 .. (i - 1) : j \in 1 .. (n - 1)
    BY <1>1
  <2> QED BY <1>1, <2>1 DEF FirstOn
<1>3. \A i, j \in 1 .. (n - 1) : Follows(c, i, j) <=> Follows(b, i, j)
  <2> SUFFICES ASSUME NEW i \in 1 .. (n - 1), NEW j \in 1 .. (n - 1)
               PROVE  Follows(c, i, j) <=> Follows(b, i, j)
    OBVIOUS
  <2>1. \A l \in (i + 1) .. (j - 1) : l \in 1 .. (n - 1)
    BY <1>1
  <2> QED BY <1>1, <2>1 DEF Follows
<1>4. ASSUME NEW i \in 1 .. (n - 1), LastOn(c, i)
      PROVE  IF b.changes[i].object = b.changes[n].object THEN Follows(b, i, n) ELSE LastOn(b, i)
  <2>1. \A j \in 1 .. (n - 1) : j > i => b.changes[j].object # b.changes[i].object
    BY <1>1, <1>4 DEF LastOn
  <2>2. i < n /\ \A j \in (i + 1) .. (n - 1) : j \in 1 .. (n - 1) /\ j > i
    BY <1>1
  <2>3. \A j \in 1 .. n : j > i => j \in 1 .. (n - 1) \/ j = n
    BY <1>1
  <2>4. b.changes[i].object = b.changes[n].object => Follows(b, i, n)
    BY <2>1, <2>2 DEF Follows
  <2>5. b.changes[i].object # b.changes[n].object => LastOn(b, i)
    BY <1>1, <2>1, <2>3 DEF LastOn
  <2> QED BY <2>4, <2>5
<1> QED BY <1>2, <1>3, <1>4

\* One turn of the loop keeps the log consistent.
LEMMA BackConsistent ==
    ASSUME NEW b \in BranchContext, NEW c \in BranchContext, Consistent(b), OneBack(b, c)
    PROVE  Consistent(c)
<1> DEFINE n == Len(b.changes)
           k == b.changes[n].object
           previous == b.changes[n].previous
<1> USE DEF Consistent
<1>1. /\ n \in Nat \ {0} /\ DOMAIN b.changes = 1 .. n /\ DOMAIN c.changes = 1 .. (n - 1)
      /\ Len(c.changes) = n - 1
      /\ \A i \in 1 .. (n - 1) : c.changes[i] = b.changes[i]
      /\ c.intents = b.intents
  BY DEF OneBack
<1>2. /\ \A j \in DOMAIN b.entries \ {k} : j \in DOMAIN c.entries /\ c.entries[j] = b.entries[j]
      /\ previous = <<>> => DOMAIN c.entries = DOMAIN b.entries \ {k}
      /\ previous # <<>> => DOMAIN c.entries = DOMAIN b.entries /\ c.entries[k] = previous[1]
  BY DEF OneBack
<1>3. n \in DOMAIN b.changes /\ (previous = <<>> <=> FirstOn(b, n)) /\ k \in DOMAIN b.entries
  BY <1>1 DEF ChangesInv
<1>4. \A i \in 1 .. (n - 1) : i \in DOMAIN b.changes
  BY <1>1
<1>5. \A i \in 1 .. (n - 1) : b.changes[i].object \in DOMAIN c.entries
  BY <1>2, <1>3, <1>4 DEF ChangesInv, FirstOn
<1>6. previous # <<>> => \E i \in 1 .. (n - 1) : b.changes[i].object = k
  BY <1>3 DEF FirstOn
<1>7. \A j \in DOMAIN c.entries :
          /\ j \in DOMAIN b.entries
          /\ c.entries[j].base_value = b.entries[j].base_value
          /\ c.entries[j].base_version = b.entries[j].base_version
  BY <1>2, <1>3 DEF BasesInv
<1>8. ChangesInv(c)
  <2> SUFFICES ASSUME NEW i \in 1 .. (n - 1)
               PROVE  /\ c.changes[i].object \in DOMAIN c.entries
                      /\ c.changes[i].previous = <<>> <=> FirstOn(c, i)
                      /\ c.changes[i].previous # <<>> => Len(c.changes[i].previous) = 1
    BY <1>1 DEF ChangesInv
  <2>1. FirstOn(c, i) <=> FirstOn(b, i)
    BY BackChanges
  <2> QED BY <1>1, <1>4, <1>5, <2>1 DEF ChangesInv
<1>9. BufferedInv(c)
  <2> SUFFICES ASSUME NEW j \in DOMAIN c.entries
               PROVE  \E i \in 1 .. (n - 1) : b.changes[i].object = j
    BY <1>1 DEF BufferedInv
  <2>1. CASE j = k
    BY <1>2, <1>6, <2>1
  <2>2. CASE j # k
    <3>1. PICK i \in 1 .. n : b.changes[i].object = j
      BY <1>1, <1>7 DEF BufferedInv
    <3>2. i # n
      BY <2>2, <3>1
    <3> QED BY <1>1, <3>1, <3>2
  <2> QED BY <2>1, <2>2
<1>10. SortedInv(c)
  <2>1. ASSUME previous = <<>>
        PROVE  /\ Len(b.order) \in Nat \ {0} /\ b.order[Len(b.order)] = k
               /\ DOMAIN b.order = 1 .. Len(b.order) /\ DOMAIN c.order = 1 .. (Len(b.order) - 1)
               /\ \A i \in 1 .. (Len(b.order) - 1) : c.order[i] = b.order[i]
    BY <2>1 DEF OneBack
  <2>2. previous # <<>> => c.order = b.order
    BY DEF OneBack
  <2>3. \A i \in DOMAIN c.order : i \in DOMAIN b.order /\ c.order[i] = b.order[i]
    BY <2>1, <2>2
  <2>4. {c.order[i] : i \in DOMAIN c.order} = DOMAIN c.entries
    <3>1. CASE previous = <<>>
      <4>1. \A i \in DOMAIN c.order : c.order[i] \in DOMAIN b.entries /\ c.order[i] # k
        <5> SUFFICES ASSUME NEW i \in 1 .. (Len(b.order) - 1)
                     PROVE  b.order[i] \in DOMAIN b.entries /\ b.order[i] # k
          BY <2>1, <3>1
        <5>1. i \in DOMAIN b.order /\ Len(b.order) \in DOMAIN b.order /\ i # Len(b.order)
          BY <2>1, <3>1
        <5> QED BY <2>1, <3>1, <5>1 DEF SortedInv
      <4>2. ASSUME NEW j \in DOMAIN b.entries, j # k
            PROVE  \E i \in DOMAIN c.order : c.order[i] = j
        <5>1. PICK i \in DOMAIN b.order : b.order[i] = j
          BY <4>2 DEF SortedInv
        <5>2. i # Len(b.order)
          BY <2>1, <3>1, <4>2, <5>1
        <5> QED BY <2>1, <3>1, <5>1, <5>2
      <4> QED BY <1>2, <3>1, <4>1, <4>2
    <3>2. CASE previous # <<>>
      BY <1>2, <2>2, <3>2 DEF SortedInv
    <3> QED BY <3>1, <3>2
  <2>5. \A i, j \in DOMAIN c.order : c.order[i] = c.order[j] => i = j
    BY <2>3 DEF SortedInv
  <2>6. ASSUME NEW i \in DOMAIN c.order, NEW j \in DOMAIN c.order,
               NEW m \in DOMAIN c.changes, NEW l \in DOMAIN c.changes, i < j,
               c.changes[m].object = c.order[i], FirstOn(c, m),
               c.changes[l].object = c.order[j], FirstOn(c, l)
        PROVE  m < l
    <3>1. m \in 1 .. (n - 1) /\ l \in 1 .. (n - 1)
      BY <1>1
    <3>2. FirstOn(b, m) /\ FirstOn(b, l)
      BY <2>6, <3>1, BackChanges
    <3> QED BY <1>1, <1>4, <2>3, <2>6, <3>1, <3>2 DEF SortedInv
  <2> QED BY <2>4, <2>5, <2>6 DEF SortedInv
<1>11. LoggedInv(c)
  <2>1. Len(b.intents) \in Nat /\ n <= Len(b.intents)
    BY BranchFields DEF LoggedInv
  <2>2. Len(c.changes) <= Len(c.intents)
    BY <1>1, <2>1
  <2> QED BY <1>1, <1>4, <2>2 DEF LoggedInv
<1>12. TypesInv(c)
  <2>1. ASSUME NEW i \in 1 .. (n - 1), LastOn(c, i)
        PROVE  c.entries[b.changes[i].object].intent_type = b.intents[i].type
    <3>1. CASE b.changes[i].object = k
      <4>1. Follows(b, i, n)
        BY <2>1, <3>1, BackChanges
      <4>2. previous # <<>>
        BY <1>3, <3>1 DEF FirstOn
      <4>3. previous[1].intent_type = b.intents[i].type
        BY <1>3, <1>4, <4>1 DEF TypesInv
      <4> QED BY <1>2, <3>1, <4>2, <4>3
    <3>2. CASE b.changes[i].object # k
      <4>1. LastOn(b, i)
        BY <2>1, <3>2, BackChanges
      <4>2. b.changes[i].object \in DOMAIN b.entries
        BY <1>4 DEF ChangesInv
      <4> QED BY <1>2, <1>4, <3>2, <4>1, <4>2 DEF TypesInv
    <3> QED BY <3>1, <3>2
  <2>2. ASSUME NEW i \in 1 .. (n - 1), NEW j \in 1 .. (n - 1), Follows(c, i, j)
        PROVE  c.changes[j].previous[1].intent_type = b.intents[i].type
    <3>1. Follows(b, i, j)
      BY <2>2, BackChanges
    <3> QED BY <1>1, <1>4, <3>1 DEF TypesInv
  <2> QED BY <1>1, <2>1, <2>2 DEF TypesInv
<1>13. BasesInv(c)
  <2> SUFFICES ASSUME NEW i \in 1 .. (n - 1), b.changes[i].previous # <<>>
               PROVE  LET j == b.changes[i].object
                      IN  /\ b.changes[i].previous[1].base_value = c.entries[j].base_value
                          /\ b.changes[i].previous[1].base_version = c.entries[j].base_version
    BY <1>1 DEF BasesInv
  <2> QED BY <1>4, <1>5, <1>7 DEF BasesInv
<1>14. ValuesInv(c)
  <2>1. Len(b.intents) \in Nat /\ n <= Len(b.intents) /\ b.intents[n].object = k
    BY <1>3, BranchFields DEF LoggedInv
  <2>2. \A j : j # k => \A base : ValueAfter(b.intents, j, base)[n] = ValueAfter(b.intents, j, base)[n - 1]
    BY <1>1, <2>1, ValueAfterUnroll DEF NextValue
  <2>3. ASSUME NEW j \in DOMAIN c.entries
        PROVE  c.entries[j].current_value
                    = ValueAfter(b.intents, j, c.entries[j].base_value)[n - 1]
    <3>1. CASE j = k
      <4>1. previous # <<>> /\ c.entries[k] = previous[1]
        BY <1>2, <2>3, <3>1
      <4>2. previous[1].current_value = ValueAfter(b.intents, k, b.entries[k].base_value)[n - 1]
        BY <1>3, <4>1 DEF ValuesInv
      <4> QED BY <1>7, <3>1, <4>1, <4>2
    <3>2. CASE j # k
      <4>1. j \in DOMAIN b.entries /\ c.entries[j] = b.entries[j]
        BY <1>2, <1>7, <3>2
      <4> QED BY <2>2, <3>2, <4>1 DEF ValuesInv
    <3> QED BY <3>1, <3>2
  <2>4. ASSUME NEW i \in 1 .. (n - 1), b.changes[i].previous # <<>>
        PROVE  LET j == b.changes[i].object
               IN  b.changes[i].previous[1].current_value
                        = ValueAfter(b.intents, j, c.entries[j].base_value)[i - 1]
    BY <1>4, <1>5, <1>7, <2>4 DEF ValuesInv
  <2> QED BY <1>1, <2>3, <2>4 DEF ValuesInv
<1> QED BY <1>8, <1>9, <1>10, <1>11, <1>12, <1>13, <1>14

--------------------------------------------------------------------------------
(* The copies that savepoints stand for.                                     *)

\* The first change of an object after a position is there if there is any.
LEMMA FirstSinceIs ==
    ASSUME NEW b \in BranchContext, NEW p \in Nat, NEW k, ChangedSince(b, p, k) # {}
    PROVE  /\ FirstSince(b, p, k) \in ChangedSince(b, p, k)
           /\ \A j \in ChangedSince(b, p, k) : FirstSince(b, p, k) <= j
<1>1. Len(b.changes) \in Nat /\ DOMAIN b.changes = 1 .. Len(b.changes)
  BY BranchFields
<1>2. ChangedSince(b, p, k) \in SUBSET (0 .. Len(b.changes))
  BY <1>1 DEF ChangedSince
<1>3. \E i \in ChangedSince(b, p, k) : \A j \in ChangedSince(b, p, k) : i <= j
  BY <1>1, <1>2, LeastIndex
<1> QED BY <1>3 DEF FirstSince

\* The objects buffered at a position are those of the changes up to it.
LEMMA KeptIs ==
    ASSUME NEW b \in BranchContext, Consistent(b), NEW p \in 0 .. Len(b.changes)
    PROVE  KeptAt(b, p) = {b.changes[i].object : i \in 1 .. p}
<1>1. /\ Len(b.changes) \in Nat /\ DOMAIN b.changes = 1 .. Len(b.changes) /\ p \in Nat
      /\ \A i \in 1 .. p : i \in DOMAIN b.changes
  BY BranchFields
<1>2. ASSUME NEW k \in DOMAIN b.entries, ChangedSince(b, p, k) = {}
      PROVE  \E i \in 1 .. p : b.changes[i].object = k
  <2>1. PICK i \in DOMAIN b.changes : b.changes[i].object = k
    BY DEF Consistent, BufferedInv
  <2>2. i <= p
    BY <1>1, <1>2, <2>1 DEF ChangedSince
  <2> QED BY <1>1, <2>1, <2>2
<1>3. ASSUME NEW k \in DOMAIN b.entries, ChangedSince(b, p, k) # {}
      PROVE  b.changes[FirstSince(b, p, k)].previous # <<>>
                <=> \E i \in 1 .. p : b.changes[i].object = k
  <2> DEFINE f == FirstSince(b, p, k)
  <2>1. f \in ChangedSince(b, p, k) /\ \A j \in ChangedSince(b, p, k) : f <= j
    BY <1>1, <1>3, FirstSinceIs
  <2>2. f \in DOMAIN b.changes /\ f > p /\ b.changes[f].object = k
    BY <2>1 DEF ChangedSince
  <2>3. b.changes[f].previous = <<>> <=> \A j \in 1 .. (f - 1) : b.changes[j].object # k
    BY <2>2 DEF Consistent, ChangesInv, FirstOn
  <2>4. \A j \in 1 .. (f - 1) : b.changes[j].object = k => j \in 1 .. p
    BY <1>1, <2>1, <2>2 DEF ChangedSince
  <2>5. \A j \in 1 .. p : j \in 1 .. (f - 1)
    BY <1>1, <2>2
  <2> QED BY <2>3, <2>4, <2>5
<1>4. \A i \in 1 .. p : b.changes[i].object \in DOMAIN b.entries
  BY <1>1 DEF Consistent, ChangesInv
<1>5. \A k \in DOMAIN b.entries : k \in KeptAt(b, p) <=> \E i \in 1 .. p : b.changes[i].object = k
  BY <1>2, <1>3 DEF KeptAt
<1>6. KeptAt(b, p) \subseteq DOMAIN b.entries
  BY DEF KeptAt
<1> QED BY <1>4, <1>5, <1>6

\* A set of objects is the beginning of the order for one length at most.
LEMMA PrefixUnique ==
    ASSUME NEW order, Len(order) \in Nat, DOMAIN order = 1 .. Len(order),
           \A i, j \in DOMAIN order : order[i] = order[j] => i = j,
           NEW m \in 0 .. Len(order), NEW n \in 0 .. Len(order),
           {order[i] : i \in 1 .. m} = {order[i] : i \in 1 .. n}
    PROVE  m = n
<1> DEFINE A == {order[i] : i \in 1 .. m}
           B == {order[i] : i \in 1 .. n}
<1>1. \A i \in 1 .. m : i \in DOMAIN order /\ \E j \in 1 .. n : order[i] = order[j]
  <2> SUFFICES ASSUME NEW i \in 1 .. m
               PROVE  i \in DOMAIN order /\ \E j \in 1 .. n : order[i] = order[j]
    OBVIOUS
  <2>1. order[i] \in A
    OBVIOUS
  <2>2. order[i] \in B
    BY <2>1
  <2> QED BY <2>2
<1>2. \A i \in 1 .. n : i \in DOMAIN order /\ \E j \in 1 .. m : order[i] = order[j]
  <2> SUFFICES ASSUME NEW i \in 1 .. n
               PROVE  i \in DOMAIN order /\ \E j \in 1 .. m : order[i] = order[j]
    OBVIOUS
  <2>1. order[i] \in B
    OBVIOUS
  <2>2. order[i] \in A
    BY <2>1
  <2> QED BY <2>2
<1>3. ASSUME m > n PROVE FALSE
  <2>1. m \in 1 .. m
    BY <1>3
  <2>2. PICK j \in 1 .. n : order[m] = order[j]
    BY <1>1, <2>1
  <2>3. m = j
    BY <1>1, <1>2, <2>1, <2>2
  <2> QED BY <1>3, <2>3
<1>4. ASSUME n > m PROVE FALSE
  <2>1. n \in 1 .. n
    BY <1>4
  <2>2. PICK j \in 1 .. m : order[n] = order[j]
    BY <1>2, <2>1
  <2>3. n = j
    BY <1>1, <1>2, <2>1, <2>2
  <2> QED BY <1>4, <2>3
<1> QED BY <1>3, <1>4

\* The objects buffered at a position are the beginning of the order.
LEMMA OrderPrefix ==
    ASSUME NEW b \in BranchContext, Consistent(b), NEW p \in 0 .. Len(b.changes)
    PROVE  \E m \in 0 .. Len(b.order) :
              /\ {b.order[i] : i \in 1 .. m} = KeptAt(b, p)
              /\ OrderAt(b, p) = SubSeq(b.order, 1, m)
<1> DEFINE kept == {b.changes[i].object : i \in 1 .. p}
           M == {i \in DOMAIN b.order : b.order[i] \in kept}
<1>1. /\ Len(b.order) \in Nat /\ DOMAIN b.order = 1 .. Len(b.order)
      /\ Len(b.changes) \in Nat /\ DOMAIN b.changes = 1 .. Len(b.changes) /\ p \in Nat
      /\ \A i \in 1 .. p : i \in DOMAIN b.changes
  BY BranchFields
<1>2. \A k \in kept : \E i \in DOMAIN b.order : b.order[i] = k
  <2> SUFFICES ASSUME NEW l \in 1 .. p
               PROVE  \E i \in DOMAIN b.order : b.order[i] = b.changes[l].object
    OBVIOUS
  <2>1. b.changes[l].object \in DOMAIN b.entries
    BY <1>1 DEF Consistent, ChangesInv
  <2>2. b.changes[l].object \in {b.order[i] : i \in DOMAIN b.order}
    BY <2>1 DEF Consistent, SortedInv
  <2> QED BY <2>2
<1>3. \E m \in 0 .. Len(b.order) : {b.order[i] : i \in 1 .. m} = kept
  <2>1. CASE M = {}
    <3>1. kept = {}
      BY <1>2, <2>1
    <3>2. 0 \in 0 .. Len(b.order) /\ {b.order[i] : i \in 1 .. 0} = {}
      BY <1>1
    <3> HIDE DEF kept
    <3> QED BY <3>1, <3>2
  <2>2. CASE M # {}
    <3>1. PICK m \in M : \A j \in M : j <= m
      <4>1. M \in SUBSET (1 .. Len(b.order))
        BY <1>1
      <4> HIDE DEF M
      <4> QED BY <1>1, <2>2, <4>1, GreatestIndex
    <3>2. m \in 1 .. Len(b.order) /\ b.order[m] \in kept
      BY <1>1, <3>1
    <3>3. PICK i \in 1 .. p : b.changes[i].object = b.order[m]
      BY <3>2
    <3>4. PICK f \in DOMAIN b.changes : f <= i /\ FirstOn(b, f) /\ b.changes[f].object = b.order[m]
      BY <1>1, <3>3, FirstChange
    <3>5. ASSUME NEW j \in 1 .. m
          PROVE  b.order[j] \in kept
      <4>1. j \in DOMAIN b.order
        BY <1>1, <3>2
      <4>2. CASE j = m
        BY <3>2, <4>2
      <4>3. CASE j # m
        <5>1. PICK l \in DOMAIN b.changes : b.changes[l].object = b.order[j]
          BY <4>1 DEF Consistent, SortedInv, BufferedInv
        <5>2. PICK g \in DOMAIN b.changes : FirstOn(b, g) /\ b.changes[g].object = b.order[j]
          BY <5>1, FirstChange
        <5>3. j < m
          BY <3>2, <4>3
        <5>4. g < f
          BY <1>1, <3>2, <3>4, <4>1, <5>2, <5>3 DEF Consistent, SortedInv
        <5>5. g \in 1 .. p
          BY <1>1, <3>3, <3>4, <5>4
        <5> QED BY <5>2, <5>5
      <4> QED BY <4>2, <4>3
    <3>6. ASSUME NEW k \in kept
          PROVE  \E j \in 1 .. m : b.order[j] = k
      <4>1. PICK j \in DOMAIN b.order : b.order[j] = k
        BY <1>2
      <4>2. j \in M
        BY <4>1
      <4>3. j <= m
        BY <3>1, <4>2
      <4>4. j \in 1 .. m
        BY <1>1, <3>2, <4>3
      <4> QED BY <4>1, <4>4
    <3> HIDE DEF kept
    <3>7. {b.order[j] : j \in 1 .. m} = kept
      BY <3>5, <3>6
    <3> QED BY <1>1, <3>2, <3>7
  <2> QED BY <2>1, <2>2
<1>4. \E m \in 0 .. Len(b.order) : {b.order[i] : i \in 1 .. m} = KeptAt(b, p)
  <2>1. KeptAt(b, p) = kept
    BY KeptIs
  <2> HIDE DEF kept
  <2> QED BY <1>3, <2>1
<1> QED BY <1>4 DEF OrderAt

\* At the end of the log a savepoint stands for the branch's work.
LEMMA CurrentCopy ==
    ASSUME NEW b \in BranchContext, Consistent(b)
    PROVE  LET p == Len(b.changes)
           IN  /\ KeptAt(b, p) = DOMAIN b.entries
               /\ \A k \in DOMAIN b.entries : EntryAt(b, p, k) = b.entries[k]
               /\ OrderAt(b, p) = b.order
<1> DEFINE p == Len(b.changes)
<1>1. /\ p \in Nat /\ DOMAIN b.changes = 1 .. p
      /\ b.order \in Seq(Key) /\ Len(b.order) \in Nat /\ DOMAIN b.order = 1 .. Len(b.order)
  BY BranchFields
<1>2. \A k : ChangedSince(b, p, k) = {}
  BY <1>1 DEF ChangedSince
<1>3. KeptAt(b, p) = DOMAIN b.entries
  BY <1>2 DEF KeptAt
<1>4. \A k \in DOMAIN b.entries : EntryAt(b, p, k) = b.entries[k]
  BY <1>2 DEF EntryAt
<1>5. PICK m \in 0 .. Len(b.order) :
          {b.order[i] : i \in 1 .. m} = KeptAt(b, p) /\ OrderAt(b, p) = SubSeq(b.order, 1, m)
  <2>1. p \in 0 .. Len(b.changes)
    BY <1>1
  <2> HIDE DEF p
  <2> QED BY <2>1, OrderPrefix
<1>6. {b.order[i] : i \in 1 .. Len(b.order)} = DOMAIN b.entries
  BY <1>1 DEF Consistent, SortedInv
<1>7. m = Len(b.order)
  <2>1. \A i, j \in DOMAIN b.order : b.order[i] = b.order[j] => i = j
    BY DEF Consistent, SortedInv
  <2>2. {b.order[i] : i \in 1 .. m} = {b.order[i] : i \in 1 .. Len(b.order)}
    BY <1>3, <1>5, <1>6
  <2>3. Len(b.order) \in 0 .. Len(b.order)
    BY <1>1
  <2> QED BY <1>1, <1>5, <2>1, <2>2, <2>3, PrefixUnique
<1>8. SubSeq(b.order, 1, Len(b.order)) = b.order
  BY <1>1
<1> QED BY <1>3, <1>4, <1>5, <1>7, <1>8

\* Two branches agree on what was buffered at a position.
SameCopy(b, c, p) ==
    /\ KeptAt(c, p) = KeptAt(b, p)
    /\ \A k \in KeptAt(b, p) : EntryAt(c, p, k) = EntryAt(b, p, k)
    /\ OrderAt(c, p) = OrderAt(b, p)

\* Going one change back changes no copy of an earlier position.
LEMMA BackCopies ==
    ASSUME NEW b \in BranchContext, NEW c \in BranchContext, Consistent(b), Consistent(c),
           OneBack(b, c), NEW p \in 0 .. Len(c.changes)
    PROVE  SameCopy(b, c, p)
<1> DEFINE n == Len(b.changes)
           last == b.changes[n].object
<1>1. /\ n \in Nat \ {0} /\ DOMAIN b.changes = 1 .. n /\ DOMAIN c.changes = 1 .. (n - 1)
      /\ Len(c.changes) = n - 1
      /\ \A i \in 1 .. (n - 1) : c.changes[i] = b.changes[i]
      /\ b.order \in Seq(Key) /\ c.order \in Seq(Key)
  BY DEF OneBack
<1>2. p \in Nat /\ p < n /\ p \in 0 .. n /\ \A i \in 1 .. p : i \in 1 .. (n - 1)
  BY <1>1
<1>3. KeptAt(c, p) = KeptAt(b, p)
  <2>1. KeptAt(b, p) = {b.changes[i].object : i \in 1 .. p}
    BY <1>2, KeptIs
  <2>2. KeptAt(c, p) = {c.changes[i].object : i \in 1 .. p}
    BY KeptIs
  <2> QED BY <1>1, <1>2, <2>1, <2>2
<1>4. ASSUME NEW k \in KeptAt(b, p)
      PROVE  EntryAt(c, p, k) = EntryAt(b, p, k)
  <2> DEFINE B == ChangedSince(b, p, k)
             C == ChangedSince(c, p, k)
  <2>1. k \in DOMAIN b.entries /\ k \in DOMAIN c.entries
    BY <1>3 DEF KeptAt
  <2>2. C = B \ {n}
    <3>1. \A i : i \in C <=> i \in 1 .. (n - 1) /\ i > p /\ c.changes[i].object = k
      BY <1>1 DEF ChangedSince
    <3>2. \A i : i \in B <=> i \in 1 .. n /\ i > p /\ b.changes[i].object = k
      BY <1>1 DEF ChangedSince
    <3>3. \A i : i \in 1 .. (n - 1) <=> i \in 1 .. n /\ i # n
      BY <1>1
    <3> HIDE DEF B, C
    <3>4. \A i : i \in C <=> i \in B \ {n}
      BY <1>1, <3>1, <3>2, <3>3
    <3> QED BY <3>4
  <2>3. n \in B <=> k = last
    BY <1>1, <1>2 DEF ChangedSince
  <2>4. CASE B = {}
    <3>1. C = {} /\ k # last
      BY <2>2, <2>3, <2>4
    <3>2. c.entries[k] = b.entries[k]
      BY <2>1, <3>1 DEF OneBack
    <3> QED BY <2>4, <3>1, <3>2 DEF EntryAt
  <2>5. CASE B # {} /\ C = {}
    <3>1. B = {n} /\ k = last
      BY <2>2, <2>3, <2>5
    <3>2. FirstSince(b, p, k) = n
      BY <1>2, <2>5, <3>1, FirstSinceIs
    <3>3. c.entries[k] = b.changes[n].previous[1]
      BY <2>1, <3>1 DEF OneBack
    <3> QED BY <2>5, <3>2, <3>3 DEF EntryAt
  <2>6. CASE C # {}
    <3>1. FirstSince(c, p, k) \in C /\ \A j \in C : FirstSince(c, p, k) <= j
      BY <1>2, <2>6, FirstSinceIs
    <3>2. B # {} /\ FirstSince(b, p, k) \in B /\ \A j \in B : FirstSince(b, p, k) <= j
      BY <1>2, <2>2, <2>6, FirstSinceIs
    <3>3. FirstSince(c, p, k) \in 1 .. (n - 1) /\ FirstSince(b, p, k) \in 1 .. n
      BY <1>1, <3>1, <3>2 DEF ChangedSince
    <3>4. FirstSince(c, p, k) = FirstSince(b, p, k)
      <4>1. FirstSince(b, p, k) <= FirstSince(c, p, k)
        BY <2>2, <3>1, <3>2
      <4>2. FirstSince(b, p, k) \in C
        BY <1>1, <2>2, <3>2, <3>3, <4>1
      <4>3. FirstSince(c, p, k) <= FirstSince(b, p, k)
        BY <3>1, <4>2
      <4> QED BY <3>3, <4>1, <4>3
    <3> QED BY <1>1, <2>6, <3>2, <3>3, <3>4 DEF EntryAt
  <2> QED BY <2>4, <2>5, <2>6
<1>5. OrderAt(c, p) = OrderAt(b, p)
  <2>1. PICK m \in 0 .. Len(b.order) :
            {b.order[i] : i \in 1 .. m} = KeptAt(b, p) /\ OrderAt(b, p) = SubSeq(b.order, 1, m)
    BY <1>2, OrderPrefix
  <2>2. PICK l \in 0 .. Len(c.order) :
            {c.order[i] : i \in 1 .. l} = KeptAt(c, p) /\ OrderAt(c, p) = SubSeq(c.order, 1, l)
    BY OrderPrefix
  <2>3. /\ Len(c.order) <= Len(b.order) /\ Len(b.order) \in Nat /\ Len(c.order) \in Nat
        /\ DOMAIN b.order = 1 .. Len(b.order)
        /\ \A i \in 1 .. Len(c.order) : c.order[i] = b.order[i]
    <3>1. Len(b.order) \in Nat /\ DOMAIN b.order = 1 .. Len(b.order)
      BY <1>1
    <3>2. CASE b.changes[n].previous = <<>>
      <4>1. Len(c.order) = Len(b.order) - 1 /\ Len(b.order) # 0
            /\ \A i \in 1 .. (Len(b.order) - 1) : c.order[i] = b.order[i]
        BY <3>2 DEF OneBack
      <4> QED BY <3>1, <4>1
    <3>3. CASE b.changes[n].previous # <<>>
      BY <3>1, <3>3 DEF OneBack
    <3> QED BY <3>2, <3>3
  <2>4. l \in 0 .. Len(b.order) /\ \A i \in 1 .. l : c.order[i] = b.order[i]
    BY <2>3
  <2>5. {c.order[i] : i \in 1 .. l} = {b.order[i] : i \in 1 .. l}
    BY <2>4
  <2>6. l = m
    <3>1. {b.order[i] : i \in 1 .. l} = {b.order[i] : i \in 1 .. m}
      BY <1>3, <2>1, <2>2, <2>5
    <3>2. \A i, j \in DOMAIN b.order : b.order[i] = b.order[j] => i = j
      BY DEF Consistent, SortedInv
    <3> QED BY <2>1, <2>3, <2>4, <3>1, <3>2, PrefixUnique
  <2>7. SubSeq(c.order, 1, l) = SubSeq(b.order, 1, l)
    BY <1>1, <2>3, <2>4
  <2> QED BY <2>1, <2>2, <2>6, <2>7
<1> QED BY <1>3, <1>4, <1>5 DEF SameCopy

\* What a truncation of the buffer to a position promises.
TruncatedTo(b, c, p) ==
    /\ c \in BranchContext /\ Consistent(c) /\ Len(c.changes) = p
    /\ c.intents = b.intents /\ c.savepoints = b.savepoints /\ c.reads = b.reads
    /\ c.status = b.status /\ c.score = b.score
    /\ \A q \in 0 .. p : SameCopy(b, c, q)
    /\ \A k \in DOMAIN c.entries :
        /\ k \in DOMAIN b.entries
        /\ c.entries[k].base_value = b.entries[k].base_value
        /\ c.entries[k].base_version = b.entries[k].base_version

\* One turn of the loop truncates one change further.
LEMMA TruncatedFurther ==
    ASSUME NEW b \in BranchContext, NEW c, NEW p \in Nat, TruncatedTo(b, c, p), p # 0
    PROVE  TruncatedTo(b, UndoLast(c), p - 1)
<1> DEFINE d == UndoLast(c)
<1>1. c \in BranchContext /\ Consistent(c) /\ Len(c.changes) = p /\ c.changes # <<>>
  <2>1. c \in BranchContext /\ Consistent(c) /\ Len(c.changes) = p
    BY DEF TruncatedTo
  <2>2. Len(<<>>) = 0
    OBVIOUS
  <2> QED BY <2>1, <2>2
<1>2. /\ OneBack(c, d) /\ d \in BranchContext /\ d.savepoints = c.savepoints
      /\ d.reads = c.reads /\ d.status = c.status /\ d.score = c.score
  BY <1>1, UndoLastBack
<1> HIDE DEF d
<1>3. Consistent(d)
  BY <1>1, <1>2, BackConsistent
<1>4. Len(d.changes) = p - 1 /\ d.intents = c.intents
  BY <1>1, <1>2 DEF OneBack
<1>5. \A q \in 0 .. (p - 1) : SameCopy(c, d, q)
  BY <1>1, <1>2, <1>3, <1>4, BackCopies
<1>6. \A q \in 0 .. (p - 1) : SameCopy(b, d, q)
  BY <1>5 DEF TruncatedTo, SameCopy
<1>7. \A k \in DOMAIN d.entries :
          /\ k \in DOMAIN c.entries
          /\ d.entries[k].base_value = c.entries[k].base_value
          /\ d.entries[k].base_version = c.entries[k].base_version
  <2> DEFINE last == c.changes[Len(c.changes)]
  <2>1. /\ \A j \in DOMAIN c.entries \ {last.object} : d.entries[j] = c.entries[j]
        /\ last.previous = <<>> => DOMAIN d.entries = DOMAIN c.entries \ {last.object}
        /\ last.previous # <<>> => DOMAIN d.entries = DOMAIN c.entries
                                    /\ d.entries[last.object] = last.previous[1]
        /\ Len(c.changes) \in DOMAIN c.changes
    BY <1>2 DEF OneBack
  <2>2. last.previous # <<>> =>
            /\ last.previous[1].base_value = c.entries[last.object].base_value
            /\ last.previous[1].base_version = c.entries[last.object].base_version
    BY <1>1, <2>1 DEF Consistent, BasesInv
  <2> HIDE DEF last
  <2> QED BY <2>1, <2>2
<1> QED BY <1>2, <1>3, <1>4, <1>6, <1>7 DEF TruncatedTo, d

\* TruncateBuffer goes back to the position it is given.
LEMMA TruncateBufferTruncates ==
    ASSUME NEW b \in BranchContext, Consistent(b), NEW p \in 0 .. Len(b.changes)
    PROVE  TruncatedTo(b, TruncateBuffer(b, p), p)
<1> DEFINE n == Len(b.changes)
           S == {i \in 0 .. n : ~TruncatedTo(b, Undone(b)[i], n - i)}
<1>1. n \in Nat
  BY BranchFields
<1>2. TruncatedTo(b, b, n)
  BY DEF TruncatedTo, SameCopy
<1>3. Undone(b)[0] = b /\ \A i \in 1 .. n : Undone(b)[i] = UndoLast(Undone(b)[i - 1])
  BY <1>1, UndoneUnroll
<1>4. ASSUME S # {} PROVE FALSE
  <2>1. PICK m \in S : \A j \in S : m <= j
    <3>1. S \in SUBSET (0 .. n)
      OBVIOUS
    <3> HIDE DEF S
    <3> QED BY <1>1, <1>4, <3>1, LeastIndex
  <2>2. m # 0
    BY <1>1, <1>2, <1>3, <2>1
  <2>3. m \in 1 .. n /\ m - 1 \in 0 .. n /\ m - 1 \notin S
    BY <1>1, <2>1, <2>2
  <2>4. TruncatedTo(b, Undone(b)[m - 1], n - (m - 1))
    BY <2>3
  <2>5. n - (m - 1) \in Nat /\ n - (m - 1) # 0 /\ (n - (m - 1)) - 1 = n - m
    BY <1>1, <2>3
  <2>6. TruncatedTo(b, UndoLast(Undone(b)[m - 1]), n - m)
    <3> DEFINE q == n - (m - 1)
    <3> HIDE DEF q, n
    <3>1. q \in Nat /\ q # 0 /\ TruncatedTo(b, Undone(b)[m - 1], q) /\ q - 1 = n - m
      BY <2>4, <2>5 DEF q
    <3>2. TruncatedTo(b, UndoLast(Undone(b)[m - 1]), q - 1)
      BY <3>1, TruncatedFurther
    <3> QED BY <3>1, <3>2
  <2> QED BY <1>3, <2>1, <2>3, <2>6
<1>5. CASE Len(b.changes) > p
  <2>1. n - p \in 0 .. n /\ n - (n - p) = p
    BY <1>1
  <2>2. TruncatedTo(b, Undone(b)[n - p], p)
    BY <1>4, <2>1
  <2> QED BY <1>5, <2>2, TruncateIsUndone
<1>6. CASE ~(Len(b.changes) > p)
  <2>1. p = n
    BY <1>1, <1>6
  <2> QED BY <1>2, <1>6, <2>1, TruncateIsUndone
<1> QED BY <1>5, <1>6

\* Branches with the same buffer agree on the copies.
LEMMA SameLogCopies ==
    ASSUME NEW b, NEW c, c.entries = b.entries, c.order = b.order, c.changes = b.changes, NEW p
    PROVE  SameCopy(b, c, p)
<1>1. \A k : ChangedSince(c, p, k) = ChangedSince(b, p, k)
  BY DEF ChangedSince
<1>2. \A k : FirstSince(c, p, k) = FirstSince(b, p, k)
  BY <1>1 DEF FirstSince
<1>3. KeptAt(c, p) = KeptAt(b, p)
  BY <1>1, <1>2 DEF KeptAt
<1>4. \A k : EntryAt(c, p, k) = EntryAt(b, p, k)
  BY <1>1, <1>2 DEF EntryAt
<1>5. OrderAt(c, p) = OrderAt(b, p)
  BY <1>3 DEF OrderAt
<1> QED BY <1>3, <1>4, <1>5 DEF SameCopy

\* A buffer is consistent with every intent log that has its intents.
LEMMA SameLogConsistent ==
    ASSUME NEW b \in BranchContext, NEW c \in BranchContext, Consistent(b),
           c.entries = b.entries, c.order = b.order, c.changes = b.changes,
           Len(b.changes) <= Len(c.intents),
           \A i \in DOMAIN b.changes : c.intents[i] = b.intents[i]
    PROVE  Consistent(c)
<1> DEFINE n == Len(b.changes)
<1> USE DEF Consistent
<1>1. /\ n \in Nat /\ DOMAIN b.changes = 1 .. n
      /\ Len(b.intents) \in Nat /\ Len(c.intents) \in Nat /\ n <= Len(b.intents)
  BY BranchFields DEF LoggedInv
<1>2. \A i : FirstOn(c, i) <=> FirstOn(b, i)
  BY DEF FirstOn
<1>3. \A i, j : Follows(c, i, j) <=> Follows(b, i, j)
  BY DEF Follows
<1>4. \A i : LastOn(c, i) <=> LastOn(b, i)
  BY DEF LastOn
<1>5. ChangesInv(c)
  BY <1>2 DEF ChangesInv
<1>6. BufferedInv(c)
  BY DEF BufferedInv
<1>7. SortedInv(c)
  BY <1>2 DEF SortedInv
<1>8. LoggedInv(c)
  BY <1>1 DEF LoggedInv
<1>9. TypesInv(c)
  <2>1. \A i \in DOMAIN b.changes : LastOn(b, i) =>
            b.entries[b.changes[i].object].intent_type = c.intents[i].type
    BY DEF TypesInv
  <2>2. \A i, j \in DOMAIN b.changes : Follows(b, i, j) =>
            b.changes[j].previous[1].intent_type = c.intents[i].type
    BY DEF TypesInv
  <2> QED BY <1>3, <1>4, <2>1, <2>2 DEF TypesInv
<1>10. BasesInv(c)
  BY DEF BasesInv
<1>11. ValuesInv(c)
  <2>1. ASSUME NEW k, NEW base, NEW i \in 0 .. n
        PROVE  ValueAfter(c.intents, k, base)[i] = ValueAfter(b.intents, k, base)[i]
    BY <1>1, ValueAfterPrefix
  <2>2. n \in 0 .. n /\ \A i \in DOMAIN b.changes : i - 1 \in 0 .. n
    BY <1>1
  <2> QED BY <2>1, <2>2 DEF ValuesInv
<1> QED BY <1>5, <1>6, <1>7, <1>8, <1>9, <1>10, <1>11

\* An object without an intent keeps its base.
LEMMA ValueAfterNone ==
    ASSUME NEW s, NEW k, NEW base, Len(s) \in Nat, NEW m \in 0 .. Len(s),
           \A i \in 1 .. m : s[i].object # k
    PROVE  ValueAfter(s, k, base)[m] = base
<1> DEFINE v == ValueAfter(s, k, base)
           S == {n \in 0 .. m : v[n] # base}
<1>1. m \in Nat /\ \A n \in 1 .. m : n \in 1 .. Len(s)
  OBVIOUS
<1>2. v[0] = base /\ \A n \in 1 .. m : v[n] = v[n - 1]
  <2> HIDE DEF v
  <2> QED BY <1>1, ValueAfterUnroll DEF v, NextValue
<1> HIDE DEF v
<1>3. ASSUME S # {} PROVE FALSE
  <2>1. PICK n \in S : \A j \in S : n <= j
    <3>1. S \in SUBSET (0 .. m)
      OBVIOUS
    <3> HIDE DEF S
    <3> QED BY <1>1, <1>3, <3>1, LeastIndex
  <2>2. n \in 1 .. m /\ n - 1 \in 0 .. m /\ n - 1 \notin S
    BY <1>1, <1>2, <2>1
  <2> QED BY <1>2, <2>1, <2>2
<1>4. m \notin S
  BY <1>3
<1> QED BY <1>1, <1>4 DEF v

--------------------------------------------------------------------------------
(* Writing.                                                                  *)

\* A branch before its last write, but for the intent log.
Unwritten(b, c) == [b EXCEPT !.intents = c.intents]

\* What BufferWrite does, read element by element.
Written(b, c, intent, after) ==
    LET n == Len(b.changes) + 1
        k == intent.object
    IN  /\ OneBack(c, Unwritten(b, c))
        /\ Len(c.changes) = n /\ c.changes[n].object = k
        /\ c.changes[n].previous = IF k \in DOMAIN b.entries THEN <<b.entries[k]>> ELSE <<>>
        /\ DOMAIN c.entries = DOMAIN b.entries \cup {k}
        /\ c.entries[k] = after
        /\ \A j \in DOMAIN b.entries \ {k} : c.entries[j] = b.entries[j]
        /\ c.order = IF k \in DOMAIN b.entries THEN b.order ELSE Append(b.order, k)
        /\ c.intents = Append(b.intents, intent)
        /\ c.savepoints = b.savepoints /\ c.reads = b.reads /\ c.score = b.score
        /\ c.status = "Running"

\* BufferWrite is undone by going one change back.
LEMMA BufferWriteWrites ==
    ASSUME NEW b \in BranchContext, Consistent(b), NEW intent \in WriteIntent, NEW kv \in Store
    PROVE  Written(b, BufferWrite(b, intent, kv), intent, EntryAfter(b, intent, kv))
<1> DEFINE c == BufferWrite(b, intent, kv)
           k == intent.object
           n == Len(b.changes) + 1
           d == Unwritten(b, c)
           after == EntryAfter(b, intent, kv)
           previous == IF k \in DOMAIN b.entries THEN <<b.entries[k]>> ELSE <<>>
<1>1. /\ c.changes = Append(b.changes, [object |-> k, previous |-> previous])
      /\ c.order = IF k \in DOMAIN b.entries THEN b.order ELSE Append(b.order, k)
      /\ c.entries = [j \in DOMAIN b.entries \cup {k} |-> IF j = k THEN after ELSE b.entries[j]]
      /\ c.intents = Append(b.intents, intent)
      /\ c.savepoints = b.savepoints /\ c.reads = b.reads /\ c.score = b.score
      /\ c.status = "Running"
  BY DEF BufferWrite, Upsert, IsBuffered, BranchContext
<1>2. c \in BranchContext
  BY BufferWriteType
<1>3. d.changes = b.changes /\ d.entries = b.entries /\ d.order = b.order /\ d.intents = c.intents
  BY DEF Unwritten, BranchContext
<1> HIDE DEF c, d, after
<1>4. /\ b.changes \in Seq(ChangeRecord) /\ c.changes \in Seq(ChangeRecord)
      /\ b.order \in Seq(Key) /\ c.order \in Seq(Key) /\ k \in Key
      /\ Len(b.changes) \in Nat /\ DOMAIN b.changes = 1 .. Len(b.changes)
      /\ Len(b.order) \in Nat /\ DOMAIN b.order = 1 .. Len(b.order)
  BY <1>2, BranchFields DEF WriteIntent
<1>5. /\ Len(c.changes) = n /\ DOMAIN c.changes = 1 .. n /\ n \in Nat \ {0} /\ n - 1 = Len(b.changes)
      /\ c.changes[n] = [object |-> k, previous |-> previous]
      /\ \A i \in 1 .. (n - 1) : c.changes[i] = b.changes[i]
  BY <1>1, <1>4
<1>6. c.changes[n].object = k /\ c.changes[n].previous = previous
  BY <1>5
<1>7. /\ DOMAIN c.entries = DOMAIN b.entries \cup {k} /\ c.entries[k] = after
      /\ \A j \in DOMAIN b.entries \ {k} : c.entries[j] = b.entries[j]
  BY <1>1
<1>8. k \notin DOMAIN b.entries =>
        /\ Len(c.order) = Len(b.order) + 1 /\ DOMAIN c.order = 1 .. Len(c.order)
        /\ c.order[Len(c.order)] = k
        /\ \A i \in 1 .. (Len(c.order) - 1) : b.order[i] = c.order[i]
        /\ Len(c.order) - 1 = Len(b.order) /\ Len(c.order) \in Nat \ {0}
  BY <1>1, <1>4
<1>9. previous = <<>> <=> k \notin DOMAIN b.entries
  <2>1. <<b.entries[k]>> # <<>>
    OBVIOUS
  <2> QED BY <2>1
<1>10. \A j \in DOMAIN c.entries \ {k} : j \in DOMAIN b.entries /\ b.entries[j] = c.entries[j]
  BY <1>7
<1>11. c.changes[n].previous = <<>> => DOMAIN b.entries = DOMAIN c.entries \ {k}
  BY <1>6, <1>7, <1>9
<1>12. c.changes[n].previous # <<>> =>
        DOMAIN b.entries = DOMAIN c.entries /\ b.entries[k] = c.changes[n].previous[1] /\ b.order = c.order
  BY <1>1, <1>6, <1>7, <1>9
<1>13. OneBack(c, d)
  <2> HIDE DEF n, k, previous
  <2>1. n = Len(c.changes) /\ k = c.changes[Len(c.changes)].object
    BY <1>5, <1>6
  <2>2. c.changes[n].previous = <<>> => k \notin DOMAIN b.entries
    BY <1>6, <1>9
  <2> QED BY <1>3, <1>4, <1>5, <1>8, <1>10, <1>11, <1>12, <2>1, <2>2 DEF OneBack
<1> QED BY <1>1, <1>5, <1>6, <1>7, <1>13 DEF Written, c, d, after

\* The entry a write leaves.
LEMMA EntryAfterIs ==
    ASSUME NEW b \in BranchContext, NEW intent \in WriteIntent, NEW kv \in Store
    PROVE  LET after == EntryAfter(b, intent, kv)
               k == intent.object
           IN  /\ after.intent_type = intent.type
               /\ k \in DOMAIN b.entries =>
                    /\ after.base_value = b.entries[k].base_value
                    /\ after.base_version = b.entries[k].base_version
                    /\ after.current_value
                        = BufferedValue(after.base_value, b.entries[k].current_value, intent)
               /\ k \notin DOMAIN b.entries =>
                    after.current_value = BufferedValue(after.base_value, after.base_value, intent)
<1> DEFINE k == intent.object
           before == EntryBefore(b, k, kv)
           after == EntryAfter(b, intent, kv)
<1>1. before \in CacheEntry
  BY EntryBeforeType DEF WriteIntent
<1>2. k \in DOMAIN b.entries => before = b.entries[k]
  BY DEF EntryBefore, IsBuffered
<1>3. k \notin DOMAIN b.entries => before.current_value = before.base_value
  BY DEF EntryBefore, IsBuffered
<1>4. after = [before EXCEPT !.intent_type = intent.type,
                             !.current_value = BufferedValue(before.base_value, before.current_value, intent)]
  BY DEF EntryAfter
<1> HIDE DEF before, after
<1>5. /\ after.intent_type = intent.type
      /\ after.base_value = before.base_value /\ after.base_version = before.base_version
      /\ after.current_value = BufferedValue(before.base_value, before.current_value, intent)
  BY <1>1, <1>4 DEF CacheEntry
<1> QED BY <1>2, <1>3, <1>5 DEF after

\* A write keeps the two logs consistent.
LEMMA WriteConsistent ==
    ASSUME NEW b \in BranchContext, Consistent(b), Len(b.changes) = Len(b.intents),
           NEW intent \in WriteIntent, NEW kv \in Store
    PROVE  LET c == BufferWrite(b, intent, kv)
           IN  /\ c \in BranchContext /\ Consistent(c) /\ Len(c.changes) = Len(c.intents)
               /\ \A p \in 0 .. Len(b.changes) : SameCopy(b, c, p)
               /\ \A j \in DOMAIN b.entries :
                    /\ c.entries[j].base_value = b.entries[j].base_value
                    /\ c.entries[j].base_version = b.entries[j].base_version
<1> DEFINE c == BufferWrite(b, intent, kv)
           after == EntryAfter(b, intent, kv)
           d == Unwritten(b, c)
           k == intent.object
           n == Len(b.changes) + 1
           previous == c.changes[n].previous
<1>1. c \in BranchContext /\ Written(b, c, intent, after)
  BY BufferWriteType, BufferWriteWrites
<1>2. /\ after.intent_type = intent.type
      /\ k \in DOMAIN b.entries =>
            /\ after.base_value = b.entries[k].base_value
            /\ after.base_version = b.entries[k].base_version
            /\ after.current_value
                = BufferedValue(after.base_value, b.entries[k].current_value, intent)
      /\ k \notin DOMAIN b.entries =>
            after.current_value = BufferedValue(after.base_value, after.base_value, intent)
  BY EntryAfterIs
<1>3. /\ d.changes = b.changes /\ d.entries = b.entries /\ d.order = b.order
      /\ d.intents = c.intents
  BY DEF Unwritten, BranchContext
<1>4. d \in BranchContext
  <2>1. c.intents \in Seq(WriteIntent)
    BY <1>1, BranchFields
  <2> HIDE DEF c
  <2> QED BY <2>1 DEF Unwritten, BranchContext
<1> HIDE DEF c, d, after
<1>5. /\ Len(b.changes) \in Nat /\ n \in Nat \ {0} /\ n - 1 = Len(b.changes)
      /\ DOMAIN b.changes = 1 .. (n - 1) /\ b.intents \in Seq(WriteIntent) /\ Len(b.intents) = n - 1
      /\ k \in Key
  <2>1. b.changes \in Seq(ChangeRecord) /\ b.intents \in Seq(WriteIntent) /\ k \in Key
    BY BranchFields DEF WriteIntent
  <2>2. Len(b.changes) \in Nat /\ DOMAIN b.changes = 1 .. Len(b.changes)
    BY <2>1
  <2> QED BY <2>1, <2>2
<1>6. /\ c.intents = Append(b.intents, intent) /\ OneBack(c, d)
      /\ Len(c.changes) = n /\ c.changes[n].object = k
      /\ previous = IF k \in DOMAIN b.entries THEN <<b.entries[k]>> ELSE <<>>
      /\ DOMAIN c.entries = DOMAIN b.entries \cup {k} /\ c.entries[k] = after
      /\ \A j \in DOMAIN b.entries \ {k} : c.entries[j] = b.entries[j]
      /\ c.order = IF k \in DOMAIN b.entries THEN b.order ELSE Append(b.order, k)
  <2> HIDE DEF k
  <2> QED BY <1>1 DEF Written, d, k
<1>7. /\ Len(c.intents) = n /\ c.intents[n] = intent
      /\ \A i \in 1 .. (n - 1) : c.intents[i] = b.intents[i]
  BY <1>5, <1>6
<1>8. Consistent(d)
  <2>1. Len(b.changes) <= Len(c.intents)
    BY <1>5, <1>7
  <2> QED BY <1>3, <1>4, <1>5, <1>7, <2>1, SameLogConsistent
<1>9. /\ DOMAIN c.changes = 1 .. n
      /\ \A i \in 1 .. (n - 1) : c.changes[i] = b.changes[i]
  <2>1. DOMAIN c.changes = 1 .. Len(c.changes)
        /\ \A i \in 1 .. (Len(c.changes) - 1) : d.changes[i] = c.changes[i]
    BY <1>6 DEF OneBack
  <2> QED BY <1>3, <1>6, <2>1
<1>10. \A i \in 1 .. n : i = n \/ i \in 1 .. (n - 1)
  BY <1>5
<1>11. previous = <<>> <=> k \notin DOMAIN b.entries
  <2>1. <<b.entries[k]>> # <<>>
    OBVIOUS
  <2> QED BY <1>6, <2>1
<1>12. FirstOn(c, n) <=> k \notin DOMAIN b.entries
  <2>1. FirstOn(c, n) <=> \A i \in 1 .. (n - 1) : b.changes[i].object # k
    BY <1>6, <1>9 DEF FirstOn
  <2>2. \A i \in 1 .. (n - 1) : b.changes[i].object \in DOMAIN b.entries
    BY <1>5 DEF Consistent, ChangesInv
  <2>3. k \in DOMAIN b.entries => \E i \in 1 .. (n - 1) : b.changes[i].object = k
    BY <1>5 DEF Consistent, BufferedInv
  <2> QED BY <2>1, <2>2, <2>3
<1>13. \A i, j \in 1 .. (n - 1) :
          /\ FirstOn(c, i) <=> FirstOn(b, i)
          /\ Follows(c, i, j) <=> Follows(b, i, j)
  <2>1. \A i, j \in 1 .. (n - 1) :
            /\ FirstOn(d, i) <=> FirstOn(c, i)
            /\ Follows(d, i, j) <=> Follows(c, i, j)
    BY <1>6, BackChanges
  <2> QED BY <1>3, <2>1 DEF FirstOn, Follows
<1>14. \A j \in DOMAIN b.entries :
          /\ j \in DOMAIN c.entries
          /\ c.entries[j].base_value = b.entries[j].base_value
          /\ c.entries[j].base_version = b.entries[j].base_version
  BY <1>2, <1>6
<1>15. Len(c.changes) = Len(c.intents)
  BY <1>6, <1>7
<1>16. Consistent(c)
  <2> USE DEF Consistent
  <2>1. ChangesInv(c)
    <3> SUFFICES ASSUME NEW i \in 1 .. n
                 PROVE  /\ c.changes[i].object \in DOMAIN c.entries
                        /\ c.changes[i].previous = <<>> <=> FirstOn(c, i)
                        /\ c.changes[i].previous # <<>> => Len(c.changes[i].previous) = 1
      BY <1>9 DEF ChangesInv
    <3>1. CASE i = n
      <4>1. c.changes[i].object \in DOMAIN c.entries
        BY <1>6, <3>1
      <4>2. c.changes[i].previous = <<>> <=> FirstOn(c, i)
        BY <1>11, <1>12, <3>1
      <4>3. c.changes[i].previous # <<>> => Len(c.changes[i].previous) = 1
        BY <1>6, <3>1
      <4> QED BY <4>1, <4>2, <4>3
    <3>2. CASE i # n
      <4>1. i \in 1 .. (n - 1) /\ i \in DOMAIN b.changes
        BY <1>5, <1>10, <3>2
      <4> QED BY <1>9, <1>13, <1>14, <4>1 DEF ChangesInv
    <3> QED BY <3>1, <3>2
  <2>2. BufferedInv(c)
    <3> SUFFICES ASSUME NEW j \in DOMAIN b.entries \cup {k}
                 PROVE  \E i \in 1 .. n : c.changes[i].object = j
      BY <1>6, <1>9 DEF BufferedInv
    <3>1. CASE j = k
      BY <1>5, <1>6, <3>1
    <3>2. CASE j # k
      <4>1. PICK i \in 1 .. (n - 1) : b.changes[i].object = j
        BY <1>5, <3>2 DEF BufferedInv
      <4> QED BY <1>5, <1>9, <4>1
    <3> QED BY <3>1, <3>2
  <2>3. SortedInv(c)
    <3>1. /\ b.order \in Seq(Key) /\ Len(b.order) \in Nat /\ DOMAIN b.order = 1 .. Len(b.order)
      BY BranchFields
    <3>2. CASE k \in DOMAIN b.entries
      <4>1. c.order = b.order /\ DOMAIN c.entries = DOMAIN b.entries
        BY <1>6, <3>2
      <4>2. \A i, j \in DOMAIN c.order, m, l \in 1 .. n :
              (/\ i < j
               /\ c.changes[m].object = c.order[i] /\ FirstOn(c, m)
               /\ c.changes[l].object = c.order[j] /\ FirstOn(c, l)) => m < l
        <5> SUFFICES ASSUME NEW i \in DOMAIN c.order, NEW j \in DOMAIN c.order,
                            NEW m \in 1 .. n, NEW l \in 1 .. n,
                            i < j,
                            c.changes[m].object = c.order[i], FirstOn(c, m),
                            c.changes[l].object = c.order[j], FirstOn(c, l)
                     PROVE  m < l
          OBVIOUS
        <5>1. m \in 1 .. (n - 1) /\ l \in 1 .. (n - 1)
          BY <1>10, <1>12, <3>2
        <5> QED BY <1>5, <1>9, <1>13, <4>1, <5>1 DEF SortedInv
      <4> QED BY <1>9, <4>1, <4>2 DEF SortedInv
    <3>3. CASE k \notin DOMAIN b.entries
      <4> DEFINE q == Len(b.order) + 1
      <4>1. /\ DOMAIN c.order = 1 .. q /\ c.order[q] = k /\ q \in Nat
            /\ \A i \in 1 .. (q - 1) : i \in DOMAIN b.order /\ c.order[i] = b.order[i]
            /\ \A i \in 1 .. q : i = q \/ i \in 1 .. (q - 1)
            /\ \A i \in DOMAIN b.order : i \in 1 .. q /\ i \in 1 .. (q - 1)
            /\ q \in 1 .. q
        BY <1>5, <1>6, <3>1, <3>3
      <4> HIDE DEF q
      <4>2. \A i \in 1 .. (q - 1) : c.order[i] \in DOMAIN b.entries /\ c.order[i] # k
        BY <3>3, <4>1 DEF SortedInv
      <4>3. {c.order[i] : i \in DOMAIN c.order} = DOMAIN c.entries
        <5>1. \A i \in 1 .. q : c.order[i] \in DOMAIN b.entries \cup {k}
          BY <4>1, <4>2
        <5>2. \A j \in DOMAIN b.entries : \E i \in 1 .. q : c.order[i] = j
          <6> SUFFICES ASSUME NEW j \in DOMAIN b.entries PROVE \E i \in 1 .. q : c.order[i] = j
            OBVIOUS
          <6>1. PICK i \in DOMAIN b.order : b.order[i] = j
            BY DEF SortedInv
          <6> QED BY <4>1, <6>1
        <5>3. \E i \in 1 .. q : c.order[i] = k
          BY <4>1
        <5>4. {c.order[i] : i \in 1 .. q} = DOMAIN b.entries \cup {k}
          BY <5>1, <5>2, <5>3
        <5> QED BY <1>6, <4>1, <5>4
      <4>4. \A i, j \in 1 .. q : c.order[i] = c.order[j] => i = j
        BY <4>1, <4>2 DEF SortedInv
      <4>5. \A i, j \in 1 .. q, m, l \in 1 .. n :
              (/\ i < j
               /\ c.changes[m].object = c.order[i] /\ FirstOn(c, m)
               /\ c.changes[l].object = c.order[j] /\ FirstOn(c, l)) => m < l
        <5> SUFFICES ASSUME NEW i \in 1 .. q, NEW j \in 1 .. q,
                            NEW m \in 1 .. n, NEW l \in 1 .. n, i < j,
                            c.changes[m].object = c.order[i], FirstOn(c, m),
                            c.changes[l].object = c.order[j], FirstOn(c, l)
                     PROVE  m < l
          OBVIOUS
        <5>1. i \in 1 .. (q - 1)
          BY <4>1
        <5>2. m \in 1 .. (n - 1)
          BY <1>6, <1>10, <4>2, <5>1
        <5>3. CASE l = n
          BY <1>5, <5>2, <5>3
        <5>4. CASE l # n
          <6>1. l \in 1 .. (n - 1) /\ c.changes[l].object \in DOMAIN b.entries
            BY <1>5, <1>9, <1>10, <5>4 DEF ChangesInv
          <6>2. j \in 1 .. (q - 1)
            BY <3>3, <4>1, <6>1
          <6> QED BY <1>5, <1>9, <1>13, <4>1, <5>1, <5>2, <6>1, <6>2 DEF SortedInv
        <5> QED BY <5>3, <5>4
      <4> QED BY <1>9, <4>1, <4>3, <4>4, <4>5 DEF SortedInv
    <3> QED BY <3>2, <3>3
  <2>4. LoggedInv(c)
    <3>1. \A i \in 1 .. (n - 1) : b.intents[i].object = b.changes[i].object
      BY <1>5 DEF LoggedInv
    <3>2. Len(c.changes) <= Len(c.intents)
      BY <1>5, <1>6, <1>7
    <3> QED BY <1>6, <1>7, <1>9, <1>10, <3>1, <3>2 DEF LoggedInv
  <2>5. TypesInv(c)
    <3>1. ASSUME NEW i \in 1 .. (n - 1), LastOn(b, i)
          PROVE  b.entries[b.changes[i].object].intent_type = b.intents[i].type
                 /\ b.changes[i].object \in DOMAIN b.entries
      BY <1>5, <3>1 DEF TypesInv, ChangesInv
    <3>2. ASSUME NEW i \in 1 .. n, LastOn(c, i)
          PROVE  c.entries[c.changes[i].object].intent_type = c.intents[i].type
      <4>1. CASE i = n
        BY <1>2, <1>6, <1>7, <4>1
      <4>2. CASE i # n
        <5>1. i \in 1 .. (n - 1)
          BY <1>10, <4>2
        <5>2. b.changes[i].object # k
          <6>1. n \in DOMAIN c.changes /\ n > i
            BY <1>5, <1>9, <5>1
          <6> QED BY <1>6, <1>9, <3>2, <5>1, <6>1 DEF LastOn
        <5>3. LastOn(b, i)
          BY <1>5, <1>9, <3>2, <5>1 DEF LastOn
        <5> QED BY <1>6, <1>7, <1>9, <3>1, <5>1, <5>2, <5>3
      <4> QED BY <4>1, <4>2
    <3>3. ASSUME NEW i \in 1 .. n, NEW j \in 1 .. n, Follows(c, i, j)
          PROVE  c.changes[j].previous[1].intent_type = c.intents[i].type
      <4>1. i < j /\ i \in 1 .. (n - 1)
        BY <1>5, <3>3 DEF Follows
      <4>2. CASE j = n
        <5>1. b.changes[i].object = k
          BY <1>6, <1>9, <3>3, <4>1, <4>2 DEF Follows
        <5>2. LastOn(b, i)
          <6>1. \A l \in 1 .. (n - 1) : l > i => l \in (i + 1) .. (n - 1)
            BY <1>5, <4>1
          <6> QED BY <1>5, <1>9, <3>3, <4>1, <4>2, <6>1 DEF Follows, LastOn
        <5>3. b.entries[k].intent_type = b.intents[i].type /\ k \in DOMAIN b.entries
          BY <3>1, <4>1, <5>1, <5>2
        <5>4. previous[1] = b.entries[k]
          BY <1>6, <5>3
        <5> QED BY <1>7, <4>1, <4>2, <5>3, <5>4
      <4>3. CASE j # n
        <5>1. j \in 1 .. (n - 1)
          BY <1>10, <4>3
        <5>2. Follows(b, i, j)
          BY <1>13, <3>3, <4>1, <5>1
        <5> QED BY <1>5, <1>7, <1>9, <4>1, <5>1, <5>2 DEF TypesInv
      <4> QED BY <4>2, <4>3
    <3> QED BY <1>9, <3>2, <3>3 DEF TypesInv
  <2>6. BasesInv(c)
    <3> SUFFICES ASSUME NEW i \in 1 .. n, c.changes[i].previous # <<>>
                 PROVE  LET j == c.changes[i].object
                        IN  /\ c.changes[i].previous[1].base_value = c.entries[j].base_value
                            /\ c.changes[i].previous[1].base_version = c.entries[j].base_version
      BY <1>9 DEF BasesInv
    <3>1. CASE i = n
      <4>1. k \in DOMAIN b.entries /\ previous[1] = b.entries[k]
        BY <1>6, <3>1
      <4> QED BY <1>6, <1>14, <3>1, <4>1
    <3>2. CASE i # n
      <4>1. i \in 1 .. (n - 1) /\ i \in DOMAIN b.changes /\ c.changes[i] = b.changes[i]
        BY <1>5, <1>9, <1>10, <3>2
      <4> QED BY <1>14, <4>1 DEF BasesInv, ChangesInv
    <3> QED BY <3>1, <3>2
  <2>7. ValuesInv(c)
    <3> DEFINE V(j, base, m) == ValueAfter(c.intents, j, base)[m]
    <3>1. \A j, base : V(j, base, n)
              = IF j = k THEN BufferedValue(base, V(j, base, n - 1), intent) ELSE V(j, base, n - 1)
      <4>1. \A j, base : V(j, base, n) = NextValue(c.intents, j, base, V(j, base, n - 1), n)
        BY <1>5, <1>7, ValueAfterUnroll
      <4> QED BY <1>7, <4>1 DEF NextValue
    <3>2. \A j \in DOMAIN b.entries :
              b.entries[j].current_value = V(j, b.entries[j].base_value, n - 1)
      BY <1>3, <1>5, <1>8 DEF ValuesInv
    <3>3. \A i \in 1 .. (n - 1) : b.changes[i].previous # <<>> =>
              b.changes[i].previous[1].current_value
                  = V(b.changes[i].object, b.entries[b.changes[i].object].base_value, i - 1)
      BY <1>3, <1>5, <1>8 DEF ValuesInv
    <3>4. k \notin DOMAIN b.entries => V(k, after.base_value, n - 1) = after.base_value
      <4> SUFFICES ASSUME k \notin DOMAIN b.entries
                   PROVE  V(k, after.base_value, n - 1) = after.base_value
        OBVIOUS
      <4>1. \A i \in 1 .. (n - 1) : c.intents[i].object # k
        BY <1>5, <1>7 DEF LoggedInv, ChangesInv
      <4> QED BY <1>5, <1>7, <4>1, ValueAfterNone
    <3> HIDE DEF V
    <3>5. ASSUME NEW j \in DOMAIN b.entries \cup {k}
          PROVE  c.entries[j].current_value = V(j, c.entries[j].base_value, n)
      <4>1. CASE j = k
        BY <1>2, <1>6, <3>1, <3>2, <3>4, <4>1
      <4>2. CASE j # k
        BY <1>6, <3>1, <3>2, <4>2
      <4> QED BY <4>1, <4>2
    <3>6. ASSUME NEW i \in 1 .. n, c.changes[i].previous # <<>>
          PROVE  c.changes[i].previous[1].current_value
                      = V(c.changes[i].object, c.entries[c.changes[i].object].base_value, i - 1)
      <4>1. CASE i = n
        <5>1. k \in DOMAIN b.entries /\ previous[1] = b.entries[k]
          BY <1>6, <3>6, <4>1
        <5> QED BY <1>6, <1>14, <3>2, <4>1, <5>1
      <4>2. CASE i # n
        <5>1. i \in 1 .. (n - 1) /\ i \in DOMAIN b.changes /\ c.changes[i] = b.changes[i]
          BY <1>5, <1>9, <1>10, <4>2
        <5> QED BY <1>14, <3>3, <3>6, <5>1 DEF ChangesInv
      <4> QED BY <4>1, <4>2
    <3> QED BY <1>6, <1>9, <3>5, <3>6 DEF ValuesInv, V
  <2> QED BY <2>1, <2>2, <2>3, <2>4, <2>5, <2>6, <2>7
<1>17. \A p \in 0 .. Len(b.changes) : SameCopy(b, c, p)
  <2> SUFFICES ASSUME NEW p \in 0 .. Len(b.changes) PROVE SameCopy(b, c, p)
    OBVIOUS
  <2>1. SameCopy(b, d, p)
    BY <1>3, SameLogCopies
  <2>2. SameCopy(c, d, p)
    BY <1>1, <1>3, <1>4, <1>6, <1>8, <1>16, BackCopies
  <2> QED BY <2>1, <2>2 DEF SameCopy
<1> QED BY <1>1, <1>14, <1>15, <1>16, <1>17 DEF c

--------------------------------------------------------------------------------
(* Savepoints.                                                               *)

\* A savepoint keeps the same position in both logs, one that is still there,
\* and a later savepoint an equal or later one.
SavepointsInv(b) ==
    /\ \A i \in DOMAIN b.savepoints :
        /\ b.savepoints[i].write_log_position = b.savepoints[i].intent_log_position
        /\ b.savepoints[i].write_log_position <= Len(b.changes)
    /\ \A i, j \in DOMAIN b.savepoints : i < j =>
        b.savepoints[i].write_log_position <= b.savepoints[j].write_log_position

\* What holds of a branch between two operations.
BranchInv(b) ==
    /\ Consistent(b)
    /\ Len(b.changes) = Len(b.intents)
    /\ SavepointsInv(b)

\* What RollbackToSavepoint does.
RolledBack(b, c, id) ==
    LET i == FirstSavepoint(b, id)
        p == b.savepoints[i].write_log_position
    IN  /\ c \in BranchContext /\ BranchInv(c)
        /\ Len(c.changes) = p
        /\ c.intents = SubSeq(b.intents, 1, p)
        /\ c.savepoints = SubSeq(b.savepoints, 1, i)
        /\ c.reads = b.reads /\ c.status = b.status /\ c.score = b.score
        /\ \A q \in 0 .. p : SameCopy(b, c, q)
        /\ \A k \in DOMAIN c.entries :
            /\ k \in DOMAIN b.entries
            /\ c.entries[k].base_value = b.entries[k].base_value
            /\ c.entries[k].base_version = b.entries[k].base_version

\* RollbackToSavepoint truncates both logs to where the savepoint was made.
LEMMA RollbackRollsBack ==
    ASSUME NEW b \in BranchContext, BranchInv(b), NEW id, HasSavepoint(b, id)
    PROVE  RolledBack(b, RollbackToSavepoint(b, id), id)
<1> DEFINE c == RollbackToSavepoint(b, id)
           i == FirstSavepoint(b, id)
           p == b.savepoints[i].write_log_position
           t == TruncateBuffer(b, p)
           u == TruncateIntents(t, p)
<1>1. /\ b.savepoints \in Seq(Savepoint) /\ b.intents \in Seq(WriteIntent)
      /\ Len(b.changes) \in Nat /\ Len(b.intents) = Len(b.changes)
  <2>1. b.savepoints \in Seq(Savepoint) /\ b.intents \in Seq(WriteIntent) /\ b.changes \in Seq(ChangeRecord)
    BY BranchFields
  <2> QED BY <2>1 DEF BranchInv
<1>2. i \in DOMAIN b.savepoints
  BY FirstSavepointIs
<1>3. /\ p \in 0 .. Len(b.changes) /\ p \in Nat
      /\ b.savepoints[i].intent_log_position = p
  <2>1. p \in Nat
    BY <1>2, SavepointFields
  <2> QED BY <1>1, <1>2, <2>1 DEF BranchInv, SavepointsInv
<1>4. c = [u EXCEPT !.savepoints = SubSeq(@, 1, i)]
  BY <1>3 DEF RollbackToSavepoint
<1>5. TruncatedTo(b, t, p)
  <2> HIDE DEF p, i
  <2> QED BY <1>3, TruncateBufferTruncates DEF BranchInv
<1> HIDE DEF t
<1>6. t \in BranchContext /\ Consistent(t) /\ Len(t.changes) = p
      /\ t.intents = b.intents /\ t.savepoints = b.savepoints /\ t.reads = b.reads
      /\ t.status = b.status /\ t.score = b.score
  BY <1>5 DEF TruncatedTo
<1> DEFINE intents == SubSeq(b.intents, 1, p)
           savepoints == SubSeq(b.savepoints, 1, i)
<1>7. /\ intents \in Seq(WriteIntent) /\ Len(intents) = p
      /\ \A j \in 1 .. p : intents[j] = b.intents[j]
  BY <1>1, <1>3
<1>8. /\ savepoints \in Seq(Savepoint) /\ DOMAIN savepoints = 1 .. i
      /\ \A j \in 1 .. i : savepoints[j] = b.savepoints[j]
      /\ i \in Nat /\ \A j \in 1 .. i : j \in DOMAIN b.savepoints
  BY <1>1, <1>2
<1>9. u = [t EXCEPT !.intents = intents]
  <2>1. CASE Len(t.intents) > p
    BY <1>6, <2>1 DEF TruncateIntents
  <2>2. CASE ~(Len(t.intents) > p)
    <3>1. Len(b.intents) = p
      BY <1>1, <1>3, <1>6, <2>2
    <3>2. intents = t.intents
      BY <1>1, <1>6, <3>1
    <3>3. t = [t EXCEPT !.intents = t.intents]
      BY <1>6 DEF BranchContext
    <3>4. u = t
      BY <2>2 DEF TruncateIntents
    <3> HIDE DEF u, intents
    <3> QED BY <3>2, <3>3, <3>4
  <2> QED BY <2>1, <2>2
<1> HIDE DEF u, p, i
<1>10. c = [t EXCEPT !.intents = intents, !.savepoints = savepoints]
  BY <1>4, <1>6, <1>9 DEF BranchContext
<1> HIDE DEF c, intents, savepoints
<1>11. c \in BranchContext
  BY <1>6, <1>7, <1>8, <1>10 DEF BranchContext
<1>12. /\ c.intents = intents /\ c.savepoints = savepoints
       /\ c.entries = t.entries /\ c.order = t.order /\ c.changes = t.changes
       /\ c.reads = b.reads /\ c.status = b.status /\ c.score = b.score
  BY <1>6, <1>10 DEF BranchContext
<1>13. Consistent(c)
  <2>1. DOMAIN t.changes = 1 .. p
    BY <1>6, BranchFields
  <2>2. Len(t.changes) <= Len(c.intents)
    BY <1>3, <1>6, <1>7, <1>12
  <2> QED BY <1>6, <1>7, <1>11, <1>12, <2>1, <2>2, SameLogConsistent
<1>14. SavepointsInv(c)
  <2>1. DOMAIN c.savepoints = 1 .. i /\ Len(c.changes) = p
        /\ \A j \in 1 .. i : c.savepoints[j] = b.savepoints[j]
    BY <1>6, <1>8, <1>12
  <2>2. \A j \in 1 .. i : b.savepoints[j].write_log_position <= p
    <3> SUFFICES ASSUME NEW j \in 1 .. i PROVE b.savepoints[j].write_log_position <= p
      OBVIOUS
    <3>1. CASE j = i
      BY <1>3, <3>1 DEF p
    <3>2. CASE j # i
      <4>1. j < i
        BY <1>8, <3>2
      <4> QED BY <1>2, <1>8, <4>1 DEF p, BranchInv, SavepointsInv
    <3> QED BY <3>1, <3>2
  <2> QED BY <1>8, <2>1, <2>2 DEF BranchInv, SavepointsInv
<1>15. \A q \in 0 .. p : SameCopy(b, c, q)
  <2> SUFFICES ASSUME NEW q \in 0 .. p PROVE SameCopy(b, c, q)
    OBVIOUS
  <2>1. SameCopy(t, c, q)
    BY <1>12, SameLogCopies
  <2>2. SameCopy(b, t, q)
    BY <1>5 DEF TruncatedTo
  <2> QED BY <2>1, <2>2 DEF SameCopy
<1>16. \A k \in DOMAIN c.entries :
            /\ k \in DOMAIN b.entries
            /\ c.entries[k].base_value = b.entries[k].base_value
            /\ c.entries[k].base_version = b.entries[k].base_version
  BY <1>5, <1>12 DEF TruncatedTo
<1>17. BranchInv(c) /\ Len(c.changes) = p
  BY <1>6, <1>7, <1>12, <1>13, <1>14 DEF BranchInv
<1> QED BY <1>11, <1>12, <1>15, <1>16, <1>17 DEF RolledBack, c, i, p, intents, savepoints

\* Truncating to position 0 leaves nothing behind.
LEMMA TruncateToZero ==
    ASSUME NEW b \in BranchContext, Consistent(b)
    PROVE  LET emptied == TruncateIntents(TruncateBuffer(b, 0), 0)
           IN  /\ emptied.entries = NoBuffer
               /\ emptied.order = <<>>
               /\ emptied.intents = <<>>
<1> DEFINE t == TruncateBuffer(b, 0)
           u == TruncateIntents(t, 0)
<1>1. TruncatedTo(b, t, 0)
  <2>1. 0 \in 0 .. Len(b.changes)
    BY BranchFields
  <2> QED BY <2>1, TruncateBufferTruncates
<1> HIDE DEF t
<1>2. t \in BranchContext /\ Consistent(t) /\ Len(t.changes) = 0
  BY <1>1 DEF TruncatedTo
<1>3. /\ t.order \in Seq(Key) /\ t.intents \in Seq(WriteIntent)
      /\ t.entries \in [DOMAIN t.entries -> CacheEntry] /\ DOMAIN t.changes = {}
  <2>1. t.changes \in Seq(ChangeRecord)
    BY <1>2, BranchFields
  <2> QED BY <1>2, <2>1, BranchFields
<1>4. DOMAIN t.entries = {}
  BY <1>2, <1>3 DEF Consistent, BufferedInv
<1>5. t.entries = NoBuffer
  BY <1>3, <1>4 DEF NoBuffer
<1>6. t.order = <<>>
  <2>1. Len(t.order) \in Nat /\ DOMAIN t.order = 1 .. Len(t.order)
    BY <1>3
  <2>2. \A i \in DOMAIN t.order : t.order[i] \in DOMAIN t.entries
    BY <1>2 DEF Consistent, SortedInv
  <2>3. 1 \notin DOMAIN t.order
    BY <1>4, <2>2
  <2>4. Len(t.order) = 0
    BY <2>1, <2>3
  <2> QED BY <1>3, <2>4
<1>7. u.entries = t.entries /\ u.order = t.order
  BY <1>2 DEF TruncateIntents, BranchContext
<1>8. u.intents = <<>>
  <2>1. CASE Len(t.intents) > 0
    <3>1. u.intents = SubSeq(t.intents, 1, 0)
      BY <1>2, <2>1 DEF TruncateIntents, BranchContext
    <3>2. u.intents \in Seq(WriteIntent) /\ Len(u.intents) = 0
      <4>1. ASSUME NEW m \in Nat, m <= Len(t.intents)
            PROVE  SubSeq(t.intents, 1, m) \in Seq(WriteIntent) /\ Len(SubSeq(t.intents, 1, m)) = m
        BY <1>3, <4>1
      <4>2. 0 \in Nat /\ 0 <= Len(t.intents)
        BY <1>3
      <4> QED BY <3>1, <4>1, <4>2
    <3> QED BY <3>2
  <2>2. CASE ~(Len(t.intents) > 0)
    <3>1. u.intents = t.intents
      BY <2>2 DEF TruncateIntents
    <3>2. Len(t.intents) = 0
      BY <1>3, <2>2
    <3> QED BY <1>3, <3>1, <3>2
  <2> QED BY <2>1, <2>2
<1> HIDE DEF u
<1> QED BY <1>5, <1>6, <1>7, <1>8 DEF t, u

--------------------------------------------------------------------------------
(* What each operation keeps of a branch.                                    *)

\* An empty branch has nothing in its logs.
LEMMA EmptyBranchInv ==
    ASSUME NEW b, b.entries = NoBuffer, b.order = <<>>, b.changes = <<>>,
           b.intents = <<>>, b.savepoints = <<>>
    PROVE  BranchInv(b)
<1>1. DOMAIN b.entries = {}
  BY DEF NoBuffer
<1>2. /\ DOMAIN b.order = {} /\ DOMAIN b.changes = {} /\ DOMAIN b.savepoints = {}
      /\ Len(b.changes) = Len(b.intents) /\ Len(b.changes) = 0 /\ Len(b.intents) = 0
  OBVIOUS
<1>3. ChangesInv(b) /\ BufferedInv(b) /\ TypesInv(b) /\ BasesInv(b) /\ ValuesInv(b)
  BY <1>1, <1>2 DEF ChangesInv, BufferedInv, TypesInv, BasesInv, ValuesInv
<1>4. SortedInv(b)
  BY <1>1, <1>2 DEF SortedInv
<1>5. LoggedInv(b)
  BY <1>2 DEF LoggedInv
<1>6. SavepointsInv(b)
  BY <1>2 DEF SavepointsInv
<1> QED BY <1>2, <1>3, <1>4, <1>5, <1>6 DEF BranchInv, Consistent

\* An operation that touches neither the logs nor the savepoints.
LEMMA SameLogInv ==
    ASSUME NEW b \in BranchContext, NEW c \in BranchContext, BranchInv(b),
           c.entries = b.entries, c.order = b.order, c.changes = b.changes,
           c.intents = b.intents, c.savepoints = b.savepoints
    PROVE  BranchInv(c)
<1>1. Len(b.changes) <= Len(b.intents)
  BY DEF BranchInv, Consistent, LoggedInv
<1>2. Consistent(c)
  BY <1>1, SameLogConsistent DEF BranchInv
<1> QED BY <1>2 DEF BranchInv, SavepointsInv

\* A read adds to the read set at most.
LEMMA ReadObjectInv ==
    ASSUME NEW b \in BranchContext, BranchInv(b), NEW k \in Key, NEW kv \in Store
    PROVE  LET c == ReadObject(b, k, kv)
           IN  /\ c \in BranchContext /\ BranchInv(c) /\ c.status = "Running" /\ c.score = b.score
               /\ c.entries = b.entries /\ c.order = b.order /\ c.changes = b.changes
               /\ c.intents = b.intents /\ c.savepoints = b.savepoints
               /\ Len(b.reads) <= Len(c.reads)
               /\ \A i \in DOMAIN b.reads : c.reads[i] = b.reads[i]
<1> DEFINE c == ReadObject(b, k, kv)
           record == [object |-> k, version |-> kv[k].version, seen |-> kv[k].value]
<1>1. /\ c.status = "Running" /\ c.score = b.score
      /\ c.entries = b.entries /\ c.order = b.order /\ c.changes = b.changes
      /\ c.intents = b.intents /\ c.savepoints = b.savepoints
      /\ c.reads = IF IsBuffered(b, k) THEN b.reads ELSE Append(b.reads, record)
  BY DEF ReadObject, BranchContext
<1>2. c \in BranchContext
  BY ReadObjectType
<1> HIDE DEF c, record
<1>3. BranchInv(c)
  BY <1>1, <1>2, SameLogInv
<1>4. Len(b.reads) <= Len(c.reads) /\ \A i \in DOMAIN b.reads : c.reads[i] = b.reads[i]
  <2>1. b.reads \in Seq(ReadRecord)
    BY BranchFields
  <2> QED BY <1>1, <2>1
<1> QED BY <1>1, <1>2, <1>3, <1>4 DEF c

\* Staging touches the score and the status.
LEMMA StageBranchInv ==
    ASSUME NEW b \in BranchContext, BranchInv(b), NEW score \in Int
    PROVE  LET c == StageBranch(b, score)
           IN  /\ c \in BranchContext /\ BranchInv(c) /\ c.status = "Staged" /\ c.score = score
               /\ c.entries = b.entries /\ c.order = b.order /\ c.changes = b.changes
               /\ c.intents = b.intents /\ c.savepoints = b.savepoints /\ c.reads = b.reads
<1> DEFINE c == StageBranch(b, score)
<1>1. /\ c.status = "Staged" /\ c.score = score
      /\ c.entries = b.entries /\ c.order = b.order /\ c.changes = b.changes
      /\ c.intents = b.intents /\ c.savepoints = b.savepoints /\ c.reads = b.reads
  BY DEF StageBranch, BranchContext
<1>2. c \in BranchContext
  BY StageBranchType
<1> HIDE DEF c
<1> QED BY <1>1, <1>2, SameLogInv DEF c

\* A savepoint is made at the end of both logs.
LEMMA CreateSavepointInv ==
    ASSUME NEW b \in BranchContext, BranchInv(b), NEW id \in SavepointId
    PROVE  LET c == CreateSavepoint(b, id)
               sp == [id |-> id, write_log_position |-> Len(b.changes),
                      intent_log_position |-> Len(b.intents)]
           IN  /\ c \in BranchContext /\ BranchInv(c) /\ c.status = b.status /\ c.score = b.score
               /\ c.entries = b.entries /\ c.order = b.order /\ c.changes = b.changes
               /\ c.intents = b.intents /\ c.reads = b.reads
               /\ c.savepoints = Append(b.savepoints, sp)
<1> DEFINE c == CreateSavepoint(b, id)
           sp == [id |-> id, write_log_position |-> Len(b.changes),
                  intent_log_position |-> Len(b.intents)]
           n == Len(b.savepoints) + 1
<1>1. /\ c.status = b.status /\ c.score = b.score
      /\ c.entries = b.entries /\ c.order = b.order /\ c.changes = b.changes
      /\ c.intents = b.intents /\ c.reads = b.reads
      /\ c.savepoints = Append(b.savepoints, sp)
  BY DEF CreateSavepoint, BranchContext
<1>2. b.savepoints \in Seq(Savepoint) /\ Len(b.changes) \in Nat /\ Len(b.intents) \in Nat
  BY BranchFields
<1>3. sp \in Savepoint
  BY <1>2 DEF Savepoint
<1>4. c \in BranchContext
  <2>1. Append(b.savepoints, sp) \in Seq(Savepoint)
    BY <1>2, <1>3
  <2>2. c = [b EXCEPT !.savepoints = Append(b.savepoints, sp)]
    BY DEF CreateSavepoint
  <2> HIDE DEF c, sp
  <2> QED BY <2>1, <2>2 DEF BranchContext
<1>5. sp.write_log_position = Len(b.changes) /\ sp.intent_log_position = Len(b.changes)
  BY DEF BranchInv
<1> HIDE DEF c, sp
<1>6. Consistent(c) /\ Len(c.changes) = Len(c.intents)
  <2>1. Len(b.changes) <= Len(b.intents)
    BY <1>2 DEF BranchInv
  <2> QED BY <1>1, <1>4, <2>1, SameLogConsistent DEF BranchInv
<1>7. /\ DOMAIN c.savepoints = 1 .. n /\ c.savepoints[n] = sp
      /\ \A i \in 1 .. n : i = n \/ i \in DOMAIN b.savepoints
      /\ \A i \in DOMAIN b.savepoints : c.savepoints[i] = b.savepoints[i]
      /\ \A i \in DOMAIN b.savepoints : ~(n < i)
  BY <1>1, <1>2, <1>3
<1>8. \A i \in DOMAIN b.savepoints :
        /\ b.savepoints[i].write_log_position = b.savepoints[i].intent_log_position
        /\ b.savepoints[i].write_log_position <= Len(b.changes)
  BY DEF BranchInv, SavepointsInv
<1>9. SavepointsInv(c)
  <2>1. \A i \in 1 .. n :
            /\ c.savepoints[i].write_log_position = c.savepoints[i].intent_log_position
            /\ c.savepoints[i].write_log_position <= Len(c.changes)
    BY <1>1, <1>2, <1>5, <1>7, <1>8
  <2>2. ASSUME NEW i \in 1 .. n, NEW j \in 1 .. n, i < j
        PROVE  c.savepoints[i].write_log_position <= c.savepoints[j].write_log_position
    <3>1. i \in DOMAIN b.savepoints
      BY <1>2, <1>7, <2>2
    <3>2. CASE j = n
      BY <1>5, <1>7, <1>8, <3>1, <3>2
    <3>3. CASE j # n
      BY <1>7, <2>2, <3>1, <3>3 DEF BranchInv, SavepointsInv
    <3> QED BY <3>2, <3>3
  <2> QED BY <1>7, <2>1, <2>2 DEF SavepointsInv
<1> QED BY <1>1, <1>4, <1>6, <1>9 DEF BranchInv, c, sp

\* A write adds to both logs, behind every savepoint.
LEMMA BufferWriteInv ==
    ASSUME NEW b \in BranchContext, BranchInv(b), NEW intent \in WriteIntent, NEW kv \in Store
    PROVE  LET c == BufferWrite(b, intent, kv)
           IN  c \in BranchContext /\ BranchInv(c)
<1> DEFINE c == BufferWrite(b, intent, kv)
<1>1. c \in BranchContext /\ Consistent(c) /\ Len(c.changes) = Len(c.intents)
  BY WriteConsistent DEF BranchInv
<1>2. Len(c.changes) = Len(b.changes) + 1 /\ c.savepoints = b.savepoints
  BY BufferWriteWrites DEF BranchInv, Written
<1> HIDE DEF c
<1>3. SavepointsInv(c)
  <2>1. Len(b.changes) \in Nat
    BY BranchFields
  <2>2. \A i \in DOMAIN b.savepoints : b.savepoints[i].write_log_position \in Nat
    BY SavepointFields
  <2> QED BY <1>2, <2>1, <2>2 DEF BranchInv, SavepointsInv
<1> QED BY <1>1, <1>3 DEF BranchInv, c

\* Consistent logs are in step.
LEMMA LatestMatches ==
    ASSUME NEW b \in BranchContext, BranchInv(b)
    PROVE  \A k \in DOMAIN b.entries :
              /\ HasIntent(b, k)
              /\ b.entries[k].intent_type = LatestIntent(b, k).type
<1> SUFFICES ASSUME NEW k \in DOMAIN b.entries
             PROVE  HasIntent(b, k) /\ b.entries[k].intent_type = LatestIntent(b, k).type
  OBVIOUS
<1> DEFINE S == IntentsOn(b, k)
           n == Len(b.changes)
<1>1. /\ n \in Nat /\ DOMAIN b.changes = 1 .. n /\ DOMAIN b.intents = 1 .. n
      /\ \A i \in 1 .. n : b.intents[i].object = b.changes[i].object
  <2>1. b.changes \in Seq(ChangeRecord) /\ b.intents \in Seq(WriteIntent)
    BY BranchFields
  <2>2. Len(b.intents) = n /\ \A i \in DOMAIN b.changes : b.intents[i].object = b.changes[i].object
    BY DEF BranchInv, Consistent, LoggedInv
  <2> QED BY <2>1, <2>2
<1>2. S = {i \in 1 .. n : b.changes[i].object = k}
  BY <1>1 DEF IntentsOn
<1>3. S # {}
  BY <1>1, <1>2 DEF BranchInv, Consistent, BufferedInv
<1>4. \E m \in S : \A j \in S : j <= m
  <2>1. S \in SUBSET (1 .. n)
    BY <1>2
  <2> HIDE DEF S
  <2> QED BY <1>1, <1>3, <2>1, GreatestIndex
<1> DEFINE latest == CHOOSE i \in S : \A j \in S : j <= i
<1>5. latest \in S /\ \A j \in S : j <= latest
  <2> HIDE DEF S
  <2> QED BY <1>4
<1>6. LatestIntent(b, k) = b.intents[latest]
  BY DEF LatestIntent
<1> HIDE DEF latest, S
<1>7. LastOn(b, latest) /\ latest \in 1 .. n /\ b.changes[latest].object = k
  BY <1>1, <1>2, <1>5 DEF LastOn
<1>8. b.entries[k].intent_type = b.intents[latest].type
  BY <1>1, <1>7 DEF BranchInv, Consistent, TypesInv
<1> QED BY <1>3, <1>6, <1>8 DEF HasIntent, S

--------------------------------------------------------------------------------
(* The inductive invariant and the theorems.                                 *)

TypeInv ==
    /\ branch \in BranchContext
    /\ branch.status \in {"Created", "Running", "Staged", "Discarded"}
    /\ branch.score \in Score \cup {0}
    /\ store \in Store
    /\ puts \in 0 .. MaxPuts

IInv == TypeInv /\ BranchInv(branch)

\* The branch starts empty.
LEMMA InitInv == Init => IInv
<1> SUFFICES ASSUME Init PROVE IInv
  OBVIOUS
<1>1. branch \in BranchContext
  BY CreateBranchType DEF Init
<1>2. branch.status = "Created" /\ branch.score = 0 /\ BranchInv(branch)
  BY EmptyBranchInv DEF Init, CreateBranch
<1>3. store \in Store /\ puts \in 0 .. MaxPuts
  BY InitialStoreAssumption, MaxPutsAssumption DEF Init, Store
<1> QED BY <1>1, <1>2, <1>3 DEF IInv, TypeInv

\* Every operation of the branch, and every put of others, keeps the invariant.
LEMMA NextInv == IInv /\ [Next]_vars => IInv'
<1> SUFFICES ASSUME IInv, [Next]_vars PROVE IInv'
  OBVIOUS
<1> USE DEF IInv, TypeInv
<1>1. ASSUME NEW k \in Key, Read(k) PROVE IInv'
  BY <1>1, ReadObjectInv DEF Read
<1>2. ASSUME NEW intent \in Intents, Write(intent) PROVE IInv'
  <2>1. intent \in WriteIntent
    BY IntentsAssumption
  <2>2. /\ BufferWrite(branch, intent, store).status = "Running"
        /\ BufferWrite(branch, intent, store).score = branch.score
    BY <2>1, BufferWriteWrites DEF BranchInv, Written
  <2> QED BY <1>2, <2>1, <2>2, BufferWriteInv DEF Write
<1>3. ASSUME NEW id \in SavepointId, SavepointAt(id) PROVE IInv'
  BY <1>3, CreateSavepointInv DEF SavepointAt
<1>4. ASSUME NEW id \in SavepointId, Rollback(id) PROVE IInv'
  <2>1. RolledBack(branch, branch', id)
    BY <1>4, RollbackRollsBack DEF Rollback
  <2> QED BY <1>4, <2>1 DEF Rollback, RolledBack
<1>5. ASSUME NEW score \in Score, Stage(score) PROVE IInv'
  BY <1>5, ScoreAssumption, StageBranchInv DEF Stage
<1>6. CASE Discard
  <2> DEFINE c == DiscardBranch(branch)
  <2>1. c.entries = NoBuffer /\ c.order = <<>> /\ c.changes = <<>>
        /\ c.intents = <<>> /\ c.savepoints = <<>> /\ c.status = "Discarded"
        /\ c.score = branch.score
    BY DEF DiscardBranch, BranchContext
  <2>2. c \in BranchContext
    BY DiscardBranchType
  <2> HIDE DEF c
  <2>3. BranchInv(c)
    BY <2>1, EmptyBranchInv
  <2> QED BY <1>6, <2>1, <2>2, <2>3 DEF Discard, c
<1>7. ASSUME NEW k \in Key, NEW v \in PutValues, ExternalPut(k, v) PROVE IInv'
  <2>1. store' \in Store
    BY <1>7, PutValuesAssumption, PutType DEF ExternalPut
  <2>2. puts' \in 0 .. MaxPuts
    BY <1>7, MaxPutsAssumption DEF ExternalPut
  <2> QED BY <1>7, <2>1, <2>2 DEF ExternalPut
<1>8. CASE UNCHANGED vars
  BY <1>8 DEF vars
<1> QED BY <1>1, <1>2, <1>3, <1>4, <1>5, <1>6, <1>7, <1>8 DEF Next

\* The invariant holds throughout.
THEOREM InvHolds == Spec => []IInv
<1>1. Init => IInv
  BY InitInv
<1>2. IInv /\ [Next]_vars => IInv'
  BY NextInv
<1> QED BY <1>1, <1>2, PTL DEF Spec

\* A branch under any mix of operations, and the store, have the code's types.
THEOREM TypeOKHolds == Spec => []TypeOK
<1>1. IInv => TypeOK
  <2> SUFFICES ASSUME IInv PROVE TypeOK
    OBVIOUS
  <2>1. /\ branch.reads \in Seq(ReadRecord) /\ branch.order \in Seq(Key)
        /\ branch.changes \in Seq(ChangeRecord) /\ branch.intents \in Seq(WriteIntent)
        /\ branch.savepoints \in Seq(Savepoint)
        /\ DOMAIN branch.entries \subseteq Key
        /\ \A k \in DOMAIN branch.entries : branch.entries[k] \in CacheEntry
    BY BranchFields DEF IInv, TypeInv
  <2>2. branch.score \in Score \cup {0}
    BY DEF IInv, TypeInv
  <2>3. \A k \in Key : store[k] \in VersionedValue
    BY DEF IInv, TypeInv, Store
  <2> QED BY <2>1, <2>2, <2>3 DEF IInv, TypeInv, TypeOK
<1> QED BY <1>1, InvHolds, PTL

\* The write buffer and the intent log stay two logs of the same writes, through
\* any writes, savepoints and rollbacks of WriteBuffer and IntentLog.
THEOREM LogsInStepHolds == Spec => []LogsInStep
<1>1. IInv => LogsInStep
  <2> SUFFICES ASSUME IInv PROVE LogsInStep
    OBVIOUS
  <2> USE DEF IInv, TypeInv
  <2>1. DOMAIN branch.intents = DOMAIN branch.changes
    <3>1. branch.changes \in Seq(ChangeRecord) /\ branch.intents \in Seq(WriteIntent)
      BY BranchFields
    <3>2. Len(branch.changes) = Len(branch.intents)
      BY DEF BranchInv
    <3> QED BY <3>1, <3>2
  <2>2. \A i \in DOMAIN branch.intents : branch.changes[i].object = branch.intents[i].object
    BY <2>1 DEF BranchInv, Consistent, LoggedInv
  <2>3. \A k \in Key : IsBuffered(branch, k) <=> HasIntent(branch, k)
    <3> SUFFICES ASSUME NEW k \in Key PROVE IsBuffered(branch, k) <=> HasIntent(branch, k)
      OBVIOUS
    <3>1. HasIntent(branch, k) => k \in DOMAIN branch.entries
      BY <2>1, <2>2 DEF HasIntent, IntentsOn, BranchInv, Consistent, ChangesInv
    <3>2. k \in DOMAIN branch.entries => HasIntent(branch, k)
      BY LatestMatches
    <3> QED BY <3>1, <3>2 DEF IsBuffered
  <2>4. \A k \in DOMAIN branch.entries :
            branch.entries[k].intent_type = LatestIntent(branch, k).type
    BY LatestMatches
  <2>5. /\ {branch.order[i] : i \in DOMAIN branch.order} = DOMAIN branch.entries
        /\ \A i, j \in DOMAIN branch.order : branch.order[i] = branch.order[j] => i = j
    BY DEF BranchInv, Consistent, SortedInv
  <2>6. Len(branch.changes) = Len(branch.intents)
    BY DEF BranchInv
  <2> QED BY <2>2, <2>3, <2>4, <2>5, <2>6 DEF LogsInStep
<1> QED BY <1>1, InvHolds, PTL

\* A buffered value is what the surviving intents make of the object's base:
\* Truncate leaves no trace of an undone write.
THEOREM BufferIsReplayHolds == Spec => []BufferIsReplay
<1>1. IInv => BufferIsReplay
  BY DEF IInv, BranchInv, Consistent, ValuesInv, BufferIsReplay, Replayed
<1> QED BY <1>1, InvHolds, PTL

\* The truncations of DiscardBranch to position 0 empty the buffer and the log.
THEOREM DiscardEmptiesHolds == Spec => []DiscardEmpties
<1>1. IInv => DiscardEmpties
  BY TruncateToZero DEF IInv, TypeInv, BranchInv, DiscardEmpties
<1> QED BY <1>1, InvHolds, PTL

\* While an object stays buffered, neither BufferWrite nor a rollback moves the
\* base of its entry, which the commit will check.
THEOREM BaseNeverMovesHolds == Spec => BaseNeverMoves
<1> DEFINE Kept ==
        \A k \in DOMAIN branch.entries \cap DOMAIN branch'.entries :
            /\ branch'.entries[k].base_version = branch.entries[k].base_version
            /\ branch'.entries[k].base_value = branch.entries[k].base_value
<1>1. ASSUME IInv, [Next]_vars PROVE Kept
  <2> USE <1>1 DEF IInv, TypeInv
  <2>1. ASSUME NEW k \in Key, Read(k) PROVE Kept
    BY <2>1, ReadObjectInv DEF Read
  <2>2. ASSUME NEW intent \in Intents, Write(intent) PROVE Kept
    <3>1. intent \in WriteIntent
      BY IntentsAssumption
    <3> QED BY <2>2, <3>1, WriteConsistent DEF Write, BranchInv
  <2>3. ASSUME NEW id \in SavepointId, SavepointAt(id) PROVE Kept
    BY <2>3, CreateSavepointInv DEF SavepointAt
  <2>4. ASSUME NEW id \in SavepointId, Rollback(id) PROVE Kept
    BY <2>4, RollbackRollsBack DEF Rollback, RolledBack
  <2>5. ASSUME NEW score \in Score, Stage(score) PROVE Kept
    BY <2>5, ScoreAssumption, StageBranchInv DEF Stage
  <2>6. CASE Discard
    <3>1. DOMAIN branch'.entries = {}
      BY <2>6 DEF Discard, DiscardBranch, NoBuffer, BranchContext
    <3> QED BY <3>1
  <2>7. ASSUME NEW k \in Key, NEW v \in PutValues, ExternalPut(k, v) PROVE Kept
    BY <2>7 DEF ExternalPut
  <2>8. CASE UNCHANGED vars
    BY <2>8 DEF vars
  <2> QED BY <2>1, <2>2, <2>3, <2>4, <2>5, <2>6, <2>7, <2>8 DEF Next
<1>2. IInv /\ [Next]_vars => [Kept]_vars
  BY <1>1
<1> HIDE DEF Kept
<1>3. Spec => [][Kept]_vars
  BY <1>2, InvHolds, PTL DEF Spec
<1> QED BY <1>3 DEF BaseNeverMoves, Kept

\* No operation of the branch, RollbackToSavepoint and DiscardBranch included,
\* takes anything out of the read set.
THEOREM ReadsSurviveHolds == Spec => ReadsSurvive
<1> DEFINE Kept ==
        /\ Len(branch.reads) <= Len(branch'.reads)
        /\ \A i \in DOMAIN branch.reads : branch'.reads[i] = branch.reads[i]
<1>1. ASSUME IInv, [Next]_vars PROVE Kept
  <2> USE <1>1 DEF IInv, TypeInv
  <2>1. ASSUME NEW k \in Key, Read(k) PROVE Kept
    BY <2>1, ReadObjectInv DEF Read
  <2>2. branch'.reads = branch.reads => Kept
    <3>1. Len(branch.reads) \in Nat
      BY BranchFields
    <3> QED BY <3>1
  <2>3. ASSUME NEW intent \in Intents, Write(intent) PROVE Kept
    <3>1. intent \in WriteIntent
      BY IntentsAssumption
    <3>2. branch'.reads = branch.reads
      BY <2>3, <3>1, BufferWriteWrites DEF Write, BranchInv, Written
    <3> QED BY <2>2, <3>2
  <2>4. ASSUME NEW id \in SavepointId, SavepointAt(id) PROVE Kept
    BY <2>2, <2>4, CreateSavepointInv DEF SavepointAt
  <2>5. ASSUME NEW id \in SavepointId, Rollback(id) PROVE Kept
    BY <2>2, <2>5, RollbackRollsBack DEF Rollback, RolledBack
  <2>6. ASSUME NEW score \in Score, Stage(score) PROVE Kept
    BY <2>2, <2>6, ScoreAssumption, StageBranchInv DEF Stage
  <2>7. CASE Discard
    BY <2>2, <2>7 DEF Discard, DiscardBranch, BranchContext
  <2>8. ASSUME NEW k \in Key, NEW v \in PutValues, ExternalPut(k, v) PROVE Kept
    BY <2>2, <2>8 DEF ExternalPut
  <2>9. CASE UNCHANGED vars
    BY <2>2, <2>9 DEF vars
  <2> QED BY <2>1, <2>3, <2>4, <2>5, <2>6, <2>7, <2>8, <2>9 DEF Next
<1>2. IInv /\ [Next]_vars => [Kept]_vars
  BY <1>1
<1> HIDE DEF Kept
<1>3. Spec => [][Kept]_vars
  BY <1>2, InvHolds, PTL DEF Spec
<1> QED BY <1>3 DEF ReadsSurvive, Kept

--------------------------------------------------------------------------------
(* The undo log implements savepoints that keep copies.                      *)

\* The copies that the savepoints of a branch stand for.
Saved(b) ==
    [i \in DOMAIN b.savepoints |->
        [id |-> b.savepoints[i].id, work |-> WorkAt(b, b.savepoints[i])]]

\* A savepoint stands for the same copy in branches that agree up to it.
LEMMA WorkAtAgrees ==
    ASSUME NEW b, NEW c, NEW sp, SameCopy(b, c, sp.write_log_position),
           SubSeq(c.intents, 1, sp.intent_log_position) = SubSeq(b.intents, 1, sp.intent_log_position)
    PROVE  WorkAt(c, sp) = WorkAt(b, sp)
<1> DEFINE p == sp.write_log_position
<1>1. KeptAt(c, p) = KeptAt(b, p) /\ OrderAt(c, p) = OrderAt(b, p)
      /\ \A k \in KeptAt(b, p) : EntryAt(c, p, k) = EntryAt(b, p, k)
  BY DEF SameCopy
<1>2. [k \in KeptAt(c, p) |-> EntryAt(c, p, k)] = [k \in KeptAt(b, p) |-> EntryAt(b, p, k)]
  BY <1>1
<1> QED BY <1>1, <1>2 DEF WorkAt

\* At the end of both logs a savepoint stands for the work itself.
LEMMA WorkAtEnd ==
    ASSUME NEW b \in BranchContext, BranchInv(b), NEW sp,
           sp.write_log_position = Len(b.changes), sp.intent_log_position = Len(b.intents)
    PROVE  WorkAt(b, sp) = WorkOf(b)
<1> DEFINE p == Len(b.changes)
<1>1. KeptAt(b, p) = DOMAIN b.entries /\ OrderAt(b, p) = b.order
      /\ \A k \in DOMAIN b.entries : EntryAt(b, p, k) = b.entries[k]
  BY CurrentCopy DEF BranchInv
<1>2. b.intents \in Seq(WriteIntent) /\ b.entries \in [DOMAIN b.entries -> CacheEntry]
  BY BranchFields
<1>3. SubSeq(b.intents, 1, Len(b.intents)) = b.intents
  BY <1>2
<1>4. [k \in KeptAt(b, p) |-> EntryAt(b, p, k)] = b.entries
  <2>1. [k \in KeptAt(b, p) |-> EntryAt(b, p, k)] = [k \in DOMAIN b.entries |-> b.entries[k]]
    BY <1>1
  <2> QED BY <1>2, <2>1
<1> QED BY <1>1, <1>3, <1>4 DEF WorkAt, WorkOf

\* Nothing changes for savepoints that stay, when the logs agree up to them.
LEMMA SavedAgrees ==
    ASSUME NEW b \in BranchContext, NEW c \in BranchContext, BranchInv(b),
           DOMAIN c.savepoints \subseteq DOMAIN b.savepoints,
           \A i \in DOMAIN c.savepoints : c.savepoints[i] = b.savepoints[i],
           NEW p \in Nat, p <= Len(b.intents), p <= Len(c.intents),
           \A i \in 1 .. p : c.intents[i] = b.intents[i],
           \A q \in 0 .. p : SameCopy(b, c, q),
           \A i \in DOMAIN c.savepoints : b.savepoints[i].write_log_position <= p
    PROVE  \A i \in DOMAIN c.savepoints : Saved(c)[i] = Saved(b)[i]
<1> SUFFICES ASSUME NEW i \in DOMAIN c.savepoints PROVE Saved(c)[i] = Saved(b)[i]
  OBVIOUS
<1> DEFINE sp == b.savepoints[i]
           q == sp.intent_log_position
<1>1. sp.write_log_position = q /\ q \in 0 .. p
  <2>1. i \in DOMAIN b.savepoints
    OBVIOUS
  <2>2. sp.write_log_position \in Nat
    BY <2>1, SavepointFields
  <2> QED BY <2>1, <2>2 DEF BranchInv, SavepointsInv
<1>2. b.intents \in Seq(WriteIntent) /\ c.intents \in Seq(WriteIntent)
  BY BranchFields
<1> HIDE DEF q
<1>3. SubSeq(c.intents, 1, q) = SubSeq(b.intents, 1, q)
  <2>1. ASSUME NEW s \in Seq(WriteIntent), NEW t \in Seq(WriteIntent), NEW m \in Nat,
               m <= Len(s), m <= Len(t), \A j \in 1 .. m : s[j] = t[j]
        PROVE  SubSeq(s, 1, m) = SubSeq(t, 1, m)
    BY <2>1
  <2>2. q \in Nat /\ q <= Len(c.intents) /\ q <= Len(b.intents) /\ \A j \in 1 .. q : j \in 1 .. p
    BY <1>1, <1>2
  <2> QED BY <1>2, <2>1, <2>2
<1>4. WorkAt(c, sp) = WorkAt(b, sp)
  BY <1>1, <1>3, WorkAtAgrees DEF q
<1>5. c.savepoints[i] = sp /\ i \in DOMAIN b.savepoints
  OBVIOUS
<1> HIDE DEF sp
<1> QED BY <1>4, <1>5 DEF Saved, sp

\* An operation that touches neither the logs nor the savepoints is a stutter.
LEMMA CopiesStutter ==
    ASSUME BranchInv(branch), branch \in BranchContext, branch' \in BranchContext,
           branch'.entries = branch.entries, branch'.order = branch.order,
           branch'.changes = branch.changes, branch'.intents = branch.intents,
           branch'.savepoints = branch.savepoints
    PROVE  UNCHANGED Copies!vars
<1>1. WorkOf(branch)' = WorkOf(branch)
  BY DEF WorkOf
<1>2. \A sp : WorkAt(branch', sp) = WorkAt(branch, sp)
  BY SameLogCopies, WorkAtAgrees
<1>3. SavedWork' = SavedWork
  BY <1>2 DEF SavedWork
<1> QED BY <1>1, <1>3 DEF Copies!vars

\* The copies are a sequence, one for each savepoint.
LEMMA SavedSequence ==
    ASSUME NEW b \in BranchContext
    PROVE  /\ DOMAIN Saved(b) = DOMAIN b.savepoints
           /\ Len(b.savepoints) \in Nat /\ DOMAIN b.savepoints = 1 .. Len(b.savepoints)
           /\ Len(Saved(b)) = Len(b.savepoints)
           /\ Saved(b) \in Seq({Saved(b)[i] : i \in DOMAIN b.savepoints})
           /\ \A i \in DOMAIN b.savepoints :
                Saved(b)[i] = [id |-> b.savepoints[i].id, work |-> WorkAt(b, b.savepoints[i])]
<1> DEFINE s == Saved(b)
           n == Len(b.savepoints)
           T == {s[i] : i \in DOMAIN b.savepoints}
<1>1. n \in Nat /\ DOMAIN b.savepoints = 1 .. n
  BY BranchFields
<1>2. DOMAIN s = 1 .. n /\ s = [i \in 1 .. n |-> s[i]]
      /\ \A i \in DOMAIN b.savepoints :
            s[i] = [id |-> b.savepoints[i].id, work |-> WorkAt(b, b.savepoints[i])]
  BY <1>1 DEF Saved
<1> HIDE DEF s
<1>3. s \in [1 .. n -> T]
  BY <1>1, <1>2
<1>4. s \in Seq(T)
  <2> HIDE DEF T, n
  <2> QED BY <1>1, <1>3
<1>5. Len(s) = n
  <2> HIDE DEF T, n
  <2> QED BY <1>1, <1>2, <1>4
<1> QED BY <1>1, <1>2, <1>4, <1>5 DEF s

\* A write is a write of the specification with copies.
LEMMA CopiesWrite ==
    ASSUME branch \in BranchContext, BranchInv(branch), store \in Store,
           NEW intent \in WriteIntent, branch' = BufferWrite(branch, intent, store)
    PROVE  Copies!Write
<1> DEFINE k == intent.object
           n == Len(branch.intents) + 1
<1>1. branch' \in BranchContext /\ BranchInv(branch')
  BY BufferWriteInv
<1>2. /\ branch'.intents = Append(branch.intents, intent)
      /\ DOMAIN branch'.entries = DOMAIN branch.entries \cup {k}
      /\ \A j \in DOMAIN branch.entries \ {k} : branch'.entries[j] = branch.entries[j]
      /\ branch'.order = IF k \in DOMAIN branch.entries THEN branch.order
                         ELSE Append(branch.order, k)
      /\ branch'.savepoints = branch.savepoints
  <2>1. Written(branch, branch', intent, EntryAfter(branch, intent, store))
    BY BufferWriteWrites DEF BranchInv
  <2> HIDE DEF k
  <2> QED BY <2>1 DEF Written, k
<1>3. \A q \in 0 .. Len(branch.changes) : SameCopy(branch, branch', q)
  BY WriteConsistent DEF BranchInv
<1>4. branch.intents \in Seq(WriteIntent) /\ Len(branch.intents) \in Nat
  BY BranchFields
<1>5. /\ Len(branch'.intents) = n /\ branch'.intents[n] = intent
      /\ \A i \in 1 .. Len(branch.intents) : branch'.intents[i] = branch.intents[i]
      /\ SubSeq(branch'.intents, 1, n - 1) = branch.intents
  BY <1>2, <1>4
<1>6. SavedWork' = SavedWork
  <2>1. \A i \in DOMAIN branch.savepoints : branch.savepoints[i].write_log_position <= Len(branch.intents)
    BY DEF BranchInv, SavepointsInv
  <2>2. Len(branch.intents) <= Len(branch'.intents) /\ Len(branch.intents) <= Len(branch.intents)
    BY <1>4, <1>5
  <2>3. Len(branch.intents) = Len(branch.changes)
    BY DEF BranchInv
  <2>4. \A i \in DOMAIN branch'.savepoints : Saved(branch')[i] = Saved(branch)[i]
    BY <1>1, <1>2, <1>3, <1>4, <1>5, <2>1, <2>2, <2>3, SavedAgrees
  <2>5. Saved(branch') = Saved(branch)
    <3>1. /\ Saved(branch') = [i \in DOMAIN branch.savepoints |-> Saved(branch')[i]]
          /\ Saved(branch) = [i \in DOMAIN branch.savepoints |-> Saved(branch)[i]]
      BY <1>2 DEF Saved
    <3> QED BY <1>2, <2>4, <3>1
  <2> QED BY <2>5 DEF SavedWork, Saved
<1>7. /\ WorkOf(branch)'.intents = branch'.intents /\ WorkOf(branch).intents = branch.intents
      /\ WorkOf(branch)'.entries = branch'.entries /\ WorkOf(branch).entries = branch.entries
      /\ WorkOf(branch)'.order = branch'.order /\ WorkOf(branch).order = branch.order
  BY DEF WorkOf
<1>8. k = branch'.intents[n].object
  BY <1>5
<1> HIDE DEF k, n
<1> QED BY <1>2, <1>5, <1>6, <1>7, <1>8 DEF Copies!Write, n

\* A sequence is the other with one more element.
LEMMA AppendIs ==
    ASSUME NEW T, NEW s \in Seq(T), NEW t \in Seq(T), Len(t) = Len(s) + 1,
           \A i \in 1 .. Len(s) : t[i] = s[i]
    PROVE  t = Append(s, t[Len(t)])
<1> DEFINE x == t[Len(t)]
           u == Append(s, x)
<1>1. Len(s) \in Nat /\ Len(t) \in 1 .. Len(t) /\ x \in T
  OBVIOUS
<1>2. u \in Seq(T) /\ Len(u) = Len(t) /\ u[Len(t)] = x /\ \A i \in 1 .. Len(s) : u[i] = s[i]
  <2> HIDE DEF x
  <2> QED BY <1>1
<1> HIDE DEF u
<1>3. \A i \in 1 .. Len(t) : u[i] = t[i]
  BY <1>1, <1>2
<1>4. u = t
  BY <1>2, <1>3
<1> QED BY <1>4 DEF u

\* Making a savepoint makes a copy.
LEMMA CopiesSave ==
    ASSUME branch \in BranchContext, BranchInv(branch),
           NEW id \in SavepointId, branch' = CreateSavepoint(branch, id)
    PROVE  Copies!Save
<1> DEFINE n == Len(branch.savepoints) + 1
           sp == [id |-> id, write_log_position |-> Len(branch.changes),
                  intent_log_position |-> Len(branch.intents)]
           saved == Saved(branch)
           later == Saved(branch')
           T == {later[i] : i \in DOMAIN branch'.savepoints}
<1>1. /\ branch' \in BranchContext /\ BranchInv(branch')
      /\ branch'.entries = branch.entries /\ branch'.order = branch.order
      /\ branch'.changes = branch.changes /\ branch'.intents = branch.intents
      /\ branch'.savepoints = Append(branch.savepoints, sp)
  BY CreateSavepointInv
<1>2. sp.id = id /\ sp.write_log_position = Len(branch.changes)
      /\ sp.intent_log_position = Len(branch.intents)
  OBVIOUS
<1>3. sp \in Savepoint
  <2>1. Len(branch.changes) \in Nat /\ Len(branch.intents) \in Nat
    BY BranchFields
  <2> QED BY <2>1 DEF Savepoint
<1> HIDE DEF sp
<1>4. /\ branch.savepoints \in Seq(Savepoint) /\ Len(branch.savepoints) \in Nat
      /\ DOMAIN branch.savepoints = 1 .. Len(branch.savepoints)
  BY BranchFields
<1>5. /\ Len(branch'.savepoints) = n /\ n \in Nat /\ branch'.savepoints[n] = sp
      /\ DOMAIN branch'.savepoints = 1 .. n /\ n \in 1 .. n
      /\ \A i \in 1 .. (n - 1) : branch'.savepoints[i] = branch.savepoints[i] /\ i \in 1 .. n
  BY <1>1, <1>3, <1>4
<1>6. /\ DOMAIN later = 1 .. n /\ Len(later) = n /\ later \in Seq(T)
      /\ \A i \in 1 .. n : later[i] = [id |-> branch'.savepoints[i].id,
                                       work |-> WorkAt(branch', branch'.savepoints[i])]
  <2> HIDE DEF n
  <2> QED BY <1>1, <1>5, SavedSequence
<1>7. /\ DOMAIN saved = 1 .. (n - 1) /\ Len(saved) = n - 1
      /\ \A i \in 1 .. (n - 1) : saved[i] = [id |-> branch.savepoints[i].id,
                                             work |-> WorkAt(branch, branch.savepoints[i])]
      /\ saved = [i \in 1 .. (n - 1) |-> saved[i]]
  <2>1. n - 1 = Len(branch.savepoints)
    BY <1>4
  <2> HIDE DEF n
  <2> QED BY <1>4, <2>1, SavedSequence DEF Saved
<1>8. \A p : WorkAt(branch', p) = WorkAt(branch, p)
  BY <1>1, SameLogCopies, WorkAtAgrees
<1>9. later[n] = [id |-> id, work |-> WorkOf(branch)]
  <2>1. WorkAt(branch', sp) = WorkOf(branch)
    BY <1>2, <1>8, WorkAtEnd
  <2> QED BY <1>2, <1>5, <1>6, <2>1
<1> HIDE DEF saved, later
<1>10. \A i \in 1 .. (n - 1) : later[i] = saved[i]
  <2> HIDE DEF T, n
  <2> QED BY <1>5, <1>6, <1>7, <1>8
<1>11. \A i \in 1 .. n : later[i] \in T
  BY <1>5
<1> HIDE DEF T
<1>12. saved \in Seq(T)
  <2>1. n - 1 \in Nat /\ \A i \in 1 .. (n - 1) : saved[i] \in T
    BY <1>4, <1>5, <1>10, <1>11
  <2> DEFINE m == n - 1
  <2> HIDE DEF m
  <2>2. m \in Nat /\ saved = [i \in 1 .. m |-> saved[i]] /\ \A i \in 1 .. m : saved[i] \in T
    BY <1>7, <2>1 DEF m
  <2>3. saved \in [1 .. m -> T]
    BY <2>2
  <2> QED BY <2>2, <2>3
<1>13. later = Append(saved, later[n])
  <2>1. Len(later) = Len(saved) + 1 /\ \A i \in 1 .. Len(saved) : later[i] = saved[i]
    <3>1. Len(later) = n /\ Len(saved) = n - 1 /\ n - 1 \in Nat /\ n = (n - 1) + 1
      BY <1>4, <1>6, <1>7
    <3> HIDE DEF n
    <3> QED BY <1>10, <3>1
  <2> HIDE DEF n
  <2> QED BY <1>6, <1>12, <2>1, AppendIs
<1>14. later[n] = [id |-> later[n].id, work |-> WorkOf(branch)]
  BY <1>9
<1>15. SavedWork = saved /\ SavedWork' = later
  BY DEF SavedWork, Saved, saved, later
<1>16. WorkOf(branch)' = WorkOf(branch)
  BY <1>1 DEF WorkOf
<1>17. Len(later) = Len(saved) + 1
  <2>1. n = (n - 1) + 1
    BY <1>4
  <2> HIDE DEF n
  <2> QED BY <1>6, <1>7, <2>1
<1> QED BY <1>6, <1>13, <1>14, <1>15, <1>16, <1>17 DEF Copies!Save

\* Rolling back brings the first copy of that name back.
LEMMA CopiesRestore ==
    ASSUME branch \in BranchContext, BranchInv(branch), NEW id \in SavepointId,
           HasSavepoint(branch, id), branch' = RollbackToSavepoint(branch, id)
    PROVE  Copies!Restore
<1> DEFINE i == FirstSavepoint(branch, id)
           sp == branch.savepoints[i]
           p == sp.write_log_position
           saved == Saved(branch)
           later == Saved(branch')
<1>1. /\ branch' \in BranchContext /\ BranchInv(branch') /\ Len(branch'.changes) = p
      /\ branch'.intents = SubSeq(branch.intents, 1, p)
      /\ branch'.savepoints = SubSeq(branch.savepoints, 1, i)
      /\ \A q \in 0 .. p : SameCopy(branch, branch', q)
  BY RollbackRollsBack DEF RolledBack
<1>2. /\ i \in DOMAIN branch.savepoints /\ sp.id = id
      /\ \A j \in 1 .. (i - 1) : branch.savepoints[j].id # id
  BY FirstSavepointIs
<1>3. /\ branch.savepoints \in Seq(Savepoint) /\ branch.intents \in Seq(WriteIntent)
      /\ Len(branch.savepoints) \in Nat /\ DOMAIN branch.savepoints = 1 .. Len(branch.savepoints)
      /\ Len(branch.intents) \in Nat
  BY BranchFields
<1>4. p \in Nat /\ p <= Len(branch.intents) /\ sp.intent_log_position = p
  <2>1. p \in Nat
    BY <1>2, SavepointFields
  <2> QED BY <1>2, <2>1 DEF BranchInv, SavepointsInv
<1> HIDE DEF i
<1>5. /\ DOMAIN branch'.savepoints = 1 .. i /\ i \in Nat /\ i <= Len(branch.savepoints)
      /\ \A j \in 1 .. i : branch'.savepoints[j] = branch.savepoints[j]
      /\ \A j \in 1 .. i : j \in DOMAIN branch.savepoints
      /\ \A j \in 1 .. i : j = i \/ j < i
      /\ i \in 1 .. i
  BY <1>1, <1>2, <1>3
<1> HIDE DEF sp, p
<1>6. Len(branch'.intents) = p /\ \A j \in 1 .. p : branch'.intents[j] = branch.intents[j]
  BY <1>1, <1>3, <1>4
<1>7. \A j \in 1 .. i : later[j] = saved[j]
  <2>1. \A j \in 1 .. i : branch.savepoints[j].write_log_position <= p
    <3> SUFFICES ASSUME NEW j \in 1 .. i PROVE branch.savepoints[j].write_log_position <= p
      OBVIOUS
    <3>1. CASE j = i
      BY <1>4, <3>1 DEF p, sp
    <3>2. CASE j < i
      BY <1>2, <1>5, <3>2 DEF p, sp, BranchInv, SavepointsInv
    <3> QED BY <1>5, <3>1, <3>2
  <2>2. p <= Len(branch'.intents)
    BY <1>4, <1>6
  <2> QED BY <1>1, <1>4, <1>5, <1>6, <2>1, <2>2, SavedAgrees
<1>8. WorkOf(branch') = WorkAt(branch, sp)
  <2>1. Len(branch'.intents) = p
    BY <1>6
  <2>2. WorkAt(branch', sp) = WorkOf(branch')
    BY <1>1, <1>4, <2>1, WorkAtEnd DEF p
  <2>3. SubSeq(branch'.intents, 1, p) = SubSeq(branch.intents, 1, p)
    <3>1. branch'.intents \in Seq(WriteIntent)
      BY <1>1, BranchFields
    <3>2. SubSeq(branch'.intents, 1, Len(branch'.intents)) = branch'.intents
      BY <3>1
    <3> QED BY <1>1, <1>6, <3>2
  <2>4. p \in 0 .. p
    BY <1>4
  <2>5. WorkAt(branch', sp) = WorkAt(branch, sp)
    BY <1>1, <1>4, <2>3, <2>4, WorkAtAgrees DEF p
  <2> QED BY <2>2, <2>5
<1>9. /\ DOMAIN saved = DOMAIN branch.savepoints /\ Len(saved) = Len(branch.savepoints)
      /\ saved \in Seq({saved[j] : j \in DOMAIN branch.savepoints})
      /\ \A j \in DOMAIN branch.savepoints :
            saved[j] = [id |-> branch.savepoints[j].id,
                        work |-> WorkAt(branch, branch.savepoints[j])]
  BY SavedSequence
<1>10. later = [j \in 1 .. i |-> later[j]]
  BY <1>5 DEF Saved
<1> HIDE DEF saved, later
<1>11. i \in DOMAIN saved /\ saved[i].id = id /\ saved[i].work = WorkAt(branch, sp)
  <2>1. \A j \in DOMAIN branch.savepoints :
            /\ saved[j].id = branch.savepoints[j].id
            /\ saved[j].work = WorkAt(branch, branch.savepoints[j])
    <3> SUFFICES ASSUME NEW j \in DOMAIN branch.savepoints
                 PROVE  /\ saved[j].id = branch.savepoints[j].id
                        /\ saved[j].work = WorkAt(branch, branch.savepoints[j])
      OBVIOUS
    <3>1. saved[j] = [id |-> branch.savepoints[j].id,
                      work |-> WorkAt(branch, branch.savepoints[j])]
      BY <1>9
    <3> QED BY <3>1
  <2>2. DOMAIN saved = DOMAIN branch.savepoints
    BY <1>9
  <2> QED BY <1>2, <2>1, <2>2 DEF sp
<1>12. \A j \in 1 .. (i - 1) : saved[j].id # saved[i].id
  <2>1. \A j \in 1 .. (i - 1) : j \in DOMAIN branch.savepoints
    BY <1>3, <1>5
  <2>2. \A j \in DOMAIN branch.savepoints : saved[j].id = branch.savepoints[j].id
    <3> SUFFICES ASSUME NEW j \in DOMAIN branch.savepoints
                 PROVE  saved[j].id = branch.savepoints[j].id
      OBVIOUS
    <3>1. saved[j] = [id |-> branch.savepoints[j].id,
                      work |-> WorkAt(branch, branch.savepoints[j])]
      BY <1>9
    <3> QED BY <3>1
  <2> QED BY <1>2, <1>11, <2>1, <2>2
<1>13. later = SubSeq(saved, 1, i)
  <2> DEFINE T == {saved[j] : j \in DOMAIN branch.savepoints}
  <2>1. saved \in Seq(T) /\ i \in Nat /\ i <= Len(saved)
    BY <1>5, <1>9
  <2> HIDE DEF T
  <2>2. SubSeq(saved, 1, i) = [j \in 1 .. i |-> saved[j]]
    BY <2>1
  <2> QED BY <1>7, <1>10, <2>2
<1>14. SavedWork = saved /\ SavedWork' = later
  BY DEF SavedWork, Saved, saved, later
<1>15. WorkOf(branch)' = saved[i].work
  BY <1>8, <1>11 DEF WorkOf
<1> QED BY <1>11, <1>12, <1>13, <1>14, <1>15 DEF Copies!Restore

\* A branch with nothing buffered and no savepoint.
LEMMA NothingSaved ==
    ASSUME NEW b, b.entries = NoBuffer, b.order = <<>>, b.intents = <<>>, b.savepoints = <<>>
    PROVE  WorkOf(b) = Copies!NoWork /\ Saved(b) = <<>>
<1>1. NoBuffer = [k \in {} |-> 0]
  BY DEF NoBuffer
<1>2. WorkOf(b) = Copies!NoWork
  BY <1>1 DEF WorkOf, Copies!NoWork
<1>3. DOMAIN b.savepoints = {}
  OBVIOUS
<1>4. Saved(b) = <<>>
  BY <1>3 DEF Saved
<1> QED BY <1>2, <1>4

\* WriteBuffer's undo log and the positions kept by CreateSavepoint implement
\* savepoints that keep copies of the branch's work.
THEOREM SavepointsRestoreCopiesHolds == Spec => SavepointsRestoreCopies
<1>1. Init => Copies!Init
  <2> SUFFICES ASSUME Init PROVE Copies!Init
    OBVIOUS
  <2>1. /\ branch.entries = NoBuffer /\ branch.order = <<>> /\ branch.intents = <<>>
        /\ branch.savepoints = <<>>
    BY DEF Init, CreateBranch
  <2>2. SavedWork = Saved(branch)
    BY DEF SavedWork, Saved
  <2> QED BY <2>1, <2>2, NothingSaved DEF Copies!Init
<1>2. IInv /\ [Next]_vars => [Copies!Next]_(Copies!vars)
  <2> SUFFICES ASSUME IInv, [Next]_vars PROVE [Copies!Next]_(Copies!vars)
    OBVIOUS
  <2> USE DEF IInv, TypeInv
  <2>1. ASSUME NEW k \in Key, Read(k) PROVE UNCHANGED Copies!vars
    BY <2>1, ReadObjectInv, CopiesStutter DEF Read
  <2>2. ASSUME NEW intent \in Intents, Write(intent) PROVE Copies!Write
    <3>1. intent \in WriteIntent
      BY IntentsAssumption
    <3> QED BY <2>2, <3>1, CopiesWrite DEF Write
  <2>3. ASSUME NEW id \in SavepointId, SavepointAt(id) PROVE Copies!Save
    BY <2>3, CopiesSave DEF SavepointAt
  <2>4. ASSUME NEW id \in SavepointId, Rollback(id) PROVE Copies!Restore
    BY <2>4, CopiesRestore DEF Rollback
  <2>5. ASSUME NEW score \in Score, Stage(score) PROVE UNCHANGED Copies!vars
    BY <2>5, ScoreAssumption, StageBranchInv, CopiesStutter DEF Stage
  <2>6. ASSUME Discard PROVE Copies!Discard
    <3>1. branch'.entries = NoBuffer /\ branch'.order = <<>>
          /\ branch'.intents = <<>> /\ branch'.savepoints = <<>>
      BY <2>6 DEF Discard, DiscardBranch, BranchContext
    <3>2. WorkOf(branch') = Copies!NoWork /\ Saved(branch') = <<>>
      BY <3>1, NothingSaved
    <3>3. WorkOf(branch)' = WorkOf(branch') /\ SavedWork' = Saved(branch')
      BY DEF WorkOf, SavedWork, Saved
    <3> QED BY <3>2, <3>3 DEF Copies!Discard
  <2>7. ASSUME branch' = branch PROVE UNCHANGED Copies!vars
    BY <2>7, CopiesStutter
  <2>8. ASSUME NEW k \in Key, NEW v \in PutValues, ExternalPut(k, v) PROVE UNCHANGED Copies!vars
    BY <2>7, <2>8 DEF ExternalPut
  <2>9. CASE UNCHANGED vars
    BY <2>7, <2>9 DEF vars
  <2> QED BY <2>1, <2>2, <2>3, <2>4, <2>5, <2>6, <2>8, <2>9 DEF Next, Copies!Next
<1> QED BY <1>1, <1>2, InvHolds, PTL DEF Spec, SavepointsRestoreCopies, Copies!Spec

=================================================================================
