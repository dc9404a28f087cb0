------------------------------ MODULE IntentPolicy ------------------------------
(****************************************************************************)
(* Write intents, and the two places where an intent is interpreted: when a *)
(* branch buffers it (BranchManager::BufferWrite) and when the winner's     *)
(* write is resolved against the store at commit (PolicyDispatcher).        *)
(*                                                                          *)
(* A value stands for a string.  It is a sequence of chunks, a chunk being  *)
(* a numeral (an integer) or a piece of text that is no numeral; appending  *)
(* is concatenation and ParseInt accepts exactly a lone numeral.  Appended  *)
(* payloads are taken to be text, so no concatenation spells a numeral.     *)
(****************************************************************************)
EXTENDS Integers, Sequences

CONSTANTS Key,      \* the object ids, which are the keys of the store
          Text      \* pieces of text that do not parse as integers

ASSUME TextAssumption == Text \cap Int = {}

Chunk == Int \cup Text
Value == Seq(Chunk)
Empty == <<>>

IntentType == {"Read", "Overwrite", "Append", "Delta", "Cas"}

\* Condition: kNone, or kValueEquals with the value expected in the store.
NoCondition == [type |-> "None", expected |-> Empty]
ValueEquals(v) == [type |-> "ValueEquals", expected |-> v]
Condition == [type : {"None", "ValueEquals"}, expected : Value]

WriteIntent ==
    [object : Key, type : IntentType, payload : Value, condition : Condition]

\* ParseInt: the whole string must be one numeral; the empty string is not.
IsInt(v) == Len(v) = 1 /\ v[1] \notin Text
IntOf(v) == v[1]
Numeral(n) == <<n>>

\* Append, Delta and Cas are rebased on the store's value at commit; Read and
\* Overwrite are held to the version the branch saw.
UsesSemanticRebase(type) == type \in {"Append", "Delta", "Cas"}

\* The current_value of a buffered entry after one more intent on it.
BufferedValue(base, current, intent) ==
    CASE intent.type = "Read" -> base
      [] intent.type \in {"Overwrite", "Cas"} -> intent.payload
      [] intent.type = "Append" -> current \o intent.payload
      [] intent.type = "Delta" ->
            IF IsInt(current) /\ IsInt(intent.payload)
            THEN Numeral(IntOf(current) + IntOf(intent.payload))
            ELSE current

HasPrefix(v, prefix) ==
    Len(prefix) <= Len(v) /\ SubSeq(v, 1, Len(prefix)) = prefix

Suffix(v, prefix) == SubSeq(v, Len(prefix) + 1, Len(v))

WriteOf(v) == [success |-> TRUE, should_write |-> TRUE, value |-> v]
NoWrite == [success |-> TRUE, should_write |-> FALSE, value |-> Empty]
Refused == [success |-> FALSE, should_write |-> FALSE, value |-> Empty]

\* Mutant of ResolveAppend: the whole buffered value is appended.
ResolveAppendWhole(entry, intent, now) == WriteOf(now \o entry.current_value)

\* An Append writes what the branch appended to its base after the store's
\* value; when the buffered value no longer extends the base, only the payload
\* of the latest intent.
ResolveAppend(entry, intent, now) ==
    WriteOf(now \o IF HasPrefix(entry.current_value, entry.base_value)
                   THEN Suffix(entry.current_value, entry.base_value)
                   ELSE intent.payload)

\* Mutant of ResolveDelta: the buffered value is written as it is.
ResolveDeltaAbsolute(entry, intent, now) == WriteOf(entry.current_value)

\* A Delta writes the store's value plus what the branch added to its base;
\* when one of them is no integer, plus the payload of the latest intent.
ResolveDelta(entry, intent, now) ==
    IF IsInt(now) /\ IsInt(entry.base_value) /\ IsInt(entry.current_value)
    THEN WriteOf(Numeral(IntOf(now) + (IntOf(entry.current_value) - IntOf(entry.base_value))))
    ELSE IF IsInt(now) /\ IsInt(intent.payload)
         THEN WriteOf(Numeral(IntOf(now) + IntOf(intent.payload)))
         ELSE Refused

ConditionHolds(condition, now) ==
    condition.type = "ValueEquals" => now = condition.expected

\* ResolveWrite: entry is the buffered entry, intent the latest intent on the
\* object, now the value in the store.
ResolveWrite(entry, intent, now) ==
    CASE intent.type = "Read" -> NoWrite
      [] intent.type = "Overwrite" -> WriteOf(entry.current_value)
      [] intent.type = "Append" -> ResolveAppend(entry, intent, now)
      [] intent.type = "Delta" -> ResolveDelta(entry, intent, now)
      [] intent.type = "Cas" ->
            IF ConditionHolds(intent.condition, now)
            THEN WriteOf(entry.current_value) ELSE Refused
=================================================================================
