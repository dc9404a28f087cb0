----------------------------- MODULE MCTaskRecovery -----------------------------
(* A small instance of TaskRecovery. *)
EXTENDS TaskRecovery

CONSTANTS x,         \* a key
          m1,        \* a savepoint name
          a          \* a piece of text

X == {x}
TextA == {a}
OneName == {m1, NoName, CutName}

\* A score with a fraction.
OneScore == {17}

FullStore == [k \in Key |-> Stored(<<5>>, 1)]
NoPuts == {}

\* The task has one branch, which only writes.
BranchOne == {1}
NoReads == {}
DeltaX == [object |-> x, type |-> "Delta", payload |-> <<1>>, condition |-> NoCondition]
OneWrite == {<<1, DeltaX>>}
================================================================================
