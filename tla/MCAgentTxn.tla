------------------------------- MODULE MCAgentTxn -------------------------------
(* Small instances of AgentTxn: which intents the branches use differs by run. *)
EXTENDS AgentTxn, TLC

CONSTANTS x, y,         \* keys
          t1, t2,       \* transactions
          a             \* a piece of text

Symmetry == Permutations({t1, t2})

Intent(k, type, payload, condition) ==
    [object |-> k, type |-> type, payload |-> payload, condition |-> condition]

Overwrite(k, v) == Intent(k, "Overwrite", v, NoCondition)
Delta(k, n)     == Intent(k, "Delta", <<n>>, NoCondition)
Cas(k, v, w)    == Intent(k, "Cas", w, ValueEquals(v))
AppendText(k)   == Intent(k, "Append", <<a>>, NoCondition)

XY == {x, y}
T1  == {t1}
T12 == {t1, t2}
TextA == {a}
NoNames == {}
NoScore == {}
TwoScores == {1, 2}

\* y is missing at first in StoreWithGap, and there from the start in FullStore.
StoreWithGap == [k \in XY |-> IF k = x THEN Stored(<<5>>, 1) ELSE Absent]
FullStore    == [k \in XY |-> Stored(<<5>>, 1)]

OnePut == {<<7>>}

\* Every kind of write.
AllKinds ==
    {Overwrite(x, <<9>>), Delta(x, 1), Cas(x, <<5>>, <<3>>),
     AppendText(y), Overwrite(y, <<8>>)}

\* Fewer intents for the longer runs: one kind per key, or two kinds on x.
OneEach == {Overwrite(x, <<9>>), AppendText(y)}
TwoKeys == {Overwrite(x, <<9>>), Delta(x, 1), Delta(y, 1)}
WithRead == {Intent(x, "Read", <<>>, NoCondition), Overwrite(x, <<9>>), Delta(y, 1), AppendText(y)}
================================================================================
