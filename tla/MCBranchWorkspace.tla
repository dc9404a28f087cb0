--------------------------- MODULE MCBranchWorkspace ---------------------------
(* A small instance of BranchWorkspace: a counter and a key that starts missing. *)
EXTENDS BranchWorkspace

CONSTANTS counter, note,    \* the keys
          a                 \* a piece of text

Intent(k, type, payload, condition) ==
    [object |-> k, type |-> type, payload |-> payload, condition |-> condition]

MCKey == {counter, note}
MCText == {a}
MCScore == {1}
MCSavepointId == {"s1", "s2"}

MCIntents ==
    {Intent(counter, "Delta", <<1>>, NoCondition),
     Intent(counter, "Overwrite", <<9>>, NoCondition),
     Intent(counter, "Read", <<>>, NoCondition),
     Intent(counter, "Cas", <<3>>, ValueEquals(<<5>>)),
     Intent(note, "Append", <<a>>, NoCondition)}

MCInitialStore ==
    [k \in {counter, note} |-> IF k = counter THEN Stored(<<5>>, 1) ELSE Absent]

MCPutValues == {<<7>>}
================================================================================
