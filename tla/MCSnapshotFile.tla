----------------------------- MODULE MCSnapshotFile -----------------------------
(* Small instances of SnapshotFile: two keys and one or two values. *)
EXTENDS SnapshotFile, TLC

CONSTANTS x, y, v1, v2

MCValue == {v1, v2, Empty}
Symmetry == Permutations({x, y})

MCKey == {x, y}
OneValue == {v1}
TwoValues == {v1, v2}
=================================================================================
