---------------------------- MODULE MCFallbackCommit ----------------------------
(* Small instances of FallbackCommit: three writes, to keys that exist or whose *)
(* last one is new.                                                             *)
EXTENDS FallbackCommit

CONSTANTS x, y, z,          \* keys
          old, new, other   \* values

MCKey == {x, y, z}
MCValue == {old, new, other, Empty}
MCWrites == << [key |-> x, value |-> new], [key |-> y, value |-> new], [key |-> z, value |-> new] >>
MCPutValues == {other}

AllExist == [k \in MCKey |-> Stored(old, 3)]
LastIsNew == [k \in MCKey |-> IF k = z THEN Absent ELSE Stored(old, 3)]
OldOrNew == {AllExist, LastIsNew}
OnlyNew == {LastIsNew}

\* The default; each policy for each phase; no recovery at a start; and a
\* directory whose first artifact cannot be resolved.
ConfigOf(committed, rolled_back, auto, stuck) ==
    [committed |-> committed, rolled_back |-> rolled_back, auto |-> auto, stuck |-> stuck]
MCConfigs ==
    {ConfigOf("keep", "keep", TRUE, FALSE), ConfigOf("delete", "archive", TRUE, FALSE),
     ConfigOf("archive", "delete", FALSE, FALSE), ConfigOf("archive", "archive", TRUE, TRUE)}
Default == {ConfigOf("keep", "keep", TRUE, FALSE)}
=================================================================================
