------------------------------- MODULE MCCommitLog -------------------------------
(* Instances of CommitLog for TLC.                                            *)
EXTENDS CommitLog

CONSTANTS x, y

\* The characters that escaping treats apart, and three others.
MCChar == {"backslash", "tab", "newline", "t", "n", "seed", "p", "a"}

MCInitialStore == [k \in Key |-> IF k = x THEN Stored(<<"seed">>, 1) ELSE Absent]

\* Values with each character that is escaped, one that looks like an escape,
\* and the empty one.
MCBatches ==
    {<<[key |-> x, value |-> <<"a", "tab">>], [key |-> y, value |-> <<"backslash", "t">>]>>,
     <<[key |-> x, value |-> <<"backslash", "t">>]>>,
     <<[key |-> y, value |-> <<>>]>>}

MCPutValues == {<<"p">>}
==================================================================================
