--------------------------------- MODULE LogText ---------------------------------
(****************************************************************************)
(* The text form of a field in a log: EscapeCommitLogText and its inverse,  *)
(* which the commit log and the fallback artifact share.  A text is a       *)
(* sequence of characters; only the characters that escaping treats apart   *)
(* have names, every other one stands for itself.                           *)
(****************************************************************************)
EXTENDS Integers, SequencesExt

\* Mutant of EscapeChar: a backslash is written as it is.
EscapeCharKeepsBackslash(c) ==
    CASE c = "tab"     -> <<"backslash", "t">>
      [] c = "newline" -> <<"backslash", "n">>
      [] OTHER         -> <<c>>

EscapeChar(c) ==
    CASE c = "backslash" -> <<"backslash", "backslash">>
      [] c = "tab"       -> <<"backslash", "t">>
      [] c = "newline"   -> <<"backslash", "n">>
      [] OTHER           -> <<c>>

Escape(text) ==
    LET output[n \in 0 .. Len(text)] ==
            IF n = 0 THEN <<>> ELSE output[n - 1] \o EscapeChar(text[n])
    IN  output[Len(text)]

\* What follows a backslash; an unknown character stands for itself.
UnescapeChar(c) ==
    CASE c = "t" -> "tab"
      [] c = "n" -> "newline"
      [] OTHER   -> c

\* One turn of the loop: the output so far, and whether a backslash is open.
UnescapeStep(state, c) ==
    IF state.escaped
    THEN [output |-> Append(state.output, UnescapeChar(c)), escaped |-> FALSE]
    ELSE IF c = "backslash"
         THEN [state EXCEPT !.escaped = TRUE]
         ELSE [state EXCEPT !.output = Append(@, c)]

Unescaping(text) ==
    LET state[n \in 0 .. Len(text)] ==
            IF n = 0 THEN [output |-> <<>>, escaped |-> FALSE]
            ELSE UnescapeStep(state[n - 1], text[n])
    IN  state[Len(text)]

\* A backslash at the very end, left by a cut, stands for itself.
Unescape(text) ==
    LET final == Unescaping(text)
    IN  IF final.escaped THEN Append(final.output, "backslash") ELSE final.output

\* std::getline: for its reader a line ends at the first newline.
FirstLine(text) ==
    LET end == SelectInSeq(text, LAMBDA c : c = "newline")
    IN  IF end = 0 THEN text ELSE SubSeq(text, 1, end - 1)

================================================================================
