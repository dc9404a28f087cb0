----------------------------- MODULE CommitLogProofs -----------------------------
(****************************************************************************)
(* CommitLog for any keys, texts, tasks, commits, crashes and puts: a field *)
(* survives its escaping; a recovery that reports success has restored      *)
(* every log that was written whole; it may be killed and run again; and    *)
(* the replay of the logs agrees with the store that was recovered.         *)
(****************************************************************************)
EXTENDS CommitLog, TLAPS, WellFoundedInduction

--------------------------------------------------------------------------------
(* Loops.                                                                    *)

\* What holds when a loop starts and is kept by each of its turns holds to its
\* end: S is the set of the turns after which it holds.
LEMMA EveryTurn ==
    ASSUME NEW n \in Nat, NEW S, 0 \in S,
           \A m \in 0 .. (n - 1) : m \in S => m + 1 \in S
    PROVE  \A m \in 0 .. n : m \in S
<1> DEFINE T == {m \in 0 .. n : m \notin S}
<1>1. SUFFICES ASSUME T # {} PROVE FALSE
  OBVIOUS
<1>2. PICK m \in T : \A j \in T : ~(<<j, m>> \in OpToRel(<, Nat))
  <2>1. T \subseteq Nat
    OBVIOUS
  <2> HIDE DEF T
  <2> QED BY <1>1, <2>1, WFMin, NatLessThanWellFounded
<1>3. m \in 0 .. n /\ m \notin S /\ m # 0
  OBVIOUS
<1>4. m - 1 \in 0 .. (n - 1) /\ (m - 1) + 1 = m /\ m - 1 \in 0 .. n
  BY <1>3
<1>5. m - 1 \notin S
  BY <1>3, <1>4
<1>6. <<m - 1, m>> \in OpToRel(<, Nat)
  BY <1>3, <1>4 DEF OpToRel
<1> QED BY <1>2, <1>4, <1>5, <1>6

\* The results of a loop after one more turn.
Longer(g, n, result) == [i \in 0 .. (n + 1) |-> IF i = n + 1 THEN result ELSE g[i]]

\* One more turn leaves the earlier results as they are.
LEMMA OneMoreTurn ==
    ASSUME NEW n \in Nat, NEW g, NEW result
    PROVE  /\ Longer(g, n, result) = [i \in 0 .. (n + 1) |-> Longer(g, n, result)[i]]
           /\ Longer(g, n, result)[n + 1] = result
           /\ \A i \in 0 .. n : Longer(g, n, result)[i] = g[i]
<1> DEFINE f == [i \in 0 .. (n + 1) |-> IF i = n + 1 THEN result ELSE g[i]]
<1>1. f = [i \in 0 .. (n + 1) |-> f[i]] /\ f[n + 1] = result
  OBVIOUS
<1>2. \A i \in 0 .. n : f[i] = g[i]
  OBVIOUS
<1> QED BY <1>1, <1>2 DEF Longer

\* A nonempty set of numbers has a least one.
LEMMA LeastNumber ==
    ASSUME NEW S \in SUBSET Nat, S # {}
    PROVE  \E m \in S : \A j \in S : m <= j
<1>1. PICK m \in S : \A j \in S : ~(<<j, m>> \in OpToRel(<, Nat))
  BY WFMin, NatLessThanWellFounded
<1>2. ASSUME NEW j \in S
      PROVE  m <= j
  <2>1. j \in Nat /\ m \in Nat
    OBVIOUS
  <2>2. ~(j < m)
    BY <1>1, <2>1 DEF OpToRel
  <2> QED BY <2>1, <2>2
<1> QED BY <1>2

--------------------------------------------------------------------------------
(* Texts.                                                                    *)

\* The loop of Escape, over the first m characters.
Escaping(text, m, f) ==
    f = [n \in 0 .. m |-> IF n = 0 THEN <<>> ELSE f[n - 1] \o EscapeChar(text[n])]

\* The loop can be run.
LEMMA EscapingExists ==
    ASSUME NEW text, NEW m \in Nat
    PROVE  \E f : Escaping(text, m, f)
<1> DEFINE S == {n \in 0 .. m : \E f : Escaping(text, n, f)}
<1>1. 0 \in S
  <2>1. Escaping(text, 0, [n \in 0 .. 0 |-> <<>>])
    BY DEF Escaping
  <2> QED BY <2>1
<1>2. ASSUME NEW n \in 0 .. (m - 1), n \in S
      PROVE  n + 1 \in S
  <2>1. PICK g : Escaping(text, n, g)
    BY <1>2
  <2>2. n \in Nat /\ n + 1 \in 0 .. m
    OBVIOUS
  <2> DEFINE last == g[n] \o EscapeChar(text[n + 1])
             f == Longer(g, n, last)
  <2> HIDE DEF last, S
  <2>3. f = [i \in 0 .. (n + 1) |-> f[i]]
    BY <2>2, OneMoreTurn
  <2>4. f[n + 1] = last
    BY <2>2, OneMoreTurn
  <2>5. \A i \in 0 .. n : f[i] = g[i]
    BY <2>2, OneMoreTurn
  <2> HIDE DEF f
  <2>6. ASSUME NEW i \in 0 .. (n + 1)
        PROVE  f[i] = IF i = 0 THEN <<>> ELSE f[i - 1] \o EscapeChar(text[i])
    <3>1. CASE i = n + 1
      <4>1. i # 0 /\ i - 1 = n /\ n \in 0 .. n
        BY <2>2, <3>1
      <4> QED BY <2>4, <2>5, <3>1, <4>1 DEF last
    <3>2. CASE i # n + 1
      <4>1. i \in 0 .. n /\ (i # 0 => i - 1 \in 0 .. n)
        BY <2>2, <3>2
      <4>2. g[i] = IF i = 0 THEN <<>> ELSE g[i - 1] \o EscapeChar(text[i])
        BY <2>1, <4>1 DEF Escaping
      <4> QED BY <2>5, <4>1, <4>2
    <3> QED BY <3>1, <3>2
  <2>7. Escaping(text, n + 1, f)
    BY <2>3, <2>6 DEF Escaping
  <2> QED BY <2>2, <2>7 DEF S
<1>3. \A n \in 0 .. m : n \in S
  <2> HIDE DEF S
  <2> QED BY <1>1, <1>2, EveryTurn
<1> QED BY <1>3

\* Escape, character by character.
LEMMA EscapeUnroll ==
    ASSUME NEW text \in Seq(Char)
    PROVE  \E f : /\ f[0] = <<>>
                  /\ \A n \in 1 .. Len(text) : f[n] = f[n - 1] \o EscapeChar(text[n])
                  /\ Escape(text) = f[Len(text)]
<1>1. Len(text) \in Nat
  OBVIOUS
<1> DEFINE f == CHOOSE f : Escaping(text, Len(text), f)
<1>2. Escaping(text, Len(text), f)
  BY <1>1, EscapingExists
<1>3. Escape(text) = f[Len(text)]
  BY DEF Escape, Escaping
<1> HIDE DEF f
<1>4. f[0] = <<>> /\ \A n \in 1 .. Len(text) : f[n] = f[n - 1] \o EscapeChar(text[n])
  BY <1>1, <1>2 DEF Escaping
<1> QED BY <1>3, <1>4

\* The loop of Unescape, over the first m characters.
NothingRead == [output |-> <<>>, escaped |-> FALSE]

Reading(text, m, f) ==
    f = [n \in 0 .. m |-> IF n = 0 THEN NothingRead ELSE UnescapeStep(f[n - 1], text[n])]

\* The loop can be run.
LEMMA ReadingExists ==
    ASSUME NEW text, NEW m \in Nat
    PROVE  \E f : Reading(text, m, f)
<1> DEFINE S == {n \in 0 .. m : \E f : Reading(text, n, f)}
<1>1. 0 \in S
  <2>1. Reading(text, 0, [n \in 0 .. 0 |-> NothingRead])
    BY DEF Reading
  <2> QED BY <2>1
<1>2. ASSUME NEW n \in 0 .. (m - 1), n \in S
      PROVE  n + 1 \in S
  <2>1. PICK g : Reading(text, n, g)
    BY <1>2
  <2>2. n \in Nat /\ n + 1 \in 0 .. m
    OBVIOUS
  <2> DEFINE last == UnescapeStep(g[n], text[n + 1])
             f == Longer(g, n, last)
  <2> HIDE DEF last, S
  <2>3. f = [i \in 0 .. (n + 1) |-> f[i]]
    BY <2>2, OneMoreTurn
  <2>4. f[n + 1] = last
    BY <2>2, OneMoreTurn
  <2>5. \A i \in 0 .. n : f[i] = g[i]
    BY <2>2, OneMoreTurn
  <2> HIDE DEF f
  <2>6. ASSUME NEW i \in 0 .. (n + 1)
        PROVE  f[i] = IF i = 0 THEN NothingRead ELSE UnescapeStep(f[i - 1], text[i])
    <3>1. CASE i = n + 1
      <4>1. i # 0 /\ i - 1 = n /\ n \in 0 .. n
        BY <2>2, <3>1
      <4> QED BY <2>4, <2>5, <3>1, <4>1 DEF last
    <3>2. CASE i # n + 1
      <4>1. i \in 0 .. n /\ (i # 0 => i - 1 \in 0 .. n)
        BY <2>2, <3>2
      <4>2. g[i] = IF i = 0 THEN NothingRead ELSE UnescapeStep(g[i - 1], text[i])
        BY <2>1, <4>1 DEF Reading
      <4> QED BY <2>5, <4>1, <4>2
    <3> QED BY <3>1, <3>2
  <2>7. Reading(text, n + 1, f)
    BY <2>3, <2>6 DEF Reading
  <2> QED BY <2>2, <2>7 DEF S
<1>3. \A n \in 0 .. m : n \in S
  <2> HIDE DEF S
  <2> QED BY <1>1, <1>2, EveryTurn
<1> QED BY <1>3

\* Unescape, character by character.
LEMMA UnescapeUnroll ==
    ASSUME NEW text \in Seq(Char)
    PROVE  \E f : /\ f[0] = NothingRead
                  /\ \A n \in 1 .. Len(text) : f[n] = UnescapeStep(f[n - 1], text[n])
                  /\ Unescaping(text) = f[Len(text)]
<1>1. Len(text) \in Nat
  OBVIOUS
<1> DEFINE f == CHOOSE f : Reading(text, Len(text), f)
<1>2. Reading(text, Len(text), f)
  BY <1>1, ReadingExists
<1>3. Unescaping(text) = f[Len(text)]
  BY DEF Unescaping, Reading, NothingRead
<1> HIDE DEF f
<1>4. f[0] = NothingRead /\ \A n \in 1 .. Len(text) : f[n] = UnescapeStep(f[n - 1], text[n])
  BY <1>1, <1>2 DEF Reading
<1> QED BY <1>3, <1>4

\* Nothing has been read of an empty text.
LEMMA UnescapingNothing == Unescaping(<<>>) = NothingRead
<1>1. <<>> \in Seq(Char) /\ Len(<<>>) = 0
  OBVIOUS
<1> QED BY <1>1, UnescapeUnroll

\* One more character is one more turn.
LEMMA UnescapingAppend ==
    ASSUME NEW text \in Seq(Char), NEW c \in Char
    PROVE  Unescaping(Append(text, c)) = UnescapeStep(Unescaping(text), c)
<1> DEFINE longer == Append(text, c)
           m == Len(text)
<1>1. /\ longer \in Seq(Char) /\ Len(longer) = m + 1 /\ m \in Nat /\ longer[m + 1] = c
      /\ \A n \in 1 .. m : longer[n] = text[n]
  OBVIOUS
<1>2. PICK f : /\ f[0] = NothingRead
               /\ \A n \in 1 .. m : f[n] = UnescapeStep(f[n - 1], text[n])
               /\ Unescaping(text) = f[m]
  BY UnescapeUnroll
<1> HIDE DEF longer
<1>3. PICK g : /\ g[0] = NothingRead
               /\ \A n \in 1 .. Len(longer) : g[n] = UnescapeStep(g[n - 1], longer[n])
               /\ Unescaping(longer) = g[Len(longer)]
  BY <1>1, UnescapeUnroll
<1> HIDE DEF m
<1> DEFINE S == {n \in 0 .. m : f[n] = g[n]}
<1>4. 0 \in S
  BY <1>1, <1>2, <1>3
<1>5. ASSUME NEW n \in 0 .. (m - 1), n \in S
      PROVE  n + 1 \in S
  <2>1. /\ n + 1 \in 1 .. m /\ n + 1 \in 0 .. m /\ n + 1 \in 1 .. Len(longer)
        /\ (n + 1) - 1 = n /\ n \in 0 .. m
    BY <1>1
  <2>2. f[n + 1] = UnescapeStep(f[n], text[n + 1])
    BY <1>2, <2>1
  <2>3. g[n + 1] = UnescapeStep(g[n], text[n + 1])
    BY <1>1, <1>3, <2>1
  <2>4. f[n] = g[n]
    BY <1>5
  <2> QED BY <2>1, <2>2, <2>3, <2>4
<1>6. \A n \in 0 .. m : n \in S
  <2> HIDE DEF S
  <2> QED BY <1>1, <1>4, <1>5, EveryTurn
<1>7. f[m] = g[m]
  BY <1>1, <1>6
<1>8. m + 1 \in 1 .. Len(longer) /\ (m + 1) - 1 = m
  BY <1>1
<1>9. g[m + 1] = UnescapeStep(g[m], longer[m + 1])
  BY <1>3, <1>8
<1> QED BY <1>1, <1>2, <1>3, <1>7, <1>9 DEF longer

\* A text is read into characters of a text.
LEMMA UnescapingType ==
    ASSUME NEW text \in Seq(Char)
    PROVE  Unescaping(text) \in [output : Seq(Char), escaped : BOOLEAN]
<1> DEFINE State == [output : Seq(Char), escaped : BOOLEAN]
<1>1. PICK f : /\ f[0] = NothingRead
               /\ \A n \in 1 .. Len(text) : f[n] = UnescapeStep(f[n - 1], text[n])
               /\ Unescaping(text) = f[Len(text)]
  BY UnescapeUnroll
<1>2. ASSUME NEW state \in State, NEW c \in Char
      PROVE  UnescapeStep(state, c) \in State
  <2>1. UnescapeChar(c) \in Char
    BY CharAssumption DEF UnescapeChar
  <2>2. /\ Append(state.output, UnescapeChar(c)) \in Seq(Char)
        /\ Append(state.output, c) \in Seq(Char)
    BY <2>1
  <2> QED BY <2>2 DEF UnescapeStep
<1> DEFINE S == {n \in 0 .. Len(text) : f[n] \in State}
<1>3. 0 \in S
  <2>1. NothingRead \in State
    BY DEF NothingRead
  <2>2. 0 \in 0 .. Len(text)
    OBVIOUS
  <2> HIDE DEF State
  <2> QED BY <1>1, <2>1, <2>2
<1>4. ASSUME NEW n \in 0 .. (Len(text) - 1), n \in S
      PROVE  n + 1 \in S
  <2>1. n + 1 \in 1 .. Len(text) /\ n + 1 \in 0 .. Len(text) /\ (n + 1) - 1 = n
    OBVIOUS
  <2>2. f[n + 1] = UnescapeStep(f[n], text[n + 1])
    BY <1>1, <2>1
  <2>3. f[n] \in State /\ text[n + 1] \in Char
    BY <1>4, <2>1
  <2>4. f[n + 1] \in State
    <3> HIDE DEF State
    <3> QED BY <1>2, <2>2, <2>3
  <2> QED BY <2>1, <2>4
<1>5. \A n \in 0 .. Len(text) : n \in S
  <2>1. Len(text) \in Nat
    OBVIOUS
  <2> HIDE DEF S
  <2> QED BY <1>3, <1>4, <2>1, EveryTurn
<1>6. Len(text) \in 0 .. Len(text)
  OBVIOUS
<1> QED BY <1>1, <1>5, <1>6

\* What is parsed of a field is a text.
LEMMA UnescapeType ==
    ASSUME NEW text \in Seq(Char)
    PROVE  Unescape(text) \in Seq(Char)
<1>1. Unescaping(text).output \in Seq(Char)
  BY UnescapingType
<1>2. Append(Unescaping(text).output, "backslash") \in Seq(Char)
  BY <1>1, CharAssumption
<1> QED BY <1>1, <1>2 DEF Unescape

\* A character is written as itself or as a backslash and one more, which is
\* read back as that character; neither is the end of a line.
LEMMA EscapeCharForm ==
    ASSUME NEW c \in Char
    PROVE  \/ /\ EscapeChar(c) = <<c>>
              /\ c \notin {"backslash", "newline"}
           \/ \E d \in Char : /\ EscapeChar(c) = <<"backslash", d>>
                              /\ d # "newline" /\ UnescapeChar(d) = c
<1>1. {"backslash", "t", "n"} \subseteq Char
  BY CharAssumption
<1>2. CASE c = "backslash"
  BY <1>1, <1>2 DEF EscapeChar, UnescapeChar
<1>3. CASE c = "tab"
  BY <1>1, <1>3 DEF EscapeChar, UnescapeChar
<1>4. CASE c = "newline"
  BY <1>1, <1>4 DEF EscapeChar, UnescapeChar
<1>5. CASE c \notin {"backslash", "tab", "newline"}
  BY <1>5 DEF EscapeChar
<1> QED BY <1>2, <1>3, <1>4, <1>5

\* What is written of a text stays on one line.
OnOneLine(text) == \A n \in DOMAIN text : text[n] # "newline"

\* Reading what was written of one more character.
LEMMA EscapeCharRead ==
    ASSUME NEW written \in Seq(Char), OnOneLine(written), ~Unescaping(written).escaped,
           NEW c \in Char
    PROVE  /\ written \o EscapeChar(c) \in Seq(Char)
           /\ OnOneLine(written \o EscapeChar(c))
           /\ Unescaping(written \o EscapeChar(c)) =
                [output |-> Append(Unescaping(written).output, c), escaped |-> FALSE]
<1> DEFINE state == Unescaping(written)
<1>1. state \in [output : Seq(Char), escaped : BOOLEAN]
  BY UnescapingType
<1>2. CASE EscapeChar(c) = <<c>> /\ c \notin {"backslash", "newline"}
  <2>1. written \o EscapeChar(c) = Append(written, c)
    BY <1>2
  <2>2. Append(written, c) \in Seq(Char) /\ OnOneLine(Append(written, c))
    BY <1>2 DEF OnOneLine
  <2>3. UnescapeStep(state, c) = [output |-> Append(state.output, c), escaped |-> FALSE]
    BY <1>1, <1>2 DEF UnescapeStep
  <2> QED BY <2>1, <2>2, <2>3, UnescapingAppend
<1>3. CASE \E d \in Char : /\ EscapeChar(c) = <<"backslash", d>>
                           /\ d # "newline" /\ UnescapeChar(d) = c
  <2>1. PICK d \in Char : /\ EscapeChar(c) = <<"backslash", d>>
                          /\ d # "newline" /\ UnescapeChar(d) = c
    BY <1>3
  <2> DEFINE half == Append(written, "backslash")
  <2>2. "backslash" \in Char
    BY CharAssumption
  <2>3. half \in Seq(Char) /\ OnOneLine(half)
    BY <2>2 DEF OnOneLine
  <2>4. written \o EscapeChar(c) = Append(half, d)
    BY <2>1, <2>2
  <2>5. Unescaping(half) = [output |-> state.output, escaped |-> TRUE]
    <3>1. UnescapeStep(state, "backslash") = [output |-> state.output, escaped |-> TRUE]
      BY <1>1 DEF UnescapeStep
    <3> QED BY <2>2, <3>1, UnescapingAppend
  <2> HIDE DEF half, state
  <2>6. UnescapeStep(Unescaping(half), d) = [output |-> Append(state.output, c), escaped |-> FALSE]
    BY <2>1, <2>5 DEF UnescapeStep
  <2>7. Append(half, d) \in Seq(Char) /\ OnOneLine(Append(half, d))
    BY <2>1, <2>3 DEF OnOneLine
  <2> QED BY <2>3, <2>4, <2>6, <2>7, UnescapingAppend DEF state
<1> QED BY <1>2, <1>3, EscapeCharForm

\* EscapeCommitLogText and UnescapeCommitLogText: every text, whatever it looks
\* like, is written on one line and read back as it was.
THEOREM EscapeIsRead ==
    ASSUME NEW text \in Seq(Char)
    PROVE  /\ Escape(text) \in Seq(Char)
           /\ OnOneLine(Escape(text))
           /\ Unescape(Escape(text)) = text
<1> DEFINE m == Len(text)
           Right(written, n) ==
               /\ written \in Seq(Char) /\ OnOneLine(written)
               /\ Unescaping(written) = [output |-> SubSeq(text, 1, n), escaped |-> FALSE]
<1>1. PICK f : /\ f[0] = <<>>
               /\ \A n \in 1 .. m : f[n] = f[n - 1] \o EscapeChar(text[n])
               /\ Escape(text) = f[m]
  BY EscapeUnroll
<1> DEFINE S == {n \in 0 .. m : Right(f[n], n)}
<1>2. m \in Nat /\ 0 \in 0 .. m /\ m \in 0 .. m
  OBVIOUS
<1>3. 0 \in S
  <2>1. SubSeq(text, 1, 0) = <<>> /\ <<>> \in Seq(Char) /\ OnOneLine(<<>>)
    BY DEF OnOneLine
  <2> QED BY <1>1, <1>2, <2>1, UnescapingNothing DEF NothingRead
<1>4. ASSUME NEW n \in 0 .. (m - 1), n \in S
      PROVE  n + 1 \in S
  <2>1. n + 1 \in 1 .. m /\ n + 1 \in 0 .. m /\ (n + 1) - 1 = n
    OBVIOUS
  <2>2. text[n + 1] \in Char /\ Append(SubSeq(text, 1, n), text[n + 1]) = SubSeq(text, 1, n + 1)
    BY <2>1
  <2>3. f[n + 1] = f[n] \o EscapeChar(text[n + 1])
    BY <1>1, <2>1
  <2>4. Right(f[n], n)
    BY <1>4
  <2> HIDE DEF m
  <2>5. Right(f[n + 1], n + 1)
    <3> DEFINE c == text[n + 1]
               written == f[n]
    <3>1. /\ written \in Seq(Char) /\ OnOneLine(written) /\ c \in Char
          /\ Unescaping(written) = [output |-> SubSeq(text, 1, n), escaped |-> FALSE]
          /\ ~Unescaping(written).escaped
      BY <2>2, <2>4
    <3> HIDE DEF c, written
    <3>2. /\ written \o EscapeChar(c) \in Seq(Char)
          /\ OnOneLine(written \o EscapeChar(c))
          /\ Unescaping(written \o EscapeChar(c)) =
                [output |-> Append(Unescaping(written).output, c), escaped |-> FALSE]
      BY <3>1, EscapeCharRead
    <3>3. Unescaping(written).output = SubSeq(text, 1, n)
      BY <3>1
    <3>4. Append(SubSeq(text, 1, n), c) = SubSeq(text, 1, n + 1)
      BY <2>2 DEF c
    <3>5. f[n + 1] = written \o EscapeChar(c)
      BY <2>3 DEF c, written
    <3> QED BY <3>2, <3>3, <3>4, <3>5
  <2> QED BY <2>1, <2>5
<1>5. \A n \in 0 .. m : n \in S
  <2> HIDE DEF S, m
  <2> QED BY <1>2, <1>3, <1>4, EveryTurn
<1>6. Right(Escape(text), m)
  BY <1>1, <1>2, <1>5
<1>7. SubSeq(text, 1, m) = text
  OBVIOUS
<1> QED BY <1>6, <1>7 DEF Unescape

\* What is on one line is that line.
LEMMA FirstLineOfOne ==
    ASSUME NEW text \in Seq(Char), OnOneLine(text)
    PROVE  FirstLine(text) = text
BY DEF FirstLine, SelectInSeq, OnOneLine

\* What getline returns is a text.
LEMMA FirstLineType ==
    ASSUME NEW text \in Seq(Char)
    PROVE  FirstLine(text) \in Seq(Char)
<1> DEFINE ends == {i \in 1 .. Len(text) : text[i] = "newline"}
<1>1. CASE ends = {}
  BY <1>1 DEF FirstLine, SelectInSeq
<1>2. CASE ends # {}
  <2>1. ends \in SUBSET Nat
    OBVIOUS
  <2> HIDE DEF ends
  <2>2. PICK m \in ends : \A j \in ends : m <= j
    BY <1>2, <2>1, LeastNumber
  <2>3. Min(ends) \in ends
    BY <2>2 DEF Min
  <2>4. Min(ends) \in 1 .. Len(text)
    BY <2>3 DEF ends
  <2>5. SubSeq(text, 1, Min(ends) - 1) \in Seq(Char)
    BY <2>4
  <2>6. FirstLine(text) = SubSeq(text, 1, Min(ends) - 1)
    <3>1. SelectInSeq(text, LAMBDA c : c = "newline") = Min(ends)
      BY <1>2 DEF SelectInSeq, ends
    <3>2. Min(ends) # 0
      BY <2>4
    <3> QED BY <3>1, <3>2 DEF FirstLine
  <2> QED BY <2>5, <2>6
<1> QED BY <1>1, <1>2

--------------------------------------------------------------------------------
(* The logs of a directory.                                                  *)

\* The loop of ListCommitLogs, over the first m names.
Listing(dir, m, f) ==
    f = [n \in 0 .. m |->
            IF n = 0 THEN <<>> ELSE IF dir[n].exists THEN Append(f[n - 1], n) ELSE f[n - 1]]

\* The loop can be run.
LEMMA ListingExists ==
    ASSUME NEW dir, NEW m \in Nat
    PROVE  \E f : Listing(dir, m, f)
<1> DEFINE S == {n \in 0 .. m : \E f : Listing(dir, n, f)}
<1>1. 0 \in S
  <2>1. Listing(dir, 0, [n \in 0 .. 0 |-> <<>>])
    BY DEF Listing
  <2> QED BY <2>1
<1>2. ASSUME NEW n \in 0 .. (m - 1), n \in S
      PROVE  n + 1 \in S
  <2>1. PICK g : Listing(dir, n, g)
    BY <1>2
  <2>2. n \in Nat /\ n + 1 \in 0 .. m
    OBVIOUS
  <2> DEFINE last == (IF dir[n + 1].exists THEN Append(g[n], n + 1) ELSE g[n])
             f == Longer(g, n, last)
  <2> HIDE DEF last, S
  <2>3. f = [i \in 0 .. (n + 1) |-> f[i]]
    BY <2>2, OneMoreTurn
  <2>4. f[n + 1] = last
    BY <2>2, OneMoreTurn
  <2>5. \A i \in 0 .. n : f[i] = g[i]
    BY <2>2, OneMoreTurn
  <2> HIDE DEF f
  <2>6. ASSUME NEW i \in 0 .. (n + 1)
        PROVE  f[i] = IF i = 0 THEN <<>> ELSE (IF dir[i].exists THEN Append(f[i - 1], i) ELSE f[i - 1])
    <3>1. CASE i = n + 1
      <4>1. i # 0 /\ i - 1 = n /\ n \in 0 .. n
        BY <2>2, <3>1
      <4> QED BY <2>4, <2>5, <3>1, <4>1 DEF last
    <3>2. CASE i # n + 1
      <4>1. i \in 0 .. n /\ (i # 0 => i - 1 \in 0 .. n)
        BY <2>2, <3>2
      <4>2. g[i] = IF i = 0 THEN <<>> ELSE (IF dir[i].exists THEN Append(g[i - 1], i) ELSE g[i - 1])
        BY <2>1, <4>1 DEF Listing
      <4> QED BY <2>5, <4>1, <4>2
    <3> QED BY <3>1, <3>2
  <2>7. Listing(dir, n + 1, f)
    BY <2>3, <2>6 DEF Listing
  <2> QED BY <2>2, <2>7 DEF S
<1>3. \A n \in 0 .. m : n \in S
  <2> HIDE DEF S
  <2> QED BY <1>1, <1>2, EveryTurn
<1> QED BY <1>3

\* ListCommitLogs, name by name.
LEMMA ListedUnroll ==
    ASSUME NEW dir
    PROVE  \E f : /\ f[0] = <<>>
                  /\ \A n \in 1 .. TaskCount :
                        f[n] = IF dir[n].exists THEN Append(f[n - 1], n) ELSE f[n - 1]
                  /\ Listed(dir) = f[TaskCount]
<1>1. TaskCount \in Nat
  BY TaskCountAssumption
<1> DEFINE f == CHOOSE f : Listing(dir, TaskCount, f)
<1>2. Listing(dir, TaskCount, f)
  BY <1>1, ListingExists
<1>3. Listed(dir) = f[TaskCount]
  BY DEF Listed, Listing
<1> HIDE DEF f
<1>4. \A n \in 0 .. TaskCount :
        f[n] = IF n = 0 THEN <<>> ELSE IF dir[n].exists THEN Append(f[n - 1], n) ELSE f[n - 1]
  BY <1>2, Zenon DEF Listing
<1>5. 0 \in 0 .. TaskCount /\ \A n \in 1 .. TaskCount : n \in 0 .. TaskCount /\ n # 0
  BY <1>1
<1> QED BY <1>3, <1>4, <1>5

\* The logs there are among the first n, each of them once.
LogsOf(dir, n, logs) ==
    /\ logs \in Seq(1 .. n) /\ Len(logs) <= n
    /\ \A m \in 1 .. Len(logs) : dir[logs[m]].exists
    /\ \A m, k \in 1 .. Len(logs) : logs[m] = logs[k] => m = k
    /\ \A t \in 1 .. n : dir[t].exists => \E m \in 1 .. Len(logs) : logs[m] = t

\* ListCommitLogs lists the logs there are.
LEMMA ListedLogs ==
    ASSUME NEW dir
    PROVE  LogsOf(dir, TaskCount, Listed(dir))
<1>1. PICK f : /\ f[0] = <<>>
               /\ \A n \in 1 .. TaskCount :
                        f[n] = IF dir[n].exists THEN Append(f[n - 1], n) ELSE f[n - 1]
               /\ Listed(dir) = f[TaskCount]
  BY ListedUnroll
<1> DEFINE S == {n \in 0 .. TaskCount : LogsOf(dir, n, f[n])}
<1>2. TaskCount \in Nat /\ 0 \in 0 .. TaskCount /\ TaskCount \in 0 .. TaskCount
  BY TaskCountAssumption
<1>3. 0 \in S
  <2>1. LogsOf(dir, 0, <<>>)
    BY DEF LogsOf
  <2> QED BY <1>1, <1>2, <2>1
<1>4. ASSUME NEW n \in 0 .. (TaskCount - 1), n \in S
      PROVE  n + 1 \in S
  <2>1. n \in Nat /\ n + 1 \in 1 .. TaskCount /\ n + 1 \in 0 .. TaskCount /\ (n + 1) - 1 = n
    BY <1>2
  <2>2. f[n + 1] = IF dir[n + 1].exists THEN Append(f[n], n + 1) ELSE f[n]
    BY <1>1, <2>1
  <2> DEFINE logs == f[n]
  <2>3. LogsOf(dir, n, logs)
    BY <1>4
  <2> HIDE DEF logs
  <2>4. /\ logs \in Seq(1 .. (n + 1)) /\ Len(logs) \in Nat /\ Len(logs) <= n
        /\ \A m \in 1 .. Len(logs) : dir[logs[m]].exists
        /\ \A t \in 1 .. n : dir[t].exists => \E m \in 1 .. Len(logs) : logs[m] = t
    <3>1. logs \in Seq(1 .. n) /\ 1 .. n \subseteq 1 .. (n + 1)
      BY <2>1, <2>3 DEF LogsOf
    <3>2. logs \in Seq(1 .. (n + 1)) /\ Len(logs) \in Nat
      BY <3>1
    <3> QED BY <2>3, <3>2 DEF LogsOf
  <2>5. CASE dir[n + 1].exists
    <3> DEFINE more == Append(logs, n + 1)
    <3>1. /\ more \in Seq(1 .. (n + 1)) /\ Len(more) = Len(logs) + 1
          /\ more[Len(logs) + 1] = n + 1
          /\ \A m \in 1 .. Len(logs) : more[m] = logs[m]
      BY <2>1, <2>4
    <3> HIDE DEF more
    <3>2. \A m \in 1 .. Len(more) : dir[more[m]].exists
      <4>1. ASSUME NEW m \in 1 .. Len(more)
            PROVE  m \in 1 .. Len(logs) \/ m = Len(logs) + 1
        BY <2>4, <3>1
      <4> QED BY <2>4, <2>5, <3>1, <4>1
    <3>3. ASSUME NEW t \in 1 .. (n + 1), dir[t].exists
          PROVE  \E m \in 1 .. Len(more) : more[m] = t
      <4>1. CASE t = n + 1
        <5>1. Len(logs) + 1 \in 1 .. Len(more)
          BY <2>4, <3>1
        <5> QED BY <3>1, <4>1, <5>1
      <4>2. CASE t # n + 1
        <5>1. t \in 1 .. n
          BY <2>1, <4>2
        <5>2. PICK m \in 1 .. Len(logs) : logs[m] = t
          BY <2>4, <3>3, <5>1
        <5>3. m \in 1 .. Len(more)
          BY <2>4, <3>1
        <5> QED BY <3>1, <5>2, <5>3
      <4> QED BY <4>1, <4>2
    <3>4. Len(more) <= n + 1
      BY <2>1, <2>4, <3>1
    <3>7. ASSUME NEW m \in 1 .. Len(more), NEW k \in 1 .. Len(more), more[m] = more[k]
          PROVE  m = k
      <4>1. \A j \in 1 .. Len(logs) : logs[j] \in 1 .. n /\ logs[j] # n + 1
        <5>1. \A j \in 1 .. Len(logs) : logs[j] \in 1 .. n
          BY <2>3 DEF LogsOf
        <5> QED BY <2>1, <5>1
      <4>2. /\ m \in 1 .. Len(logs) \/ m = Len(logs) + 1
            /\ k \in 1 .. Len(logs) \/ k = Len(logs) + 1
        BY <2>4, <3>1
      <4>3. m \in 1 .. Len(logs) /\ k \in 1 .. Len(logs) => m = k
        BY <2>3, <3>1, <3>7 DEF LogsOf
      <4> QED BY <3>1, <3>7, <4>1, <4>2, <4>3
    <3>5. LogsOf(dir, n + 1, more)
      BY <3>1, <3>2, <3>3, <3>4, <3>7 DEF LogsOf
    <3>6. f[n + 1] = more
      BY <2>2, <2>5 DEF more, logs
    <3> QED BY <2>1, <3>5, <3>6
  <2>6. CASE ~dir[n + 1].exists
    <3>1. \A t \in 1 .. (n + 1) : dir[t].exists => t \in 1 .. n
      <4>1. \A t \in 1 .. (n + 1) : t = n + 1 \/ t \in 1 .. n
        BY <2>1
      <4> QED BY <2>6, <4>1
    <3>2. Len(logs) <= n + 1
      BY <2>1, <2>4
    <3>3. LogsOf(dir, n + 1, logs)
      BY <2>3, <2>4, <3>1, <3>2 DEF LogsOf
    <3>4. f[n + 1] = logs
      BY <2>2, <2>6 DEF logs
    <3> QED BY <2>1, <3>3, <3>4
  <2> QED BY <2>5, <2>6
<1>5. \A n \in 0 .. TaskCount : n \in S
  <2> HIDE DEF S
  <2> QED BY <1>2, <1>3, <1>4, EveryTurn
<1> QED BY <1>1, <1>2, <1>5

--------------------------------------------------------------------------------
(* What is in a log.                                                         *)

\* A store in which a key that is missing has version 0.
GoodStores == {s \in [Key -> VersionedValue] : \A k \in Key : s[k].exists \/ s[k].version = 0}

LineRecord == [key : Key, expected_version : Nat, text : Seq(Char)]

FileRecord ==
    [exists : BOOLEAN, legible : BOOLEAN, status : {"", "COMMITTED", "ABORTED"},
     lines : Seq(LineRecord), record : Seq(LogEntry)]

\* The logs of the tasks.
Directory(dir) == \A t \in Task : dir[t] \in FileRecord

\* The entries that are applied of a log.
Entries(file) == IF IsCommitted(file) THEN Parsed(file) ELSE <<>>

\* What is parsed of the lines of a log are log entries, in the order of the lines.
LEMMA ParsedType ==
    ASSUME NEW file \in FileRecord
    PROVE  /\ Parsed(file) \in Seq(LogEntry)
           /\ Len(Parsed(file)) = Len(file.lines)
           /\ Entries(file) \in Seq(LogEntry)
           /\ Len(Entries(file)) \in Nat
<1>1. file.lines \in Seq(LineRecord)
  BY DEF FileRecord
<1>2. ASSUME NEW i \in DOMAIN file.lines
      PROVE  Parsed(file)[i] \in LogEntry
  <2>1. file.lines[i] \in LineRecord
    BY <1>1
  <2>2. file.lines[i].text \in Seq(Char)
    BY <2>1 DEF LineRecord
  <2>3. Unescape(FirstLine(file.lines[i].text)) \in Value
    BY <2>2, FirstLineType, UnescapeType DEF Value
  <2> QED BY <2>1, <2>3 DEF Parsed, LogEntry, LineRecord
<1>3. DOMAIN file.lines = 1 .. Len(file.lines) /\ Len(file.lines) \in Nat
  BY <1>1
<1>4. Parsed(file) \in [1 .. Len(file.lines) -> LogEntry]
  BY <1>2, <1>3 DEF Parsed
<1>5. Parsed(file) \in Seq(LogEntry) /\ Len(Parsed(file)) = Len(file.lines)
  <2> HIDE DEF Parsed
  <2> QED BY <1>3, <1>4
<1> QED BY <1>5 DEF Entries

--------------------------------------------------------------------------------
(* The recovery as a function: the loop over the entries of a log.           *)

\* What the recovery of a store comes to.
Results == [store : GoodStores, success : BOOLEAN]

\* The two results without a write so far, and after a conflict.
Going(s) == [store |-> s, success |-> TRUE]

\* The loop over the entries, over the first m of them.
ApplyingEntries(result, entries, m, f) ==
    f = [n \in 0 .. m |-> IF n = 0 THEN result ELSE ApplyEntry(f[n - 1], entries[n])]

\* The loop can be run.
LEMMA ApplyingEntriesExists ==
    ASSUME NEW result, NEW entries, NEW m \in Nat
    PROVE  \E f : ApplyingEntries(result, entries, m, f)
<1> DEFINE S == {n \in 0 .. m : \E f : ApplyingEntries(result, entries, n, f)}
<1>1. 0 \in S
  <2>1. ApplyingEntries(result, entries, 0, [n \in 0 .. 0 |-> result])
    BY DEF ApplyingEntries
  <2> QED BY <2>1
<1>2. ASSUME NEW n \in 0 .. (m - 1), n \in S
      PROVE  n + 1 \in S
  <2>1. PICK g : ApplyingEntries(result, entries, n, g)
    BY <1>2
  <2>2. n \in Nat /\ n + 1 \in 0 .. m
    OBVIOUS
  <2> DEFINE last == ApplyEntry(g[n], entries[n + 1])
             f == Longer(g, n, last)
  <2> HIDE DEF last, S
  <2>3. f = [i \in 0 .. (n + 1) |-> f[i]]
    BY <2>2, OneMoreTurn
  <2>4. f[n + 1] = last
    BY <2>2, OneMoreTurn
  <2>5. \A i \in 0 .. n : f[i] = g[i]
    BY <2>2, OneMoreTurn
  <2> HIDE DEF f
  <2>6. ASSUME NEW i \in 0 .. (n + 1)
        PROVE  f[i] = IF i = 0 THEN result ELSE ApplyEntry(f[i - 1], entries[i])
    <3>1. CASE i = n + 1
      <4>1. i # 0 /\ i - 1 = n /\ n \in 0 .. n
        BY <2>2, <3>1
      <4> QED BY <2>4, <2>5, <3>1, <4>1 DEF last
    <3>2. CASE i # n + 1
      <4>1. i \in 0 .. n /\ (i # 0 => i - 1 \in 0 .. n)
        BY <2>2, <3>2
      <4>2. g[i] = IF i = 0 THEN result ELSE ApplyEntry(g[i - 1], entries[i])
        BY <2>1, <4>1 DEF ApplyingEntries
      <4> QED BY <2>5, <4>1, <4>2
    <3> QED BY <3>1, <3>2
  <2>7. ApplyingEntries(result, entries, n + 1, f)
    BY <2>3, <2>6 DEF ApplyingEntries
  <2> QED BY <2>2, <2>7 DEF S
<1>3. \A n \in 0 .. m : n \in S
  <2> HIDE DEF S
  <2> QED BY <1>1, <1>2, EveryTurn
<1> QED BY <1>3

\* A log, entry by entry.
LEMMA ApplyLogUnroll ==
    ASSUME NEW result, NEW file \in FileRecord, Parses(file)
    PROVE  \E f : /\ f[0] = result
                  /\ \A n \in 1 .. Len(Entries(file)) : f[n] = ApplyEntry(f[n - 1], Entries(file)[n])
                  /\ ApplyLog(result, file) = f[Len(Entries(file))]
<1>1. CASE IsCommitted(file)
  <2> DEFINE entries == Parsed(file)
             f == CHOOSE f : ApplyingEntries(result, entries, Len(entries), f)
  <2>1. Len(entries) \in Nat /\ Entries(file) = entries
    BY <1>1, ParsedType DEF Entries
  <2>2. ApplyingEntries(result, entries, Len(entries), f)
    BY <2>1, ApplyingEntriesExists
  <2>3. ApplyLog(result, file) = f[Len(entries)]
    BY <1>1 DEF ApplyLog, ApplyingEntries
  <2> HIDE DEF f, entries
  <2>4. \A n \in 0 .. Len(entries) :
            f[n] = IF n = 0 THEN result ELSE ApplyEntry(f[n - 1], entries[n])
    BY <2>2, Zenon DEF ApplyingEntries
  <2>5. 0 \in 0 .. Len(entries) /\ \A n \in 1 .. Len(entries) : n \in 0 .. Len(entries) /\ n # 0
    BY <2>1
  <2> QED BY <2>1, <2>3, <2>4, <2>5
<1>2. CASE ~IsCommitted(file)
  <2> DEFINE f == [n \in {0} |-> result]
  <2>1. Entries(file) = <<>> /\ Len(Entries(file)) = 0 /\ f[0] = result
    BY <1>2 DEF Entries
  <2>2. ApplyLog(result, file) = result
    BY <1>2 DEF ApplyLog
  <2>3. 1 .. 0 = {}
    OBVIOUS
  <2> HIDE DEF f
  <2> QED BY <2>1, <2>2, <2>3
<1> QED BY <1>1, <1>2

\* What an entry does to a result.
LEMMA ApplyEntryType ==
    ASSUME NEW result \in Results, NEW e \in LogEntry
    PROVE  ApplyEntry(result, e) \in Results
<1> DEFINE s == result.store
<1>1. /\ s \in [Key -> VersionedValue] /\ e.key \in Key /\ e.value \in Value
      /\ \A k \in Key : s[k].exists \/ s[k].version = 0
  BY DEF Results, GoodStores, LogEntry
<1>2. Put(s, e.key, e.value) \in GoodStores
  BY <1>1 DEF Put, Stored, VersionedValue, GoodStores
<1>3. [s EXCEPT ![e.key].exists = TRUE] \in GoodStores
  BY <1>1 DEF VersionedValue, GoodStores
<1>4. PutIfVersion(s, e.key, e.expected_version, e.value) \in GoodStores
  BY <1>2, <1>3 DEF PutIfVersion
<1>5. VersionIs(s, e.key, e.expected_version) \in BOOLEAN
  BY DEF VersionIs
<1> QED BY <1>4, <1>5 DEF ApplyEntry, Results

\* What a log does to a result.
LEMMA ApplyLogType ==
    ASSUME NEW result \in Results, NEW file \in FileRecord
    PROVE  ApplyLog(result, file) \in Results
<1>1. CASE ~Parses(file)
  BY <1>1 DEF ApplyLog, Results
<1>2. CASE Parses(file)
  <2> DEFINE entries == Entries(file)
  <2>1. PICK f : /\ f[0] = result
                 /\ \A n \in 1 .. Len(entries) : f[n] = ApplyEntry(f[n - 1], entries[n])
                 /\ ApplyLog(result, file) = f[Len(entries)]
    BY <1>2, ApplyLogUnroll
  <2>2. entries \in Seq(LogEntry) /\ Len(entries) \in Nat
    BY ParsedType
  <2> HIDE DEF entries
  <2> DEFINE S == {n \in 0 .. Len(entries) : f[n] \in Results}
  <2>3. 0 \in S
    BY <2>1, <2>2
  <2>4. ASSUME NEW n \in 0 .. (Len(entries) - 1), n \in S
        PROVE  n + 1 \in S
    <3>1. n + 1 \in 1 .. Len(entries) /\ n + 1 \in 0 .. Len(entries) /\ (n + 1) - 1 = n
      BY <2>2
    <3>2. entries[n + 1] \in LogEntry
      BY <2>2, <3>1
    <3>3. f[n + 1] = ApplyEntry(f[n], entries[n + 1])
      BY <2>1, <3>1
    <3>4. f[n] \in Results
      BY <2>4
    <3> QED BY <3>1, <3>2, <3>3, <3>4, ApplyEntryType
  <2>5. \A n \in 0 .. Len(entries) : n \in S
    <3> HIDE DEF S
    <3> QED BY <2>2, <2>3, <2>4, EveryTurn
  <2>6. Len(entries) \in 0 .. Len(entries)
    BY <2>2
  <2> QED BY <2>1, <2>5, <2>6
<1> QED BY <1>1, <1>2

\* After a conflict or a log that does not parse, nothing more is applied.
LEMMA ApplyLogFailed ==
    ASSUME NEW result \in Results, ~result.success, NEW file \in FileRecord
    PROVE  ApplyLog(result, file) = result
<1>1. CASE ~Parses(file)
  BY <1>1 DEF ApplyLog, Results
<1>2. CASE Parses(file)
  <2> DEFINE entries == Entries(file)
  <2>1. PICK f : /\ f[0] = result
                 /\ \A n \in 1 .. Len(entries) : f[n] = ApplyEntry(f[n - 1], entries[n])
                 /\ ApplyLog(result, file) = f[Len(entries)]
    BY <1>2, ApplyLogUnroll
  <2>2. Len(entries) \in Nat
    BY ParsedType
  <2> HIDE DEF entries
  <2> DEFINE S == {n \in 0 .. Len(entries) : f[n] = result}
  <2>3. 0 \in S
    BY <2>1, <2>2
  <2>4. ASSUME NEW n \in 0 .. (Len(entries) - 1), n \in S
        PROVE  n + 1 \in S
    <3>1. n + 1 \in 1 .. Len(entries) /\ n + 1 \in 0 .. Len(entries) /\ (n + 1) - 1 = n
      BY <2>2
    <3>2. f[n + 1] = ApplyEntry(result, entries[n + 1])
      BY <2>1, <2>4, <3>1
    <3>3. f[n + 1] = result
      BY <3>2 DEF ApplyEntry
    <3> QED BY <3>1, <3>3
  <2>5. \A n \in 0 .. Len(entries) : n \in S
    <3> HIDE DEF S
    <3> QED BY <2>2, <2>3, <2>4, EveryTurn
  <2>6. Len(entries) \in 0 .. Len(entries)
    BY <2>2
  <2> QED BY <2>1, <2>5, <2>6
<1> QED BY <1>1, <1>2

\* The first n entries are in a store.
Settled(s, entries, n) == \A j \in 1 .. n : AlreadyApplied(s, entries[j])

\* Entries that are in the store are passed over.
LEMMA SettledStart ==
    ASSUME NEW s, NEW entries, NEW n \in Nat, Settled(s, entries, n), NEW f,
           f[0] = Going(s),
           \A m \in 1 .. n : f[m] = ApplyEntry(f[m - 1], entries[m])
    PROVE  f[n] = Going(s)
<1> DEFINE S == {m \in 0 .. n : f[m] = Going(s)}
<1>1. 0 \in S
  OBVIOUS
<1>2. ASSUME NEW m \in 0 .. (n - 1), m \in S
      PROVE  m + 1 \in S
  <2>1. m + 1 \in 1 .. n /\ m + 1 \in 0 .. n /\ (m + 1) - 1 = m
    OBVIOUS
  <2>2. f[m + 1] = ApplyEntry(Going(s), entries[m + 1])
    BY <1>2, <2>1
  <2>3. AlreadyApplied(s, entries[m + 1])
    BY <2>1 DEF Settled
  <2>4. Going(s).store = s
    BY DEF Going
  <2>5. f[m + 1] = Going(s)
    BY <2>2, <2>3, <2>4 DEF ApplyEntry
  <2> QED BY <2>1, <2>5
<1>3. \A m \in 0 .. n : m \in S
  <2> HIDE DEF S
  <2> QED BY <1>1, <1>2, EveryTurn
<1> QED BY <1>3

\* A log whose entries are all in the store changes nothing.
LEMMA ApplyLogSettled ==
    ASSUME NEW s, NEW file \in FileRecord, Parses(file),
           Settled(s, Entries(file), Len(Entries(file)))
    PROVE  ApplyLog(Going(s), file) = Going(s)
<1>1. PICK f : /\ f[0] = Going(s)
               /\ \A n \in 1 .. Len(Entries(file)) : f[n] = ApplyEntry(f[n - 1], Entries(file)[n])
               /\ ApplyLog(Going(s), file) = f[Len(Entries(file))]
  BY ApplyLogUnroll
<1>2. Len(Entries(file)) \in Nat
  BY ParsedType
<1> QED BY <1>1, <1>2, SettledStart

\* Two stores in which the same entries of a log are settled, and which the next
\* entry makes alike, are alike at the end of the log.
LEMMA ApplyLogAlike ==
    ASSUME NEW s \in GoodStores, NEW u \in GoodStores, NEW file \in FileRecord, Parses(file),
           NEW n \in 1 .. Len(Entries(file)),
           Settled(s, Entries(file), n - 1), Settled(u, Entries(file), n - 1),
           ApplyEntry(Going(s), Entries(file)[n]) = ApplyEntry(Going(u), Entries(file)[n])
    PROVE  ApplyLog(Going(s), file) = ApplyLog(Going(u), file)
<1> DEFINE entries == Entries(file)
<1>1. PICK f : /\ f[0] = Going(s)
               /\ \A m \in 1 .. Len(entries) : f[m] = ApplyEntry(f[m - 1], entries[m])
               /\ ApplyLog(Going(s), file) = f[Len(entries)]
  BY ApplyLogUnroll
<1>2. PICK g : /\ g[0] = Going(u)
               /\ \A m \in 1 .. Len(entries) : g[m] = ApplyEntry(g[m - 1], entries[m])
               /\ ApplyLog(Going(u), file) = g[Len(entries)]
  BY ApplyLogUnroll
<1>3. Len(entries) \in Nat
  BY ParsedType
<1>4. n \in 1 .. Len(entries) /\ Settled(s, entries, n - 1) /\ Settled(u, entries, n - 1)
      /\ ApplyEntry(Going(s), entries[n]) = ApplyEntry(Going(u), entries[n])
  OBVIOUS
<1> HIDE DEF entries
<1>5. n - 1 \in Nat /\ \A m \in 1 .. (n - 1) : m \in 1 .. Len(entries)
  BY <1>3, <1>4
<1>6. f[n - 1] = Going(s) /\ g[n - 1] = Going(u)
  <2>1. /\ \A m \in 1 .. (n - 1) : f[m] = ApplyEntry(f[m - 1], entries[m])
        /\ \A m \in 1 .. (n - 1) : g[m] = ApplyEntry(g[m - 1], entries[m])
    BY <1>1, <1>2, <1>5
  <2>2. f[n - 1] = Going(s)
    BY <1>1, <1>4, <1>5, <2>1, SettledStart
  <2>3. g[n - 1] = Going(u)
    BY <1>2, <1>4, <1>5, <2>1, SettledStart
  <2> QED BY <2>2, <2>3
<1>7. f[n] = g[n]
  BY <1>1, <1>2, <1>4, <1>6
<1> DEFINE S == {m \in 0 .. Len(entries) : n <= m => f[m] = g[m]}
<1>8. 0 \in S
  BY <1>3, <1>4
<1>9. ASSUME NEW m \in 0 .. (Len(entries) - 1), m \in S
      PROVE  m + 1 \in S
  <2>1. m + 1 \in 1 .. Len(entries) /\ m + 1 \in 0 .. Len(entries) /\ (m + 1) - 1 = m
    BY <1>3
  <2>2. f[m + 1] = ApplyEntry(f[m], entries[m + 1]) /\ g[m + 1] = ApplyEntry(g[m], entries[m + 1])
    BY <1>1, <1>2, <2>1
  <2>3. n <= m + 1 => n = m + 1 \/ n <= m
    BY <1>3, <1>4
  <2>4. n <= m => f[m] = g[m]
    BY <1>9
  <2> QED BY <1>7, <2>1, <2>2, <2>3, <2>4
<1>10. \A m \in 0 .. Len(entries) : m \in S
  <2> HIDE DEF S
  <2> QED BY <1>3, <1>8, <1>9, EveryTurn
<1>11. Len(entries) \in 0 .. Len(entries) /\ n <= Len(entries)
  BY <1>3, <1>4
<1> QED BY <1>1, <1>2, <1>10, <1>11

\* A conflict at one entry is the result of the log.
LEMMA ApplyLogConflict ==
    ASSUME NEW s \in GoodStores, NEW file \in FileRecord, Parses(file),
           NEW n \in 1 .. Len(Entries(file)),
           Settled(s, Entries(file), n - 1),
           ~ApplyEntry(Going(s), Entries(file)[n]).success
    PROVE  ~ApplyLog(Going(s), file).success
<1> DEFINE entries == Entries(file)
<1>1. PICK f : /\ f[0] = Going(s)
               /\ \A m \in 1 .. Len(entries) : f[m] = ApplyEntry(f[m - 1], entries[m])
               /\ ApplyLog(Going(s), file) = f[Len(entries)]
  BY ApplyLogUnroll
<1>2. Len(entries) \in Nat
  BY ParsedType
<1>3. n \in 1 .. Len(entries) /\ Settled(s, entries, n - 1)
      /\ ~ApplyEntry(Going(s), entries[n]).success
  OBVIOUS
<1> HIDE DEF entries
<1>4. n - 1 \in Nat /\ \A m \in 1 .. (n - 1) : m \in 1 .. Len(entries)
  BY <1>2, <1>3
<1>5. f[n - 1] = Going(s)
  BY <1>1, <1>3, <1>4, SettledStart
<1>6. ~f[n].success
  BY <1>1, <1>3, <1>5
<1> DEFINE S == {m \in 0 .. Len(entries) : n <= m => ~f[m].success}
<1>7. 0 \in S
  BY <1>2, <1>3
<1>8. ASSUME NEW m \in 0 .. (Len(entries) - 1), m \in S
      PROVE  m + 1 \in S
  <2>1. m + 1 \in 1 .. Len(entries) /\ m + 1 \in 0 .. Len(entries) /\ (m + 1) - 1 = m
    BY <1>2
  <2>2. f[m + 1] = ApplyEntry(f[m], entries[m + 1])
    BY <1>1, <2>1
  <2>3. ~f[m].success => f[m + 1] = f[m]
    BY <2>2 DEF ApplyEntry
  <2>4. n <= m + 1 => n = m + 1 \/ n <= m
    BY <1>2, <1>3
  <2>5. n <= m => ~f[m].success
    BY <1>8
  <2> QED BY <1>6, <2>1, <2>3, <2>4, <2>5
<1>9. \A m \in 0 .. Len(entries) : m \in S
  <2> HIDE DEF S
  <2> QED BY <1>2, <1>7, <1>8, EveryTurn
<1>10. Len(entries) \in 0 .. Len(entries) /\ n <= Len(entries)
  BY <1>2, <1>3
<1> QED BY <1>1, <1>9, <1>10

--------------------------------------------------------------------------------
(* The recovery as a function: the loop over the logs.                       *)

\* The log at a position, and the entries that are applied of it.
LogAt(dir, m) == dir[Listed(dir)[m]]
EntriesAt(dir, m) == Entries(LogAt(dir, m))

\* What is at a position is a log.
LEMMA LogAtType ==
    ASSUME NEW dir, Directory(dir)
    PROVE  /\ Len(Listed(dir)) \in 0 .. TaskCount
           /\ DOMAIN Listed(dir) = 1 .. Len(Listed(dir))
           /\ \A m \in 1 .. Len(Listed(dir)) : Listed(dir)[m] \in Task /\ LogAt(dir, m) \in FileRecord
<1>1. LogsOf(dir, TaskCount, Listed(dir))
  BY ListedLogs
<1>2. Listed(dir) \in Seq(Task) /\ Len(Listed(dir)) <= TaskCount
  BY <1>1 DEF LogsOf, Task
<1>3. Len(Listed(dir)) \in 0 .. TaskCount
  BY <1>2, TaskCountAssumption
<1>4. DOMAIN Listed(dir) = 1 .. Len(Listed(dir))
      /\ \A m \in 1 .. Len(Listed(dir)) : Listed(dir)[m] \in Task
  BY <1>2
<1> QED BY <1>3, <1>4 DEF Directory, LogAt

\* The loop over the logs, over the first m of them.
ApplyingLogs(dir, s, m, f) ==
    f = [n \in 0 .. m |-> IF n = 0 THEN Going(s) ELSE ApplyLog(f[n - 1], LogAt(dir, n))]

\* The loop can be run.
LEMMA ApplyingLogsExists ==
    ASSUME NEW dir, NEW s, NEW m \in Nat
    PROVE  \E f : ApplyingLogs(dir, s, m, f)
<1> DEFINE S == {n \in 0 .. m : \E f : ApplyingLogs(dir, s, n, f)}
<1>1. 0 \in S
  <2>1. ApplyingLogs(dir, s, 0, [n \in 0 .. 0 |-> Going(s)])
    BY DEF ApplyingLogs
  <2> QED BY <2>1
<1>2. ASSUME NEW n \in 0 .. (m - 1), n \in S
      PROVE  n + 1 \in S
  <2>1. PICK g : ApplyingLogs(dir, s, n, g)
    BY <1>2
  <2>2. n \in Nat /\ n + 1 \in 0 .. m
    OBVIOUS
  <2> DEFINE last == ApplyLog(g[n], LogAt(dir, n + 1))
             f == Longer(g, n, last)
  <2> HIDE DEF last, S
  <2>3. f = [i \in 0 .. (n + 1) |-> f[i]]
    BY <2>2, OneMoreTurn
  <2>4. f[n + 1] = last
    BY <2>2, OneMoreTurn
  <2>5. \A i \in 0 .. n : f[i] = g[i]
    BY <2>2, OneMoreTurn
  <2> HIDE DEF f
  <2>6. ASSUME NEW i \in 0 .. (n + 1)
        PROVE  f[i] = IF i = 0 THEN Going(s) ELSE ApplyLog(f[i - 1], LogAt(dir, i))
    <3>1. CASE i = n + 1
      <4>1. i # 0 /\ i - 1 = n /\ n \in 0 .. n
        BY <2>2, <3>1
      <4> QED BY <2>4, <2>5, <3>1, <4>1 DEF last
    <3>2. CASE i # n + 1
      <4>1. i \in 0 .. n /\ (i # 0 => i - 1 \in 0 .. n)
        BY <2>2, <3>2
      <4>2. g[i] = IF i = 0 THEN Going(s) ELSE ApplyLog(g[i - 1], LogAt(dir, i))
        BY <2>1, <4>1 DEF ApplyingLogs
      <4> QED BY <2>5, <4>1, <4>2
    <3> QED BY <3>1, <3>2
  <2>7. ApplyingLogs(dir, s, n + 1, f)
    BY <2>3, <2>6 DEF ApplyingLogs
  <2> QED BY <2>2, <2>7 DEF S
<1>3. \A n \in 0 .. m : n \in S
  <2> HIDE DEF S
  <2> QED BY <1>1, <1>2, EveryTurn
<1> QED BY <1>3

\* A recovery, log by log.
LEMMA RecoveryUnroll ==
    ASSUME NEW dir, Directory(dir), NEW s
    PROVE  \E f : /\ f[0] = Going(s)
                  /\ \A n \in 1 .. Len(Listed(dir)) : f[n] = ApplyLog(f[n - 1], LogAt(dir, n))
                  /\ RecoveryOf(dir, s) = f[Len(Listed(dir))]
<1> DEFINE count == Len(Listed(dir))
           f == CHOOSE f : ApplyingLogs(dir, s, count, f)
<1>1. count \in Nat
  BY LogAtType
<1>2. ApplyingLogs(dir, s, count, f)
  BY <1>1, ApplyingLogsExists
<1>3. RecoveryOf(dir, s) = f[count]
  BY DEF RecoveryOf, ApplyingLogs, Going, LogAt
<1> HIDE DEF f, count
<1>4. \A n \in 0 .. count :
          f[n] = IF n = 0 THEN Going(s) ELSE ApplyLog(f[n - 1], LogAt(dir, n))
  BY <1>2, Zenon DEF ApplyingLogs
<1>5. 0 \in 0 .. count /\ \A n \in 1 .. count : n \in 0 .. count /\ n # 0
  BY <1>1
<1>6. f[0] = Going(s) /\ \A n \in 1 .. count : f[n] = ApplyLog(f[n - 1], LogAt(dir, n))
  BY <1>4, <1>5
<1> QED BY <1>3, <1>6 DEF count

\* What a recovery comes to has its type.
LEMMA RecoveryType ==
    ASSUME NEW dir, Directory(dir), NEW s \in GoodStores
    PROVE  RecoveryOf(dir, s) \in Results
<1> DEFINE count == Len(Listed(dir))
<1>1. PICK f : /\ f[0] = Going(s)
               /\ \A n \in 1 .. count : f[n] = ApplyLog(f[n - 1], LogAt(dir, n))
               /\ RecoveryOf(dir, s) = f[count]
  BY RecoveryUnroll
<1>2. count \in Nat /\ \A n \in 1 .. count : LogAt(dir, n) \in FileRecord
  BY LogAtType
<1> HIDE DEF count
<1> DEFINE S == {n \in 0 .. count : f[n] \in Results}
<1>3. 0 \in S
  <2>1. Going(s) \in Results
    BY DEF Going, Results
  <2> QED BY <1>1, <1>2, <2>1
<1>4. ASSUME NEW n \in 0 .. (count - 1), n \in S
      PROVE  n + 1 \in S
  <2>1. n + 1 \in 1 .. count /\ n + 1 \in 0 .. count /\ (n + 1) - 1 = n
    BY <1>2
  <2>2. f[n + 1] = ApplyLog(f[n], LogAt(dir, n + 1))
    BY <1>1, <2>1
  <2>3. f[n] \in Results /\ LogAt(dir, n + 1) \in FileRecord
    BY <1>2, <1>4, <2>1
  <2> QED BY <2>1, <2>2, <2>3, ApplyLogType
<1>5. \A n \in 0 .. count : n \in S
  <2> HIDE DEF S
  <2> QED BY <1>2, <1>3, <1>4, EveryTurn
<1>6. count \in 0 .. count
  BY <1>2
<1> QED BY <1>1, <1>5, <1>6

\* The first n logs parse and their entries are in a store.
SettledLogs(dir, s, n) ==
    \A m \in 1 .. n : /\ Parses(LogAt(dir, m))
                      /\ Settled(s, EntriesAt(dir, m), Len(EntriesAt(dir, m)))

\* Logs that are settled are passed over.
LEMMA SettledLogsStart ==
    ASSUME NEW dir, Directory(dir), NEW s, NEW n \in 0 .. Len(Listed(dir)), SettledLogs(dir, s, n),
           NEW f, f[0] = Going(s),
           \A m \in 1 .. Len(Listed(dir)) : f[m] = ApplyLog(f[m - 1], LogAt(dir, m))
    PROVE  f[n] = Going(s)
<1> DEFINE S == {m \in 0 .. n : f[m] = Going(s)}
<1>1. Len(Listed(dir)) \in Nat /\ n \in Nat /\ n <= Len(Listed(dir))
      /\ \A m \in 1 .. Len(Listed(dir)) : LogAt(dir, m) \in FileRecord
  BY LogAtType
<1>2. 0 \in S
  BY <1>1
<1>3. ASSUME NEW m \in 0 .. (n - 1), m \in S
      PROVE  m + 1 \in S
  <2>1. m + 1 \in 1 .. n /\ m + 1 \in 0 .. n /\ (m + 1) - 1 = m /\ m + 1 \in 1 .. Len(Listed(dir))
    BY <1>1
  <2>2. f[m + 1] = ApplyLog(Going(s), LogAt(dir, m + 1))
    BY <1>3, <2>1
  <2>3. /\ Parses(LogAt(dir, m + 1))
        /\ Settled(s, Entries(LogAt(dir, m + 1)), Len(Entries(LogAt(dir, m + 1))))
    BY <2>1 DEF SettledLogs, EntriesAt
  <2>4. f[m + 1] = Going(s)
    BY <1>1, <2>1, <2>2, <2>3, ApplyLogSettled
  <2> QED BY <2>1, <2>4
<1>4. \A m \in 0 .. n : m \in S
  <2> HIDE DEF S
  <2> QED BY <1>1, <1>2, <1>3, EveryTurn
<1> QED BY <1>1, <1>4

\* The recovery of a store that has every entry changes nothing and succeeds.
LEMMA RecoverySettled ==
    ASSUME NEW dir, Directory(dir), NEW s, SettledLogs(dir, s, Len(Listed(dir)))
    PROVE  RecoveryOf(dir, s) = Going(s)
<1>1. PICK f : /\ f[0] = Going(s)
               /\ \A m \in 1 .. Len(Listed(dir)) : f[m] = ApplyLog(f[m - 1], LogAt(dir, m))
               /\ RecoveryOf(dir, s) = f[Len(Listed(dir))]
  BY RecoveryUnroll
<1>2. Len(Listed(dir)) \in 0 .. Len(Listed(dir))
  BY LogAtType
<1> QED BY <1>1, <1>2, SettledLogsStart

\* Two stores in which the same logs are settled, and which the next log makes
\* alike, come to the same.
LEMMA RecoveryAlike ==
    ASSUME NEW dir, Directory(dir), NEW s, NEW u, NEW n \in 1 .. Len(Listed(dir)),
           SettledLogs(dir, s, n - 1), SettledLogs(dir, u, n - 1),
           ApplyLog(Going(s), LogAt(dir, n)) = ApplyLog(Going(u), LogAt(dir, n))
    PROVE  RecoveryOf(dir, s) = RecoveryOf(dir, u)
<1> DEFINE count == Len(Listed(dir))
<1>1. PICK f : /\ f[0] = Going(s)
               /\ \A m \in 1 .. count : f[m] = ApplyLog(f[m - 1], LogAt(dir, m))
               /\ RecoveryOf(dir, s) = f[count]
  BY RecoveryUnroll
<1>2. PICK g : /\ g[0] = Going(u)
               /\ \A m \in 1 .. count : g[m] = ApplyLog(g[m - 1], LogAt(dir, m))
               /\ RecoveryOf(dir, u) = g[count]
  BY RecoveryUnroll
<1>3. count \in Nat
  BY LogAtType
<1>4. n \in 1 .. count /\ n - 1 \in 0 .. count
  BY <1>3
<1>5. f[n - 1] = Going(s)
  BY <1>1, <1>4, SettledLogsStart
<1>6. g[n - 1] = Going(u)
  BY <1>2, <1>4, SettledLogsStart
<1> HIDE DEF count
<1>7. f[n] = g[n]
  BY <1>1, <1>2, <1>4, <1>5, <1>6
<1> DEFINE S == {m \in 0 .. count : n <= m => f[m] = g[m]}
<1>8. 0 \in S
  BY <1>3, <1>4
<1>9. ASSUME NEW m \in 0 .. (count - 1), m \in S
      PROVE  m + 1 \in S
  <2>1. m + 1 \in 1 .. count /\ m + 1 \in 0 .. count /\ (m + 1) - 1 = m
    BY <1>3
  <2>2. f[m + 1] = ApplyLog(f[m], LogAt(dir, m + 1)) /\ g[m + 1] = ApplyLog(g[m], LogAt(dir, m + 1))
    BY <1>1, <1>2, <2>1
  <2>3. n <= m + 1 => n = m + 1 \/ n <= m
    BY <1>3, <1>4
  <2>4. n <= m => f[m] = g[m]
    BY <1>9
  <2> QED BY <1>7, <2>1, <2>2, <2>3, <2>4
<1>10. \A m \in 0 .. count : m \in S
  <2> HIDE DEF S
  <2> QED BY <1>3, <1>8, <1>9, EveryTurn
<1>11. count \in 0 .. count /\ n <= count
  BY <1>3, <1>4
<1> QED BY <1>1, <1>2, <1>10, <1>11

\* A log that fails ends the recovery without success.
LEMMA RecoveryFails ==
    ASSUME NEW dir, Directory(dir), NEW s \in GoodStores, NEW n \in 1 .. Len(Listed(dir)),
           SettledLogs(dir, s, n - 1), ~ApplyLog(Going(s), LogAt(dir, n)).success
    PROVE  ~RecoveryOf(dir, s).success
<1> DEFINE count == Len(Listed(dir))
<1>1. PICK f : /\ f[0] = Going(s)
               /\ \A m \in 1 .. count : f[m] = ApplyLog(f[m - 1], LogAt(dir, m))
               /\ RecoveryOf(dir, s) = f[count]
  BY RecoveryUnroll
<1>2. count \in Nat /\ \A m \in 1 .. count : LogAt(dir, m) \in FileRecord
  BY LogAtType
<1>3. n \in 1 .. count /\ n - 1 \in 0 .. count
  BY <1>2
<1>4. f[n - 1] = Going(s)
  BY <1>1, <1>3, SettledLogsStart
<1> HIDE DEF count
<1> DEFINE Failed == {result \in Results : ~result.success}
<1>5. f[n] \in Failed
  <2>1. f[n] = ApplyLog(Going(s), LogAt(dir, n))
    BY <1>1, <1>3, <1>4
  <2>2. Going(s) \in Results
    BY DEF Going, Results
  <2> QED BY <1>2, <1>3, <2>1, <2>2, ApplyLogType
<1> DEFINE S == {m \in 0 .. count : n <= m => f[m] \in Failed}
<1>6. 0 \in S
  BY <1>2, <1>3
<1>7. ASSUME NEW m \in 0 .. (count - 1), m \in S
      PROVE  m + 1 \in S
  <2>1. m + 1 \in 1 .. count /\ m + 1 \in 0 .. count /\ (m + 1) - 1 = m
    BY <1>2
  <2>2. f[m + 1] = ApplyLog(f[m], LogAt(dir, m + 1)) /\ LogAt(dir, m + 1) \in FileRecord
    BY <1>1, <1>2, <2>1
  <2>3. n <= m + 1 => n = m + 1 \/ n <= m
    BY <1>2, <1>3
  <2>4. n <= m => f[m] \in Failed
    BY <1>7
  <2>5. f[m] \in Failed => f[m + 1] \in Failed
    BY <2>2, ApplyLogFailed
  <2> HIDE DEF Failed
  <2> QED BY <1>5, <2>1, <2>3, <2>4, <2>5
<1>8. \A m \in 0 .. count : m \in S
  <2> HIDE DEF S
  <2> QED BY <1>2, <1>6, <1>7, EveryTurn
<1>9. count \in 0 .. count /\ n <= count
  BY <1>2, <1>3
<1> QED BY <1>1, <1>8, <1>9

--------------------------------------------------------------------------------
(* One step of a recovery that nothing disturbs.                             *)

\* No two entries of the logs have the same key.
KeysDiffer(dir) ==
    \A m, n \in 1 .. Len(Listed(dir)) :
    \A j \in 1 .. Len(EntriesAt(dir, m)), i \in 1 .. Len(EntriesAt(dir, n)) :
        EntriesAt(dir, m)[j].key = EntriesAt(dir, n)[i].key => m = n /\ j = i

\* PutIfVersion with what an entry says changes nothing but its key.
LEMMA PutElsewhere ==
    ASSUME NEW s \in GoodStores, NEW e \in LogEntry
    PROVE  /\ PutIfVersion(s, e.key, e.expected_version, e.value) \in GoodStores
           /\ \A k \in Key : k # e.key =>
                PutIfVersion(s, e.key, e.expected_version, e.value)[k] = s[k]
<1>1. /\ s \in [Key -> VersionedValue] /\ e.key \in Key /\ e.value \in Value
      /\ \A k \in Key : s[k].exists \/ s[k].version = 0
  BY DEF GoodStores, LogEntry
<1>2. Put(s, e.key, e.value) \in GoodStores
  BY <1>1 DEF Put, Stored, VersionedValue, GoodStores
<1>3. [s EXCEPT ![e.key].exists = TRUE] \in GoodStores
  BY <1>1 DEF VersionedValue, GoodStores
<1>4. \A k \in Key : k # e.key =>
            /\ Put(s, e.key, e.value)[k] = s[k]
            /\ [s EXCEPT ![e.key].exists = TRUE][k] = s[k]
  BY <1>1 DEF Put
<1> QED BY <1>2, <1>3, <1>4 DEF PutIfVersion

\* The call on the store makes the store what the recovery makes of it: the
\* entry is then applied, or the recovery has failed.
LEMMA PutOnce ==
    ASSUME NEW s \in GoodStores, NEW e \in LogEntry, ~AlreadyApplied(s, e),
           NEW u, u = PutIfVersion(s, e.key, e.expected_version, e.value)
    PROVE  /\ ApplyEntry(Going(s), e) = ApplyEntry(Going(u), e)
           /\ VersionIs(s, e.key, e.expected_version) => AlreadyApplied(u, e)
           /\ ~VersionIs(s, e.key, e.expected_version) => ~ApplyEntry(Going(s), e).success
<1>1. /\ s \in [Key -> VersionedValue] /\ e.key \in Key /\ e.value \in Value
      /\ e.expected_version \in Nat
      /\ s[e.key].exists \/ s[e.key].version = 0
      /\ s[e.key] \in VersionedValue
  BY DEF GoodStores, LogEntry
<1>2. /\ Going(s).store = s /\ Going(s).success
      /\ Going(u).store = u /\ Going(u).success
  BY DEF Going
<1>3. ApplyEntry(Going(s), e) =
        [store |-> u, success |-> VersionIs(s, e.key, e.expected_version)]
  BY <1>2 DEF ApplyEntry
<1>4. CASE VersionIs(s, e.key, e.expected_version)
  <2>1. u[e.key] = Stored(e.value, e.expected_version + 1)
    BY <1>1, <1>4 DEF PutIfVersion, Put, VersionIs
  <2>2. AlreadyApplied(u, e)
    BY <2>1 DEF AlreadyApplied
  <2>3. ApplyEntry(Going(u), e) = Going(u)
    BY <1>2, <2>2 DEF ApplyEntry
  <2> QED BY <1>3, <1>4, <2>2, <2>3 DEF Going, VersionIs
<1>5. CASE ~VersionIs(s, e.key, e.expected_version)
  <2>1. u = [s EXCEPT ![e.key].exists = TRUE]
    BY <1>5 DEF PutIfVersion
  <2>2. u[e.key] = [s[e.key] EXCEPT !.exists = TRUE]
    BY <1>1, <2>1
  <2>3. u[e.key].version = s[e.key].version /\ u[e.key].value = s[e.key].value
        /\ s[e.key].version \in Nat
    BY <1>1, <2>2 DEF VersionedValue
  <2>4. ~AlreadyApplied(u, e)
    <3>1. CASE s[e.key].exists = TRUE
      <4>1. u[e.key] = s[e.key]
        BY <1>1, <2>2, <3>1 DEF VersionedValue
      <4> QED BY <4>1 DEF AlreadyApplied
    <3>2. CASE s[e.key].exists # TRUE
      <4>1. u[e.key].version = 0
        BY <1>1, <2>3, <3>2 DEF VersionedValue
      <4>2. Stored(e.value, e.expected_version + 1).version # 0
        BY <1>1 DEF Stored
      <4> QED BY <4>1, <4>2 DEF AlreadyApplied
    <3> QED BY <3>1, <3>2
  <2>5. VersionIs(u, e.key, e.expected_version) = FALSE
    BY <1>5, <2>3 DEF VersionIs
  <2>6. PutIfVersion(u, e.key, e.expected_version, e.value) = u
    <3>1. [u EXCEPT ![e.key].exists = TRUE] = u
      BY <1>1, <2>1
    <3> QED BY <2>5, <3>1 DEF PutIfVersion
  <2>7. ApplyEntry(Going(u), e) = [store |-> u, success |-> FALSE]
    BY <1>2, <2>4, <2>5, <2>6 DEF ApplyEntry
  <2>8. ApplyEntry(Going(s), e) = [store |-> u, success |-> FALSE]
    BY <1>3, <1>5 DEF VersionIs
  <2>9. ~ApplyEntry(Going(s), e).success
    BY <2>8
  <2> QED BY <1>5, <2>7, <2>8, <2>9
<1> QED BY <1>4, <1>5

\* PutEntry leaves the recovery of the store what it was, when no other log or
\* entry names the key; a conflict is its failure.
LEMMA RecoveryAfterPut ==
    ASSUME NEW dir, Directory(dir), KeysDiffer(dir), NEW s \in GoodStores,
           NEW n \in 1 .. Len(Listed(dir)), NEW i \in 1 .. Len(EntriesAt(dir, n)),
           SettledLogs(dir, s, n - 1), Parses(LogAt(dir, n)),
           Settled(s, EntriesAt(dir, n), i - 1), NEW e, e = EntriesAt(dir, n)[i],
           ~AlreadyApplied(s, e),
           NEW u, u = PutIfVersion(s, e.key, e.expected_version, e.value)
    PROVE  /\ RecoveryOf(dir, u) = RecoveryOf(dir, s)
           /\ ~VersionIs(s, e.key, e.expected_version) => ~RecoveryOf(dir, s).success
<1>1. /\ Len(Listed(dir)) \in Nat
      /\ \A m \in 1 .. Len(Listed(dir)) :
            /\ LogAt(dir, m) \in FileRecord /\ EntriesAt(dir, m) \in Seq(LogEntry)
            /\ Len(EntriesAt(dir, m)) \in Nat
  BY LogAtType, ParsedType DEF EntriesAt
<1>2. e \in LogEntry /\ Len(EntriesAt(dir, n)) \in Nat /\ n \in Nat /\ i \in Nat
  BY <1>1
<1>3. u \in GoodStores /\ \A k \in Key : k # e.key => u[k] = s[k]
  BY <1>2, PutElsewhere
<1>4. ASSUME NEW m \in 1 .. Len(Listed(dir)), NEW j \in 1 .. Len(EntriesAt(dir, m)),
             m # n \/ j # i, AlreadyApplied(s, EntriesAt(dir, m)[j])
      PROVE  AlreadyApplied(u, EntriesAt(dir, m)[j])
  <2>1. EntriesAt(dir, m)[j].key # e.key
    BY <1>4 DEF KeysDiffer
  <2>2. EntriesAt(dir, m)[j].key \in Key
    <3>1. EntriesAt(dir, m)[j] \in LogEntry
      BY <1>1
    <3> QED BY <3>1 DEF LogEntry
  <2> QED BY <1>3, <1>4, <2>1, <2>2 DEF AlreadyApplied
<1>5. SettledLogs(dir, u, n - 1)
  <2>1. ASSUME NEW m \in 1 .. (n - 1)
        PROVE  /\ Parses(LogAt(dir, m))
               /\ Settled(u, EntriesAt(dir, m), Len(EntriesAt(dir, m)))
    <3>1. m \in 1 .. Len(Listed(dir)) /\ m # n
      BY <1>1, <1>2
    <3>2. Parses(LogAt(dir, m)) /\ Settled(s, EntriesAt(dir, m), Len(EntriesAt(dir, m)))
      BY DEF SettledLogs
    <3> QED BY <1>4, <3>1, <3>2 DEF Settled
  <2> QED BY <2>1 DEF SettledLogs
<1>6. Settled(u, EntriesAt(dir, n), i - 1)
  <2>1. \A j \in 1 .. (i - 1) : j \in 1 .. Len(EntriesAt(dir, n)) /\ j # i
    BY <1>2
  <2> QED BY <1>4, <2>1 DEF Settled
<1>7. ApplyEntry(Going(s), e) = ApplyEntry(Going(u), e)
  BY <1>2, PutOnce
<1>8. ApplyLog(Going(s), LogAt(dir, n)) = ApplyLog(Going(u), LogAt(dir, n))
  BY <1>1, <1>3, <1>6, <1>7, ApplyLogAlike DEF EntriesAt
<1>9. RecoveryOf(dir, s) = RecoveryOf(dir, u)
  BY <1>5, <1>8, RecoveryAlike
<1>10. ASSUME ~VersionIs(s, e.key, e.expected_version)
       PROVE  ~RecoveryOf(dir, s).success
  <2>1. ~ApplyEntry(Going(s), e).success
    BY <1>2, <1>10, PutOnce
  <2>2. ~ApplyLog(Going(s), LogAt(dir, n)).success
    BY <1>1, <2>1, ApplyLogConflict DEF EntriesAt
  <2> QED BY <2>2, RecoveryFails
<1> QED BY <1>9, <1>10

\* A log that does not parse is the failure of the recovery.
LEMMA RecoveryOfUnparsed ==
    ASSUME NEW dir, Directory(dir), NEW s \in GoodStores, NEW n \in 1 .. Len(Listed(dir)),
           SettledLogs(dir, s, n - 1), ~Parses(LogAt(dir, n))
    PROVE  ~RecoveryOf(dir, s).success
<1>1. ~ApplyLog(Going(s), LogAt(dir, n)).success
  BY DEF ApplyLog, Going
<1> QED BY <1>1, RecoveryFails

--------------------------------------------------------------------------------
(* The replay of the logs.                                                   *)

\* The entry at a position of the logs.
Named(dir, m, j) == m \in 1 .. Len(Listed(dir)) /\ j \in 1 .. Len(EntriesAt(dir, m))

\* The second position is after the first, or the first is not after the second.
Newer(m, j, n, i) == m < n \/ (m = n /\ j < i)
UpTo(m, j, n, i) == m < n \/ (m = n /\ j <= i)

\* Of the entries up to a position that name a key, e is the last.
LatestUpTo(dir, k, e, n, i) ==
    \E m, j \in Nat :
        /\ Named(dir, m, j) /\ UpTo(m, j, n, i)
        /\ e = EntriesAt(dir, m)[j] /\ e.key = k
        /\ \A p, q \in Nat :
            Named(dir, p, q) /\ UpTo(p, q, n, i) /\ Newer(m, j, p, q) => EntriesAt(dir, p)[q].key # k

\* A state that holds the last entry of each key it names.
HoldsLatest(dir, state, n, i) == \A k \in DOMAIN state : LatestUpTo(dir, k, state[k], n, i)

\* One more entry takes the place of the one before it.
LEMMA NewestHolds ==
    ASSUME NEW dir, NEW state, NEW n \in Nat, NEW i \in Nat, Named(dir, n, i + 1),
           HoldsLatest(dir, state, n, i)
    PROVE  HoldsLatest(dir, Newest(state, EntriesAt(dir, n)[i + 1]), n, i + 1)
<1> DEFINE e == EntriesAt(dir, n)[i + 1]
           after == Newest(state, e)
<1>1. after = [k \in DOMAIN state \cup {e.key} |-> IF k = e.key THEN e ELSE state[k]]
  BY DEF Newest
<1> HIDE DEF after
<1>2. ASSUME NEW k \in DOMAIN after
      PROVE  LatestUpTo(dir, k, after[k], n, i + 1)
  <2>1. CASE k = e.key
    <3>1. after[k] = e
      BY <1>1, <2>1
    <3>2. \A p, q \in Nat : UpTo(p, q, n, i + 1) => ~Newer(n, i + 1, p, q)
      BY DEF UpTo, Newer
    <3>3. UpTo(n, i + 1, n, i + 1) /\ i + 1 \in Nat
      BY DEF UpTo
    <3> QED BY <2>1, <3>1, <3>2, <3>3 DEF LatestUpTo
  <2>2. CASE k # e.key
    <3>1. k \in DOMAIN state /\ after[k] = state[k]
      BY <1>1, <2>2
    <3>2. PICK m, j \in Nat :
            /\ Named(dir, m, j) /\ UpTo(m, j, n, i)
            /\ state[k] = EntriesAt(dir, m)[j] /\ state[k].key = k
            /\ \A p, q \in Nat :
                Named(dir, p, q) /\ UpTo(p, q, n, i) /\ Newer(m, j, p, q) => EntriesAt(dir, p)[q].key # k
      BY <3>1 DEF HoldsLatest, LatestUpTo
    <3>3. UpTo(m, j, n, i + 1)
      BY <3>2 DEF UpTo
    <3>4. ASSUME NEW p \in Nat, NEW q \in Nat, Named(dir, p, q), UpTo(p, q, n, i + 1),
                 Newer(m, j, p, q)
          PROVE  EntriesAt(dir, p)[q].key # k
      <4>1. UpTo(p, q, n, i) \/ (p = n /\ q = i + 1)
        BY <3>4 DEF UpTo
      <4> QED BY <2>2, <3>2, <3>4, <4>1
    <3>5. /\ Named(dir, m, j) /\ UpTo(m, j, n, i + 1)
          /\ after[k] = EntriesAt(dir, m)[j] /\ after[k].key = k
      BY <3>1, <3>2, <3>3
    <3> HIDE DEF e
    <3> QED BY <3>4, <3>5 DEF LatestUpTo
  <2> QED BY <2>1, <2>2
<1> QED BY <1>2 DEF HoldsLatest, after

\* The end of a log is the start of the next one.
LEMMA HoldsNextLog ==
    ASSUME NEW dir, Directory(dir), NEW state, NEW n \in 1 .. Len(Listed(dir)),
           HoldsLatest(dir, state, n, Len(EntriesAt(dir, n)))
    PROVE  HoldsLatest(dir, state, n + 1, 0)
<1>1. n \in Nat /\ n + 1 \in Nat /\ Len(EntriesAt(dir, n)) \in Nat
  <2>1. n \in Nat
    BY LogAtType
  <2>2. Len(EntriesAt(dir, n)) \in Nat
    BY LogAtType, ParsedType DEF EntriesAt
  <2> QED BY <2>1, <2>2
<1>2. ASSUME NEW k \in DOMAIN state
      PROVE  LatestUpTo(dir, k, state[k], n + 1, 0)
  <2>1. PICK m, j \in Nat :
          /\ Named(dir, m, j) /\ UpTo(m, j, n, Len(EntriesAt(dir, n)))
          /\ state[k] = EntriesAt(dir, m)[j] /\ state[k].key = k
          /\ \A p, q \in Nat :
              Named(dir, p, q) /\ UpTo(p, q, n, Len(EntriesAt(dir, n))) /\ Newer(m, j, p, q)
                => EntriesAt(dir, p)[q].key # k
    BY DEF HoldsLatest, LatestUpTo
  <2>2. UpTo(m, j, n + 1, 0)
    BY <1>1, <2>1 DEF UpTo
  <2>3. ASSUME NEW p \in Nat, NEW q \in Nat, Named(dir, p, q), UpTo(p, q, n + 1, 0), Newer(m, j, p, q)
        PROVE  EntriesAt(dir, p)[q].key # k
    <3>1. q # 0 /\ (p = n => q <= Len(EntriesAt(dir, n)))
      BY <1>1, <2>3 DEF Named
    <3>2. UpTo(p, q, n, Len(EntriesAt(dir, n)))
      BY <1>1, <2>3, <3>1 DEF UpTo
    <3> QED BY <2>1, <2>3, <3>2
  <2> QED BY <2>1, <2>2, <2>3 DEF LatestUpTo
<1> QED BY <1>2 DEF HoldsLatest

\* The loop over the entries of a log, over the first m of them.
ReplayingEntries(state, entries, m, f) ==
    f = [n \in 0 .. m |-> IF n = 0 THEN state ELSE Newest(f[n - 1], entries[n])]

\* The loop can be run.
LEMMA ReplayingEntriesExists ==
    ASSUME NEW state, NEW entries, NEW m \in Nat
    PROVE  \E f : ReplayingEntries(state, entries, m, f)
<1> DEFINE S == {n \in 0 .. m : \E f : ReplayingEntries(state, entries, n, f)}
<1>1. 0 \in S
  <2>1. ReplayingEntries(state, entries, 0, [n \in 0 .. 0 |-> state])
    BY DEF ReplayingEntries
  <2> QED BY <2>1
<1>2. ASSUME NEW n \in 0 .. (m - 1), n \in S
      PROVE  n + 1 \in S
  <2>1. PICK g : ReplayingEntries(state, entries, n, g)
    BY <1>2
  <2>2. n \in Nat /\ n + 1 \in 0 .. m
    OBVIOUS
  <2> DEFINE last == Newest(g[n], entries[n + 1])
             f == Longer(g, n, last)
  <2> HIDE DEF last, S
  <2>3. f = [i \in 0 .. (n + 1) |-> f[i]]
    BY <2>2, OneMoreTurn
  <2>4. f[n + 1] = last
    BY <2>2, OneMoreTurn
  <2>5. \A i \in 0 .. n : f[i] = g[i]
    BY <2>2, OneMoreTurn
  <2> HIDE DEF f
  <2>6. ASSUME NEW i \in 0 .. (n + 1)
        PROVE  f[i] = IF i = 0 THEN state ELSE Newest(f[i - 1], entries[i])
    <3>1. CASE i = n + 1
      <4>1. i # 0 /\ i - 1 = n /\ n \in 0 .. n
        BY <2>2, <3>1
      <4> QED BY <2>4, <2>5, <3>1, <4>1 DEF last
    <3>2. CASE i # n + 1
      <4>1. i \in 0 .. n /\ (i # 0 => i - 1 \in 0 .. n)
        BY <2>2, <3>2
      <4>2. g[i] = IF i = 0 THEN state ELSE Newest(g[i - 1], entries[i])
        BY <2>1, <4>1 DEF ReplayingEntries
      <4> QED BY <2>5, <4>1, <4>2
    <3> QED BY <3>1, <3>2
  <2>7. ReplayingEntries(state, entries, n + 1, f)
    BY <2>3, <2>6 DEF ReplayingEntries
  <2> QED BY <2>2, <2>7 DEF S
<1>3. \A n \in 0 .. m : n \in S
  <2> HIDE DEF S
  <2> QED BY <1>1, <1>2, EveryTurn
<1> QED BY <1>3

\* The replay of a log, entry by entry.
LEMMA ReplayLogUnroll ==
    ASSUME NEW state, NEW file \in FileRecord, Parses(file)
    PROVE  \E f : /\ f[0] = state
                  /\ \A n \in 1 .. Len(Entries(file)) : f[n] = Newest(f[n - 1], Entries(file)[n])
                  /\ ReplayLog(state, file) = f[Len(Entries(file))]
<1>1. CASE IsCommitted(file)
  <2> DEFINE entries == Parsed(file)
             f == CHOOSE f : ReplayingEntries(state, entries, Len(entries), f)
  <2>1. Len(entries) \in Nat /\ Entries(file) = entries
    BY <1>1, ParsedType DEF Entries
  <2>2. ReplayingEntries(state, entries, Len(entries), f)
    BY <2>1, ReplayingEntriesExists
  <2>3. ReplayLog(state, file) = f[Len(entries)]
    BY <1>1 DEF ReplayLog, ReplayingEntries
  <2> HIDE DEF f, entries
  <2>4. \A n \in 0 .. Len(entries) :
            f[n] = IF n = 0 THEN state ELSE Newest(f[n - 1], entries[n])
    BY <2>2, Zenon DEF ReplayingEntries
  <2>5. 0 \in 0 .. Len(entries) /\ \A n \in 1 .. Len(entries) : n \in 0 .. Len(entries) /\ n # 0
    BY <2>1
  <2> QED BY <2>1, <2>3, <2>4, <2>5
<1>2. CASE ~IsCommitted(file)
  <2> DEFINE f == [n \in {0} |-> state]
  <2>1. Entries(file) = <<>> /\ Len(Entries(file)) = 0 /\ f[0] = state
    BY <1>2 DEF Entries
  <2>2. ReplayLog(state, file) = state
    BY <1>2 DEF ReplayLog
  <2>3. 1 .. 0 = {}
    OBVIOUS
  <2> HIDE DEF f
  <2> QED BY <2>1, <2>2, <2>3
<1> QED BY <1>1, <1>2

\* The replay of a log leaves the last entry of each key.
LEMMA ReplayLogHolds ==
    ASSUME NEW dir, Directory(dir), NEW state, NEW n \in 1 .. Len(Listed(dir)),
           Parses(LogAt(dir, n)), HoldsLatest(dir, state, n, 0)
    PROVE  HoldsLatest(dir, ReplayLog(state, LogAt(dir, n)), n + 1, 0)
<1> DEFINE entries == EntriesAt(dir, n)
<1>1. n \in Nat /\ Len(entries) \in Nat /\ LogAt(dir, n) \in FileRecord
  <2>1. n \in Nat /\ LogAt(dir, n) \in FileRecord
    BY LogAtType
  <2>2. Len(EntriesAt(dir, n)) \in Nat
    BY <2>1, ParsedType DEF EntriesAt
  <2> QED BY <2>1, <2>2
<1>2. PICK f : /\ f[0] = state
               /\ \A m \in 1 .. Len(entries) : f[m] = Newest(f[m - 1], entries[m])
               /\ ReplayLog(state, LogAt(dir, n)) = f[Len(entries)]
  BY <1>1, ReplayLogUnroll DEF EntriesAt
<1> DEFINE S == {m \in 0 .. Len(entries) : HoldsLatest(dir, f[m], n, m)}
<1>3. 0 \in S
  BY <1>1, <1>2
<1>4. ASSUME NEW m \in 0 .. (Len(entries) - 1), m \in S
      PROVE  m + 1 \in S
  <2>1. m + 1 \in 1 .. Len(entries) /\ m + 1 \in 0 .. Len(entries) /\ (m + 1) - 1 = m /\ m \in Nat
    BY <1>1
  <2>2. f[m + 1] = Newest(f[m], entries[m + 1])
    BY <1>2, <2>1
  <2>3. Named(dir, n, m + 1)
    BY <2>1 DEF Named
  <2>4. HoldsLatest(dir, f[m], n, m)
    BY <1>4
  <2>5. HoldsLatest(dir, f[m + 1], n, m + 1)
    BY <1>1, <2>1, <2>2, <2>3, <2>4, NewestHolds
  <2> QED BY <2>1, <2>5
<1>5. \A m \in 0 .. Len(entries) : m \in S
  <2> HIDE DEF S, entries
  <2> QED BY <1>1, <1>3, <1>4, EveryTurn
<1>6. Len(entries) \in 0 .. Len(entries)
  BY <1>1
<1>7. HoldsLatest(dir, ReplayLog(state, LogAt(dir, n)), n, Len(EntriesAt(dir, n)))
  BY <1>2, <1>5, <1>6
<1> QED BY <1>7, HoldsNextLog

\* The loop over the logs, over the first m of them.
ReplayingLogs(dir, m, f) ==
    f = [n \in 0 .. m |-> IF n = 0 THEN <<>> ELSE ReplayLog(f[n - 1], LogAt(dir, n))]

\* The loop can be run.
LEMMA ReplayingLogsExists ==
    ASSUME NEW dir, NEW m \in Nat
    PROVE  \E f : ReplayingLogs(dir, m, f)
<1> DEFINE S == {n \in 0 .. m : \E f : ReplayingLogs(dir, n, f)}
<1>1. 0 \in S
  <2>1. ReplayingLogs(dir, 0, [n \in 0 .. 0 |-> <<>>])
    BY DEF ReplayingLogs
  <2> QED BY <2>1
<1>2. ASSUME NEW n \in 0 .. (m - 1), n \in S
      PROVE  n + 1 \in S
  <2>1. PICK g : ReplayingLogs(dir, n, g)
    BY <1>2
  <2>2. n \in Nat /\ n + 1 \in 0 .. m
    OBVIOUS
  <2> DEFINE last == ReplayLog(g[n], LogAt(dir, n + 1))
             f == Longer(g, n, last)
  <2> HIDE DEF last, S
  <2>3. f = [i \in 0 .. (n + 1) |-> f[i]]
    BY <2>2, OneMoreTurn
  <2>4. f[n + 1] = last
    BY <2>2, OneMoreTurn
  <2>5. \A i \in 0 .. n : f[i] = g[i]
    BY <2>2, OneMoreTurn
  <2> HIDE DEF f
  <2>6. ASSUME NEW i \in 0 .. (n + 1)
        PROVE  f[i] = IF i = 0 THEN <<>> ELSE ReplayLog(f[i - 1], LogAt(dir, i))
    <3>1. CASE i = n + 1
      <4>1. i # 0 /\ i - 1 = n /\ n \in 0 .. n
        BY <2>2, <3>1
      <4> QED BY <2>4, <2>5, <3>1, <4>1 DEF last
    <3>2. CASE i # n + 1
      <4>1. i \in 0 .. n /\ (i # 0 => i - 1 \in 0 .. n)
        BY <2>2, <3>2
      <4>2. g[i] = IF i = 0 THEN <<>> ELSE ReplayLog(g[i - 1], LogAt(dir, i))
        BY <2>1, <4>1 DEF ReplayingLogs
      <4> QED BY <2>5, <4>1, <4>2
    <3> QED BY <3>1, <3>2
  <2>7. ReplayingLogs(dir, n + 1, f)
    BY <2>3, <2>6 DEF ReplayingLogs
  <2> QED BY <2>2, <2>7 DEF S
<1>3. \A n \in 0 .. m : n \in S
  <2> HIDE DEF S
  <2> QED BY <1>1, <1>2, EveryTurn
<1> QED BY <1>3

\* The replay, log by log.
LEMMA ReplayedUnroll ==
    ASSUME NEW dir, Directory(dir)
    PROVE  \E f : /\ f[0] = <<>>
                  /\ \A n \in 1 .. Len(Listed(dir)) : f[n] = ReplayLog(f[n - 1], LogAt(dir, n))
                  /\ Replayed(dir) = f[Len(Listed(dir))]
<1> DEFINE count == Len(Listed(dir))
           f == CHOOSE f : ReplayingLogs(dir, count, f)
<1>1. count \in Nat
  BY LogAtType
<1>2. ReplayingLogs(dir, count, f)
  BY <1>1, ReplayingLogsExists
<1>3. Replayed(dir) = f[count]
  BY DEF Replayed, ReplayingLogs, LogAt
<1> HIDE DEF f, count
<1>4. \A n \in 0 .. count :
          f[n] = IF n = 0 THEN <<>> ELSE ReplayLog(f[n - 1], LogAt(dir, n))
  BY <1>2, Zenon DEF ReplayingLogs
<1>5. 0 \in 0 .. count /\ \A n \in 1 .. count : n \in 0 .. count /\ n # 0
  BY <1>1
<1>6. f[0] = <<>> /\ \A n \in 1 .. count : f[n] = ReplayLog(f[n - 1], LogAt(dir, n))
  BY <1>4, <1>5
<1> QED BY <1>3, <1>6 DEF count

\* ReplayCommitLogArtifacts, when every log parses: what it holds of a key is
\* the last entry that names it.
LEMMA ReplayedLatest ==
    ASSUME NEW dir, Directory(dir), \A m \in 1 .. Len(Listed(dir)) : Parses(LogAt(dir, m)),
           NEW k \in DOMAIN Replayed(dir)
    PROVE  \E m, j \in Nat :
            /\ Named(dir, m, j)
            /\ Replayed(dir)[k] = EntriesAt(dir, m)[j] /\ EntriesAt(dir, m)[j].key = k
            /\ \A p, q \in Nat :
                Named(dir, p, q) /\ Newer(m, j, p, q) => EntriesAt(dir, p)[q].key # k
<1> DEFINE count == Len(Listed(dir))
<1>1. PICK f : /\ f[0] = <<>>
               /\ \A n \in 1 .. count : f[n] = ReplayLog(f[n - 1], LogAt(dir, n))
               /\ Replayed(dir) = f[count]
  BY ReplayedUnroll
<1>2. count \in Nat
  BY LogAtType
<1> DEFINE S == {n \in 0 .. count : HoldsLatest(dir, f[n], n + 1, 0)}
<1>3. 0 \in S
  <2>1. DOMAIN <<>> = {}
    OBVIOUS
  <2>2. HoldsLatest(dir, f[0], 0 + 1, 0)
    BY <1>1, <2>1 DEF HoldsLatest
  <2> QED BY <1>2, <2>2
<1>4. ASSUME NEW n \in 0 .. (count - 1), n \in S
      PROVE  n + 1 \in S
  <2>1. n + 1 \in 1 .. count /\ n + 1 \in 0 .. count /\ (n + 1) - 1 = n
    BY <1>2
  <2>2. f[n + 1] = ReplayLog(f[n], LogAt(dir, n + 1))
    BY <1>1, <2>1
  <2>3. HoldsLatest(dir, f[n], n + 1, 0)
    BY <1>4
  <2>4. Parses(LogAt(dir, n + 1))
    BY <2>1
  <2>5. HoldsLatest(dir, f[n + 1], (n + 1) + 1, 0)
    BY <2>1, <2>2, <2>3, <2>4, ReplayLogHolds
  <2> QED BY <2>1, <2>5
<1>5. \A n \in 0 .. count : n \in S
  <2> HIDE DEF S, count
  <2> QED BY <1>2, <1>3, <1>4, EveryTurn
<1>6. LatestUpTo(dir, k, Replayed(dir)[k], count + 1, 0)
  <2>1. count \in 0 .. count
    BY <1>2
  <2>2. HoldsLatest(dir, Replayed(dir), count + 1, 0)
    BY <1>1, <1>5, <2>1
  <2> QED BY <2>2 DEF HoldsLatest
<1>7. \A p, q \in Nat : Named(dir, p, q) => UpTo(p, q, count + 1, 0)
  BY <1>2 DEF Named, UpTo
<1> HIDE DEF count
<1> QED BY <1>6, <1>7 DEF LatestUpTo

--------------------------------------------------------------------------------
(* The inductive invariant.                                                  *)

\* No key twice in the lines of a file, or in the entries of a commit.
KeysOnce(entries) ==
    \A i, j \in DOMAIN entries : entries[i].key = entries[j].key => i = j

TxnRecord == [task : Task, status : {"COMMITTED", "ABORTED"}, entries : Seq(LogEntry)]

\* What a transaction that has ended will log.
TxnInv ==
    txn # NoTxn =>
        /\ txn \in TxnRecord
        /\ KeysOnce(txn.entries)
        /\ txn.entries # <<>> => txn.status = "COMMITTED"

\* What is in the file of a log, and what it records if it was written whole.
FileInv(file) ==
    /\ file \in FileRecord
    /\ KeysOnce(file.lines)
    /\ file.record # <<>> =>
        /\ file.exists /\ file.status = "COMMITTED"
        /\ file.lines = [i \in DOMAIN file.record |-> LineOf(file.record[i])]

FilesInv == DOMAIN files = Task /\ \A t \in Task : FileInv(files[t])

StoresInv == store \in GoodStores /\ \A b \in backups : b \in GoodStores

\* The process, and the bounds.
ModeInv ==
    /\ mode \in {"up", "down", "recovering", "recovered", "stopped"}
    /\ commits \in 0 .. MaxCommits /\ aborts \in 0 .. MaxAborts
    /\ crashes \in 0 .. MaxCrashes /\ puts \in 0 .. MaxPuts

\* Where the recovery is: inside a log that parses and is committed, or before
\* or after one; every log before that has been parsed.
PositionInv ==
    IF mode = "recovering"
    THEN /\ log \in 1 .. (Len(Listed(files)) + 1) /\ entry \in Nat /\ missing \in BOOLEAN
         /\ missing => entry # 0
         /\ entry # 0 =>
                /\ log <= Len(Listed(files))
                /\ Parses(CurrentLog) /\ IsCommitted(CurrentLog)
                /\ entry <= Len(CurrentLog.lines)
         /\ \A m \in 1 .. (log - 1) : Parses(LogAt(files, m))
    ELSE /\ log = 1 /\ entry = 0 /\ missing = FALSE
         /\ mode = "recovered" => \A m \in 1 .. Len(Listed(files)) : Parses(LogAt(files, m))

\* The recovery has gone past an entry.
Passed(m, j) ==
    /\ Named(files, m, j)
    /\ \/ mode = "recovered"
       \/ mode = "recovering" /\ Newer(m, j, log, entry)

\* The write of an entry is in the store, or a later version is.
RestoredIn(s, e) ==
    \/ s[e.key] = Stored(e.value, e.expected_version + 1)
    \/ s[e.key].version > e.expected_version + 1

RestoredInv == \A m, j \in Nat : Passed(m, j) => RestoredIn(store, EntriesAt(files, m)[j])

\* A passed entry whose key no passed entry after it names.
LastPassed(m, j) ==
    /\ Passed(m, j)
    /\ \A p, q \in Nat : Passed(p, q) /\ Newer(m, j, p, q) =>
            EntriesAt(files, p)[q].key # EntriesAt(files, m)[j].key

\* While nobody else disturbs the recovery, the last write of a key is the one
\* that is in the store.
LatestInv ==
    goal # NoGoal =>
        /\ \A m, j \in Nat : LastPassed(m, j) => AlreadyApplied(store, EntriesAt(files, m)[j])
        /\ (mode = "recovering" /\ missing) => ~AlreadyApplied(store, CurrentEntry)

\* The goal of a recovery that nobody disturbs is still what the recovery of
\* the store comes to.
GoalInv ==
    /\ goal # NoGoal => goal \in Results
    /\ mode = "up" => goal = NoGoal
    /\ (goal # NoGoal /\ DisjointLogs) =>
        /\ RecoveryOf(files, store) = goal
        /\ mode = "stopped" => ~goal.success

LogInv ==
    /\ StoresInv
    /\ TxnInv
    /\ FilesInv
    /\ ModeInv
    /\ PositionInv
    /\ RestoredInv
    /\ LatestInv
    /\ GoalInv

--------------------------------------------------------------------------------
(* The store, the transaction and the files.                                 *)

\* The writes of a commit leave a good store.
LEMMA BatchPutType ==
    ASSUME NEW s \in GoodStores, NEW batch \in Seq(WriteOp)
    PROVE  BatchPut(s, batch) \in GoodStores
<1>1. ASSUME NEW k \in Key
      PROVE  /\ BatchPut(s, batch)[k] \in VersionedValue
             /\ BatchPut(s, batch)[k].exists \/ BatchPut(s, batch)[k].version = 0
  <2>1. DOMAIN s = Key /\ s[k] \in VersionedValue /\ (s[k].exists \/ s[k].version = 0)
    BY DEF GoodStores
  <2>2. CASE k \in KeysOf(batch)
    <3> DEFINE i == CHOOSE j \in DOMAIN batch : batch[j].key = k
    <3>1. i \in DOMAIN batch
      BY <2>2 DEF KeysOf
    <3> HIDE DEF i
    <3>2. batch[i].value \in Value
      <4>1. batch[i] \in WriteOp
        BY <3>1
      <4> QED BY <4>1 DEF WriteOp
    <3>3. BatchPut(s, batch)[k] = Stored(batch[i].value, s[k].version + 1)
      BY <2>1, <2>2 DEF BatchPut, i
    <3> QED BY <2>1, <3>2, <3>3 DEF Stored, VersionedValue
  <2>3. CASE k \notin KeysOf(batch)
    BY <2>1, <2>3 DEF BatchPut
  <2> QED BY <2>2, <2>3
<1>2. BatchPut(s, batch) = [k \in Key |-> BatchPut(s, batch)[k]]
  BY DEF BatchPut, GoodStores
<1> QED BY <1>1, <1>2 DEF GoodStores

\* The stores stay good.
LEMMA StoresStep ==
    ASSUME LogInv, [Next]_vars
    PROVE  StoresInv'
<1> USE DEF LogInv
<1>1. ASSUME NEW t \in Task, NEW batch \in Batches, Commit(t, batch)
      PROVE  StoresInv'
  <2>1. BatchPut(store, batch) \in GoodStores
    BY BatchesAssumption, BatchPutType DEF StoresInv
  <2> QED BY <1>1, <2>1 DEF Commit, StoresInv
<1>2. ASSUME NEW k \in Key, NEW value \in PutValues, ExternalPut(k, value)
      PROVE  StoresInv'
  <2>1. value \in Value
    BY PutValuesAssumption
  <2>2. Put(store, k, value) \in GoodStores
    BY <2>1 DEF Put, Stored, VersionedValue, GoodStores, StoresInv
  <2> QED BY <1>2, <2>2 DEF ExternalPut, StoresInv
<1>3. CASE PutEntry
  <2>1. CurrentEntry \in LogEntry
    <3>1. /\ mode = "recovering" /\ entry > 0 /\ entry # 0
      BY <1>3 DEF PutEntry, PositionInv
    <3>2. /\ log \in 1 .. Len(Listed(files)) /\ entry \in 1 .. Len(CurrentLog.lines)
      BY <3>1, LogAtType DEF PositionInv
    <3>3. Directory(files)
      BY DEF FilesInv, FileInv, Directory
    <3>4. CurrentLog \in FileRecord
      BY <3>2, <3>3, LogAtType DEF CurrentLog, LogAt
    <3>5. Parsed(CurrentLog) \in Seq(LogEntry) /\ entry \in 1 .. Len(Parsed(CurrentLog))
      BY <3>2, <3>4, ParsedType
    <3> QED BY <3>5 DEF CurrentEntry
  <2> QED BY <1>3, <2>1, PutElsewhere DEF PutEntry, StoresInv
<1>4. CASE LoseStore
  BY <1>4 DEF LoseStore, StoresInv
<1>5. CASE \/ \E t \in Task : Abort(t)
           \/ WriteLog \/ SkipLog \/ CrashInWriteLog \/ Crash \/ Resume
           \/ StartRecovery \/ OpenLog \/ CheckEntry \/ FinishRecovery
           \/ UNCHANGED vars
  BY <1>5 DEF Abort, WriteLog, SkipLog, CrashInWriteLog, Crash, Resume, StartRecovery, OpenLog,
              CheckEntry, FinishRecovery, vars, StoresInv
<1> QED BY <1>1, <1>2, <1>3, <1>4, <1>5 DEF Next

\* The entries of a commit.
LEMMA EntriesOfType ==
    ASSUME StoresInv, NEW batch \in Batches
    PROVE  EntriesOf(batch) \in Seq(LogEntry) /\ KeysOnce(EntriesOf(batch))
<1>1. batch \in Seq(WriteOp) /\ \A i, j \in DOMAIN batch : batch[i].key = batch[j].key => i = j
  BY BatchesAssumption
<1>2. ASSUME NEW i \in DOMAIN batch
      PROVE  EntriesOf(batch)[i] \in LogEntry /\ EntriesOf(batch)[i].key = batch[i].key
  <2>1. batch[i] \in WriteOp
    BY <1>1
  <2>2. batch[i].key \in Key /\ batch[i].value \in Value /\ store[batch[i].key].version \in Nat
    BY <2>1 DEF WriteOp, StoresInv, GoodStores, VersionedValue
  <2> QED BY <2>2 DEF EntriesOf, LogEntry
<1>3. DOMAIN EntriesOf(batch) = DOMAIN batch
  BY DEF EntriesOf
<1>4. EntriesOf(batch) \in Seq(LogEntry)
  <2>1. DOMAIN batch = 1 .. Len(batch) /\ Len(batch) \in Nat
    BY <1>1
  <2>2. EntriesOf(batch) \in [1 .. Len(batch) -> LogEntry]
    BY <1>2, <2>1 DEF EntriesOf
  <2> HIDE DEF EntriesOf
  <2> QED BY <2>1, <2>2
<1> QED BY <1>1, <1>2, <1>3, <1>4 DEF KeysOnce

\* What a transaction will log, after any step.
LEMMA TxnStep ==
    ASSUME LogInv, [Next]_vars
    PROVE  TxnInv'
<1> USE DEF LogInv
<1>1. ASSUME NEW t \in Task, NEW batch \in Batches, Commit(t, batch)
      PROVE  TxnInv'
  <2>1. txn' = [task |-> t, status |-> "COMMITTED", entries |-> EntriesOf(batch)]
    BY <1>1 DEF Commit
  <2>2. EntriesOf(batch) \in Seq(LogEntry) /\ KeysOnce(EntriesOf(batch))
    BY EntriesOfType
  <2> QED BY <2>1, <2>2 DEF TxnInv, TxnRecord
<1>2. ASSUME NEW t \in Task, Abort(t)
      PROVE  TxnInv'
  <2>1. txn' = [task |-> t, status |-> "ABORTED", entries |-> <<>>]
    BY <1>2 DEF Abort
  <2>2. <<>> \in Seq(LogEntry) /\ KeysOnce(<<>>)
    BY DEF KeysOnce
  <2> QED BY <2>1, <2>2 DEF TxnInv, TxnRecord
<1>3. CASE WriteLog \/ SkipLog \/ CrashInWriteLog \/ Crash
  BY <1>3 DEF WriteLog, SkipLog, CrashInWriteLog, Crash, TxnInv
<1>4. CASE \/ LoseStore \/ Resume \/ StartRecovery \/ OpenLog \/ CheckEntry \/ PutEntry
           \/ FinishRecovery \/ UNCHANGED vars
           \/ \E k \in Key, value \in PutValues : ExternalPut(k, value)
  BY <1>4 DEF LoseStore, Resume, StartRecovery, OpenLog, CheckEntry, PutEntry, FinishRecovery,
              ExternalPut, vars, TxnInv
<1> QED BY <1>1, <1>2, <1>3, <1>4 DEF Next

\* The lines that are written of the entries of a commit.
LEMMA LinesType ==
    ASSUME TxnInv, txn # NoTxn
    PROVE  /\ Lines \in Seq(LineRecord) /\ DOMAIN Lines = DOMAIN txn.entries
           /\ \A i \in DOMAIN Lines : Lines[i].key = txn.entries[i].key
           /\ KeysOnce(Lines)
<1>1. txn.entries \in Seq(LogEntry) /\ KeysOnce(txn.entries)
  BY DEF TxnInv, TxnRecord
<1>2. ASSUME NEW i \in DOMAIN txn.entries
      PROVE  Lines[i] \in LineRecord /\ Lines[i].key = txn.entries[i].key
  <2>1. txn.entries[i] \in LogEntry
    BY <1>1
  <2>2. Escape(txn.entries[i].value) \in Seq(Char)
    BY <2>1, EscapeIsRead DEF LogEntry, Value
  <2> QED BY <2>1, <2>2 DEF Lines, LineOf, LineRecord, LogEntry
<1>3. DOMAIN Lines = DOMAIN txn.entries
  BY DEF Lines
<1>4. Lines \in Seq(LineRecord)
  <2>1. DOMAIN txn.entries = 1 .. Len(txn.entries) /\ Len(txn.entries) \in Nat
    BY <1>1
  <2>2. Lines \in [1 .. Len(txn.entries) -> LineRecord]
    BY <1>2, <2>1 DEF Lines
  <2> HIDE DEF Lines
  <2> QED BY <2>1, <2>2
<1> QED BY <1>1, <1>2, <1>3, <1>4 DEF KeysOnce

\* A log that was written whole.
LEMMA WholeFileInv ==
    ASSUME TxnInv, txn # NoTxn
    PROVE  FileInv(WholeFile)
<1>1. txn \in TxnRecord /\ (txn.entries # <<>> => txn.status = "COMMITTED")
  BY DEF TxnInv
<1>2. Lines \in Seq(LineRecord) /\ KeysOnce(Lines)
  BY LinesType
<1>3. WholeFile = [exists |-> TRUE, legible |-> TRUE, status |-> txn.status, lines |-> Lines,
                   record |-> txn.entries]
  BY DEF WholeFile, FileOf
<1>4. WholeFile \in FileRecord
  BY <1>1, <1>2, <1>3 DEF FileRecord, TxnRecord
<1>5. Lines = [i \in DOMAIN txn.entries |-> LineOf(txn.entries[i])]
  BY DEF Lines
<1> QED BY <1>1, <1>2, <1>3, <1>4, <1>5 DEF FileInv

\* A log that a crash has cut: it records nothing.
LEMMA TornFileInv ==
    ASSUME TxnInv, txn # NoTxn, NEW file \in TornFiles
    PROVE  FileInv(file)
<1>1. txn.status \in {"COMMITTED", "ABORTED"}
  BY DEF TxnInv, TxnRecord
<1>2. Lines \in Seq(LineRecord) /\ KeysOnce(Lines)
  BY LinesType
<1>8. <<>> \in Seq(LogEntry)
  OBVIOUS
<1>3. ASSUME NEW legible \in BOOLEAN, NEW status \in {"", "COMMITTED", "ABORTED"},
             NEW lines \in Seq(LineRecord), KeysOnce(lines)
      PROVE  FileInv(FileOf(legible, status, lines, <<>>))
  <2> QED BY <1>3, <1>8 DEF FileOf, FileInv, FileRecord
<1>4. <<>> \in Seq(LineRecord) /\ KeysOnce(<<>>)
  BY DEF KeysOnce
<1>5. CASE file \in {FileOf(FALSE, "", <<>>, <<>>), FileOf(TRUE, "", <<>>, <<>>),
                     FileOf(TRUE, txn.status, <<>>, <<>>)}
  BY <1>1, <1>3, <1>4, <1>5
<1>6. ASSUME NEW n \in DOMAIN Lines, NEW cut \in Prefixes(Lines[n].text)
      PROVE  LET lines == Append(SubSeq(Lines, 1, n - 1), [Lines[n] EXCEPT !.text = cut])
             IN  lines \in Seq(LineRecord) /\ KeysOnce(lines)
  <2> DEFINE line == [Lines[n] EXCEPT !.text = cut]
             start == SubSeq(Lines, 1, n - 1)
             lines == Append(start, line)
  <2>1. n \in 1 .. Len(Lines) /\ Len(Lines) \in Nat /\ Lines[n] \in LineRecord
    BY <1>2
  <2>2. cut \in Seq(Char)
    <3>1. Lines[n].text \in Seq(Char)
      BY <2>1 DEF LineRecord
    <3>2. PICK l \in 0 .. Len(Lines[n].text) : cut = SubSeq(Lines[n].text, 1, l)
      BY DEF Prefixes
    <3> QED BY <3>1, <3>2
  <2>3. line \in LineRecord /\ line.key = Lines[n].key
    BY <2>1, <2>2 DEF LineRecord
  <2>4. /\ start \in Seq(LineRecord) /\ Len(start) = n - 1
        /\ \A i \in 1 .. (n - 1) : start[i] = Lines[i]
    BY <1>2, <2>1
  <2> HIDE DEF line, start
  <2>5. /\ lines \in Seq(LineRecord) /\ DOMAIN lines = 1 .. n /\ lines[n] = line
        /\ \A i \in 1 .. (n - 1) : lines[i] = start[i]
    BY <2>1, <2>3, <2>4
  <2> HIDE DEF lines
  <2>6. \A i \in 1 .. n : i \in DOMAIN Lines /\ lines[i].key = Lines[i].key
    <3>1. \A i \in 1 .. n : i \in DOMAIN Lines /\ (i = n \/ i \in 1 .. (n - 1))
      BY <1>2, <2>1
    <3> QED BY <2>3, <2>4, <2>5, <3>1
  <2>7. KeysOnce(lines)
    BY <1>2, <2>5, <2>6 DEF KeysOnce
  <2> QED BY <2>5, <2>7 DEF lines, line, start
<1>7. ASSUME NEW n \in DOMAIN Lines,
             file \in {FileOf(TRUE, txn.status, Append(SubSeq(Lines, 1, n - 1),
                              [Lines[n] EXCEPT !.text = cut]), <<>>) : cut \in Prefixes(Lines[n].text)}
      PROVE  FileInv(file)
  BY <1>1, <1>3, <1>6, <1>7
<1> QED BY <1>5, <1>7 DEF TornFiles

\* The files, after any step.
LEMMA FilesStep ==
    ASSUME LogInv, [Next]_vars
    PROVE  FilesInv'
<1> USE DEF LogInv
<1>1. ASSUME NEW file, FileInv(file), txn # NoTxn, files' = [files EXCEPT ![txn.task] = file]
      PROVE  FilesInv'
  BY <1>1 DEF FilesInv
<1>2. CASE WriteLog
  BY <1>1, <1>2, WholeFileInv DEF WriteLog
<1>3. CASE CrashInWriteLog
  <2>1. PICK file \in TornFiles : files' = [files EXCEPT ![txn.task] = file]
    BY <1>3 DEF CrashInWriteLog
  <2>2. txn # NoTxn
    BY <1>3 DEF CrashInWriteLog
  <2> QED BY <1>1, <2>1, <2>2, TornFileInv
<1>4. CASE \/ \E t \in Task, batch \in Batches : Commit(t, batch)
           \/ \E t \in Task : Abort(t)
           \/ \E k \in Key, value \in PutValues : ExternalPut(k, value)
           \/ SkipLog \/ Crash \/ LoseStore \/ Resume
           \/ StartRecovery \/ OpenLog \/ CheckEntry \/ PutEntry \/ FinishRecovery
           \/ UNCHANGED vars
  BY <1>4 DEF Commit, Abort, ExternalPut, SkipLog, Crash, LoseStore, Resume, StartRecovery, OpenLog,
              CheckEntry, PutEntry, FinishRecovery, vars, FilesInv
<1> QED BY <1>2, <1>3, <1>4 DEF Next

\* The mode and the bounds, after any step.
LEMMA ModeStep ==
    ASSUME LogInv, [Next]_vars
    PROVE  ModeInv'
<1> USE BoundsAssumption DEF LogInv, ModeInv
<1>1. CASE \E t \in Task, batch \in Batches : Commit(t, batch)
  BY <1>1 DEF Commit
<1>2. CASE \E t \in Task : Abort(t)
  BY <1>2 DEF Abort
<1>3. CASE \E k \in Key, value \in PutValues : ExternalPut(k, value)
  BY <1>3 DEF ExternalPut
<1>4. CASE CrashInWriteLog \/ Crash
  BY <1>4 DEF CrashInWriteLog, Crash
<1>5. CASE WriteLog \/ SkipLog \/ LoseStore \/ Resume \/ StartRecovery \/ FinishRecovery
           \/ UNCHANGED vars
  BY <1>5 DEF WriteLog, SkipLog, LoseStore, Resume, StartRecovery, FinishRecovery, bounds, vars
<1>6. CASE OpenLog \/ CheckEntry \/ PutEntry
  BY <1>6 DEF OpenLog, CheckEntry, PutEntry, Stop, bounds
<1> QED BY <1>1, <1>2, <1>3, <1>4, <1>5, <1>6 DEF Next

--------------------------------------------------------------------------------
(* Where the recovery is.                                                    *)

\* The logs are a directory.
LEMMA FilesAreADirectory ==
    ASSUME FilesInv
    PROVE  /\ Directory(files) /\ Len(Listed(files)) \in Nat
           /\ \A m \in 1 .. Len(Listed(files)) :
                /\ LogAt(files, m) \in FileRecord
                /\ EntriesAt(files, m) \in Seq(LogEntry) /\ Len(EntriesAt(files, m)) \in Nat
<1>1. Directory(files)
  BY DEF FilesInv, FileInv, Directory
<1> QED BY <1>1, LogAtType, ParsedType DEF EntriesAt

\* The entry at which the recovery is.
LEMMA AtEntry ==
    ASSUME LogInv, mode = "recovering", entry # 0
    PROVE  /\ log \in 1 .. Len(Listed(files)) /\ entry \in 1 .. Len(EntriesAt(files, log))
           /\ Parses(LogAt(files, log)) /\ Parses(CurrentLog) /\ IsCommitted(CurrentLog)
           /\ Len(EntriesAt(files, log)) = Len(CurrentLog.lines)
           /\ CurrentEntry = EntriesAt(files, log)[entry] /\ CurrentEntry \in LogEntry
           /\ Named(files, log, entry)
<1>1. /\ log \in 1 .. (Len(Listed(files)) + 1) /\ entry \in Nat
      /\ log <= Len(Listed(files)) /\ Parses(CurrentLog) /\ IsCommitted(CurrentLog)
      /\ entry <= Len(CurrentLog.lines)
  BY DEF LogInv, PositionInv
<1>2. Directory(files) /\ Len(Listed(files)) \in Nat
  BY FilesAreADirectory DEF LogInv
<1>3. log \in 1 .. Len(Listed(files))
  BY <1>1, <1>2
<1>4. LogAt(files, log) = CurrentLog /\ CurrentLog \in FileRecord
  BY <1>2, <1>3, LogAtType DEF LogAt, CurrentLog
<1>5. EntriesAt(files, log) = Parsed(CurrentLog)
  BY <1>1, <1>4 DEF EntriesAt, Entries
<1>6. Parsed(CurrentLog) \in Seq(LogEntry) /\ Len(Parsed(CurrentLog)) = Len(CurrentLog.lines)
  BY <1>4, ParsedType
<1>7. entry \in 1 .. Len(EntriesAt(files, log)) /\ EntriesAt(files, log) \in Seq(LogEntry)
  BY <1>1, <1>5, <1>6
<1>8. CurrentEntry = EntriesAt(files, log)[entry] /\ CurrentEntry \in LogEntry
  BY <1>5, <1>7 DEF CurrentEntry
<1> QED BY <1>1, <1>3, <1>4, <1>5, <1>6, <1>7, <1>8 DEF Named

\* Outside a recovery no entry has been passed.
LEMMA NonePassed ==
    ASSUME mode' \notin {"recovering", "recovered"}
    PROVE  \A m, j : ~Passed(m, j)'
BY DEF Passed

\* Advance goes past the entry it is at, and no further.
LEMMA AdvanceStep ==
    ASSUME LogInv, mode = "recovering", log <= Len(Listed(files)),
           Parses(CurrentLog), IsCommitted(CurrentLog),
           Advance, mode' = mode, files' = files
    PROVE  /\ PositionInv' /\ missing' = FALSE
           /\ \A m, j \in Nat : Passed(m, j)' <=> Passed(m, j) \/ (m = log /\ j = entry /\ entry # 0)
<1> DEFINE count == Len(Listed(files))
           size == Len(CurrentLog.lines)
<1>1. /\ log \in 1 .. (count + 1) /\ entry \in Nat
      /\ entry # 0 => entry <= size
      /\ \A m \in 1 .. (log - 1) : Parses(LogAt(files, m))
      /\ log <= count
  BY DEF LogInv, PositionInv
<1>2. count \in Nat /\ log \in 1 .. count
  BY <1>1, FilesAreADirectory DEF LogInv
<1>3. LogAt(files, log) = CurrentLog /\ CurrentLog \in FileRecord
  BY <1>2, FilesAreADirectory DEF LogInv, LogAt, CurrentLog
<1>4. Len(EntriesAt(files, log)) = size /\ size \in Nat
  BY <1>3, ParsedType DEF EntriesAt, Entries
<1>5. \A m \in 1 .. log : Parses(LogAt(files, m))
  BY <1>1, <1>2, <1>3
<1>6. missing' = FALSE
  BY DEF Advance
<1>7. CASE entry < size
  <2>1. entry' = entry + 1 /\ log' = log
    BY <1>7 DEF Advance
  <2>2. PositionInv'
    <3>1. CurrentLog' = CurrentLog
      BY <2>1 DEF CurrentLog
    <3>2. /\ log' \in 1 .. (Len(Listed(files')) + 1) /\ entry' \in Nat
          /\ log' <= Len(Listed(files')) /\ entry' <= size
      <4>1. entry + 1 \in Nat /\ entry + 1 <= size
        BY <1>1, <1>4, <1>7
      <4> QED BY <1>1, <2>1, <4>1
    <3>3. missing' \in BOOLEAN
      BY <1>6
    <3> QED BY <1>1, <1>6, <2>1, <3>1, <3>2, <3>3 DEF PositionInv
  <2>3. ASSUME NEW m \in Nat, NEW j \in Nat
        PROVE  Passed(m, j)' <=> Passed(m, j) \/ (m = log /\ j = entry /\ entry # 0)
    <3>1. Newer(m, j, log', entry') <=> Newer(m, j, log, entry) \/ (m = log /\ j = entry)
      BY <1>1, <2>1 DEF Newer
    <3>2. (m = log /\ j = entry) => (Named(files, m, j) <=> entry # 0)
      BY <1>1, <1>2, <1>4 DEF Named
    <3> QED BY <3>1, <3>2 DEF Passed
  <2> QED BY <1>6, <2>2, <2>3
<1>8. CASE ~(entry < size)
  <2>1. entry' = 0 /\ log' = log + 1
    BY <1>8 DEF Advance
  <2>2. PositionInv'
    <3>1. log' \in 1 .. (Len(Listed(files')) + 1) /\ entry' \in Nat
      <4>1. log + 1 \in 1 .. (count + 1) /\ 0 \in Nat
        BY <1>2
      <4> QED BY <2>1, <4>1
    <3>3. missing' \in BOOLEAN
      BY <1>6
    <3>2. log' - 1 = log
      BY <1>2, <2>1
    <3> QED BY <1>5, <1>6, <2>1, <3>1, <3>2, <3>3 DEF PositionInv
  <2>3. ASSUME NEW m \in Nat, NEW j \in Nat
        PROVE  Passed(m, j)' <=> Passed(m, j) \/ (m = log /\ j = entry /\ entry # 0)
    <3>1. Named(files, m, j) => j # 0 /\ (m = log => j <= size)
      BY <1>4 DEF Named
    <3>2. entry # 0 => entry = size
      BY <1>1, <1>4, <1>8
    <3>3. entry = 0 => size = 0
      BY <1>4, <1>8
    <3>4. Named(files, m, j) =>
            (Newer(m, j, log', entry') <=> Newer(m, j, log, entry) \/ (m = log /\ j = entry /\ entry # 0))
      BY <1>1, <1>2, <1>4, <2>1, <3>1, <3>2, <3>3 DEF Newer
    <3>5. (m = log /\ j = entry /\ entry # 0) => Named(files, m, j)
      BY <1>1, <1>2, <1>4 DEF Named
    <3> QED BY <3>4, <3>5 DEF Passed
  <2> QED BY <1>6, <2>2, <2>3
<1> QED BY <1>7, <1>8

\* A log that is not committed is passed over; there is nothing to apply of it.
LEMMA PassOver ==
    ASSUME LogInv, mode = "recovering", entry = 0, log <= Len(Listed(files)),
           Parses(CurrentLog), ~IsCommitted(CurrentLog),
           log' = log + 1, UNCHANGED <<entry, missing, mode, files>>
    PROVE  PositionInv' /\ \A m, j \in Nat : Passed(m, j)' <=> Passed(m, j)
<1>1. /\ log \in 1 .. (Len(Listed(files)) + 1) /\ missing = FALSE
      /\ \A m \in 1 .. (log - 1) : Parses(LogAt(files, m))
  BY DEF LogInv, PositionInv
<1>2. Len(Listed(files)) \in Nat /\ log \in 1 .. Len(Listed(files))
  BY <1>1, FilesAreADirectory DEF LogInv
<1>3. LogAt(files, log) = CurrentLog
  BY DEF LogAt, CurrentLog
<1>4. \A m \in 1 .. log : Parses(LogAt(files, m))
  BY <1>1, <1>2, <1>3
<1>5. Len(EntriesAt(files, log)) = 0
  BY <1>3 DEF EntriesAt, Entries
<1>6. PositionInv'
  <2>1. /\ log' \in 1 .. (Len(Listed(files')) + 1) /\ entry' = 0 /\ missing' = FALSE
        /\ log' - 1 = log /\ mode' = "recovering"
    BY <1>1, <1>2
  <2>2. \A m \in 1 .. (log' - 1) : Parses(LogAt(files', m))
    BY <1>4, <2>1
  <2>3. missing' \in BOOLEAN
    BY <2>1
  <2>4. entry' \in Nat
    BY <2>1
  <2> QED BY <2>1, <2>2, <2>3, <2>4 DEF PositionInv
<1>7. ASSUME NEW m \in Nat, NEW j \in Nat
      PROVE  Passed(m, j)' <=> Passed(m, j)
  <2>1. Named(files, m, j) => m # log
    BY <1>5 DEF Named
  <2>2. m # log /\ j # 0 => (Newer(m, j, log', entry') <=> Newer(m, j, log, entry))
    BY <1>2 DEF Newer
  <2>3. Named(files, m, j) => j # 0
    BY DEF Named
  <2> QED BY <2>1, <2>2, <2>3 DEF Passed
<1> QED BY <1>6, <1>7

\* What may be passed when the recovery goes on or ends well.
LEMMA FinishStep ==
    ASSUME LogInv, FinishRecovery
    PROVE  PositionInv' /\ \A m, j \in Nat : Passed(m, j)' <=> Passed(m, j)
<1>1. /\ mode = "recovering" /\ entry = 0 /\ log > Len(Listed(files))
      /\ mode' = "recovered" /\ log' = 1 /\ UNCHANGED <<entry, missing, files>>
  BY DEF FinishRecovery
<1>2. /\ log \in 1 .. (Len(Listed(files)) + 1) /\ missing = FALSE
      /\ \A m \in 1 .. (log - 1) : Parses(LogAt(files, m))
  BY <1>1 DEF LogInv, PositionInv
<1>3. Len(Listed(files)) \in Nat /\ log - 1 = Len(Listed(files))
  BY <1>1, <1>2, FilesAreADirectory DEF LogInv
<1>4. PositionInv'
  BY <1>1, <1>2, <1>3 DEF PositionInv
<1>5. ASSUME NEW m \in Nat, NEW j \in Nat
      PROVE  Passed(m, j)' <=> Passed(m, j)
  <2>1. Named(files, m, j) => m < log
    BY <1>1, <1>2, <1>3 DEF Named
  <2> QED BY <1>1, <2>1 DEF Passed, Newer
<1> QED BY <1>4, <1>5

\* The position, after any step.
LEMMA PositionStep ==
    ASSUME LogInv, [Next]_vars
    PROVE  PositionInv'
<1> USE DEF LogInv
<1>1. CASE \/ \E t \in Task, batch \in Batches : Commit(t, batch)
           \/ \E t \in Task : Abort(t)
           \/ WriteLog \/ SkipLog \/ CrashInWriteLog \/ Crash \/ LoseStore \/ Resume
  <2>1. mode' \in {"up", "down"} /\ log' = 1 /\ entry' = 0 /\ missing' = FALSE
    BY <1>1 DEF Commit, Abort, WriteLog, SkipLog, CrashInWriteLog, Crash, LoseStore, Resume,
                recovery, PositionInv
  <2> QED BY <2>1 DEF PositionInv
<1>2. CASE UNCHANGED vars \/ \E k \in Key, value \in PutValues : ExternalPut(k, value)
  <2>1. UNCHANGED <<mode, log, entry, missing, files>>
    BY <1>2 DEF ExternalPut, vars, recovery
  <2> QED BY <2>1 DEF PositionInv, CurrentLog
<1>3. CASE StartRecovery
  <2>1. mode' = "recovering" /\ log' = 1 /\ entry' = 0 /\ missing' = FALSE /\ files' = files
    BY <1>3 DEF StartRecovery
  <2>2. Len(Listed(files)) \in Nat
    BY FilesAreADirectory
  <2>3. log' \in 1 .. (Len(Listed(files')) + 1) /\ \A m \in 1 .. (log' - 1) : FALSE
    BY <2>1, <2>2
  <2> QED BY <2>1, <2>3 DEF PositionInv
<1>4. CASE OpenLog
  <2>1. mode = "recovering" /\ entry = 0 /\ log <= Len(Listed(files)) /\ files' = files
    BY <1>4 DEF OpenLog
  <2>2. CASE ~Parses(CurrentLog)
    BY <1>4, <2>2 DEF OpenLog, Stop, PositionInv
  <2>3. CASE Parses(CurrentLog) /\ IsCommitted(CurrentLog)
    BY <1>4, <2>1, <2>3, AdvanceStep DEF OpenLog
  <2>4. CASE Parses(CurrentLog) /\ ~IsCommitted(CurrentLog)
    BY <1>4, <2>1, <2>4, PassOver DEF OpenLog
  <2> QED BY <2>2, <2>3, <2>4
<1>5. CASE CheckEntry
  <2>1. mode = "recovering" /\ entry # 0 /\ UNCHANGED <<mode, files>>
    BY <1>5 DEF CheckEntry, PositionInv
  <2>2. CASE AlreadyApplied(store, CurrentEntry)
    BY <1>5, <2>1, <2>2, AtEntry, AdvanceStep DEF CheckEntry, PositionInv
  <2>3. CASE ~AlreadyApplied(store, CurrentEntry)
    <3>1. missing' = TRUE /\ UNCHANGED <<log, entry>>
      BY <1>5, <2>3 DEF CheckEntry
    <3> QED BY <2>1, <3>1 DEF PositionInv, CurrentLog
  <2> QED BY <2>2, <2>3
<1>6. CASE PutEntry
  <2>1. mode = "recovering" /\ entry # 0 /\ files' = files
    BY <1>6 DEF PutEntry, PositionInv
  <2>2. CASE VersionIs(store, CurrentEntry.key, CurrentEntry.expected_version)
    BY <1>6, <2>1, <2>2, AtEntry, AdvanceStep DEF PutEntry, PositionInv
  <2>3. CASE ~VersionIs(store, CurrentEntry.key, CurrentEntry.expected_version)
    BY <1>6, <2>3 DEF PutEntry, Stop, PositionInv
  <2> QED BY <2>2, <2>3
<1>7. CASE FinishRecovery
  BY <1>7, FinishStep
<1> QED BY <1>1, <1>2, <1>3, <1>4, <1>5, <1>6, <1>7 DEF Next

--------------------------------------------------------------------------------
(* What the recovery has passed.                                             *)

\* What has been passed is an entry.
LEMMA PassedEntry ==
    ASSUME FilesInv, NEW m, NEW j, Named(files, m, j)
    PROVE  EntriesAt(files, m)[j] \in LogEntry
<1>1. m \in 1 .. Len(Listed(files)) /\ j \in 1 .. Len(EntriesAt(files, m))
  BY DEF Named
<1>2. EntriesAt(files, m) \in Seq(LogEntry)
  BY <1>1, FilesAreADirectory
<1> QED BY <1>1, <1>2

\* A write of another client does not undo what was restored: its version is
\* the later one.
LEMMA PutKeepsRestored ==
    ASSUME NEW s \in GoodStores, NEW e \in LogEntry, NEW k \in Key, NEW value, RestoredIn(s, e)
    PROVE  RestoredIn(Put(s, k, value), e)
<1>1. /\ s \in [Key -> VersionedValue] /\ e.key \in Key /\ e.expected_version \in Nat
      /\ s[e.key].version \in Nat
  BY DEF GoodStores, LogEntry, VersionedValue
<1>2. CASE k = e.key
  <2>1. Put(s, k, value)[e.key].version = s[e.key].version + 1
    BY <1>1, <1>2 DEF Put, Stored
  <2>2. s[e.key].version >= e.expected_version + 1
    BY <1>1 DEF RestoredIn, Stored
  <2> QED BY <1>1, <2>1, <2>2 DEF RestoredIn
<1>3. CASE k # e.key
  <2>1. Put(s, k, value)[e.key] = s[e.key]
    BY <1>1, <1>3 DEF Put
  <2> QED BY <2>1 DEF RestoredIn
<1> QED BY <1>2, <1>3

\* The call on the store that succeeds applies the entry, and leaves the entries
\* of other keys applied.
LEMMA PutApplies ==
    ASSUME NEW s \in GoodStores, NEW e \in LogEntry, VersionIs(s, e.key, e.expected_version),
           NEW u, u = PutIfVersion(s, e.key, e.expected_version, e.value)
    PROVE  /\ u = Put(s, e.key, e.value)
           /\ AlreadyApplied(u, e)
           /\ \A d \in LogEntry : d.key # e.key /\ AlreadyApplied(s, d) => AlreadyApplied(u, d)
<1>1. u = Put(s, e.key, e.value)
  BY DEF PutIfVersion
<1>2. /\ s \in [Key -> VersionedValue] /\ e.key \in Key
  BY DEF GoodStores, LogEntry
<1>3. AlreadyApplied(u, e)
  BY <1>1, <1>2 DEF Put, VersionIs, AlreadyApplied
<1>4. \A k \in Key : k # e.key => u[k] = s[k]
  BY <1>1, <1>2 DEF Put
<1>5. \A d \in LogEntry : d.key \in Key
  BY DEF LogEntry
<1> QED BY <1>1, <1>3, <1>4, <1>5 DEF AlreadyApplied

\* A step that passes no entry and leaves the store, or in which another client
\* writes.
Quiet ==
    /\ files' = files
    /\ \A m, j \in Nat : Passed(m, j)' <=> Passed(m, j)
    /\ \/ store' = store /\ goal' = goal
       \/ \E k \in Key, value \in PutValues : ExternalPut(k, value)

\* A step that passes the entry it is at, which is then in the store.
GoesPast ==
    /\ mode = "recovering" /\ entry # 0
    /\ files' = files /\ goal' = goal /\ missing' = FALSE
    /\ \A m, j \in Nat : Passed(m, j)' <=> Passed(m, j) \/ (m = log /\ j = entry)
    /\ AlreadyApplied(store', CurrentEntry)
    /\ \/ store' = store
       \/ /\ VersionIs(store, CurrentEntry.key, CurrentEntry.expected_version)
          /\ store' = PutIfVersion(store, CurrentEntry.key, CurrentEntry.expected_version,
                                   CurrentEntry.value)

\* Every step is one of these, or leaves nothing passed.
LEMMA StepKinds ==
    ASSUME LogInv, [Next]_vars
    PROVE  Quiet \/ GoesPast \/ \A m, j \in Nat : ~Passed(m, j)'
<1> USE DEF LogInv
<1>1. CASE \/ \E t \in Task, batch \in Batches : Commit(t, batch)
           \/ \E t \in Task : Abort(t)
           \/ WriteLog \/ SkipLog \/ CrashInWriteLog \/ Crash \/ LoseStore \/ Resume
  <2>1. mode' \in {"up", "down"}
    BY <1>1 DEF Commit, Abort, WriteLog, SkipLog, CrashInWriteLog, Crash, LoseStore, Resume
  <2> QED BY <2>1, NonePassed
<1>2. CASE UNCHANGED vars \/ \E k \in Key, value \in PutValues : ExternalPut(k, value)
  <2>1. UNCHANGED <<mode, log, entry, files>>
    BY <1>2 DEF ExternalPut, vars, recovery
  <2>2. UNCHANGED vars => store' = store /\ goal' = goal
    BY DEF vars
  <2> QED BY <1>2, <2>1, <2>2 DEF Passed, Quiet
<1>3. CASE StartRecovery
  <2>1. mode' = "recovering" /\ log' = 1 /\ entry' = 0
    BY <1>3 DEF StartRecovery
  <2>2. \A m, j \in Nat : Named(files', m, j) => ~Newer(m, j, 1, 0)
    BY DEF Named, Newer
  <2> QED BY <2>1, <2>2 DEF Passed
<1>4. CASE OpenLog
  <2>1. /\ mode = "recovering" /\ entry = 0 /\ log <= Len(Listed(files))
        /\ files' = files /\ store' = store /\ goal' = goal
    BY <1>4 DEF OpenLog
  <2>2. CASE ~Parses(CurrentLog)
    BY <1>4, <2>2, NonePassed DEF OpenLog, Stop
  <2>3. CASE Parses(CurrentLog) /\ IsCommitted(CurrentLog)
    BY <1>4, <2>1, <2>3, AdvanceStep DEF OpenLog, Quiet
  <2>4. CASE Parses(CurrentLog) /\ ~IsCommitted(CurrentLog)
    BY <1>4, <2>1, <2>4, PassOver DEF OpenLog, Quiet
  <2> QED BY <2>2, <2>3, <2>4
<1>5. CASE CheckEntry
  <2>1. mode = "recovering" /\ entry # 0 /\ UNCHANGED <<mode, files, store, goal>>
    BY <1>5 DEF CheckEntry, PositionInv
  <2>2. CASE AlreadyApplied(store, CurrentEntry)
    <3>1. /\ missing' = FALSE
          /\ \A m, j \in Nat : Passed(m, j)' <=> Passed(m, j) \/ (m = log /\ j = entry /\ entry # 0)
      BY <1>5, <2>1, <2>2, AtEntry, AdvanceStep DEF CheckEntry, PositionInv
    <3> QED BY <2>1, <2>2, <3>1 DEF GoesPast
  <2>3. CASE ~AlreadyApplied(store, CurrentEntry)
    <3>1. UNCHANGED <<log, entry>>
      BY <1>5, <2>3 DEF CheckEntry
    <3> QED BY <2>1, <3>1 DEF Passed, Quiet
  <2> QED BY <2>2, <2>3
<1>6. CASE PutEntry
  <2>1. mode = "recovering" /\ entry # 0 /\ UNCHANGED <<files, goal>>
        /\ store' = PutIfVersion(store, CurrentEntry.key, CurrentEntry.expected_version, CurrentEntry.value)
    BY <1>6 DEF PutEntry, PositionInv
  <2>2. CASE VersionIs(store, CurrentEntry.key, CurrentEntry.expected_version)
    <3>1. /\ missing' = FALSE
          /\ \A m, j \in Nat : Passed(m, j)' <=> Passed(m, j) \/ (m = log /\ j = entry /\ entry # 0)
      BY <1>6, <2>1, <2>2, AtEntry, AdvanceStep DEF PutEntry, PositionInv
    <3>2. AlreadyApplied(store', CurrentEntry)
      BY <2>1, <2>2, AtEntry, PutApplies DEF StoresInv
    <3> QED BY <2>1, <2>2, <3>1, <3>2 DEF GoesPast
  <2>3. CASE ~VersionIs(store, CurrentEntry.key, CurrentEntry.expected_version)
    BY <1>6, <2>3, NonePassed DEF PutEntry, Stop
  <2> QED BY <2>2, <2>3
<1>7. CASE FinishRecovery
  BY <1>7, FinishStep DEF FinishRecovery, Quiet
<1> QED BY <1>1, <1>2, <1>3, <1>4, <1>5, <1>6, <1>7 DEF Next

\* What has been passed is restored, after any step.
LEMMA RestoredStep ==
    ASSUME LogInv, [Next]_vars
    PROVE  RestoredInv'
<1>1. CASE \A m, j \in Nat : ~Passed(m, j)'
  BY <1>1 DEF RestoredInv
<1>2. ASSUME files' = files,
             NEW m \in Nat, NEW j \in Nat, Passed(m, j),
             store' = store \/ \E k \in Key, value \in Value : store' = Put(store, k, value)
      PROVE  RestoredIn(store', EntriesAt(files', m)[j])
  <2>1. EntriesAt(files, m)[j] \in LogEntry
    BY <1>2, PassedEntry DEF LogInv, Passed
  <2>2. RestoredIn(store, EntriesAt(files, m)[j])
    BY <1>2 DEF LogInv, RestoredInv
  <2> QED BY <1>2, <2>1, <2>2, PutKeepsRestored DEF LogInv, StoresInv
<1>3. CASE Quiet
  <2>1. store' = store \/ \E k \in Key, value \in Value : store' = Put(store, k, value)
    BY <1>3, PutValuesAssumption DEF Quiet, ExternalPut
  <2> QED BY <1>2, <1>3, <2>1 DEF Quiet, RestoredInv
<1>4. CASE GoesPast
  <2>1. CurrentEntry = EntriesAt(files, log)[entry] /\ CurrentEntry \in LogEntry
    BY <1>4, AtEntry DEF GoesPast
  <2>2. store' = store \/ \E k \in Key, value \in Value : store' = Put(store, k, value)
    <3>1. CurrentEntry.key \in Key /\ CurrentEntry.value \in Value
      BY <2>1 DEF LogEntry
    <3> QED BY <1>4, <2>1, <3>1, PutApplies DEF GoesPast, LogInv, StoresInv
  <2>3. ASSUME NEW m \in Nat, NEW j \in Nat, Passed(m, j)'
        PROVE  RestoredIn(store', EntriesAt(files', m)[j])
    <3>1. files' = files /\ (Passed(m, j) \/ (m = log /\ j = entry))
          /\ AlreadyApplied(store', CurrentEntry)
      BY <1>4, <2>3 DEF GoesPast
    <3>2. CASE m = log /\ j = entry
      <4>1. EntriesAt(files', m)[j] = CurrentEntry
        BY <2>1, <3>1, <3>2
      <4> QED BY <3>1, <4>1 DEF RestoredIn, AlreadyApplied
    <3> QED BY <1>2, <2>2, <3>1, <3>2
  <2> QED BY <2>3 DEF RestoredInv
<1> QED BY <1>1, <1>3, <1>4, StepKinds

\* The entry that Get has found missing is missing, after any step.
LEMMA MissingStep ==
    ASSUME LogInv, [Next]_vars, goal' # NoGoal, mode' = "recovering", missing'
    PROVE  ~AlreadyApplied(store, CurrentEntry)'
<1> USE DEF LogInv
<1>1. CASE \/ \E t \in Task, batch \in Batches : Commit(t, batch)
           \/ \E t \in Task : Abort(t)
           \/ WriteLog \/ SkipLog \/ CrashInWriteLog \/ Crash \/ LoseStore \/ Resume
           \/ \E k \in Key, value \in PutValues : ExternalPut(k, value)
  BY <1>1 DEF Commit, Abort, WriteLog, SkipLog, CrashInWriteLog, Crash, LoseStore, Resume, ExternalPut
<1>2. CASE StartRecovery \/ FinishRecovery
  BY <1>2 DEF StartRecovery, FinishRecovery
<1>3. CASE OpenLog
  <2>1. missing = FALSE
    BY <1>3 DEF OpenLog, PositionInv
  <2> QED BY <1>3, <2>1 DEF OpenLog, Advance, Stop
<1>4. CASE PutEntry
  BY <1>4 DEF PutEntry, Advance, Stop
<1>5. CASE CheckEntry
  <2>1. ~AlreadyApplied(store, CurrentEntry) /\ UNCHANGED <<log, entry, files, store>>
    BY <1>5 DEF CheckEntry, Advance
  <2> QED BY <2>1 DEF CurrentEntry, CurrentLog
<1>6. CASE UNCHANGED vars
  <2>1. UNCHANGED <<mode, goal, missing, log, entry, files, store>>
    BY <1>6 DEF vars, recovery
  <2>2. ~AlreadyApplied(store, CurrentEntry)
    BY <2>1 DEF LatestInv
  <2> QED BY <2>1, <2>2 DEF CurrentEntry, CurrentLog
<1> QED BY <1>1, <1>2, <1>3, <1>4, <1>5, <1>6 DEF Next

\* The last write of a key is in the store, after any step.
LEMMA LatestStep ==
    ASSUME LogInv, [Next]_vars
    PROVE  LatestInv'
<1> SUFFICES ASSUME goal' # NoGoal
             PROVE  \A m, j \in Nat : LastPassed(m, j)' => AlreadyApplied(store', EntriesAt(files', m)[j])
  BY MissingStep DEF LatestInv
<1>1. CASE \A m, j \in Nat : ~Passed(m, j)'
  BY <1>1 DEF LastPassed
<1>2. CASE Quiet
  <2>1. files' = files /\ store' = store /\ goal' = goal
        /\ \A m, j \in Nat : Passed(m, j)' <=> Passed(m, j)
    BY <1>2 DEF Quiet, ExternalPut
  <2>2. ASSUME NEW m \in Nat, NEW j \in Nat, LastPassed(m, j)'
        PROVE  LastPassed(m, j)
    BY <2>1, <2>2 DEF LastPassed
  <2> QED BY <2>1, <2>2 DEF LogInv, LatestInv
<1>3. CASE GoesPast
  <2>1. /\ mode = "recovering" /\ files' = files /\ goal' = goal
        /\ \A m, j \in Nat : Passed(m, j)' <=> Passed(m, j) \/ (m = log /\ j = entry)
        /\ AlreadyApplied(store', CurrentEntry)
    BY <1>3 DEF GoesPast
  <2>2. /\ CurrentEntry = EntriesAt(files, log)[entry] /\ CurrentEntry \in LogEntry
        /\ log \in Nat /\ entry \in Nat
    BY <1>3, AtEntry DEF GoesPast
  <2>3. ASSUME NEW m \in Nat, NEW j \in Nat, LastPassed(m, j)', ~(m = log /\ j = entry)
        PROVE  AlreadyApplied(store', EntriesAt(files', m)[j])
    <3> DEFINE e == EntriesAt(files, m)[j]
    <3>0. PICK n, i \in Nat : n = log /\ i = entry
      BY <2>2
    <3>1. Passed(m, j) /\ Passed(n, i)'
      <4>1. Passed(m, j)'
        BY <2>3 DEF LastPassed
      <4> QED BY <2>1, <2>3, <3>0, <4>1
    <3>2. Newer(m, j, n, i) /\ e \in LogEntry
      BY <2>1, <3>0, <3>1, PassedEntry DEF Passed, LogInv
    <3>3. CurrentEntry.key # e.key
      <4>1. EntriesAt(files', n)[i].key # EntriesAt(files', m)[j].key
        BY <2>3, <3>1, <3>2 DEF LastPassed
      <4> QED BY <2>1, <2>2, <3>0, <4>1
    <3>4. LastPassed(m, j)
      BY <2>1, <2>3, <3>1 DEF LastPassed
    <3>5. AlreadyApplied(store, e)
      BY <2>1, <3>4 DEF LogInv, LatestInv
    <3>6. AlreadyApplied(store', e)
      BY <1>3, <2>2, <3>2, <3>3, <3>5, PutApplies DEF GoesPast, LogInv, StoresInv
    <3> QED BY <2>1, <3>6
  <2>4. AlreadyApplied(store', EntriesAt(files', log)[entry])
    BY <2>1, <2>2
  <2> QED BY <2>3, <2>4
<1> QED BY <1>1, <1>2, <1>3, StepKinds

--------------------------------------------------------------------------------
(* What an undisturbed recovery comes to.                                    *)

\* When no key is in two logs, no two entries of the logs have the same key.
LEMMA DisjointKeysDiffer ==
    ASSUME FilesInv, DisjointLogs
    PROVE  KeysDiffer(files)
<1> SUFFICES ASSUME NEW m \in 1 .. Len(Listed(files)), NEW n \in 1 .. Len(Listed(files)),
                    NEW j \in 1 .. Len(EntriesAt(files, m)), NEW i \in 1 .. Len(EntriesAt(files, n)),
                    EntriesAt(files, m)[j].key = EntriesAt(files, n)[i].key
             PROVE  m = n /\ j = i
  BY DEF KeysDiffer
<1> DEFINE t == Listed(files)[m]
           u == Listed(files)[n]
<1>1. ASSUME NEW p \in 1 .. Len(Listed(files)), NEW q \in 1 .. Len(EntriesAt(files, p))
      PROVE  LET file == LogAt(files, p) IN
             /\ Listed(files)[p] \in Task /\ file = files[Listed(files)[p]]
             /\ q \in DOMAIN file.lines
             /\ EntriesAt(files, p)[q].key = file.lines[q].key
             /\ Parsed(file)[q].key = file.lines[q].key
  <2> DEFINE file == LogAt(files, p)
  <2>1. Listed(files)[p] \in Task /\ file \in FileRecord
    BY FilesAreADirectory, LogAtType
  <2>2. IsCommitted(file)
    <3>1. Entries(file) # <<>>
      BY DEF EntriesAt
    <3> QED BY <3>1 DEF Entries
  <2>3. EntriesAt(files, p) = Parsed(file)
    BY <2>2 DEF EntriesAt, Entries
  <2>4. Len(Parsed(file)) = Len(file.lines) /\ file.lines \in Seq(LineRecord)
    BY <2>1, ParsedType DEF FileRecord
  <2>5. q \in DOMAIN file.lines
    BY <2>3, <2>4
  <2>6. Parsed(file)[q].key = file.lines[q].key
    BY <2>5 DEF Parsed
  <2> QED BY <2>1, <2>3, <2>5, <2>6 DEF LogAt
<1>2. t \in Task /\ u \in Task /\ LogAt(files, m) = files[t] /\ LogAt(files, n) = files[u]
  BY <1>1
<1>3. EntriesAt(files, m)[j].key \in KeysInLog(t) /\ EntriesAt(files, n)[i].key \in KeysInLog(u)
  BY <1>1, <1>2 DEF KeysInLog
<1>4. t = u
  BY <1>2, <1>3 DEF DisjointLogs
<1>5. m = n
  BY <1>4, ListedLogs DEF LogsOf
<1>6. KeysOnce(LogAt(files, m).lines)
  BY <1>2 DEF FilesInv, FileInv
<1> QED BY <1>1, <1>5, <1>6 DEF KeysOnce

\* When no two entries have the same key, each that has been passed is the last
\* of its key, and is in the store.
LEMMA PassedApplied ==
    ASSUME LogInv, goal # NoGoal, KeysDiffer(files), NEW m \in Nat, NEW j \in Nat, Passed(m, j)
    PROVE  AlreadyApplied(store, EntriesAt(files, m)[j])
<1>1. ASSUME NEW p \in Nat, NEW q \in Nat, Passed(p, q), Newer(m, j, p, q)
      PROVE  EntriesAt(files, p)[q].key # EntriesAt(files, m)[j].key
  <2>1. ~(p = m /\ q = j)
    BY <1>1 DEF Newer
  <2>2. Named(files, p, q) /\ Named(files, m, j)
    BY <1>1 DEF Passed
  <2> QED BY <2>1, <2>2 DEF KeysDiffer, Named
<1>2. LastPassed(m, j)
  BY <1>1 DEF LastPassed
<1> QED BY <1>2 DEF LogInv, LatestInv

\* Everything before the position of the recovery is settled.
LEMMA SettledHere ==
    ASSUME LogInv, goal # NoGoal, DisjointLogs, mode = "recovering"
    PROVE  /\ log \in Nat /\ SettledLogs(files, store, log - 1)
           /\ entry # 0 => Settled(store, EntriesAt(files, log), entry - 1)
<1>1. /\ log \in 1 .. (Len(Listed(files)) + 1) /\ entry \in Nat
      /\ \A m \in 1 .. (log - 1) : Parses(LogAt(files, m))
  BY DEF LogInv, PositionInv
<1>2. KeysDiffer(files) /\ Len(Listed(files)) \in Nat
  BY DisjointKeysDiffer, FilesAreADirectory DEF LogInv
<1>3. ASSUME NEW m \in 1 .. (log - 1)
      PROVE  Settled(store, EntriesAt(files, m), Len(EntriesAt(files, m)))
  <2>1. m \in 1 .. Len(Listed(files)) /\ m \in Nat /\ m < log
    BY <1>1, <1>2
  <2>2. \A j \in 1 .. Len(EntriesAt(files, m)) : Passed(m, j) /\ j \in Nat
    BY <2>1 DEF Passed, Named, Newer
  <2> QED BY <1>2, <2>1, <2>2, PassedApplied DEF Settled
<1>4. ASSUME entry # 0
      PROVE  Settled(store, EntriesAt(files, log), entry - 1)
  <2>1. log \in 1 .. Len(Listed(files)) /\ entry \in 1 .. Len(EntriesAt(files, log)) /\ log \in Nat
    BY <1>1, <1>4, AtEntry
  <2>2. Len(EntriesAt(files, log)) \in Nat
    BY <2>1, FilesAreADirectory DEF LogInv
  <2>3. \A j \in 1 .. (entry - 1) : j \in 1 .. Len(EntriesAt(files, log)) /\ j < entry /\ j \in Nat
    BY <1>1, <2>1, <2>2
  <2>4. \A j \in 1 .. (entry - 1) : Passed(log, j) /\ j \in Nat
    BY <2>1, <2>3 DEF Passed, Named, Newer
  <2>5. PICK n \in Nat : n = log
    BY <2>1
  <2>6. \A j \in 1 .. (entry - 1) : AlreadyApplied(store, EntriesAt(files, n)[j])
    BY <1>2, <2>4, <2>5, PassedApplied
  <2> QED BY <2>5, <2>6 DEF Settled
<1>5. SettledLogs(files, store, log - 1)
  BY <1>1, <1>3 DEF SettledLogs
<1> QED BY <1>1, <1>2, <1>4, <1>5

\* At the end of a recovery everything is settled.
LEMMA SettledAtEnd ==
    ASSUME LogInv, goal # NoGoal, DisjointLogs, mode = "recovered"
    PROVE  SettledLogs(files, store, Len(Listed(files)))
<1>1. \A m \in 1 .. Len(Listed(files)) : Parses(LogAt(files, m))
  BY DEF LogInv, PositionInv
<1>2. KeysDiffer(files)
  BY DisjointKeysDiffer DEF LogInv
<1>3. ASSUME NEW m \in 1 .. Len(Listed(files)), NEW j \in 1 .. Len(EntriesAt(files, m))
      PROVE  AlreadyApplied(store, EntriesAt(files, m)[j])
  <2>1. Passed(m, j) /\ m \in Nat /\ j \in Nat
    BY DEF Passed, Named
  <2> QED BY <1>2, <2>1, PassedApplied
<1> QED BY <1>1, <1>3 DEF SettledLogs, Settled

\* PutEntry keeps what the recovery comes to, and stops when that is a failure.
LEMMA PutGoal ==
    ASSUME LogInv, goal # NoGoal, DisjointLogs, PutEntry
    PROVE  /\ RecoveryOf(files, store') = goal
           /\ mode' = "stopped" => ~goal.success
<1> DEFINE e == CurrentEntry
<1>1. /\ mode = "recovering" /\ entry # 0 /\ missing
      /\ store' = PutIfVersion(store, e.key, e.expected_version, e.value)
  BY DEF PutEntry, LogInv, PositionInv
<1>2. /\ log \in 1 .. Len(Listed(files)) /\ entry \in 1 .. Len(EntriesAt(files, log))
      /\ Parses(LogAt(files, log)) /\ e = EntriesAt(files, log)[entry]
  BY <1>1, AtEntry
<1>3. SettledLogs(files, store, log - 1) /\ Settled(store, EntriesAt(files, log), entry - 1)
  BY <1>1, SettledHere
<1>4. ~AlreadyApplied(store, e)
  BY <1>1 DEF LogInv, LatestInv
<1>5. Directory(files) /\ KeysDiffer(files) /\ store \in GoodStores
  BY FilesAreADirectory, DisjointKeysDiffer DEF LogInv, StoresInv
<1>6. RecoveryOf(files, store) = goal
  BY DEF LogInv, GoalInv
<1>7. mode' = "stopped" => ~VersionIs(store, e.key, e.expected_version)
  BY <1>1 DEF PutEntry
<1> HIDE DEF e
<1>8. /\ RecoveryOf(files, store') = RecoveryOf(files, store)
      /\ ~VersionIs(store, e.key, e.expected_version) => ~RecoveryOf(files, store).success
  BY <1>1, <1>2, <1>3, <1>4, <1>5, RecoveryAfterPut
<1> QED BY <1>6, <1>7, <1>8

\* OpenLog stops when the recovery comes to a failure.
LEMMA OpenGoal ==
    ASSUME LogInv, goal # NoGoal, DisjointLogs, OpenLog, mode' = "stopped"
    PROVE  ~goal.success
<1>1. mode = "recovering" /\ log <= Len(Listed(files)) /\ ~Parses(CurrentLog)
  BY DEF OpenLog
<1>2. SettledLogs(files, store, log - 1)
  BY <1>1, SettledHere
<1>3. log \in 1 .. Len(Listed(files)) /\ Directory(files) /\ store \in GoodStores
  <2>1. log \in 1 .. (Len(Listed(files)) + 1) /\ Len(Listed(files)) \in Nat
    BY <1>1, FilesAreADirectory DEF LogInv, PositionInv
  <2> QED BY <1>1, <2>1, FilesAreADirectory DEF LogInv, StoresInv
<1>4. ~Parses(LogAt(files, log))
  BY <1>1 DEF LogAt, CurrentLog
<1>5. ~RecoveryOf(files, store).success
  BY <1>2, <1>3, <1>4, RecoveryOfUnparsed
<1> QED BY <1>5 DEF LogInv, GoalInv

\* The keys of the logs are in the files.
LEMMA SameKeys ==
    ASSUME files' = files
    PROVE  DisjointLogs' => DisjointLogs
<1>1. ASSUME NEW t
      PROVE  KeysInLog(t)' = KeysInLog(t)
  <2>1. \A x : x \in KeysInLog(t) <=>
                    \E i \in DOMAIN files[t].lines : x = Parsed(files[t])[i].key
    BY DEF KeysInLog
  <2>2. \A x : x \in KeysInLog(t)' <=>
                    \E i \in DOMAIN files'[t].lines : x = Parsed(files'[t])[i].key
    BY DEF KeysInLog
  <2> QED BY <2>1, <2>2
<1> QED BY <1>1 DEF DisjointLogs

\* What the recovery comes to, after any step.
LEMMA GoalStep ==
    ASSUME LogInv, [Next]_vars
    PROVE  GoalInv'
<1> USE DEF LogInv
<1>1. CASE goal' = NoGoal
  BY <1>1 DEF GoalInv
<1>2. CASE UNCHANGED <<files, store, goal>> /\ mode' \notin {"up", "stopped"}
  <2>1. DisjointLogs' => DisjointLogs
    BY <1>2, SameKeys
  <2> QED BY <1>2, <2>1 DEF GoalInv
<1>3. CASE \/ \E t \in Task, batch \in Batches : Commit(t, batch)
           \/ \E t \in Task : Abort(t)
           \/ WriteLog \/ SkipLog \/ CrashInWriteLog
  <2>1. goal' = NoGoal
    BY <1>3 DEF Commit, Abort, WriteLog, SkipLog, CrashInWriteLog, GoalInv
  <2> QED BY <1>1, <2>1
<1>4. CASE LoseStore \/ Resume \/ \E k \in Key, value \in PutValues : ExternalPut(k, value)
  BY <1>1, <1>4 DEF LoseStore, Resume, ExternalPut
<1>5. CASE Crash \/ CheckEntry \/ FinishRecovery
  BY <1>2, <1>5 DEF Crash, CheckEntry, FinishRecovery
<1>6. CASE StartRecovery
  <2>1. /\ UNCHANGED <<files, store>> /\ mode' = "recovering"
        /\ goal' = IF goal = NoGoal THEN RecoveryOf(files, store) ELSE goal
    BY <1>6 DEF StartRecovery
  <2>2. CASE goal = NoGoal
    <3>1. RecoveryOf(files, store) \in Results
      BY FilesAreADirectory, RecoveryType DEF StoresInv
    <3> QED BY <2>1, <2>2, <3>1 DEF GoalInv
  <2>3. CASE goal # NoGoal
    BY <1>2, <2>1, <2>3
  <2> QED BY <2>2, <2>3
<1>7. CASE OpenLog
  <2>1. UNCHANGED <<files, store, goal>> /\ mode' # "up"
    BY <1>7 DEF OpenLog, Stop
  <2>2. DisjointLogs' => DisjointLogs
    BY <2>1, SameKeys
  <2> QED BY <1>7, <2>1, <2>2, OpenGoal DEF GoalInv
<1>8. CASE PutEntry
  <2>1. UNCHANGED <<files, goal>> /\ mode' # "up"
    BY <1>8 DEF PutEntry, Stop
  <2>2. DisjointLogs' => DisjointLogs
    BY <2>1, SameKeys
  <2> QED BY <1>8, <2>1, <2>2, PutGoal DEF GoalInv
<1>9. CASE UNCHANGED vars
  <2>1. UNCHANGED <<files, store, goal, mode>>
    BY <1>9 DEF vars
  <2>2. DisjointLogs' => DisjointLogs
    BY <2>1, SameKeys
  <2> QED BY <2>1, <2>2 DEF GoalInv
<1> QED BY <1>3, <1>4, <1>5, <1>6, <1>7, <1>8, <1>9 DEF Next

--------------------------------------------------------------------------------
(* The theorems.                                                             *)

\* The invariant holds at the start.
LEMMA LogInvInit == Init => LogInv
<1> SUFFICES ASSUME Init PROVE LogInv
  OBVIOUS
<1> USE DEF Init
<1>1. StoresInv
  <2>1. InitialStore \in GoodStores
    BY StoreAssumption DEF GoodStores, Absent
  <2> QED BY <2>1 DEF StoresInv
<1>2. TxnInv
  BY DEF TxnInv
<1>3. FilesInv
  <2>1. <<>> \in Seq(LineRecord) /\ <<>> \in Seq(LogEntry)
    OBVIOUS
  <2>2. KeysOnce(<<>>)
    BY DEF KeysOnce
  <2>3. FileInv(NoFile)
    BY <2>1, <2>2 DEF FileInv, FileRecord, NoFile
  <2> QED BY <2>3 DEF FilesInv
<1>4. ModeInv
  BY BoundsAssumption DEF ModeInv
<1>5. PositionInv /\ GoalInv /\ LatestInv
  BY DEF PositionInv, GoalInv, LatestInv
<1>6. RestoredInv
  BY DEF RestoredInv, Passed
<1> QED BY <1>1, <1>2, <1>3, <1>4, <1>5, <1>6 DEF LogInv

\* The invariant always holds.
LEMMA LogInvHolds == Spec => []LogInv
<1>1. LogInv /\ [Next]_vars => LogInv'
  BY StoresStep, TxnStep, FilesStep, ModeStep, PositionStep, RestoredStep, LatestStep, GoalStep
     DEF LogInv
<1> QED BY <1>1, LogInvInit, PTL DEF Spec

\* The state has its type, whatever is committed, cut, lost and recovered.
THEOREM TypeOKHolds == Spec => []TypeOK
<1>1. LogInv => TypeOK
  <2> SUFFICES ASSUME LogInv PROVE TypeOK
    OBVIOUS
  <2> USE DEF LogInv
  <2>1. store \in [Key -> VersionedValue] /\ \A b \in backups : b \in [Key -> VersionedValue]
    BY DEF StoresInv, GoodStores
  <2>2. /\ txn.task \in 0 .. TaskCount /\ txn.entries \in Seq(LogEntry)
        /\ txn.status \in {"RUNNING", "COMMITTED", "ABORTED"}
    <3>1. CASE txn = NoTxn
      <4>1. 0 \in 0 .. TaskCount
        BY TaskCountAssumption
      <4>2. <<>> \in Seq(LogEntry)
        OBVIOUS
      <4> QED BY <3>1, <4>1, <4>2 DEF NoTxn
    <3>2. CASE txn # NoTxn
      <4>1. txn \in TxnRecord
        BY <3>2 DEF TxnInv
      <4>2. Task \subseteq 0 .. TaskCount
        BY TaskCountAssumption DEF Task
      <4> QED BY <4>1, <4>2 DEF TxnRecord
    <3> QED BY <3>1, <3>2
  <2>3. DOMAIN files = Task /\ \A t \in Task : files[t].record \in Seq(LogEntry)
    BY DEF FilesInv, FileInv, FileRecord
  <2>4. log \in 1 .. (TaskCount + 1) /\ entry \in Nat
    <3>1. Len(Listed(files)) \in 0 .. TaskCount /\ TaskCount \in Nat
      BY FilesAreADirectory, LogAtType, TaskCountAssumption
    <3> QED BY <3>1 DEF PositionInv
  <2>5. missing \in BOOLEAN
    BY DEF PositionInv
  <2>6. goal = NoGoal \/ goal.store \in [Key -> VersionedValue]
    BY DEF GoalInv, Results, GoodStores
  <2> QED BY <2>1, <2>2, <2>3, <2>4, <2>5, <2>6 DEF ModeInv, TypeOK
<1> QED BY <1>1, LogInvHolds, PTL

\* What was written whole and parses is read back as it was.
LEMMA ReadBack ==
    ASSUME NEW file, FileInv(file), file.record # <<>>
    PROVE  Entries(file) = file.record
<1>1. /\ file.record \in Seq(LogEntry) /\ IsCommitted(file)
      /\ file.lines = [i \in DOMAIN file.record |-> LineOf(file.record[i])]
  BY DEF FileInv, FileRecord, IsCommitted
<1>2. ASSUME NEW i \in DOMAIN file.record
      PROVE  Parsed(file)[i] = file.record[i]
  <2> DEFINE e == file.record[i]
  <2>1. e \in LogEntry
    BY <1>1
  <2>2. e.value \in Seq(Char) /\ e = [key |-> e.key, expected_version |-> e.expected_version, value |-> e.value]
    BY <2>1 DEF LogEntry, Value
  <2>3. Unescape(FirstLine(Escape(e.value))) = e.value
    BY <2>2, EscapeIsRead, FirstLineOfOne
  <2>4. file.lines[i] = [key |-> e.key, expected_version |-> e.expected_version, text |-> Escape(e.value)]
    BY <1>1 DEF LineOf
  <2>5. Parsed(file)[i] = [key |-> e.key, expected_version |-> e.expected_version, value |-> e.value]
    BY <1>1, <2>3, <2>4 DEF Parsed
  <2> QED BY <2>2, <2>5
<1>3. Parsed(file) = [i \in DOMAIN file.record |-> Parsed(file)[i]]
  BY <1>1 DEF Parsed
<1>4. file.record = [i \in DOMAIN file.record |-> file.record[i]]
  BY <1>1
<1>5. Parsed(file) = file.record
  BY <1>2, <1>3, <1>4
<1> QED BY <1>1, <1>5 DEF Entries

\* RecoverCommittedWrites, when it returns success: every write of every log
\* that was written whole is in the store, or a later version of its key is -
\* whatever store it was given, in whatever order the tasks ran, with other
\* clients writing meanwhile.
THEOREM SuccessMeansRestoredHolds == Spec => []SuccessMeansRestored
<1>1. LogInv => SuccessMeansRestored
  <2> SUFFICES ASSUME LogInv, mode = "recovered", NEW t \in Task, NEW i \in DOMAIN files[t].record
               PROVE  RestoredIn(store, files[t].record[i])
    BY DEF SuccessMeansRestored, RestoredIn
  <2>1. FileInv(files[t]) /\ files[t].record # <<>> /\ files[t].record \in Seq(LogEntry)
    <3>1. FileInv(files[t])
      BY DEF LogInv, FilesInv
    <3>2. files[t].record \in Seq(LogEntry)
      BY <3>1 DEF FileInv, FileRecord
    <3>3. files[t].record # <<>>
      BY <3>2
    <3> QED BY <3>1, <3>2, <3>3
  <2>2. files[t].exists
    BY <2>1 DEF FileInv
  <2>3. PICK m \in 1 .. Len(Listed(files)) : Listed(files)[m] = t
    BY <2>2, ListedLogs DEF LogsOf, Task
  <2>4. EntriesAt(files, m) = files[t].record
    BY <2>1, <2>3, ReadBack DEF EntriesAt, LogAt
  <2>5. Passed(m, i) /\ m \in Nat /\ i \in Nat
    <3>1. i \in 1 .. Len(EntriesAt(files, m)) /\ i \in Nat
      BY <2>1, <2>4
    <3> QED BY <3>1 DEF Passed, Named
  <2> QED BY <2>4, <2>5 DEF LogInv, RestoredInv
<1> QED BY <1>1, LogInvHolds, PTL

\* RecoverCommittedWrites may be run again: however often it is killed and
\* started over, it comes to what one undisturbed call comes to, when no key is
\* in two logs.
THEOREM RecoveryIsRepeatableHolds == Spec => []RecoveryIsRepeatable
<1>1. LogInv => RecoveryIsRepeatable
  <2> SUFFICES ASSUME LogInv, goal # NoGoal, DisjointLogs
               PROVE  /\ mode = "recovered" => goal.success /\ store = goal.store
                      /\ mode = "stopped" => ~goal.success
    BY DEF RecoveryIsRepeatable
  <2>1. RecoveryOf(files, store) = goal /\ (mode = "stopped" => ~goal.success)
    BY DEF LogInv, GoalInv
  <2>2. ASSUME mode = "recovered"
        PROVE  RecoveryOf(files, store) = Going(store)
    <3>1. Directory(files)
      BY FilesAreADirectory DEF LogInv
    <3> QED BY <2>2, <3>1, SettledAtEnd, RecoverySettled
  <2> QED BY <2>1, <2>2 DEF Going
<1> QED BY <1>1, LogInvHolds, PTL

\* ReplayCommitLogArtifacts and RecoverCommittedWrites agree: the state rebuilt
\* from the logs alone is that of the recovered store, on every key it names.
THEOREM ReplayAgreesHolds == Spec => []ReplayAgrees
<1>1. LogInv => ReplayAgrees
  <2> SUFFICES ASSUME LogInv, mode = "recovered", goal # NoGoal, NEW k \in DOMAIN Replayed(files)
               PROVE  store[k] = Stored(Replayed(files)[k].value, Replayed(files)[k].expected_version + 1)
    BY DEF ReplayAgrees
  <2>1. /\ Directory(files)
        /\ \A m \in 1 .. Len(Listed(files)) : Parses(LogAt(files, m))
    BY FilesAreADirectory DEF LogInv, PositionInv
  <2>2. PICK m, j \in Nat :
          /\ Named(files, m, j)
          /\ Replayed(files)[k] = EntriesAt(files, m)[j] /\ EntriesAt(files, m)[j].key = k
          /\ \A p, q \in Nat :
              Named(files, p, q) /\ Newer(m, j, p, q) => EntriesAt(files, p)[q].key # k
    BY <2>1, ReplayedLatest
  <2>3. LastPassed(m, j)
    BY <2>2 DEF LastPassed, Passed
  <2>4. AlreadyApplied(store, EntriesAt(files, m)[j])
    BY <2>3 DEF LogInv, LatestInv
  <2> QED BY <2>2, <2>4 DEF AlreadyApplied
<1> QED BY <1>1, LogInvHolds, PTL
================================================================================
