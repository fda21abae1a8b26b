-------------------------- MODULE QueryStreamProofs --------------------------
(***************************************************************************)
(* That the queries runStream runs are those a single pass over the whole  *)
(* text finds, that the Lexer sees each query and the buffer the same way, *)
(* and that an interactive session discards only hopeless text: for lines  *)
(* of any length and any number of them.                                   *)
(*                                                                         *)
(* The pass reads one character at a time, so that what it makes of a text *)
(* follows by induction over the places of the text.  findSemicolon, Cut   *)
(* and tokenize go on from a place to a later one: each is the value of a  *)
(* descent (SequenceLemmas), and an invariant of its places, stated in     *)
(* terms of the pass, is handed down to the place where it stops.  What is *)
(* kept from line to line is Sound of QueryStream.                         *)
(***************************************************************************)
EXTENDS QueryStream, SequenceLemmas

-----------------------------------------------------------------------------
(* Induction over texts *)

\* What holds of a, and of each number after one it holds of, holds up to b.
LEMMA Upward ==
  ASSUME NEW S, NEW a \in Int, NEW b \in Int, a \in S,
         \A i \in a .. b - 1 : i \in S => i + 1 \in S
  PROVE  \A i \in a .. b : i \in S
<1> DEFINE Bad == {k \in Nat : k + a <= b /\ k + a \notin S}
<1>1. ASSUME Bad # {} PROVE FALSE
  <2>0. Bad \in SUBSET Nat
    OBVIOUS
  <2>1. PICK k \in Bad : \A m \in Bad : ~(m < k)
    <3> HIDE DEF Bad
    <3> QED BY <2>0, <1>1, LeastOf
  <2>2. k # 0
    BY <2>1
  <2>3. k - 1 \in Nat /\ (k - 1) + a \in a .. b - 1 /\ (k - 1) + a + 1 = k + a
    BY <2>1, <2>2
  <2>4. (k - 1) + a \in S
    BY <2>1, <2>3
  <2> QED BY <2>1, <2>3, <2>4
<1>2. \A i \in a .. b : i - a \in Nat /\ (i - a) + a = i
  OBVIOUS
<1>3. ASSUME NEW i \in a .. b, i \notin S PROVE FALSE
  <2>1. i - a \in Bad
    BY <1>2, <1>3
  <2> QED BY <2>1, <1>1
<1> QED BY <1>3

\* A text up to each of its places.
LEMMA UpToPlace ==
  ASSUME NEW S, NEW s \in Seq(S)
  PROVE  /\ SubSeq(s, 1, 0) = << >> /\ SubSeq(s, 1, Len(s)) = s
         /\ \A i \in 0 .. Len(s) : SubSeq(s, 1, i) \in Seq(S) /\ Len(SubSeq(s, 1, i)) = i
         /\ \A i \in 1 .. Len(s) : /\ s[i] \in S
                                   /\ SubSeq(s, 1, i) = Append(SubSeq(s, 1, i - 1), s[i])
<1>1. Len(s) \in Nat
  BY LenProperties
<1>2. SubSeq(s, 1, 0) = << >> /\ SubSeq(s, 1, Len(s)) = s
  BY SubSeqEmpty, SubSeqFull
<1>3. ASSUME NEW i \in 0 .. Len(s)
      PROVE  SubSeq(s, 1, i) \in Seq(S) /\ Len(SubSeq(s, 1, i)) = i
  <2>1. i \in Int /\ 1 \in Int /\ 1 <= 1 /\ 1 <= i + 1 /\ i <= Len(s) /\ i - 1 + 1 = i
    BY <1>1
  <2>2. SubSeq(s, 1, i) \in Seq(S) /\ Len(SubSeq(s, 1, i)) = i - 1 + 1
    BY <2>1, SubFacts
  <2> QED BY <2>1, <2>2
<1>4. ASSUME NEW i \in 1 .. Len(s)
      PROVE  s[i] \in S /\ SubSeq(s, 1, i) = Append(SubSeq(s, 1, i - 1), s[i])
  <2>1. s[i] \in S
    BY ElementOfSeq
  <2>2. 1 \in 1 .. Len(s) /\ i \in 1 .. Len(s) /\ i - 1 \in 0 .. Len(s)
    BY <1>1
  <2>3. SubSeq(s, 1, i) = SubSeq(s, 1, i - 1) \o <<s[i]>>
    BY <2>2, SubSeqRecursiveSecond
  <2>4. SubSeq(s, 1, i - 1) \in Seq(S)
    BY <1>3, <2>2
  <2> QED BY <2>1, <2>3, <2>4, AppendIsConcat
<1> QED BY <1>2, <1>3, <1>4

\* What holds of the empty text, and with a text of each that is longer by a
\* character, holds of all.
LEMMA TextInduction ==
  ASSUME NEW S, NEW P, << >> \in P,
         \A s \in Seq(S), c \in S : s \in P => Append(s, c) \in P
  PROVE  \A s \in Seq(S) : s \in P
<1> SUFFICES ASSUME NEW s \in Seq(S) PROVE s \in P
  OBVIOUS
<1> DEFINE Good == {i \in 0 .. Len(s) : SubSeq(s, 1, i) \in P}
<1>1. Len(s) \in Nat
  BY LenProperties
<1>2. 0 \in Good
  <2>1. SubSeq(s, 1, 0) = << >>
    BY UpToPlace
  <2>2. SubSeq(s, 1, 0) \in P
    BY <2>1, Zenon
  <2> QED BY <2>2, <1>1
<1>3. ASSUME NEW i \in 0 .. Len(s) - 1, i \in Good PROVE i + 1 \in Good
  <2>1. i + 1 \in 1 .. Len(s) /\ i + 1 \in 0 .. Len(s) /\ i \in 0 .. Len(s) /\ i + 1 - 1 = i
    BY <1>1
  <2>2. s[i + 1] \in S /\ SubSeq(s, 1, i + 1) = Append(SubSeq(s, 1, i), s[i + 1])
    BY <2>1, UpToPlace
  <2>3. SubSeq(s, 1, i) \in Seq(S)
    BY <2>1, UpToPlace
  <2> QED BY <2>1, <2>2, <2>3, <1>3
<1>4. Len(s) \in Good
  <2> HIDE DEF Good
  <2>1. 0 \in Int /\ Len(s) \in Int /\ Len(s) \in 0 .. Len(s)
    BY <1>1
  <2>2. \A i \in 0 .. Len(s) : i \in Good
    BY <2>1, <1>2, <1>3, Upward
  <2> QED BY <2>1, <2>2
<1> QED BY <1>4, UpToPlace

-----------------------------------------------------------------------------
(* One pass over a text *)

\* Where a pass begins, and the states it can come to over the characters S.
Start == [mode |-> "code", current |-> << >>, queries |-> << >>]
Modes == Plain \cup {"string", "comment"}
States(S) == [mode : Modes, current : Seq(S), queries : Seq(Seq(S))]

\* What a character does to the mode.
Turned(mode, c) ==
  CASE mode = "string" -> IF c = "quote" THEN "code" ELSE "string"
    [] mode = "comment" -> IF c = "newline" THEN "code" ELSE "comment"
    [] mode \in Plain /\ c = "quote" -> "string"
    [] mode \in Plain /\ c = "-" -> IF mode = "dash" THEN "comment" ELSE "dash"
    [] OTHER -> "code"

\* f tells the state at each place of s.
Trace(f, s) == f = [i \in 0 .. Len(s) |-> IF i = 0 THEN Start ELSE Scan(f[i - 1], s[i])]

\* The modes there are.
LEMMA TurnedModes ==
  ASSUME NEW mode \in Modes, NEW c
  PROVE  /\ Turned(mode, c) \in Modes
         /\ mode = "string" => Turned(mode, c) = IF c = "quote" THEN "code" ELSE "string"
         /\ mode = "comment" => Turned(mode, c) = IF c = "newline" THEN "code" ELSE "comment"
         /\ mode \in Plain /\ c = "quote" => Turned(mode, c) = "string"
         /\ mode \in Plain /\ c = "-"
              => Turned(mode, c) = IF mode = "dash" THEN "comment" ELSE "dash"
         /\ mode \in Plain /\ c # "quote" /\ c # "-" => Turned(mode, c) = "code"
<1>1. CASE mode = "string"
  BY <1>1 DEF Turned, Modes, Plain
<1>2. CASE mode = "comment"
  BY <1>2 DEF Turned, Modes, Plain
<1>3. CASE mode = "code"
  BY <1>3 DEF Turned, Modes, Plain
<1>4. CASE mode = "dash"
  BY <1>4 DEF Turned, Modes, Plain
<1> QED BY <1>1, <1>2, <1>3, <1>4 DEF Modes, Plain

\* A character ends a query, or belongs to the current one.
LEMMA ScanFacts ==
  ASSUME NEW S, NEW st \in States(S), NEW c \in S
  PROVE  /\ Scan(st, c) \in States(S)
         /\ st.mode \in Plain /\ c = ";" =>
              Scan(st, c) = [mode |-> "code", current |-> << >>,
                             queries |-> IF isBlank(st.current) THEN st.queries
                                         ELSE Append(st.queries, Append(st.current, c))]
         /\ ~(st.mode \in Plain /\ c = ";") =>
              Scan(st, c) = [mode |-> Turned(st.mode, c), current |-> Append(st.current, c),
                             queries |-> st.queries]
<1>1. /\ st.mode \in Modes /\ st.current \in Seq(S) /\ st.queries \in Seq(Seq(S))
      /\ st = [mode |-> st.mode, current |-> st.current, queries |-> st.queries]
  BY DEF States
<1> DEFINE now == Append(st.current, c)
<1>2. now = st.current \o <<c>> /\ now \in Seq(S)
  BY <1>1, AppendIsConcat, AppendProperties
<1>3. Append(st.queries, now) \in Seq(Seq(S)) /\ << >> \in Seq(S)
  BY <1>1, <1>2, AppendProperties, EmptySeq
<1>4. Turned(st.mode, c) \in Modes
  BY <1>1, TurnedModes
<1>5. CASE st.mode \in Plain /\ c = ";"
  <2>1. Scan(st, c) = [mode |-> "code", current |-> << >>,
                       queries |-> IF isBlank(st.current) THEN st.queries
                                   ELSE Append(st.queries, now)]
    <3> HIDE DEF now
    <3> QED BY <1>5, <1>2 DEF Scan, Plain
  <2> HIDE DEF now
  <2>2. "code" \in Modes
    BY DEF Modes, Plain
  <2>3. (IF isBlank(st.current) THEN st.queries ELSE Append(st.queries, now)) \in Seq(Seq(S))
    BY <1>1, <1>3, <1>5 DEF now
  <2>4. Scan(st, c) \in States(S)
    BY <2>1, <2>2, <2>3, <1>3 DEF States
  <2> QED BY <2>1, <2>4, <1>5 DEF now
<1>6. CASE ~(st.mode \in Plain /\ c = ";")
  <2>1. Scan(st, c) = [mode |-> Turned(st.mode, c), current |-> now, queries |-> st.queries]
    <3> HIDE DEF now
    <3> QED BY <1>6, <1>2 DEF Scan, Turned, Plain
  <2> HIDE DEF now
  <2>2. Scan(st, c) \in States(S)
    BY <2>1, <1>1, <1>2, <1>4 DEF States
  <2> QED BY <2>1, <2>2, <1>6 DEF now
<1> QED BY <1>5, <1>6

\* A trace of a text, as far as another text is the same.
LEMMA TracesAgree ==
  ASSUME NEW S, NEW s \in Seq(S), NEW t \in Seq(S), NEW f, Trace(f, s), NEW g, Trace(g, t),
         NEW n \in Nat, n <= Len(s), n <= Len(t), \A i \in 1 .. n : s[i] = t[i]
  PROVE  \A i \in 0 .. n : f[i] = g[i]
<1> DEFINE Good == {i \in 0 .. n : f[i] = g[i]}
<1>1. Len(s) \in Nat /\ Len(t) \in Nat
  BY LenProperties
<1>2. /\ \A i \in 0 .. Len(s) : f[i] = IF i = 0 THEN Start ELSE Scan(f[i - 1], s[i])
      /\ \A i \in 0 .. Len(t) : g[i] = IF i = 0 THEN Start ELSE Scan(g[i - 1], t[i])
  BY DEF Trace
<1>3. 0 \in Good
  BY <1>1, <1>2
<1>4. ASSUME NEW i \in 0 .. n - 1, i \in Good PROVE i + 1 \in Good
  <2>1. /\ i + 1 \in 0 .. Len(s) /\ i + 1 \in 0 .. Len(t) /\ i + 1 \in 0 .. n /\ i + 1 # 0
        /\ i + 1 - 1 = i /\ i + 1 \in 1 .. n
    BY <1>1
  <2>2. f[i + 1] = Scan(f[i], s[i + 1]) /\ g[i + 1] = Scan(g[i], t[i + 1])
    BY <1>2, <2>1
  <2>3. f[i] = g[i] /\ s[i + 1] = t[i + 1]
    BY <1>4, <2>1
  <2> QED BY <2>1, <2>2, <2>3
<1> HIDE DEF Good
<1>5. \A i \in 0 .. n : i \in Good
  <2>1. 0 \in Int /\ n \in Int
    OBVIOUS
  <2> QED BY <2>1, <1>3, <1>4, Upward
<1> QED BY <1>5 DEF Good

\* Each text has a trace.
LEMMA TraceExists ==
  ASSUME NEW S, NEW s \in Seq(S)
  PROVE  \E f : Trace(f, s)
<1> DEFINE Upto(k, f) == f = [i \in 0 .. k |-> IF i = 0 THEN Start ELSE Scan(f[i - 1], s[i])]
           Good == {k \in 0 .. Len(s) : \E f : Upto(k, f)}
<1>1. Len(s) \in Nat
  BY LenProperties
<1>2. 0 \in Good
  <2> DEFINE f == [i \in 0 .. 0 |-> Start]
  <2>1. f = [i \in 0 .. 0 |-> IF i = 0 THEN Start ELSE Scan(f[i - 1], s[i])]
    OBVIOUS
  <2> HIDE DEF f
  <2>2. Upto(0, f)
    BY <2>1
  <2> QED BY <1>1, <2>2
<1>3. ASSUME NEW k \in 0 .. Len(s) - 1, k \in Good PROVE k + 1 \in Good
  <2>1. PICK f : Upto(k, f)
    BY <1>3
  <2>2. k \in Nat /\ k + 1 \in 0 .. Len(s)
    BY <1>1
  <2> DEFINE g == [i \in 0 .. k + 1 |-> IF i <= k THEN f[i] ELSE Scan(f[k], s[k + 1])]
  <2>3. \A i \in 0 .. k : f[i] = IF i = 0 THEN Start ELSE Scan(f[i - 1], s[i])
    BY <2>1
  <2>4. \A i \in 0 .. k + 1 : g[i] = IF i <= k THEN f[i] ELSE Scan(f[k], s[k + 1])
    OBVIOUS
  <2>5. g = [i \in 0 .. k + 1 |-> g[i]]
    OBVIOUS
  <2> HIDE DEF g
  <2>6. ASSUME NEW i \in 0 .. k + 1
        PROVE  g[i] = IF i = 0 THEN Start ELSE Scan(g[i - 1], s[i])
    <3>1. CASE i <= k
      <4>1. i \in 0 .. k /\ g[i] = f[i] /\ (i # 0 => i - 1 \in 0 .. k + 1 /\ i - 1 <= k)
        BY <2>2, <2>4, <3>1
      <4>2. i # 0 => g[i - 1] = f[i - 1]
        BY <2>4, <4>1
      <4> QED BY <2>3, <4>1, <4>2
    <3>2. CASE ~(i <= k)
      <4>1. i = k + 1 /\ i # 0 /\ i - 1 = k /\ k \in 0 .. k + 1 /\ k <= k
        BY <2>2, <3>2
      <4>2. g[i] = Scan(f[k], s[k + 1]) /\ g[k] = f[k]
        BY <2>4, <3>2, <4>1
      <4> QED BY <4>1, <4>2
    <3> QED BY <3>1, <3>2
  <2>7. Upto(k + 1, g)
    BY <2>5, <2>6
  <2> QED BY <2>2, <2>7
<1> HIDE DEF Good
<1>4. Len(s) \in Good
  <2>1. 0 \in Int /\ Len(s) \in Int /\ Len(s) \in 0 .. Len(s)
    BY <1>1
  <2>2. \A k \in 0 .. Len(s) : k \in Good
    BY <2>1, <1>2, <1>3, Upward
  <2> QED BY <2>1, <2>2
<1> QED BY <1>4 DEF Good, Trace

\* OnePass is where the trace of a text ends.
LEMMA PassTraced ==
  ASSUME NEW S, NEW s \in Seq(S)
  PROVE  \E f : Trace(f, s) /\ OnePass(s) = f[Len(s)]
<1> DEFINE Is(f) == f = [i \in 0 .. Len(s) |->
                          IF i = 0 THEN [mode |-> "code", current |-> << >>, queries |-> << >>]
                          ELSE Scan(f[i - 1], s[i])]
<1>1. \A f : Is(f) <=> Trace(f, s)
  BY DEF Trace, Start
<1>2. OnePass(s) = (CHOOSE f : Is(f))[Len(s)]
  BY DEF OnePass
<1>3. \E f : Is(f)
  BY <1>1, TraceExists
<1> HIDE DEF Is
<1>4. Is(CHOOSE f : Is(f))
  BY <1>3
<1> QED BY <1>1, <1>2, <1>4

\* The pass starts in a state, and goes on with each character.
LEMMA PassSteps ==
  /\ OnePass(<< >>) = Start
  /\ \A S : \A s \in Seq(S), c \in S : OnePass(Append(s, c)) = Scan(OnePass(s), c)
<1>1. OnePass(<< >>) = Start
  <2>1. << >> \in Seq({}) /\ Len(<< >>) = 0
    BY EmptySeq
  <2>2. PICK f : Trace(f, << >>) /\ OnePass(<< >>) = f[Len(<< >>)]
    BY <2>1, PassTraced
  <2>3. f[0] = Start
    BY <2>1, <2>2 DEF Trace
  <2> QED BY <2>1, <2>2, <2>3
<1>2. ASSUME NEW S, NEW s \in Seq(S), NEW c \in S
      PROVE  OnePass(Append(s, c)) = Scan(OnePass(s), c)
  <2> DEFINE t == Append(s, c)
  <2>1. /\ t \in Seq(S) /\ Len(t) = Len(s) + 1 /\ t[Len(s) + 1] = c
        /\ \A i \in 1 .. Len(s) : t[i] = s[i]
    BY AppendProperties
  <2>2. Len(s) \in Nat
    BY LenProperties
  <2> HIDE DEF t
  <2>3. PICK f : Trace(f, s) /\ OnePass(s) = f[Len(s)]
    BY PassTraced
  <2>4. PICK g : Trace(g, t) /\ OnePass(t) = g[Len(t)]
    BY <2>1, PassTraced
  <2>5. Len(s) <= Len(s) /\ Len(s) <= Len(t)
    BY <2>1, <2>2
  <2>6. \A i \in 1 .. Len(s) : s[i] = t[i]
    BY <2>1
  <2>7. \A i \in 0 .. Len(s) : f[i] = g[i]
    BY <2>1, <2>2, <2>3, <2>4, <2>5, <2>6, TracesAgree
  <2>8. f[Len(s)] = g[Len(s)]
    BY <2>2, <2>7
  <2>9. g[Len(s) + 1] = Scan(g[Len(s)], t[Len(s) + 1])
    <3>1. /\ Len(s) + 1 \in 0 .. Len(t) /\ Len(s) + 1 # 0 /\ Len(s) + 1 - 1 = Len(s)
      BY <2>1, <2>2
    <3>2. \A i \in 0 .. Len(t) : g[i] = IF i = 0 THEN Start ELSE Scan(g[i - 1], t[i])
      BY <2>4 DEF Trace
    <3> QED BY <3>1, <3>2
  <2> QED BY <2>1, <2>3, <2>4, <2>8, <2>9 DEF t
<1> QED BY <1>1, <1>2

\* The states of a pass.
LEMMA PassTyped ==
  ASSUME NEW S, NEW s \in Seq(S)
  PROVE  OnePass(s) \in States(S)
<1> DEFINE P == {t \in Seq(S) : OnePass(t) \in States(S)}
<1>1. << >> \in P
  <2>1. << >> \in Seq(S) /\ << >> \in Seq(Seq(S))
    BY EmptySeq
  <2>2. Start \in States(S)
    BY <2>1 DEF Start, States, Modes, Plain
  <2> QED BY <2>1, <2>2, PassSteps
<1>2. ASSUME NEW t \in Seq(S), NEW c \in S, t \in P PROVE Append(t, c) \in P
  <2>1. Append(t, c) \in Seq(S) /\ OnePass(Append(t, c)) = Scan(OnePass(t), c)
    BY PassSteps, AppendProperties
  <2>2. OnePass(t) \in States(S)
    BY <1>2
  <2>3. Scan(OnePass(t), c) \in States(S)
    BY <2>2, ScanFacts
  <2> QED BY <2>1, <2>3
<1> HIDE DEF P
<1>3. s \in P
  BY <1>1, <1>2, TextInduction
<1> QED BY <1>3 DEF P

-----------------------------------------------------------------------------
(* White space *)

\* What is white space, and what is not.
LEMMA BlankFacts ==
  ASSUME NEW S
  PROVE  /\ isBlank(<< >>)
         /\ \A s \in Seq(S), c \in S : isBlank(Append(s, c)) <=> isBlank(s) /\ c \in Blanks
         /\ \A s, t \in Seq(S) : isBlank(s \o t) <=> isBlank(s) /\ isBlank(t)
<1>1. isBlank(<< >>)
  BY EmptySeq DEF isBlank
<1>2. ASSUME NEW s \in Seq(S), NEW c \in S
      PROVE  isBlank(Append(s, c)) <=> isBlank(s) /\ c \in Blanks
  <2> DEFINE t == Append(s, c)
  <2>1. /\ Len(t) = Len(s) + 1 /\ t[Len(s) + 1] = c
        /\ \A i \in 1 .. Len(s) : t[i] = s[i]
    BY AppendProperties
  <2>2. Len(s) \in Nat
    BY LenProperties
  <2> HIDE DEF t
  <2>3. isBlank(t) <=> isBlank(s) /\ c \in Blanks
    <3> HIDE DEF Blanks
    <3>1. \A i \in 1 .. Len(s) + 1 : i \in 1 .. Len(s) \/ i = Len(s) + 1
      BY <2>2
    <3>2. (1 .. Len(s)) \subseteq 1 .. Len(s) + 1 /\ Len(s) + 1 \in 1 .. Len(s) + 1
      BY <2>2
    <3> QED BY <2>1, <3>1, <3>2 DEF isBlank
  <2> QED BY <2>3 DEF t
<1>3. ASSUME NEW s \in Seq(S), NEW t \in Seq(S)
      PROVE  isBlank(s \o t) <=> isBlank(s) /\ isBlank(t)
  <2> DEFINE u == s \o t
  <2>1. /\ Len(u) = Len(s) + Len(t)
        /\ \A i \in 1 .. Len(s) + Len(t) : u[i] = IF i <= Len(s) THEN s[i] ELSE t[i - Len(s)]
    BY ConcatProperties
  <2>2. Len(s) \in Nat /\ Len(t) \in Nat
    BY LenProperties
  <2> HIDE DEF u
  <2>3. /\ \A i \in 1 .. Len(s) : i \in 1 .. Len(u) /\ u[i] = s[i]
        /\ \A i \in 1 .. Len(t) : Len(s) + i \in 1 .. Len(u) /\ u[Len(s) + i] = t[i]
    BY <2>1, <2>2
  <2>4. \A i \in 1 .. Len(u) : \/ i \in 1 .. Len(s)
                               \/ i - Len(s) \in 1 .. Len(t) /\ u[i] = t[i - Len(s)]
    BY <2>1, <2>2
  <2>5. isBlank(u) => isBlank(s) /\ isBlank(t)
    BY <2>3 DEF isBlank
  <2>6. isBlank(s) /\ isBlank(t) => isBlank(u)
    BY <2>3, <2>4 DEF isBlank
  <2> QED BY <2>5, <2>6 DEF u
<1> QED BY <1>1, <1>2, <1>3

\* A text that is not blank, trimmed.
LEMMA TrimmedFrom ==
  ASSUME NEW S, NEW s \in Seq(S), NEW i \in 1 .. Len(s), s[i] \notin Blanks,
         \A k \in 1 .. i - 1 : s[k] \in Blanks
  PROVE  ~isBlank(s) /\ Trimmed(s) = SubSeq(s, i, Len(s))
<1> DEFINE Is(j) == s[j] \notin Blanks /\ isBlank(SubSeq(s, 1, j - 1))
           j0 == CHOOSE j \in 1 .. Len(s) : Is(j)
<1>1. Len(s) \in Nat
  BY LenProperties
<1>2. ~isBlank(s)
  BY DEF isBlank
<1>3. ASSUME NEW j \in 1 .. Len(s)
      PROVE  isBlank(SubSeq(s, 1, j - 1)) <=> \A k \in 1 .. j - 1 : s[k] \in Blanks
  <2>1. 1 \in Int /\ j - 1 \in Int /\ 1 <= 1 /\ 1 <= j - 1 + 1 /\ j - 1 <= Len(s)
    BY <1>1
  <2>2. /\ Len(SubSeq(s, 1, j - 1)) = j - 1 - 1 + 1
        /\ \A k \in 1 .. j - 1 - 1 + 1 : SubSeq(s, 1, j - 1)[k] = s[1 + k - 1]
    BY <2>1, SubFacts
  <2>3. /\ Len(SubSeq(s, 1, j - 1)) = j - 1
        /\ \A k \in 1 .. j - 1 : SubSeq(s, 1, j - 1)[k] = s[k]
    BY <2>1, <2>2
  <2> QED BY <2>3 DEF isBlank
<1>4. Is(i)
  BY <1>3
<1>5. j0 \in 1 .. Len(s) /\ Is(j0)
  <2> HIDE DEF Is
  <2> QED BY <1>4
<1>6. j0 = i
  <2> HIDE DEF j0, Blanks
  <2>1. ~(j0 < i)
    <3>1. j0 < i => j0 \in 1 .. i - 1
      BY <1>5
    <3> QED BY <3>1, <1>5
  <2>2. ~(i < j0)
    <3>1. i < j0 => i \in 1 .. j0 - 1
      BY <1>5
    <3> QED BY <3>1, <1>5, <1>3
  <2> QED BY <1>5, <2>1, <2>2
<1>7. Trimmed(s) = SubSeq(s, j0, Len(s))
  BY <1>2 DEF Trimmed
<1> HIDE DEF j0
<1> QED BY <1>2, <1>6, <1>7

\* White space before a text is trimmed.
LEMMA TrimmedBlank ==
  ASSUME NEW S, NEW w \in Seq(S), NEW s \in Seq(S), isBlank(w)
  PROVE  Trimmed(w \o s) = Trimmed(s)
<1> DEFINE u == w \o s
<1>0. u \in Seq(S)
  BY ConcatProperties
<1>1. CASE isBlank(s)
  <2>1. isBlank(u)
    BY <1>1, BlankFacts
  <2> QED BY <2>1, <1>1 DEF Trimmed
<1>2. CASE ~isBlank(s)
  <2>1. Len(w) \in Nat /\ Len(s) \in Nat
    BY LenProperties
  <2> DEFINE F == {i \in 1 .. Len(s) : s[i] \notin Blanks}
  <2>2. F # {} /\ F \in SUBSET Nat
    BY <1>2, <2>1 DEF isBlank
  <2>3. PICK i \in F : \A m \in F : ~(m < i)
    <3> HIDE DEF F
    <3> QED BY <2>2, LeastOf
  <2>4. i \in 1 .. Len(s) /\ s[i] \notin Blanks /\ \A k \in 1 .. i - 1 : s[k] \in Blanks
    <3> HIDE DEF Blanks
    <3>1. i \in 1 .. Len(s) /\ s[i] \notin Blanks
      BY <2>3
    <3>2. \A k \in 1 .. i - 1 : k \in 1 .. Len(s) /\ k < i
      BY <2>1, <3>1
    <3> QED BY <2>3, <3>1, <3>2
  <2>5. /\ Len(u) = Len(w) + Len(s)
        /\ \A k \in 1 .. Len(w) + Len(s) : u[k] = IF k <= Len(w) THEN w[k] ELSE s[k - Len(w)]
    BY ConcatProperties
  <2> HIDE DEF u, F
  <2> DEFINE n == Len(w) + i
  <2>6. n \in 1 .. Len(u) /\ u[n] = s[i]
    <3>1. /\ n \in 1 .. Len(u) /\ n \in 1 .. Len(w) + Len(s)
          /\ ~(n <= Len(w)) /\ n - Len(w) = i
      BY <2>1, <2>4, <2>5
    <3> HIDE DEF n
    <3> QED BY <2>5, <3>1
  <2>7. \A k \in 1 .. n - 1 : u[k] \in Blanks
    <3> HIDE DEF Blanks
    <3> TAKE k \in 1 .. n - 1
    <3>1. CASE k <= Len(w)
      <4>1. k \in 1 .. Len(w) /\ k \in 1 .. Len(w) + Len(s)
        BY <2>1, <3>1
      <4>2. w[k] \in Blanks
        BY <4>1 DEF isBlank
      <4> QED BY <2>5, <3>1, <4>1, <4>2
    <3>2. CASE ~(k <= Len(w))
      <4>1. k - Len(w) \in 1 .. i - 1 /\ k \in 1 .. Len(w) + Len(s)
        BY <2>1, <2>4, <3>2
      <4> QED BY <2>4, <2>5, <3>2, <4>1
    <3> QED BY <3>1, <3>2
  <2>8. Trimmed(s) = SubSeq(s, i, Len(s))
    <3> HIDE DEF Blanks
    <3> QED BY <2>4, TrimmedFrom
  <2>9. Trimmed(u) = SubSeq(u, n, Len(u))
    <3> HIDE DEF Blanks, n
    <3>1. u[n] \notin Blanks
      BY <2>4, <2>6
    <3> QED BY <1>0, <2>6, <2>7, <3>1, TrimmedFrom
  <2>10. SubSeq(u, n, Len(u)) = SubSeq(s, i, Len(s))
    <3>1. /\ n \in Len(w) + 1 .. Len(w) + Len(s) /\ Len(u) \in Len(w) + 1 .. Len(w) + Len(s)
          /\ n - Len(w) = i /\ Len(u) - Len(w) = Len(s)
      BY <2>1, <2>4, <2>5
    <3> HIDE DEF n
    <3>2. SubSeq(u, n, Len(u)) = SubSeq(s, n - Len(w), Len(u) - Len(w))
      BY <3>1, SubSeqOfConcat2 DEF u
    <3> QED BY <3>1, <3>2
  <2> QED BY <2>8, <2>9, <2>10 DEF u
<1> QED BY <1>1, <1>2

-----------------------------------------------------------------------------
(* What a pass leaves *)

\* A text that is one character longer.
LEMMA LongerText ==
  ASSUME NEW S, NEW s \in Seq(S), NEW c \in S
  PROVE  /\ Append(s, c) \in Seq(S) /\ Append(s, c) # << >>
         /\ Append(s, c)[Len(Append(s, c))] = c /\ Front(Append(s, c)) = s
<1> DEFINE t == Append(s, c)
<1>1. /\ t \in Seq(S) /\ t # << >> /\ Len(t) = Len(s) + 1 /\ t[Len(s) + 1] = c
      /\ \A i \in 1 .. Len(s) : t[i] = s[i]
  BY AppendProperties
<1>2. Len(s) \in Nat
  BY LenProperties
<1> HIDE DEF t
<1>3. /\ Front(t) \in Seq(S) /\ Len(Front(t)) = Len(t) - 1
      /\ \A i \in 1 .. Len(t) - 1 : Front(t)[i] = t[i]
  BY <1>1, FrontFacts
<1>4. Len(Front(t)) = Len(s) /\ \A i \in 1 .. Len(s) : Front(t)[i] = s[i]
  BY <1>1, <1>2, <1>3
<1>5. Front(t) = s
  BY <1>3, <1>4, SeqEqual
<1> QED BY <1>1, <1>5 DEF t

\* A character at the end of two texts, one after the other.
LEMMA AppendBehind ==
  ASSUME NEW S, NEW s \in Seq(S), NEW t \in Seq(S), NEW c \in S,
         NEW u, u = Append(s \o t, c)
  PROVE  u = s \o Append(t, c)
<1>1. /\ Append(t, c) \in Seq(S) /\ s \o t \in Seq(S) /\ <<c>> \in Seq(S)
      /\ Append(t, c) = t \o <<c>>
  BY AppendProperties, AppendIsConcat, ConcatProperties
<1>2. u = (s \o t) \o <<c>>
  BY <1>1, AppendIsConcat
<1>3. PICK e : e = <<c>>
  OBVIOUS
<1>4. e \in Seq(S)
  BY <1>1, <1>3
<1>5. (s \o t) \o e = s \o (t \o e)
  BY <1>4, ConcatAssociative
<1> QED BY <1>1, <1>2, <1>3, <1>5, Zenon

\* What is current is the end of the text, behind the last query; what was
\* before does not matter to it.
LEMMA PassParts ==
  ASSUME NEW S, NEW s \in Seq(S)
  PROVE  /\ \E done \in Seq(S) :
              /\ s = done \o OnePass(s).current
              /\ OnePass(done) = [mode |-> "code", current |-> << >>,
                                  queries |-> OnePass(s).queries]
         /\ OnePass(OnePass(s).current)
              = [mode |-> OnePass(s).mode, current |-> OnePass(s).current, queries |-> << >>]
         /\ \A i \in 1 .. Len(OnePass(s).queries) : Closed(OnePass(s).queries[i])
<1> DEFINE Parts(t, st) ==
             /\ \E done \in Seq(S) :
                  /\ t = done \o st.current
                  /\ OnePass(done) = [mode |-> "code", current |-> << >>,
                                      queries |-> st.queries]
             /\ OnePass(st.current)
                  = [mode |-> st.mode, current |-> st.current, queries |-> << >>]
             /\ \A i \in 1 .. Len(st.queries) : Closed(st.queries[i])
           P == {t \in Seq(S) : Parts(t, OnePass(t))}
<1>1. << >> \in P
  <2>1. << >> \in Seq(S) /\ << >> = << >> \o << >> /\ Len(<< >>) = 0
    BY EmptySeq, ConcatEmptySeq
  <2>2. OnePass(<< >>) = Start
    BY PassSteps
  <2>3. Start.mode = "code" /\ Start.current = << >> /\ Start.queries = << >>
    BY DEF Start
  <2>4. OnePass(<< >>) = [mode |-> "code", current |-> << >>, queries |-> << >>]
    BY <2>2 DEF Start
  <2>5. Parts(<< >>, Start)
    <3>1. \E done \in Seq(S) :
            /\ << >> = done \o Start.current
            /\ OnePass(done) = [mode |-> "code", current |-> << >>, queries |-> Start.queries]
      <4>1. /\ << >> = << >> \o Start.current
            /\ OnePass(<< >>) = [mode |-> "code", current |-> << >>, queries |-> Start.queries]
        BY <2>1, <2>3, <2>4
      <4> QED BY <2>1, <4>1
    <3>2. OnePass(Start.current)
            = [mode |-> Start.mode, current |-> Start.current, queries |-> << >>]
      BY <2>3, <2>4
    <3>3. \A i \in 1 .. Len(Start.queries) : Closed(Start.queries[i])
      <4>1. Len(Start.queries) = 0
        BY <2>1, <2>3
      <4> QED BY <4>1
    <3> QED BY <3>1, <3>2, <3>3
  <2> HIDE DEF Parts
  <2> QED BY <2>1, <2>2, <2>5
<1>2. ASSUME NEW t \in Seq(S), NEW c \in S, t \in P PROVE Append(t, c) \in P
  <2> DEFINE u == Append(t, c)
             st == OnePass(t)
             now == Append(st.current, c)
             next == Scan(st, c)
  <2>1. u \in Seq(S) /\ OnePass(u) = next
    BY PassSteps, AppendProperties
  <2>2. st \in States(S) /\ Parts(t, st)
    BY <1>2, PassTyped
  <2>3. st.mode \in Modes /\ st.current \in Seq(S) /\ st.queries \in Seq(Seq(S))
    BY <2>2 DEF States
  <2>4. PICK done \in Seq(S) : /\ t = done \o st.current
                               /\ OnePass(done) = [mode |-> "code", current |-> << >>,
                                                   queries |-> st.queries]
    BY <2>2
  <2>5. now \in Seq(S) /\ u = done \o now
    <3>1. now \in Seq(S)
      BY <2>3, AppendProperties
    <3>2. PICK y : y = st.current
      OBVIOUS
    <3>3. y \in Seq(S) /\ t = done \o y
      BY <2>3, <2>4, <3>2
    <3>4. u = done \o Append(y, c)
      <4>1. u = Append(done \o y, c)
        BY <3>3
      <4> HIDE DEF u
      <4> QED BY <3>3, <4>1, AppendBehind
    <3> QED BY <3>1, <3>2, <3>4
  <2> HIDE DEF Parts
  <2>6. CASE st.mode \in Plain /\ c = ";"
    <3>1. next = [mode |-> "code", current |-> << >>,
                  queries |-> IF isBlank(st.current) THEN st.queries
                              ELSE Append(st.queries, now)]
      BY <2>2, <2>6, ScanFacts
    <3>2. next.mode = "code" /\ next.current = << >>
      BY <3>1
    <3>3. next = [mode |-> "code", current |-> << >>, queries |-> next.queries]
      BY <3>1
    <3>4. u = u \o << >>
      BY <2>1, ConcatEmptySeq
    <3>5. OnePass(<< >>) = [mode |-> "code", current |-> << >>, queries |-> << >>]
      BY PassSteps DEF Start
    <3>6. \A i \in 1 .. Len(st.queries) : Closed(st.queries[i])
      BY <2>2 DEF Parts
    <3>7. Closed(now)
      <4>1. /\ now # << >> /\ now[Len(now)] = c /\ Front(now) = st.current
        BY <2>3, LongerText
      <4>2. OnePass(st.current)
              = [mode |-> st.mode, current |-> st.current, queries |-> << >>]
        BY <2>2 DEF Parts
      <4>3. OnePass(st.current).mode = st.mode /\ OnePass(st.current).current = st.current
        BY <4>2
      <4> HIDE DEF now, st
      <4> QED BY <2>6, <4>1, <4>3 DEF Closed, Open
    <3>8. \A i \in 1 .. Len(next.queries) : Closed(next.queries[i])
      <4> HIDE DEF now, st
      <4>1. next.queries = IF isBlank(st.current) THEN st.queries ELSE Append(st.queries, now)
        BY <3>1
      <4> HIDE DEF next
      <4>2. CASE isBlank(st.current)
        BY <4>1, <4>2, <3>6
      <4>3. CASE ~isBlank(st.current)
        <5>1. /\ next.queries = Append(st.queries, now)
              /\ Len(next.queries) = Len(st.queries) + 1
              /\ \A i \in 1 .. Len(st.queries) : next.queries[i] = st.queries[i]
              /\ next.queries[Len(st.queries) + 1] = now
          BY <2>3, <2>5, <4>1, <4>3, AppendProperties
        <5>2. Len(st.queries) \in Nat
          BY <2>3, LenProperties
        <5>3. \A i \in 1 .. Len(next.queries) :
                i \in 1 .. Len(st.queries) \/ i = Len(st.queries) + 1
          BY <5>1, <5>2
        <5> QED BY <5>1, <5>3, <3>6, <3>7
      <4> QED BY <4>2, <4>3
    <3>9. Parts(u, next)
      <4> HIDE DEF u, next
      <4> QED BY <2>1, <3>2, <3>3, <3>4, <3>5, <3>8 DEF Parts
    <3> QED BY <2>1, <3>9
  <2>7. CASE ~(st.mode \in Plain /\ c = ";")
    <3> DEFINE m == Turned(st.mode, c)
    <3>1. next = [mode |-> m, current |-> now, queries |-> st.queries]
      BY <2>2, <2>7, ScanFacts
    <3>2. next.mode = m /\ next.current = now /\ next.queries = st.queries
      BY <3>1
    <3>3. OnePass(st.current)
            = [mode |-> st.mode, current |-> st.current, queries |-> << >>]
      BY <2>2 DEF Parts
    <3> DEFINE alone == [mode |-> st.mode, current |-> st.current, queries |-> << >>]
    <3>4. alone \in States(S) /\ alone.mode = st.mode /\ alone.current = st.current
                              /\ alone.queries = << >>
      <4>1. << >> \in Seq(Seq(S))
        BY EmptySeq
      <4> HIDE DEF st
      <4> QED BY <2>3, <4>1 DEF States
    <3>5. OnePass(now) = Scan(OnePass(st.current), c)
      BY <2>3, PassSteps
    <3> HIDE DEF alone
    <3>6. Scan(alone, c) = [mode |-> m, current |-> now, queries |-> << >>]
      <4>1. Scan(alone, c) = [mode |-> Turned(alone.mode, c), current |-> Append(alone.current, c),
                              queries |-> alone.queries]
        BY <2>7, <3>4, ScanFacts
      <4> QED BY <3>4, <4>1
    <3>7. OnePass(now) = [mode |-> m, current |-> now, queries |-> << >>]
      BY <3>3, <3>5, <3>6 DEF alone
    <3>8. \A i \in 1 .. Len(st.queries) : Closed(st.queries[i])
      BY <2>2 DEF Parts
    <3>9. Parts(u, next)
      <4> HIDE DEF u, next, m, now, st
      <4> QED BY <2>4, <2>5, <3>2, <3>7, <3>8 DEF Parts
    <3> QED BY <2>1, <3>9
  <2> QED BY <2>6, <2>7
<1> HIDE DEF P
<1>3. s \in P
  BY <1>1, <1>2, TextInduction
<1> QED BY <1>3 DEF P

-----------------------------------------------------------------------------
(* A pass that goes on where another ended *)

\* Queries that are the same but for white space, with one more each.
LEMMA SameAppend ==
  ASSUME NEW S, NEW s \in Seq(S), NEW t \in Seq(S), SameQueries(s, t),
         NEW a \in S, NEW b \in S, Trimmed(a) = Trimmed(b)
  PROVE  SameQueries(Append(s, a), Append(t, b))
<1> DEFINE u == Append(s, a)
           v == Append(t, b)
<1>1. /\ Len(u) = Len(s) + 1 /\ u[Len(s) + 1] = a /\ \A i \in 1 .. Len(s) : u[i] = s[i]
      /\ Len(v) = Len(t) + 1 /\ v[Len(t) + 1] = b /\ \A i \in 1 .. Len(t) : v[i] = t[i]
  BY AppendProperties
<1>2. Len(s) \in Nat /\ Len(s) = Len(t) /\ \A i \in 1 .. Len(s) : Trimmed(s[i]) = Trimmed(t[i])
  BY LenProperties DEF SameQueries
<1> HIDE DEF u, v
<1>3. \A i \in 1 .. Len(u) : i \in 1 .. Len(s) \/ i = Len(s) + 1
  BY <1>1, <1>2
<1>4. Len(u) = Len(v) /\ \A i \in 1 .. Len(u) : Trimmed(u[i]) = Trimmed(v[i])
  <2>1. \A i \in 1 .. Len(s) : Trimmed(u[i]) = Trimmed(v[i])
    BY <1>1, <1>2
  <2>2. Trimmed(u[Len(s) + 1]) = Trimmed(v[Len(s) + 1])
    BY <1>1, <1>2
  <2> QED BY <1>1, <1>2, <1>3, <2>1, <2>2
<1> QED BY <1>4 DEF SameQueries, u, v

\* The same, with the same queries behind.
LEMMA SameConcat ==
  ASSUME NEW S, NEW s \in Seq(S), NEW t \in Seq(S), SameQueries(s, t), NEW more \in Seq(S)
  PROVE  SameQueries(s \o more, t \o more)
<1> DEFINE u == s \o more
           v == t \o more
<1>1. /\ Len(u) = Len(s) + Len(more)
      /\ \A i \in 1 .. Len(s) + Len(more) : u[i] = IF i <= Len(s) THEN s[i] ELSE more[i - Len(s)]
      /\ Len(v) = Len(t) + Len(more)
      /\ \A i \in 1 .. Len(t) + Len(more) : v[i] = IF i <= Len(t) THEN t[i] ELSE more[i - Len(t)]
  BY ConcatProperties
<1>2. /\ Len(s) \in Nat /\ Len(more) \in Nat /\ Len(s) = Len(t)
      /\ \A i \in 1 .. Len(s) : Trimmed(s[i]) = Trimmed(t[i])
  BY LenProperties DEF SameQueries
<1> HIDE DEF u, v
<1>3. ASSUME NEW i \in 1 .. Len(u) PROVE Trimmed(u[i]) = Trimmed(v[i])
  <2>1. i \in 1 .. Len(s) + Len(more) /\ (i <= Len(s) => i \in 1 .. Len(s))
    BY <1>1, <1>2
  <2>2. CASE i <= Len(s)
    BY <1>1, <1>2, <2>1, <2>2
  <2>3. CASE ~(i <= Len(s))
    BY <1>1, <1>2, <2>1, <2>3
  <2> QED BY <2>2, <2>3
<1> QED BY <1>1, <1>2, <1>3 DEF SameQueries, u, v

\* a is the state b behind the queries qs and white space.
Follows(a, b, qs, S) ==
  /\ a.mode = b.mode
  /\ \E w \in Seq(S) : isBlank(w) /\ a.current = w \o b.current
  /\ SameQueries(a.queries, qs \o b.queries)

\* A text that starts where a pass is outside of strings and comments, and has
\* nothing but white space behind the last query, is read as if it was alone.
LEMMA PassGoesOn ==
  ASSUME NEW S, NEW s \in Seq(S), NEW t \in Seq(S),
         OnePass(s).mode = "code", isBlank(OnePass(s).current)
  PROVE  Follows(OnePass(s \o t), OnePass(t), OnePass(s).queries, S)
<1> DEFINE qs == OnePass(s).queries
           P == {x \in Seq(S) : Follows(OnePass(s \o x), OnePass(x), qs, S)}
<1>0. OnePass(s).current \in Seq(S) /\ qs \in Seq(Seq(S))
  BY PassTyped DEF States
<1>1. << >> \in P
  <2>1. << >> \in Seq(S) /\ s \o << >> = s
    BY EmptySeq, ConcatEmptySeq
  <2>2. OnePass(<< >>).mode = "code" /\ OnePass(<< >>).current = << >>
          /\ OnePass(<< >>).queries = << >>
    BY PassSteps DEF Start
  <2>3. OnePass(s).current = OnePass(s).current \o << >> /\ qs = qs \o << >>
    BY <1>0, ConcatEmptySeq
  <2>4. SameQueries(qs, qs)
    BY DEF SameQueries
  <2> HIDE DEF qs
  <2>5. SameQueries(OnePass(s).queries, qs \o OnePass(<< >>).queries)
    BY <2>2, <2>3, <2>4 DEF qs
  <2>6. OnePass(s).current = OnePass(s).current \o OnePass(<< >>).current
    BY <2>2, <2>3
  <2>7. Follows(OnePass(s), OnePass(<< >>), qs, S)
    BY <1>0, <2>2, <2>5, <2>6 DEF Follows
  <2> QED BY <2>1, <2>7
<1>2. ASSUME NEW x \in Seq(S), NEW c \in S, x \in P PROVE Append(x, c) \in P
  <2> DEFINE a == OnePass(s \o x)
             b == OnePass(x)
  <2>1. s \o x \in Seq(S) /\ s \o Append(x, c) = Append(s \o x, c) /\ Append(x, c) \in Seq(S)
    <3>1. s \o x \in Seq(S) /\ Append(x, c) \in Seq(S)
      BY ConcatProperties, AppendProperties
    <3>2. PICK u : u = Append(s \o x, c)
      OBVIOUS
    <3>3. u = s \o Append(x, c)
      BY <3>2, AppendBehind
    <3> QED BY <3>1, <3>2, <3>3, Zenon
  <2>2. OnePass(s \o Append(x, c)) = Scan(a, c) /\ OnePass(Append(x, c)) = Scan(b, c)
    BY <2>1, PassSteps
  <2>3. a \in States(S) /\ b \in States(S) /\ Follows(a, b, qs, S)
    BY <2>1, <1>2, PassTyped
  <2> HIDE DEF a, b, qs
  <2>4. /\ a.mode \in Modes /\ a.current \in Seq(S) /\ a.queries \in Seq(Seq(S))
        /\ b.mode \in Modes /\ b.current \in Seq(S) /\ b.queries \in Seq(Seq(S))
    BY <2>3 DEF States
  <2>5. a.mode = b.mode /\ SameQueries(a.queries, qs \o b.queries)
    BY <2>3 DEF Follows
  <2>6. PICK w \in Seq(S) : isBlank(w) /\ a.current = w \o b.current
    BY <2>3 DEF Follows
  <2> DEFINE na == Append(a.current, c)
             nb == Append(b.current, c)
  <2>7. na \in Seq(S) /\ nb \in Seq(S) /\ na = w \o nb
    <3>1. PICK y : y = b.current
      OBVIOUS
    <3>2. y \in Seq(S) /\ Append(y, c) \in Seq(S) /\ Append(a.current, c) \in Seq(S)
      BY <2>4, <3>1, AppendProperties
    <3>3. na = Append(w \o y, c)
      BY <2>6, <3>1
    <3> HIDE DEF na
    <3>4. na = w \o Append(y, c)
      BY <3>2, <3>3, AppendBehind
    <3> QED BY <3>1, <3>2, <3>4 DEF na
  <2>8. CASE a.mode \in Plain /\ c = ";"
    <3>1. /\ Scan(a, c) = [mode |-> "code", current |-> << >>,
                           queries |-> IF isBlank(a.current) THEN a.queries
                                       ELSE Append(a.queries, na)]
          /\ Scan(b, c) = [mode |-> "code", current |-> << >>,
                           queries |-> IF isBlank(b.current) THEN b.queries
                                       ELSE Append(b.queries, nb)]
      BY <2>3, <2>5, <2>8, ScanFacts
    <3> HIDE DEF na, nb
    <3>2. isBlank(a.current) <=> isBlank(b.current)
      BY <2>4, <2>6, BlankFacts
    <3>3. Trimmed(na) = Trimmed(nb)
      BY <2>6, <2>7, TrimmedBlank
    <3>4. SameQueries(Scan(a, c).queries, qs \o Scan(b, c).queries)
      <4>1. CASE isBlank(a.current)
        <5>1. Scan(a, c).queries = a.queries /\ Scan(b, c).queries = b.queries
          BY <3>1, <3>2, <4>1
        <5> QED BY <5>1, <2>5
      <4>2. CASE ~isBlank(a.current)
        <5>1. Scan(a, c).queries = Append(a.queries, na)
                /\ Scan(b, c).queries = Append(b.queries, nb)
          BY <3>1, <3>2, <4>2
        <5>2. PICK y : y = b.queries
          OBVIOUS
        <5>3. y \in Seq(Seq(S)) /\ qs \in Seq(Seq(S))
          BY <2>4, <5>2, <1>0
        <5>4. qs \o y \in Seq(Seq(S))
          BY <5>3, ConcatProperties
        <5>5. PICK z : z = Append(qs \o y, nb)
          OBVIOUS
        <5>6. z = qs \o Append(y, nb)
          BY <2>7, <5>3, <5>5, AppendBehind
        <5>7. PICK q : q = a.queries
          OBVIOUS
        <5>8. q \in Seq(Seq(S)) /\ SameQueries(q, qs \o y)
          BY <2>4, <2>5, <5>2, <5>7
        <5>9. SameQueries(Append(q, na), Append(qs \o y, nb))
          BY <2>7, <3>3, <5>4, <5>8, SameAppend
        <5> QED BY <5>1, <5>2, <5>5, <5>6, <5>7, <5>9, Zenon
      <4> QED BY <4>1, <4>2
    <3>5. Scan(a, c).mode = Scan(b, c).mode /\ Scan(a, c).current = << >>
            /\ Scan(b, c).current = << >>
      BY <3>1
    <3>6. << >> \in Seq(S) /\ isBlank(<< >>) /\ << >> = << >> \o << >>
      BY EmptySeq, BlankFacts, ConcatEmptySeq
    <3>7. \E w2 \in Seq(S) : isBlank(w2) /\ Scan(a, c).current = w2 \o Scan(b, c).current
      BY <3>5, <3>6
    <3>8. Follows(Scan(a, c), Scan(b, c), qs, S)
      BY <3>4, <3>5, <3>7 DEF Follows
    <3> QED BY <2>1, <2>2, <3>8
  <2>9. CASE ~(a.mode \in Plain /\ c = ";")
    <3>1. /\ Scan(a, c) = [mode |-> Turned(a.mode, c), current |-> na, queries |-> a.queries]
          /\ Scan(b, c) = [mode |-> Turned(b.mode, c), current |-> nb, queries |-> b.queries]
      BY <2>3, <2>5, <2>9, ScanFacts
    <3> HIDE DEF na, nb
    <3>2. /\ Scan(a, c).mode = Turned(a.mode, c) /\ Scan(b, c).mode = Turned(b.mode, c)
          /\ Scan(a, c).current = na /\ Scan(b, c).current = nb
          /\ Scan(a, c).queries = a.queries /\ Scan(b, c).queries = b.queries
      BY <3>1
    <3>3. \E w2 \in Seq(S) : isBlank(w2) /\ Scan(a, c).current = w2 \o Scan(b, c).current
      BY <2>6, <2>7, <3>2
    <3>4. Scan(a, c).mode = Scan(b, c).mode
            /\ SameQueries(Scan(a, c).queries, qs \o Scan(b, c).queries)
      BY <2>5, <3>2
    <3>5. Follows(Scan(a, c), Scan(b, c), qs, S)
      BY <3>3, <3>4 DEF Follows
    <3> QED BY <2>1, <2>2, <3>5
  <2> QED BY <2>8, <2>9
<1> HIDE DEF P
<1>3. t \in P
  BY <1>1, <1>2, TextInduction
<1> QED BY <1>3 DEF P

\* Behind the end of a query nothing of what was before is left.
LEMMA PassStartsAnew ==
  ASSUME NEW S, NEW s \in Seq(S), NEW t \in Seq(S),
         OnePass(s).mode = "code", OnePass(s).current = << >>
  PROVE  OnePass(s \o t) = [mode |-> OnePass(t).mode, current |-> OnePass(t).current,
                            queries |-> OnePass(s).queries \o OnePass(t).queries]
<1> DEFINE qs == OnePass(s).queries
           After(st) == [mode |-> st.mode, current |-> st.current, queries |-> qs \o st.queries]
           P == {x \in Seq(S) : OnePass(s \o x) = After(OnePass(x))}
<1>0. OnePass(s) \in States(S) /\ qs \in Seq(Seq(S))
  BY PassTyped DEF States
<1>1. << >> \in P
  <2>1. << >> \in Seq(S) /\ s \o << >> = s
    BY EmptySeq, ConcatEmptySeq
  <2>2. OnePass(<< >>).mode = "code" /\ OnePass(<< >>).current = << >>
          /\ OnePass(<< >>).queries = << >>
    BY PassSteps DEF Start
  <2>3. qs = qs \o << >>
    BY <1>0, ConcatEmptySeq
  <2>4. OnePass(s) = [mode |-> "code", current |-> << >>, queries |-> qs]
    BY <1>0 DEF States
  <2> HIDE DEF qs
  <2>5. After(OnePass(<< >>)) = [mode |-> "code", current |-> << >>, queries |-> qs]
    BY <2>2, <2>3
  <2> HIDE DEF After
  <2> QED BY <2>1, <2>4, <2>5
<1>2. ASSUME NEW x \in Seq(S), NEW c \in S, x \in P PROVE Append(x, c) \in P
  <2> DEFINE a == OnePass(s \o x)
             b == OnePass(x)
  <2>1. s \o x \in Seq(S) /\ s \o Append(x, c) = Append(s \o x, c) /\ Append(x, c) \in Seq(S)
    <3>1. s \o x \in Seq(S) /\ Append(x, c) \in Seq(S)
      BY ConcatProperties, AppendProperties
    <3>2. PICK u : u = Append(s \o x, c)
      OBVIOUS
    <3>3. u = s \o Append(x, c)
      BY <3>2, AppendBehind
    <3> QED BY <3>1, <3>2, <3>3, Zenon
  <2>2. OnePass(s \o Append(x, c)) = Scan(a, c) /\ OnePass(Append(x, c)) = Scan(b, c)
    BY <2>1, PassSteps
  <2>3. a \in States(S) /\ b \in States(S) /\ a = After(b)
    BY <2>1, <1>2, PassTyped
  <2> HIDE DEF a, b, qs
  <2>4. /\ b.mode \in Modes /\ b.current \in Seq(S) /\ b.queries \in Seq(Seq(S))
        /\ a.mode = b.mode /\ a.current = b.current /\ a.queries = qs \o b.queries
    BY <2>3 DEF States
  <2> DEFINE nb == Append(b.current, c)
  <2>5. nb \in Seq(S)
    BY <2>4, AppendProperties
  <2>6. CASE a.mode \in Plain /\ c = ";"
    <3>1. /\ Scan(a, c) = [mode |-> "code", current |-> << >>,
                           queries |-> IF isBlank(b.current) THEN a.queries
                                       ELSE Append(a.queries, nb)]
          /\ Scan(b, c) = [mode |-> "code", current |-> << >>,
                           queries |-> IF isBlank(b.current) THEN b.queries
                                       ELSE Append(b.queries, nb)]
      BY <2>3, <2>4, <2>6, ScanFacts
    <3> HIDE DEF nb
    <3>2. Append(qs \o b.queries, nb) = qs \o Append(b.queries, nb)
      <4>1. PICK y : y = b.queries
        OBVIOUS
      <4>2. y \in Seq(Seq(S)) /\ qs \in Seq(Seq(S))
        BY <2>4, <4>1, <1>0
      <4>3. PICK z : z = Append(qs \o y, nb)
        OBVIOUS
      <4>4. z = qs \o Append(y, nb)
        BY <2>5, <4>2, <4>3, AppendBehind
      <4> QED BY <4>1, <4>3, <4>4, Zenon
    <3>3. Scan(a, c).queries = qs \o Scan(b, c).queries
      <4>1. CASE isBlank(b.current)
        BY <2>4, <3>1, <4>1
      <4>2. CASE ~isBlank(b.current)
        <5>1. Scan(a, c).queries = Append(a.queries, nb)
                /\ Scan(b, c).queries = Append(b.queries, nb)
          BY <3>1, <4>2
        <5> QED BY <5>1, <2>4, <3>2
      <4> QED BY <4>1, <4>2
    <3>4. /\ Scan(a, c) = [mode |-> "code", current |-> << >>, queries |-> Scan(a, c).queries]
          /\ Scan(b, c).mode = "code" /\ Scan(b, c).current = << >>
      BY <3>1
    <3>5. Scan(a, c) = After(Scan(b, c))
      BY <3>3, <3>4
    <3> HIDE DEF After
    <3> QED BY <2>1, <2>2, <3>5
  <2>7. CASE ~(a.mode \in Plain /\ c = ";")
    <3>1. /\ Scan(a, c) = [mode |-> Turned(b.mode, c), current |-> nb, queries |-> a.queries]
          /\ Scan(b, c) = [mode |-> Turned(b.mode, c), current |-> nb, queries |-> b.queries]
      BY <2>3, <2>4, <2>7, ScanFacts
    <3> HIDE DEF nb
    <3>2. /\ Scan(b, c).mode = Turned(b.mode, c) /\ Scan(b, c).current = nb
          /\ Scan(b, c).queries = b.queries
      BY <3>1
    <3>3. Scan(a, c) = After(Scan(b, c))
      BY <2>4, <3>1, <3>2
    <3> HIDE DEF After
    <3> QED BY <2>1, <2>2, <3>3
  <2> QED BY <2>6, <2>7
<1> HIDE DEF P
<1>3. t \in P
  BY <1>1, <1>2, TextInduction
<1> QED BY <1>3 DEF P

-----------------------------------------------------------------------------
(* The places of a text *)

\* The state of a pass behind the character at i.
At(s, i) == OnePass(SubSeq(s, 1, i))

\* No query ends in s up to i.
Quiet(s, i) == At(s, i).current = SubSeq(s, 1, i)

\* From place to place.
LEMMA PlaceSteps ==
  ASSUME NEW S, NEW s \in Seq(S)
  PROVE  /\ At(s, 0) = Start /\ At(s, Len(s)) = OnePass(s) /\ Quiet(s, 0)
         /\ \A i \in 0 .. Len(s) : At(s, i) \in States(S)
         /\ \A i \in 1 .. Len(s) : s[i] \in S /\ At(s, i) = Scan(At(s, i - 1), s[i])
<1>1. SubSeq(s, 1, 0) = << >> /\ SubSeq(s, 1, Len(s)) = s
  BY UpToPlace
<1>2. At(s, 0) = Start /\ At(s, Len(s)) = OnePass(s)
  BY <1>1, PassSteps DEF At
<1>3. Quiet(s, 0)
  <2>1. Start.current = << >>
    BY DEF Start
  <2> QED BY <1>1, <1>2, <2>1 DEF Quiet
<1>4. ASSUME NEW i \in 0 .. Len(s) PROVE At(s, i) \in States(S)
  <2>1. SubSeq(s, 1, i) \in Seq(S)
    BY UpToPlace
  <2> QED BY <2>1, PassTyped DEF At
<1>5. ASSUME NEW i \in 1 .. Len(s) PROVE s[i] \in S /\ At(s, i) = Scan(At(s, i - 1), s[i])
  <2>1. Len(s) \in Nat
    BY LenProperties
  <2>2. s[i] \in S /\ SubSeq(s, 1, i) = Append(SubSeq(s, 1, i - 1), s[i])
    BY UpToPlace
  <2>3. SubSeq(s, 1, i - 1) \in Seq(S)
    <3>1. i - 1 \in 0 .. Len(s)
      BY <2>1
    <3> QED BY <3>1, UpToPlace
  <2> QED BY <2>2, <2>3, PassSteps DEF At
<1> QED BY <1>2, <1>3, <1>4, <1>5

\* What the character at i does.
LEMMA PlaceFacts ==
  ASSUME NEW S, NEW s \in Seq(S), NEW i \in 1 .. Len(s)
  PROVE  /\ At(s, i - 1).mode \in Modes
         /\ At(s, i).mode = Turned(At(s, i - 1).mode, s[i])
         /\ ~(At(s, i - 1).mode \in Plain /\ s[i] = ";") => (Quiet(s, i) <=> Quiet(s, i - 1))
         /\ At(s, i - 1).mode \in Plain /\ s[i] = ";" => ~Quiet(s, i)
<1> DEFINE st == At(s, i - 1)
           p == SubSeq(s, 1, i - 1)
           q == SubSeq(s, 1, i)
<1>1. Len(s) \in Nat /\ i - 1 \in 0 .. Len(s) /\ i \in 0 .. Len(s)
  BY LenProperties
<1>2. st \in States(S) /\ s[i] \in S /\ At(s, i) = Scan(st, s[i])
  BY <1>1, PlaceSteps
<1>3. st.mode \in Modes /\ st.current \in Seq(S)
  BY <1>2 DEF States
<1>4. /\ p \in Seq(S) /\ q \in Seq(S) /\ q = Append(p, s[i]) /\ Len(q) = i
  BY <1>1, UpToPlace
<1>5. (Quiet(s, i - 1) <=> st.current = p) /\ (Quiet(s, i) <=> At(s, i).current = q)
  BY DEF Quiet
<1> HIDE DEF st, p, q
<1>6. CASE st.mode \in Plain /\ s[i] = ";"
  <2>1. At(s, i).mode = "code" /\ At(s, i).current = << >>
    <3>1. PICK e : e = s[i]
      OBVIOUS
    <3>2. Scan(st, e) = [mode |-> "code", current |-> << >>,
                         queries |-> IF isBlank(st.current) THEN st.queries
                                     ELSE Append(st.queries, Append(st.current, e))]
      BY <1>2, <1>6, <3>1, ScanFacts
    <3>3. Scan(st, e).mode = "code" /\ Scan(st, e).current = << >>
      BY <3>2
    <3> QED BY <1>2, <3>1, <3>3
  <2>2. Turned(st.mode, s[i]) = "code"
    BY <1>3, <1>6, TurnedModes
  <2>3. q # << >>
    BY <1>1, <1>4, AppendProperties
  <2> QED BY <1>3, <1>5, <1>6, <2>1, <2>2, <2>3 DEF st
<1>7. CASE ~(st.mode \in Plain /\ s[i] = ";")
  <2>1. /\ At(s, i).mode = Turned(st.mode, s[i])
        /\ At(s, i).current = Append(st.current, s[i])
    <3>1. PICK e : e = s[i]
      OBVIOUS
    <3>2. Scan(st, e) = [mode |-> Turned(st.mode, e), current |-> Append(st.current, e),
                         queries |-> st.queries]
      BY <1>2, <1>7, <3>1, ScanFacts
    <3>3. Scan(st, e).mode = Turned(st.mode, e) /\ Scan(st, e).current = Append(st.current, e)
      BY <3>2
    <3> QED BY <1>2, <3>1, <3>3
  <2>2. Append(st.current, s[i]) = Append(p, s[i]) <=> st.current = p
    <3>1. PICK x, e : x = st.current /\ e = s[i]
      OBVIOUS
    <3>2. x \in Seq(S) /\ e \in S
      BY <1>2, <1>3, <3>1
    <3>3. Append(x, e) = Append(p, e) <=> x = p
      BY <1>4, <3>2, AppendInjective
    <3> QED BY <3>1, <3>3
  <2>3. Quiet(s, i) <=> Quiet(s, i - 1)
    BY <1>4, <1>5, <2>1, <2>2
  <2> QED BY <1>3, <1>7, <2>1, <2>3 DEF st
<1> QED BY <1>6, <1>7

\* Where Find finds c.
LEMMA FindFacts ==
  ASSUME NEW S, NEW s \in Seq(S), NEW i \in 1 .. Len(s) + 1, NEW c
  PROVE  /\ Find(s, i, c) \in i .. Len(s) + 1
         /\ Find(s, i, c) <= Len(s) => s[Find(s, i, c)] = c
         /\ \A k \in i .. Find(s, i, c) - 1 : s[k] # c
<1> DEFINE Is(j) == /\ j = Len(s) + 1 \/ s[j] = c
                    /\ \A k \in i .. j - 1 : s[k] # c
           j0 == CHOOSE j \in i .. Len(s) + 1 : Is(j)
           F == {j \in i .. Len(s) + 1 : j = Len(s) + 1 \/ s[j] = c}
<1>1. Len(s) \in Nat
  BY LenProperties
<1>2. F # {} /\ F \in SUBSET Nat
  <2>1. Len(s) + 1 \in F
    BY <1>1
  <2>2. \A j \in F : j \in Nat
    BY <1>1
  <2> QED BY <2>1, <2>2
<1>3. PICK j \in F : \A m \in F : ~(m < j)
  <2> HIDE DEF F
  <2> QED BY <1>2, LeastOf
<1>4. j \in i .. Len(s) + 1 /\ (j = Len(s) + 1 \/ s[j] = c)
  BY <1>3
<1>5. \A k \in i .. j - 1 : s[k] # c
  <2>1. \A k \in i .. j - 1 : k \in i .. Len(s) + 1 /\ k < j
    BY <1>1, <1>4
  <2> QED BY <1>3, <2>1
<1>6. j0 \in i .. Len(s) + 1 /\ Is(j0)
  <2>1. Is(j)
    BY <1>4, <1>5
  <2> HIDE DEF Is
  <2> QED BY <1>4, <2>1
<1>7. Find(s, i, c) = j0
  BY DEF Find
<1> HIDE DEF j0
<1>8. j0 <= Len(s) => s[j0] = c
  BY <1>1, <1>6
<1> QED BY <1>6, <1>7, <1>8

\* What ends a string, and a comment.
EndedBy(mode, c) ==
  \/ mode = "string" /\ c = "quote"
  \/ mode = "comment" /\ c = "newline"

\* There is no c between i and j.
NoneBetween(s, i, j, c) == \A k \in i + 1 .. j - 1 : s[k] # c

\* A string goes on to the next quote, a comment to the end of its line.
LEMMA RunsOn ==
  ASSUME NEW S, NEW s \in Seq(S), NEW i \in 0 .. Len(s), NEW mode, NEW c,
         At(s, i).mode = mode, EndedBy(mode, c),
         NEW j \in i + 1 .. Len(s) + 1, NoneBetween(s, i, j, c)
  PROVE  \A k \in i .. j - 1 : At(s, k).mode = mode /\ (Quiet(s, i) => Quiet(s, k))
<1> DEFINE Good == {k \in i .. j - 1 : At(s, k).mode = mode /\ (Quiet(s, i) => Quiet(s, k))}
<1>1. Len(s) \in Nat /\ i \in Int /\ j - 1 \in Int /\ i \in i .. j - 1
  BY LenProperties
<1>2. i \in Good
  BY <1>1
<1>3. ASSUME NEW k \in i .. j - 1 - 1, k \in Good PROVE k + 1 \in Good
  <2>1. k + 1 \in 1 .. Len(s) /\ k + 1 \in i + 1 .. j - 1 /\ k + 1 \in i .. j - 1 /\ k + 1 - 1 = k
    BY <1>1
  <2>2. /\ At(s, k).mode \in Modes /\ At(s, k + 1).mode = Turned(At(s, k).mode, s[k + 1])
        /\ ~(At(s, k).mode \in Plain /\ s[k + 1] = ";") => (Quiet(s, k + 1) <=> Quiet(s, k))
    <3>1. PICK n : n = k + 1
      OBVIOUS
    <3>2. n \in 1 .. Len(s) /\ n - 1 = k
      BY <2>1, <3>1
    <3>3. /\ At(s, n - 1).mode \in Modes /\ At(s, n).mode = Turned(At(s, n - 1).mode, s[n])
          /\ ~(At(s, n - 1).mode \in Plain /\ s[n] = ";") => (Quiet(s, n) <=> Quiet(s, n - 1))
      BY <3>2, PlaceFacts
    <3> QED BY <3>1, <3>2, <3>3
  <2>3. At(s, k).mode = mode /\ (Quiet(s, i) => Quiet(s, k)) /\ s[k + 1] # c
    BY <1>3, <2>1 DEF NoneBetween
  <2>4. Turned(mode, s[k + 1]) = mode
    <3>1. PICK e : e = s[k + 1]
      OBVIOUS
    <3>2. mode \in Modes /\ e # c
      BY <2>2, <2>3, <3>1
    <3>3. Turned(mode, e) = mode
      BY <3>2, TurnedModes DEF EndedBy
    <3> QED BY <3>1, <3>3
  <2>5. mode \notin Plain
    BY DEF Plain, EndedBy
  <2> QED BY <2>1, <2>2, <2>3, <2>4, <2>5
<1> HIDE DEF Good
<1>4. \A k \in i .. j - 1 : k \in Good
  BY <1>1, <1>2, <1>3, Upward
<1> QED BY <1>4 DEF Good

\* And ends there.
LEMMA RunsOut ==
  ASSUME NEW S, NEW s \in Seq(S), NEW i \in 0 .. Len(s), NEW mode, NEW c,
         At(s, i).mode = mode, EndedBy(mode, c),
         NEW j \in i + 1 .. Len(s) + 1, NoneBetween(s, i, j, c),
         j <= Len(s) => s[j] = c
  PROVE  /\ At(s, j - 1).mode = mode /\ (Quiet(s, i) => Quiet(s, j - 1))
         /\ j <= Len(s) => At(s, j).mode = "code" /\ (Quiet(s, i) => Quiet(s, j))
<1>1. Len(s) \in Nat /\ j - 1 \in i .. j - 1
  BY LenProperties
<1>2. \A k \in i .. j - 1 : At(s, k).mode = mode /\ (Quiet(s, i) => Quiet(s, k))
  BY RunsOn
<1>3. At(s, j - 1).mode = mode /\ (Quiet(s, i) => Quiet(s, j - 1))
  BY <1>1, <1>2
<1>4. ASSUME j <= Len(s) PROVE At(s, j).mode = "code" /\ (Quiet(s, i) => Quiet(s, j))
  <2>1. j \in 1 .. Len(s)
    BY <1>1, <1>4
  <2>2. /\ At(s, j - 1).mode \in Modes /\ At(s, j).mode = Turned(At(s, j - 1).mode, s[j])
        /\ ~(At(s, j - 1).mode \in Plain /\ s[j] = ";") => (Quiet(s, j) <=> Quiet(s, j - 1))
    BY <2>1, PlaceFacts
  <2>3. s[j] = c
    BY <1>4
  <2>4. Turned(mode, c) = "code"
    BY <1>3, <2>2, TurnedModes DEF EndedBy
  <2>5. mode \notin Plain
    BY DEF Plain, EndedBy
  <2> QED BY <1>3, <2>2, <2>3, <2>4, <2>5
<1> QED BY <1>3, <1>4

\* Outside of strings and comments, and behind no first dash of a comment.
Fresh(s, i) ==
  \/ At(s, i - 1).mode = "code"
  \/ At(s, i - 1).mode = "dash" /\ (i <= Len(s) => s[i] # "-")

\* From there.
LEMMA FreshSteps ==
  ASSUME NEW S, NEW s \in Seq(S), NEW i \in 1 .. Len(s), Fresh(s, i)
  PROVE  /\ At(s, i - 1).mode \in Plain
         /\ s[i] = "quote" => At(s, i).mode = "string"
         /\ s[i] # "quote" /\ ~Dashes(s, i) => Fresh(s, i + 1)
         /\ s[i] # "quote" /\ s[i] # "-" => At(s, i).mode = "code"
         /\ Dashes(s, i) =>
              /\ i + 1 \in 1 .. Len(s) /\ At(s, i + 1).mode = "comment"
              /\ Quiet(s, i - 1) => Quiet(s, i + 1)
              /\ s[i] # "newline" /\ s[i + 1] # "newline"
<1>1. Len(s) \in Nat
  BY LenProperties
<1>2. /\ At(s, i - 1).mode \in Modes /\ At(s, i).mode = Turned(At(s, i - 1).mode, s[i])
      /\ ~(At(s, i - 1).mode \in Plain /\ s[i] = ";") => (Quiet(s, i) <=> Quiet(s, i - 1))
  BY PlaceFacts
<1>3. At(s, i - 1).mode \in Plain /\ (s[i] = "-" => At(s, i - 1).mode = "code")
  BY <1>1 DEF Fresh, Plain
<1>4. s[i] = "quote" => At(s, i).mode = "string"
  BY <1>2, <1>3, TurnedModes
<1>5. s[i] # "quote" /\ s[i] # "-" => At(s, i).mode = "code"
  <2>1. PICK m, e : m = At(s, i - 1).mode /\ e = s[i]
    OBVIOUS
  <2>2. m \in Modes /\ m \in Plain
    BY <1>2, <1>3, <2>1
  <2>3. e # "quote" /\ e # "-" => Turned(m, e) = "code"
    BY <2>2, TurnedModes
  <2> QED BY <1>2, <2>1, <2>3
<1>6. s[i] = "-" => At(s, i).mode = "dash"
  <2>1. s[i] = "-" => At(s, i).mode = IF At(s, i - 1).mode = "dash" THEN "comment" ELSE "dash"
    BY <1>2, <1>3, TurnedModes
  <2> QED BY <1>3, <2>1
<1>7. s[i] # "quote" /\ ~Dashes(s, i) => Fresh(s, i + 1)
  <2>1. i + 1 - 1 = i
    BY <1>1
  <2>2. s[i] = "-" /\ ~Dashes(s, i) => (i + 1 <= Len(s) => s[i + 1] # "-")
    BY <1>1 DEF Dashes
  <2> QED BY <1>5, <1>6, <2>1, <2>2 DEF Fresh
<1>8. ASSUME Dashes(s, i)
      PROVE  /\ i + 1 \in 1 .. Len(s) /\ At(s, i + 1).mode = "comment"
             /\ Quiet(s, i - 1) => Quiet(s, i + 1)
             /\ s[i] # "newline" /\ s[i + 1] # "newline"
  <2>1. i + 1 \in 1 .. Len(s) /\ s[i] = "-" /\ s[i + 1] = "-" /\ i + 1 - 1 = i
    BY <1>1, <1>8 DEF Dashes
  <2>2. /\ At(s, i).mode \in Modes /\ At(s, i + 1).mode = Turned(At(s, i).mode, s[i + 1])
        /\ ~(At(s, i).mode \in Plain /\ s[i + 1] = ";") => (Quiet(s, i + 1) <=> Quiet(s, i))
    <3>1. PICK n : n = i + 1
      OBVIOUS
    <3>2. n \in 1 .. Len(s) /\ n - 1 = i
      BY <2>1, <3>1
    <3>3. /\ At(s, n - 1).mode \in Modes /\ At(s, n).mode = Turned(At(s, n - 1).mode, s[n])
          /\ ~(At(s, n - 1).mode \in Plain /\ s[n] = ";") => (Quiet(s, n) <=> Quiet(s, n - 1))
      BY <3>2, PlaceFacts
    <3> QED BY <3>1, <3>2, <3>3
  <2>3. At(s, i).mode = "dash" /\ "dash" \in Plain
    BY <1>6, <2>1 DEF Plain
  <2>4. At(s, i + 1).mode = IF At(s, i).mode = "dash" THEN "comment" ELSE "dash"
    BY <2>1, <2>2, <2>3, TurnedModes
  <2> QED BY <1>2, <2>1, <2>2, <2>3, <2>4
<1> QED BY <1>3, <1>4, <1>5, <1>7, <1>8

\* A comment is skipped up to the end of its line.
LEMMA CommentSkipped ==
  ASSUME NEW S, NEW s \in Seq(S), NEW i \in 1 .. Len(s), Fresh(s, i), Dashes(s, i),
         NEW j, j = Find(s, i, "newline")
  PROVE  /\ j \in i + 2 .. Len(s) + 1
         /\ j <= Len(s) => s[j] = "newline"
         /\ At(s, j - 1).mode = "comment" /\ (Quiet(s, i - 1) => Quiet(s, j - 1))
         /\ j <= Len(s) => At(s, j).mode = "code" /\ (Quiet(s, i - 1) => Quiet(s, j))
<1>1. Len(s) \in Nat /\ i \in 1 .. Len(s) + 1
  BY LenProperties
<1>2. /\ i + 1 \in 1 .. Len(s) /\ At(s, i + 1).mode = "comment"
      /\ Quiet(s, i - 1) => Quiet(s, i + 1)
      /\ s[i] # "newline" /\ s[i + 1] # "newline"
  BY FreshSteps
<1>3. /\ j \in i .. Len(s) + 1
      /\ j <= Len(s) => s[j] = "newline"
      /\ \A k \in i .. j - 1 : s[k] # "newline"
  BY <1>1, FindFacts
<1>4. j # i /\ j # i + 1
  BY <1>1, <1>2, <1>3
<1>5. PICK n : n = i + 1
  OBVIOUS
<1>6. /\ n \in 0 .. Len(s) /\ j \in n + 1 .. Len(s) + 1 /\ j \in i + 2 .. Len(s) + 1
      /\ At(s, n).mode = "comment" /\ (Quiet(s, i - 1) => Quiet(s, n))
  BY <1>1, <1>2, <1>3, <1>4, <1>5
<1>7. NoneBetween(s, n, j, "newline")
  <2>1. \A k \in n + 1 .. j - 1 : k \in i .. j - 1
    BY <1>1, <1>5, <1>6
  <2> QED BY <1>3, <2>1 DEF NoneBetween
<1>8. EndedBy("comment", "newline")
  BY DEF EndedBy
<1>9. /\ At(s, j - 1).mode = "comment" /\ (Quiet(s, n) => Quiet(s, j - 1))
      /\ j <= Len(s) => At(s, j).mode = "code" /\ (Quiet(s, n) => Quiet(s, j))
  BY <1>3, <1>6, <1>7, <1>8, RunsOut
<1> QED BY <1>3, <1>6, <1>9

\* A string is skipped up to the quote that closes it.
LEMMA StringSkipped ==
  ASSUME NEW S, NEW s \in Seq(S), NEW i \in 1 .. Len(s), At(s, i).mode = "string",
         NEW j, j = Find(s, i + 1, "quote")
  PROVE  /\ j \in i + 1 .. Len(s) + 1
         /\ j <= Len(s) => s[j] = "quote"
         /\ At(s, j - 1).mode = "string"
         /\ j <= Len(s) => At(s, j).mode = "code"
<1>1. Len(s) \in Nat /\ i \in 0 .. Len(s)
  BY LenProperties
<1>2. PICK n : n = i + 1
  OBVIOUS
<1>3. n \in 1 .. Len(s) + 1
  BY <1>1, <1>2
<1>4. /\ j \in n .. Len(s) + 1
      /\ j <= Len(s) => s[j] = "quote"
      /\ \A k \in n .. j - 1 : s[k] # "quote"
  BY <1>2, <1>3, FindFacts
<1>5. j \in i + 1 .. Len(s) + 1 /\ NoneBetween(s, i, j, "quote")
  BY <1>2, <1>4 DEF NoneBetween
<1>6. EndedBy("string", "quote")
  BY DEF EndedBy
<1>7. /\ At(s, j - 1).mode = "string"
      /\ j <= Len(s) => At(s, j).mode = "code"
  BY <1>1, <1>4, <1>5, <1>6, RunsOut
<1> QED BY <1>4, <1>5, <1>7

-----------------------------------------------------------------------------
(* What findSemicolon finds *)

\* How it goes on: from a place, inside of a string or outside.
ScanPlaces(s) == (1 .. Len(s) + 2) \X BOOLEAN

\* Where it stops: behind the text, or at a semicolon outside of strings.
ScanEnds(s) == {x \in ScanPlaces(s) : x[1] > Len(s) \/ (x[2] = FALSE /\ s[x[1]] = ";")}

\* Where it goes from any other place.
ScanNext(s) ==
  [x \in ScanPlaces(s) |->
     IF x \in ScanEnds(s) THEN x
     ELSE IF x[2] = TRUE THEN <<x[1] + 1, s[x[1]] # "quote">>
     ELSE IF s[x[1]] = "quote" THEN <<x[1] + 1, TRUE>>
     ELSE IF Dashes(s, x[1]) THEN <<Find(s, x[1], "newline") + 1, FALSE>>
     ELSE <<x[1] + 1, FALSE>>]

\* How much of the text is left, and one.
ScanLeft(s) == [x \in ScanPlaces(s) |-> Len(s) + 2 - x[1]]

\* Each step goes to a later place.
LEMMA ScanLater ==
  ASSUME NEW S, NEW s \in Seq(S), NEW x \in ScanPlaces(s) \ ScanEnds(s)
  PROVE  /\ x[1] \in 1 .. Len(s) /\ x[2] \in BOOLEAN
         /\ \E i \in x[1] + 1 .. Len(s) + 2, b \in BOOLEAN : ScanNext(s)[x] = <<i, b>>
<1>1. Len(s) \in Nat
  BY LenProperties
<1>2. x[1] \in 1 .. Len(s) /\ x[2] \in BOOLEAN /\ x \in ScanPlaces(s) /\ x \notin ScanEnds(s)
  <2>1. x \in ScanPlaces(s) /\ x \notin ScanEnds(s) /\ ~(x[1] > Len(s))
    BY DEF ScanEnds
  <2>2. x[1] \in 1 .. Len(s) + 2 /\ x[2] \in BOOLEAN
    BY <2>1 DEF ScanPlaces
  <2>3. PICK i : i = x[1]
    OBVIOUS
  <2>4. i \in 1 .. Len(s)
    BY <1>1, <2>1, <2>2, <2>3
  <2> QED BY <2>1, <2>2, <2>3, <2>4
<1>3. x[1] + 1 \in x[1] + 1 .. Len(s) + 2
  BY <1>1, <1>2
<1>4. Find(s, x[1], "newline") + 1 \in x[1] + 1 .. Len(s) + 2
  <2>1. PICK i : i = x[1]
    OBVIOUS
  <2>2. i \in 1 .. Len(s) + 1 /\ i \in Int
    BY <1>1, <1>2, <2>1
  <2>3. Find(s, i, "newline") \in i .. Len(s) + 1
    BY <2>2, FindFacts
  <2> QED BY <1>1, <2>1, <2>2, <2>3
<1>5. (s[x[1]] # "quote") \in BOOLEAN
  OBVIOUS
<1>6. ScanNext(s)[x] = IF x[2] = TRUE THEN <<x[1] + 1, s[x[1]] # "quote">>
                       ELSE IF s[x[1]] = "quote" THEN <<x[1] + 1, TRUE>>
                       ELSE IF Dashes(s, x[1]) THEN <<Find(s, x[1], "newline") + 1, FALSE>>
                       ELSE <<x[1] + 1, FALSE>>
  BY <1>2 DEF ScanNext
<1> QED BY <1>2, <1>3, <1>4, <1>5, <1>6

\* So findSemicolon is the end of a descent.
LEMMA SemicolonDescends ==
  ASSUME NEW S, NEW s \in Seq(S)
  PROVE  /\ Downward(ScanPlaces(s), ScanEnds(s), ScanNext(s), ScanLeft(s), Len(s) + 2)
         /\ \E f : /\ Descends(f, ScanPlaces(s), ScanEnds(s), ScanNext(s),
                               [x \in ScanPlaces(s) |-> IF x[1] > Len(s) THEN 0 ELSE x[1]])
                   /\ findSemicolon(s) = f[<<1, FALSE>>]
<1> DEFINE D == ScanPlaces(s)
           B == ScanEnds(s)
           nx == ScanNext(s)
           h == ScanLeft(s)
           v == [x \in D |-> IF x[1] > Len(s) THEN 0 ELSE x[1]]
<1>1. Len(s) \in Nat
  BY LenProperties
<1>2. Downward(D, B, nx, h, Len(s) + 2)
  <2>1. h \in [D -> 0 .. Len(s) + 2] /\ \A x \in D : h[x] = Len(s) + 2 - x[1]
    <3>1. \A x \in D : Len(s) + 2 - x[1] \in 0 .. Len(s) + 2
      BY <1>1 DEF ScanPlaces
    <3> QED BY <3>1 DEF ScanLeft
  <2>2. ASSUME NEW x \in D \ B PROVE nx[x] \in D /\ h[nx[x]] < h[x]
    <3>1. x[1] \in 1 .. Len(s)
      BY <2>2, ScanLater
    <3>2. PICK i \in x[1] + 1 .. Len(s) + 2, b \in BOOLEAN : nx[x] = <<i, b>>
      BY <2>2, ScanLater
    <3>3. i \in 1 .. Len(s) + 2
      BY <1>1, <3>1, <3>2
    <3>4. <<i, b>> \in D /\ x \in D
      BY <2>2, <3>3 DEF ScanPlaces
    <3>5. h[<<i, b>>] = Len(s) + 2 - i /\ h[x] = Len(s) + 2 - x[1]
      BY <2>1, <3>4
    <3>6. Len(s) + 2 - i < Len(s) + 2 - x[1]
      BY <1>1, <3>1, <3>2
    <3> QED BY <3>2, <3>4, <3>5, <3>6
  <2>3. \A x \in B : x \in D /\ nx[x] = x
    BY DEF ScanEnds, ScanNext
  <2>4. nx \in [D -> D]
    <3>1. \A x \in D : nx[x] \in D
      BY <2>2, <2>3
    <3> QED BY <3>1 DEF ScanNext
  <2> HIDE DEF D, B, nx, h
  <2> QED BY <1>1, <2>1, <2>2, <2>4 DEF Downward
<1> DEFINE Scans(g) == g = [x \in (1 .. Len(s) + 2) \X BOOLEAN |->
        LET i == x[1]
            inString == x[2]
        IN  IF i > Len(s) THEN 0
            ELSE IF inString THEN g[<<i + 1, s[i] # "quote">>]
            ELSE IF s[i] = "quote" THEN g[<<i + 1, TRUE>>]
            ELSE IF Dashes(s, i) THEN g[<<Find(s, i, "newline") + 1, FALSE>>]
            ELSE IF s[i] = ";" THEN i
            ELSE g[<<i + 1, FALSE>>]]
<1>3. \A g : Scans(g) <=> Descends(g, D, B, nx, v)
  <2> TAKE g
  <2>1. ASSUME NEW x \in D
        PROVE  (IF x \in B THEN v[x] ELSE g[nx[x]])
               = (LET i == x[1]
                      inString == x[2]
                  IN  IF i > Len(s) THEN 0
                      ELSE IF inString THEN g[<<i + 1, s[i] # "quote">>]
                      ELSE IF s[i] = "quote" THEN g[<<i + 1, TRUE>>]
                      ELSE IF Dashes(s, i) THEN g[<<Find(s, i, "newline") + 1, FALSE>>]
                      ELSE IF s[i] = ";" THEN i
                      ELSE g[<<i + 1, FALSE>>])
    <3>1. x[2] = TRUE \/ x[2] = FALSE
      BY DEF ScanPlaces
    <3>2. v[x] = IF x[1] > Len(s) THEN 0 ELSE x[1]
      OBVIOUS
    <3>3. x \in B <=> x[1] > Len(s) \/ (x[2] = FALSE /\ s[x[1]] = ";")
      BY DEF ScanEnds
    <3>4. nx[x] = IF x \in B THEN x
                  ELSE IF x[2] = TRUE THEN <<x[1] + 1, s[x[1]] # "quote">>
                  ELSE IF s[x[1]] = "quote" THEN <<x[1] + 1, TRUE>>
                  ELSE IF Dashes(s, x[1]) THEN <<Find(s, x[1], "newline") + 1, FALSE>>
                  ELSE <<x[1] + 1, FALSE>>
      BY DEF ScanNext
    <3>5. Dashes(s, x[1]) => s[x[1]] = "-"
      BY DEF Dashes
    <3> HIDE DEF v, B, nx, D
    <3>6. CASE x[2] = TRUE
      BY <3>2, <3>3, <3>4, <3>6
    <3>7. CASE x[2] = FALSE
      BY <3>2, <3>3, <3>4, <3>5, <3>7
    <3> QED BY <3>1, <3>6, <3>7
  <2>2. D = (1 .. Len(s) + 2) \X BOOLEAN
    BY DEF ScanPlaces
  <2> HIDE DEF v, B, nx
  <2> QED BY <2>1, <2>2 DEF Descends
<1>4. findSemicolon(s) = (CHOOSE g : Scans(g))[<<1, FALSE>>]
  BY DEF findSemicolon
<1>5. \E f : Descends(f, D, B, nx, v)
  <2> HIDE DEF D, B, nx, h, v
  <2>1. PICK b : b = Len(s) + 2
    OBVIOUS
  <2>2. Downward(D, B, nx, h, b)
    BY <1>2, <2>1
  <2> QED BY <2>2, DescentExists
<1> HIDE DEF Scans
<1>6. Scans(CHOOSE g : Scans(g))
  BY <1>3, <1>5
<1>7. Descends(CHOOSE g : Scans(g), D, B, nx, v)
  BY <1>3, <1>6
<1> QED BY <1>2, <1>4, <1>7

\* Behind a character that leads back to code.
LEMMA CodeIsFresh ==
  ASSUME NEW s, NEW i \in Int, At(s, i).mode = "code"
  PROVE  Fresh(s, i + 1)
<1>1. PICK n : n = i + 1
  OBVIOUS
<1>2. At(s, n - 1).mode = "code"
  <2>1. n - 1 = i
    BY <1>1
  <2> QED BY <2>1
<1>3. Fresh(s, n)
  BY <1>2 DEF Fresh
<1> QED BY <1>1, <1>3

\* findSemicolon returns the place of the first end of a query, or 0.
LEMMA SemicolonFound ==
  ASSUME NEW S, NEW s \in Seq(S)
  PROVE  /\ findSemicolon(s) \in 0 .. Len(s)
         /\ findSemicolon(s) = 0 => Open(s)
         /\ findSemicolon(s) # 0 =>
              /\ s[findSemicolon(s)] = ";" /\ Quiet(s, findSemicolon(s) - 1)
              /\ At(s, findSemicolon(s) - 1).mode \in Plain
<1> DEFINE D == ScanPlaces(s)
           B == ScanEnds(s)
           nx == ScanNext(s)
           v == [x \in D |-> IF x[1] > Len(s) THEN 0 ELSE x[1]]
           P == {r \in 0 .. Len(s) :
                   /\ r = 0 => Quiet(s, Len(s))
                   /\ r # 0 => s[r] = ";" /\ Quiet(s, r - 1) /\ At(s, r - 1).mode \in Plain}
           E == {x \in D :
                   /\ x[2] = TRUE => x[1] <= Len(s) + 1 /\ At(s, x[1] - 1).mode = "string"
                   /\ x[2] = FALSE /\ x[1] <= Len(s) + 1 => Fresh(s, x[1])
                   /\ x[1] <= Len(s) + 1 => Quiet(s, x[1] - 1)
                   /\ x[1] > Len(s) => Quiet(s, Len(s))}
<1>0. Len(s) \in Nat
  BY LenProperties
<1>1. /\ \A x \in D : x[1] \in 1 .. Len(s) + 2 /\ (x[2] = TRUE \/ x[2] = FALSE)
      /\ \A i \in 1 .. Len(s) + 2, b \in BOOLEAN : <<i, b>> \in D
  BY DEF ScanPlaces
<1> DEFINE Good(i, b) == /\ b = TRUE => i <= Len(s) + 1 /\ At(s, i - 1).mode = "string"
                         /\ b = FALSE /\ i <= Len(s) + 1 => Fresh(s, i)
                         /\ i <= Len(s) + 1 => Quiet(s, i - 1)
                         /\ i > Len(s) => Quiet(s, Len(s))
<1>2. /\ \A x \in E : x \in D /\ Good(x[1], x[2])
      /\ \A i, b : <<i, b>> \in D /\ Good(i, b) => <<i, b>> \in E
      /\ E \subseteq D
  <2> HIDE DEF D
  <2> QED OBVIOUS
<1>3. \A x \in D : /\ v[x] = IF x[1] > Len(s) THEN 0 ELSE x[1]
                   /\ x \in B <=> x[1] > Len(s) \/ (x[2] = FALSE /\ s[x[1]] = ";")
                   /\ x \in B \/ nx[x] = IF x[2] = TRUE THEN <<x[1] + 1, s[x[1]] # "quote">>
                                         ELSE IF s[x[1]] = "quote" THEN <<x[1] + 1, TRUE>>
                                         ELSE IF Dashes(s, x[1])
                                           THEN <<Find(s, x[1], "newline") + 1, FALSE>>
                                         ELSE <<x[1] + 1, FALSE>>
  <2>1. \A x \in D : v[x] = IF x[1] > Len(s) THEN 0 ELSE x[1]
    OBVIOUS
  <2>2. \A x \in D : x \in B <=> x[1] > Len(s) \/ (x[2] = FALSE /\ s[x[1]] = ";")
    BY DEF ScanEnds
  <2>3. \A x \in D : x \in B \/ nx[x] = IF x[2] = TRUE THEN <<x[1] + 1, s[x[1]] # "quote">>
                                         ELSE IF s[x[1]] = "quote" THEN <<x[1] + 1, TRUE>>
                                         ELSE IF Dashes(s, x[1])
                                           THEN <<Find(s, x[1], "newline") + 1, FALSE>>
                                         ELSE <<x[1] + 1, FALSE>>
    <3> HIDE DEF B
    <3> QED BY DEF ScanNext, B
  <2> HIDE DEF v, B, nx, D
  <2> QED BY <2>1, <2>2, <2>3
<1> HIDE DEF D, B, nx, v, E
<1>4. ASSUME NEW x \in E, x \in B PROVE v[x] \in P
  <2>1. PICK i, b : i = x[1] /\ b = x[2]
    OBVIOUS
  <2>2. i \in 1 .. Len(s) + 2 /\ Good(i, b) /\ (i > Len(s) \/ (b = FALSE /\ s[i] = ";"))
        /\ v[x] = IF i > Len(s) THEN 0 ELSE i
    BY <1>1, <1>2, <1>3, <1>4, <2>1
  <2> HIDE DEF P
  <2>3. CASE i > Len(s)
    <3>1. v[x] = 0 /\ Quiet(s, Len(s))
      BY <2>2, <2>3
    <3>2. 0 \in 0 .. Len(s)
      BY <1>0
    <3> QED BY <3>1, <3>2 DEF P
  <2>4. CASE ~(i > Len(s))
    <3>0. i \in 1 .. Len(s) + 2
      BY <2>2
    <3>1. i \in 1 .. Len(s) /\ i <= Len(s) + 1 /\ i \in 0 .. Len(s) /\ i # 0
      BY <1>0, <2>4, <3>0
    <3>2. v[x] = i /\ s[i] = ";" /\ Fresh(s, i) /\ Quiet(s, i - 1)
      BY <2>2, <2>4, <3>1
    <3>3. At(s, i - 1).mode \in Plain
      BY <3>2 DEF Fresh, Plain
    <3>4. i \in P
      BY <3>1, <3>2, <3>3 DEF P
    <3> QED BY <3>2, <3>4
  <2> QED BY <2>3, <2>4
<1> HIDE DEF P
<1>5. ASSUME NEW x \in E, x \notin B PROVE nx[x] \in E
  <2>1. PICK i, b : i = x[1] /\ b = x[2]
    OBVIOUS
  <2>2. /\ i \in 1 .. Len(s) + 2 /\ (b = TRUE \/ b = FALSE) /\ Good(i, b)
        /\ ~(i > Len(s)) /\ ~(b = FALSE /\ s[i] = ";")
        /\ nx[x] = IF b = TRUE THEN <<i + 1, s[i] # "quote">>
                   ELSE IF s[i] = "quote" THEN <<i + 1, TRUE>>
                   ELSE IF Dashes(s, i) THEN <<Find(s, i, "newline") + 1, FALSE>>
                   ELSE <<i + 1, FALSE>>
    <3> HIDE DEF Good
    <3> QED BY <1>1, <1>2, <1>3, <1>5, <2>1
  <2>3. /\ i \in 1 .. Len(s) /\ i <= Len(s) + 1 /\ i \in Int /\ i + 1 - 1 = i
        /\ i + 1 \in 1 .. Len(s) + 2 /\ i + 1 <= Len(s) + 1 /\ (i + 1 > Len(s) => i = Len(s))
    <3>1. i \in 1 .. Len(s) + 2 /\ ~(i > Len(s))
      BY <2>2
    <3> QED BY <1>0, <3>1
  <2>4. /\ b = TRUE => At(s, i - 1).mode = "string"
        /\ b = FALSE => Fresh(s, i) /\ s[i] # ";"
        /\ Quiet(s, i - 1)
    BY <2>2, <2>3
  <2>5. /\ At(s, i - 1).mode \in Modes /\ At(s, i).mode = Turned(At(s, i - 1).mode, s[i])
        /\ ~(At(s, i - 1).mode \in Plain /\ s[i] = ";") => (Quiet(s, i) <=> Quiet(s, i - 1))
    BY <2>3, PlaceFacts
  <2>6. ASSUME NEW c \in BOOLEAN, Quiet(s, i),
               c = TRUE => At(s, i).mode = "string",
               c = FALSE => Fresh(s, i + 1)
        PROVE  <<i + 1, c>> \in E
    <3>1. <<i + 1, c>> \in D
      BY <1>1, <2>3
    <3>2. Good(i + 1, c)
      BY <2>3, <2>6
    <3> HIDE DEF Good
    <3> QED BY <1>2, <3>1, <3>2
  <2>7. CASE b = TRUE
    <3>1. At(s, i - 1).mode = "string" /\ Quiet(s, i)
      BY <2>4, <2>5, <2>7 DEF Plain
    <3>2. At(s, i).mode = IF s[i] = "quote" THEN "code" ELSE "string"
      BY <2>5, <3>1, TurnedModes
    <3>3. CASE s[i] = "quote"
      <4>1. nx[x] = <<i + 1, FALSE>>
        BY <2>2, <2>7, <3>3
      <4>2. At(s, i).mode = "code"
        BY <3>2, <3>3
      <4>3. Fresh(s, i + 1)
        BY <2>3, <4>2, CodeIsFresh
      <4> QED BY <2>6, <3>1, <4>1, <4>3
    <3>4. CASE s[i] # "quote"
      <4>1. nx[x] = <<i + 1, TRUE>>
        BY <2>2, <2>7, <3>4
      <4> QED BY <2>6, <3>1, <3>2, <3>4, <4>1
    <3> QED BY <3>3, <3>4
  <2>8. CASE b = FALSE
    <3>1. Fresh(s, i) /\ s[i] # ";"
      BY <2>4, <2>8
    <3>2. Quiet(s, i)
      BY <2>4, <2>5, <3>1
    <3>3. CASE s[i] = "quote"
      <4>1. nx[x] = <<i + 1, TRUE>>
        BY <2>2, <2>8, <3>3
      <4>2. At(s, i).mode = "string"
        BY <2>3, <3>1, <3>3, FreshSteps
      <4> QED BY <2>6, <3>2, <4>1, <4>2
    <3>4. CASE s[i] # "quote" /\ Dashes(s, i)
      <4>1. PICK j : j = Find(s, i, "newline")
        OBVIOUS
      <4>2. nx[x] = <<j + 1, FALSE>>
        BY <2>2, <2>8, <3>4, <4>1
      <4>3. /\ j \in i + 2 .. Len(s) + 1
            /\ At(s, j - 1).mode = "comment" /\ (Quiet(s, i - 1) => Quiet(s, j - 1))
            /\ j <= Len(s) => At(s, j).mode = "code" /\ (Quiet(s, i - 1) => Quiet(s, j))
        <5>1. Fresh(s, i) /\ Dashes(s, i) /\ i \in 1 .. Len(s)
          BY <2>3, <3>1, <3>4
        <5> QED BY <4>1, <5>1, CommentSkipped
      <4>4. j + 1 \in 1 .. Len(s) + 2 /\ j + 1 - 1 = j /\ <<j + 1, FALSE>> \in D
        <5>1. j + 1 \in 1 .. Len(s) + 2 /\ j + 1 - 1 = j
          BY <1>0, <2>3, <4>3
        <5> QED BY <1>1, <5>1
      <4>5. CASE j <= Len(s)
        <5>0. j \in Int /\ (j + 1 > Len(s) => j = Len(s))
          BY <1>0, <2>3, <4>3, <4>5
        <5>1. At(s, j).mode = "code" /\ Quiet(s, j)
          BY <2>4, <4>3, <4>5
        <5>2. Fresh(s, j + 1)
          BY <5>0, <5>1, CodeIsFresh
        <5>3. PICK n : n = j + 1
          OBVIOUS
        <5>4. Fresh(s, n) /\ Quiet(s, n - 1) /\ (n > Len(s) => Quiet(s, Len(s)))
          BY <4>4, <5>0, <5>1, <5>2, <5>3
        <5>5. Good(n, FALSE)
          BY <5>4
        <5> HIDE DEF Good
        <5> QED BY <1>2, <4>2, <4>4, <5>3, <5>5
      <4>6. CASE ~(j <= Len(s))
        <5>1. j - 1 = Len(s) /\ ~(j + 1 <= Len(s) + 1)
          BY <1>0, <2>3, <4>3, <4>6
        <5>2. Quiet(s, Len(s))
          BY <2>4, <4>3, <5>1
        <5>3. Good(j + 1, FALSE)
          BY <5>1, <5>2
        <5> QED BY <1>2, <4>2, <4>4, <5>3
      <4> QED BY <4>5, <4>6
    <3>5. CASE s[i] # "quote" /\ ~Dashes(s, i)
      <4>1. nx[x] = <<i + 1, FALSE>>
        BY <2>2, <2>8, <3>5
      <4>2. Fresh(s, i + 1)
        BY <2>3, <3>1, <3>5, FreshSteps
      <4> QED BY <2>6, <3>2, <4>1, <4>2
    <3> QED BY <3>3, <3>4, <3>5
  <2> QED BY <2>2, <2>7, <2>8
<1>6. <<1, FALSE>> \in E
  <2>1. 1 \in 1 .. Len(s) + 2 /\ (1 > Len(s) => Len(s) = 0)
    BY <1>0
  <2>2. <<1, FALSE>> \in D
    BY <1>1, <2>1
  <2>3. At(s, 0).mode = "code" /\ Quiet(s, 0)
    BY PlaceSteps DEF Start
  <2>4. Fresh(s, 1) /\ Quiet(s, 1 - 1)
    BY <2>3 DEF Fresh
  <2>5. Good(1, FALSE)
    BY <2>1, <2>3, <2>4
  <2> HIDE DEF Good
  <2> QED BY <1>2, <2>2, <2>5
<1>7. findSemicolon(s) \in P
  <2>1. PICK h, b : Downward(D, B, nx, h, b)
    BY SemicolonDescends DEF D, B, nx
  <2>2. PICK f : Descends(f, D, B, nx, v) /\ findSemicolon(s) = f[<<1, FALSE>>]
    BY SemicolonDescends DEF D, B, nx, v
  <2>3. E \subseteq D /\ (\A x \in E \ B : nx[x] \in E) /\ (\A x \in E \cap B : v[x] \in P)
    <3> HIDE DEF Good
    <3> QED BY <1>2, <1>4, <1>5
  <2>4. \A x \in E : f[x] \in P
    BY <2>1, <2>2, <2>3, DescentStays
  <2> QED BY <1>6, <2>2, <2>4
<1>8. Quiet(s, Len(s)) => Open(s)
  <2>1. SubSeq(s, 1, Len(s)) = s /\ At(s, Len(s)) = OnePass(s)
    BY UpToPlace, PlaceSteps
  <2> QED BY <2>1 DEF Quiet, Open
<1> QED BY <1>7, <1>8 DEF P

-----------------------------------------------------------------------------
(* What Cut cuts *)

\* A text without an end of a query has no queries.
LEMMA OpenText ==
  ASSUME NEW S, NEW s \in Seq(S), Open(s)
  PROVE  OnePass(s).queries = << >>
<1>1. PICK done \in Seq(S) : /\ s = done \o OnePass(s).current
                             /\ OnePass(done) = [mode |-> "code", current |-> << >>,
                                                 queries |-> OnePass(s).queries]
  BY PassParts
<1>2. s = done \o s
  BY <1>1 DEF Open
<1>3. done = << >>
  BY <1>2, ConcatEqualIffEmpty
<1>4. OnePass(done).queries = << >>
  BY <1>3, PassSteps DEF Start
<1>5. OnePass(done).queries = OnePass(s).queries
  BY <1>1
<1> QED BY <1>4, <1>5

\* A text from a place on, and up to the end of the first query in that.
LEMMA TextBehind ==
  ASSUME NEW S, NEW s \in Seq(S), NEW i \in 1 .. Len(s) + 1
  PROVE  /\ SubSeq(s, i, Len(s)) \in Seq(S) /\ Len(SubSeq(s, i, Len(s))) = Len(s) - i + 1
         /\ SubSeq(s, 1, i - 1) \in Seq(S)
         /\ SubSeq(s, 1, i - 1) \o SubSeq(s, i, Len(s)) = s
         /\ \A n \in 1 .. Len(s) - i + 1 :
              SubSeq(s, 1, i - 1) \o SubSeq(SubSeq(s, i, Len(s)), 1, n)
                = SubSeq(s, 1, i + n - 1)
<1> DEFINE p == SubSeq(s, 1, i - 1)
           r == SubSeq(s, i, Len(s))
<1>1. Len(s) \in Nat
  BY LenProperties
<1>2. i \in Int /\ Len(s) \in Int /\ 1 <= i /\ i <= Len(s) + 1 /\ Len(s) <= Len(s)
  BY <1>1
<1>3. r \in Seq(S) /\ Len(r) = Len(s) - i + 1
  BY <1>2, SubFacts
<1>4. i - 1 \in 0 .. Len(s) /\ 1 \in 1 .. Len(s) + 1 /\ i - 1 \in 1 - 1 .. Len(s)
      /\ Len(s) \in i - 1 .. Len(s) /\ i - 1 + 1 = i
  BY <1>1, <1>2
<1>5. p \in Seq(S)
  BY <1>4, UpToPlace
<1>6. ASSUME NEW n \in i - 1 .. Len(s)
      PROVE  p \o SubSeq(s, i, n) = SubSeq(s, 1, n)
  <2>1. PICK k : k = i - 1
    OBVIOUS
  <2>2. k \in 1 - 1 .. Len(s) /\ n \in k .. Len(s) /\ k + 1 = i
    BY <1>4, <2>1
  <2>3. SubSeq(s, 1, k) \o SubSeq(s, k + 1, n) = SubSeq(s, 1, n)
    BY <1>4, <2>2, ConcatAdjacentSubSeq
  <2> QED BY <2>1, <2>2, <2>3
<1>7. p \o r = s
  BY <1>4, <1>6, SubSeqFull
<1>8. ASSUME NEW n \in 1 .. Len(s) - i + 1
      PROVE  p \o SubSeq(r, 1, n) = SubSeq(s, 1, i + n - 1)
  <2>1. PICK len : len = Len(s)
    OBVIOUS
  <2>2. /\ i \in 1 .. len /\ len \in 1 .. len /\ 1 \in 1 .. len - i + 1 /\ n \in 1 .. len - i + 1
        /\ i + 1 - 1 = i /\ i + n - 1 \in i - 1 .. len
    BY <1>1, <1>2, <2>1
  <2>3. SubSeq(SubSeq(s, i, len), 1, n) = SubSeq(s, i + 1 - 1, i + n - 1)
    BY <2>1, <2>2, SubSeqOfSubSeq
  <2>4. SubSeq(r, 1, n) = SubSeq(s, i, i + n - 1)
    BY <2>1, <2>2, <2>3
  <2> QED BY <1>6, <2>1, <2>2, <2>4
<1> QED BY <1>3, <1>5, <1>7, <1>8

\* One query more, if it is not blank.
WithQuery(queries, query) ==
  IF isBlank(Front(query)) THEN queries ELSE Append(queries, query)

\* The queries qs end at the place before i, and nothing is behind them.
CutBefore(s, i, qs) ==
  OnePass(SubSeq(s, 1, i - 1)) = [mode |-> "code", current |-> << >>, queries |-> qs]

\* A text from the place i on.
Behind(s, i) == SubSeq(s, i, Len(s))

\* A query is cut off: the pass over the text is where it ends.
LEMMA QueryCut ==
  ASSUME NEW S, NEW s \in Seq(S), NEW i \in 1 .. Len(s) + 1, NEW qs, CutBefore(s, i, qs),
         NEW r, r = Behind(s, i), NEW n, n = findSemicolon(r), n # 0,
         NEW q, q = SubSeq(r, 1, n), NEW j, j = i + n
  PROVE  n \in 1 .. Len(s) - i + 1 /\ q \in Seq(S) /\ CutBefore(s, j, WithQuery(qs, q))
<1> DEFINE p == SubSeq(s, 1, i - 1)
           f == SubSeq(r, 1, n - 1)
<1>1. Len(s) \in Nat
  BY LenProperties
<1>2. r \in Seq(S) /\ Len(r) = Len(s) - i + 1 /\ p \in Seq(S)
  BY TextBehind DEF Behind
<1>3. n \in 1 .. Len(r) /\ r[n] = ";" /\ Quiet(r, n - 1) /\ At(r, n - 1).mode \in Plain
  <2>1. n \in 0 .. Len(r) /\ r[n] = ";" /\ Quiet(r, n - 1) /\ At(r, n - 1).mode \in Plain
    BY <1>2, SemicolonFound
  <2>2. PICK len : len = Len(r)
    OBVIOUS
  <2>3. len \in Nat /\ n \in 0 .. len
    BY <1>2, <2>1, <2>2, LenProperties
  <2>4. n \in 1 .. len
    BY <2>3
  <2> QED BY <2>1, <2>2, <2>4
<1>4. n \in 1 .. Len(s) - i + 1
  BY <1>2, <1>3
<1>5. /\ f \in Seq(S) /\ q = Append(f, ";") /\ q \in Seq(S) /\ ";" \in S
  <2>1. n - 1 \in 0 .. Len(r) /\ n \in 0 .. Len(r)
    <3>1. PICK len : len = Len(r)
      OBVIOUS
    <3>2. len \in Nat /\ n \in 1 .. len
      BY <1>2, <1>3, <3>1, LenProperties
    <3>3. n - 1 \in 0 .. len /\ n \in 0 .. len
      BY <3>2
    <3> QED BY <3>1, <3>3
  <2>2. f \in Seq(S) /\ q \in Seq(S)
    BY <1>2, <2>1, UpToPlace
  <2>3. r[n] \in S /\ q = Append(f, r[n])
    <3>1. \A k \in 1 .. Len(r) : r[k] \in S /\ SubSeq(r, 1, k) = Append(SubSeq(r, 1, k - 1), r[k])
      BY <1>2, UpToPlace
    <3>2. n \in 1 .. Len(r)
      BY <1>3
    <3> QED BY <3>1, <3>2
  <2>4. r[n] = ";"
    BY <1>3
  <2> HIDE DEF f
  <2> QED BY <2>2, <2>3, <2>4
<1>6. OnePass(f).mode \in Plain /\ OnePass(f).current = f
  BY <1>3 DEF At, Quiet
<1>7. p \o q = SubSeq(s, 1, i + n - 1)
  <2>1. \A k \in 1 .. Len(s) - i + 1 :
          SubSeq(s, 1, i - 1) \o SubSeq(SubSeq(s, i, Len(s)), 1, k) = SubSeq(s, 1, i + k - 1)
    BY TextBehind
  <2>2. SubSeq(s, 1, i - 1) \o SubSeq(SubSeq(s, i, Len(s)), 1, n) = SubSeq(s, 1, i + n - 1)
    BY <1>4, <2>1
  <2> QED BY <2>2 DEF Behind
<1> HIDE DEF p, f
<1>8. OnePass(f).queries = << >> /\ OnePass(f) \in States(S)
  BY <1>5, <1>6, OpenText, PassTyped DEF Open
<1>9. OnePass(q) = [mode |-> "code", current |-> << >>,
                    queries |-> IF isBlank(f) THEN << >> ELSE Append(<< >>, q)]
  <2>1. OnePass(q) = Scan(OnePass(f), ";")
    BY <1>5, PassSteps
  <2>2. PICK st, c : st = OnePass(f) /\ c = ";"
    OBVIOUS
  <2>3. st \in States(S) /\ c \in S /\ st.mode \in Plain /\ c = ";"
    BY <1>5, <1>6, <1>8, <2>2
  <2>4. Scan(st, c) = [mode |-> "code", current |-> << >>,
                       queries |-> IF isBlank(st.current) THEN st.queries
                                   ELSE Append(st.queries, Append(st.current, c))]
    BY <2>3, ScanFacts
  <2>5. st.current = f /\ st.queries = << >> /\ Append(st.current, c) = q
    BY <1>5, <1>6, <1>8, <2>2
  <2> QED BY <2>1, <2>2, <2>4, <2>5
<1>10. Front(q) = f
  BY <1>5, LongerText
<1>11. OnePass(p).mode = "code" /\ OnePass(p).current = << >> /\ OnePass(p).queries = qs
  BY DEF p, CutBefore
<1>12. qs \in Seq(Seq(S))
  BY <1>2, <1>11, PassTyped DEF States
<1>13. OnePass(p \o q) = [mode |-> "code", current |-> << >>,
                          queries |-> qs \o OnePass(q).queries]
  <2>1. OnePass(p \o q) = [mode |-> OnePass(q).mode, current |-> OnePass(q).current,
                           queries |-> OnePass(p).queries \o OnePass(q).queries]
    BY <1>2, <1>5, <1>11, PassStartsAnew
  <2>2. OnePass(q).mode = "code" /\ OnePass(q).current = << >>
    BY <1>9
  <2> QED BY <2>1, <2>2, <1>11
<1>14. qs \o OnePass(q).queries = WithQuery(qs, q)
  <2>1. CASE isBlank(f)
    <3>1. OnePass(q).queries = << >>
      BY <1>9, <2>1
    <3>2. qs \o << >> = qs
      BY <1>12, ConcatEmptySeq
    <3> QED BY <1>10, <2>1, <3>1, <3>2 DEF WithQuery
  <2>2. CASE ~isBlank(f)
    <3>1. OnePass(q).queries = Append(<< >>, q)
      BY <1>9, <2>2
    <3>2. Append(<< >>, q) = <<q>>
      <4>1. PICK one : one = <<q>>
        OBVIOUS
      <4>2. one \in Seq(Seq(S)) /\ << >> \in Seq(Seq(S))
        <5>1. PICK T : T = Seq(S)
          OBVIOUS
        <5>2. q \in T
          BY <1>5, <5>1
        <5>3. <<q>> \in Seq(T)
          BY <5>2, OneKid
        <5> QED BY <4>1, <5>1, <5>3, EmptySeq
      <4>3. Append(<< >>, q) = << >> \o one
        BY <1>5, <4>1, <4>2, AppendIsConcat
      <4>4. << >> \o one = one
        BY <4>2, ConcatEmptySeq
      <4> QED BY <4>1, <4>3, <4>4, Zenon
    <3>3. Append(qs, q) = qs \o <<q>>
      BY <1>5, <1>12, AppendIsConcat
    <3> QED BY <1>10, <2>2, <3>1, <3>2, <3>3, Zenon DEF WithQuery
  <2> QED BY <2>1, <2>2
<1>15. OnePass(SubSeq(s, 1, i + n - 1))
         = [mode |-> "code", current |-> << >>, queries |-> WithQuery(qs, q)]
  BY <1>7, <1>13, <1>14
<1>16. j - 1 = i + n - 1
  BY <1>1, <1>4
<1>17. CutBefore(s, j, WithQuery(qs, q))
  BY <1>15, <1>16 DEF CutBefore
<1> QED BY <1>4, <1>5, <1>17

\* How Cut goes on: from a place, with the queries so far.
CutPlaces(s) == (1 .. Len(s) + 1) \X Seq(Seq(Range(s)))

\* Where no query is left.
CutEnds(s) == {x \in CutPlaces(s) : findSemicolon(Behind(s, x[1])) = 0}

\* Behind the next query.
CutNext(s) ==
  [x \in CutPlaces(s) |->
     IF x \in CutEnds(s) THEN x
     ELSE <<x[1] + findSemicolon(Behind(s, x[1])),
            WithQuery(x[2], SubSeq(Behind(s, x[1]), 1, findSemicolon(Behind(s, x[1]))))>>]

\* How much of the text is left.
CutLeft(s) == [x \in CutPlaces(s) |-> Len(s) + 1 - x[1]]

\* What is cut when it stops at a place.
CutValue(s) == [x \in CutPlaces(s) |-> [queries |-> x[2], rest |-> Behind(s, x[1])]]

\* Each step goes to a later place.
LEMMA CutLater ==
  ASSUME NEW s, s \in Seq(Range(s)), NEW x \in CutPlaces(s) \ CutEnds(s)
  PROVE  /\ x[1] \in 1 .. Len(s)
         /\ \E i \in x[1] + 1 .. Len(s) + 1, qs \in Seq(Seq(Range(s))) : CutNext(s)[x] = <<i, qs>>
<1>1. PICK R : R = Range(s)
  OBVIOUS
<1>2. PICK i, qs, r, n : /\ i = x[1] /\ qs = x[2] /\ r = Behind(s, i) /\ n = findSemicolon(r)
  OBVIOUS
<1>3. x \in CutPlaces(s) /\ i \in 1 .. Len(s) + 1 /\ qs \in Seq(Seq(R)) /\ n # 0
  BY <1>1, <1>2 DEF CutPlaces, CutEnds
<1>4. s \in Seq(R) /\ Len(s) \in Nat
  BY <1>1, LenProperties
<1>5. r \in Seq(R) /\ Len(r) = Len(s) - i + 1
  <2>1. /\ SubSeq(s, i, Len(s)) \in Seq(R)
        /\ Len(SubSeq(s, i, Len(s))) = Len(s) - i + 1
    BY <1>3, <1>4, TextBehind
  <2> QED BY <1>2, <2>1 DEF Behind
<1>6. n \in 0 .. Len(r)
  BY <1>2, <1>5, SemicolonFound
<1>7. n \in 1 .. Len(s) - i + 1
  BY <1>3, <1>4, <1>5, <1>6
<1>8. i \in 1 .. Len(s) /\ i + n \in i + 1 .. Len(s) + 1
  BY <1>3, <1>4, <1>7
<1>9. PICK q : q = SubSeq(r, 1, n)
  OBVIOUS
<1>10. q \in Seq(R)
  BY <1>5, <1>6, <1>9, UpToPlace
<1>11. WithQuery(qs, q) \in Seq(Seq(R))
  <2>1. Append(qs, q) \in Seq(Seq(R))
    BY <1>3, <1>10, AppendProperties
  <2> QED BY <1>3, <2>1 DEF WithQuery
<1>12. CutNext(s)[x] = <<i + n, WithQuery(qs, q)>>
  <2>1. CutNext(s)[x] = <<x[1] + findSemicolon(Behind(s, x[1])),
            WithQuery(x[2], SubSeq(Behind(s, x[1]), 1, findSemicolon(Behind(s, x[1]))))>>
    <3>1. x \notin CutEnds(s)
      OBVIOUS
    <3> QED BY <1>3, <3>1, Zenon DEF CutNext
  <2> QED BY <1>2, <1>9, <2>1, Zenon
<1> QED BY <1>1, <1>2, <1>8, <1>11, <1>12

\* So Cut is the end of a descent.
LEMMA CutDescends ==
  ASSUME NEW s, s \in Seq(Range(s))
  PROVE  /\ Downward(CutPlaces(s), CutEnds(s), CutNext(s), CutLeft(s), Len(s) + 1)
         /\ \E f : /\ Descends(f, CutPlaces(s), CutEnds(s), CutNext(s), CutValue(s))
                   /\ Cut(s) = f[<<1, << >>>>]
<1> DEFINE D == CutPlaces(s)
           B == CutEnds(s)
           nx == CutNext(s)
           h == CutLeft(s)
           v == CutValue(s)
<1>1. Len(s) \in Nat
  BY LenProperties
<1>2. Downward(D, B, nx, h, Len(s) + 1)
  <2>1. h \in [D -> 0 .. Len(s) + 1] /\ \A x \in D : h[x] = Len(s) + 1 - x[1]
    <3>1. \A x \in D : Len(s) + 1 - x[1] \in 0 .. Len(s) + 1
      BY <1>1 DEF CutPlaces
    <3> QED BY <3>1 DEF CutLeft
  <2>2. ASSUME NEW x \in D \ B PROVE nx[x] \in D /\ h[nx[x]] < h[x]
    <3>1. x[1] \in 1 .. Len(s)
      BY <2>2, CutLater
    <3>2. PICK i \in x[1] + 1 .. Len(s) + 1, qs \in Seq(Seq(Range(s))) : nx[x] = <<i, qs>>
      BY <2>2, CutLater
    <3>3. i \in 1 .. Len(s) + 1
      BY <1>1, <3>1, <3>2
    <3>4. <<i, qs>> \in D /\ x \in D
      BY <2>2, <3>3 DEF CutPlaces
    <3>5. h[<<i, qs>>] = Len(s) + 1 - i /\ h[x] = Len(s) + 1 - x[1]
      BY <2>1, <3>4
    <3>6. Len(s) + 1 - i < Len(s) + 1 - x[1]
      BY <1>1, <3>1, <3>2
    <3> QED BY <3>2, <3>4, <3>5, <3>6
  <2>3. \A x \in B : x \in D /\ nx[x] = x
    <3>1. \A x \in B : x \in D
      BY DEF CutEnds
    <3> QED BY <3>1, Zenon DEF CutNext
  <2>4. nx \in [D -> D]
    <3>1. \A x \in D : nx[x] \in D
      <4> HIDE DEF D, B, nx, h
      <4> QED BY <2>2, <2>3
    <3>2. nx = [x \in D |-> nx[x]]
      BY DEF CutNext
    <3> HIDE DEF D, B, nx, h
    <3> QED BY <3>1, <3>2
  <2> HIDE DEF D, B, nx, h
  <2> QED BY <1>1, <2>1, <2>2, <2>4 DEF Downward
<1> DEFINE Cuts(g) == g = [x \in (1 .. Len(s) + 1) \X Seq(Seq(Range(s))) |->
        LET rest == SubSeq(s, x[1], Len(s))
            pos == findSemicolon(rest)
            query == SubSeq(rest, 1, pos)
        IN  IF pos = 0 THEN [queries |-> x[2], rest |-> rest]
            ELSE g[<<x[1] + pos,
                     IF isBlank(Front(query)) THEN x[2] ELSE Append(x[2], query)>>]]
<1>3. \A g : Cuts(g) <=> Descends(g, D, B, nx, v)
  <2> TAKE g
  <2>1. ASSUME NEW x \in D
        PROVE  (IF x \in B THEN v[x] ELSE g[nx[x]])
               = (LET rest == SubSeq(s, x[1], Len(s))
                      pos == findSemicolon(rest)
                      query == SubSeq(rest, 1, pos)
                  IN  IF pos = 0 THEN [queries |-> x[2], rest |-> rest]
                      ELSE g[<<x[1] + pos,
                               IF isBlank(Front(query)) THEN x[2] ELSE Append(x[2], query)>>])
    <3>1. PICK r, n, q : r = SubSeq(s, x[1], Len(s)) /\ n = findSemicolon(r) /\ q = SubSeq(r, 1, n)
      OBVIOUS
    <3>2. v[x] = [queries |-> x[2], rest |-> r]
      BY <3>1, Zenon DEF CutValue, Behind
    <3>3. x \in B <=> n = 0
      BY <3>1, Zenon DEF CutEnds, Behind
    <3>4. x \notin B => nx[x] = <<x[1] + n, WithQuery(x[2], q)>>
      BY <3>1, Zenon DEF CutNext, Behind
    <3>5. WithQuery(x[2], q) = IF isBlank(Front(q)) THEN x[2] ELSE Append(x[2], q)
      BY Zenon DEF WithQuery
    <3> HIDE DEF v, B, nx, D
    <3>6. (LET rest == SubSeq(s, x[1], Len(s))
               pos == findSemicolon(rest)
               query == SubSeq(rest, 1, pos)
           IN  IF pos = 0 THEN [queries |-> x[2], rest |-> rest]
               ELSE g[<<x[1] + pos,
                        IF isBlank(Front(query)) THEN x[2] ELSE Append(x[2], query)>>])
          = IF n = 0 THEN [queries |-> x[2], rest |-> r]
            ELSE g[<<x[1] + n, WithQuery(x[2], q)>>]
      BY <3>1, <3>5, Zenon
    <3> QED BY <3>2, <3>3, <3>4, <3>6, Zenon
  <2>2. D = (1 .. Len(s) + 1) \X Seq(Seq(Range(s)))
    BY DEF CutPlaces
  <2> HIDE DEF v, B, nx
  <2>3. (g = [x \in D |-> IF x \in B THEN v[x] ELSE g[nx[x]]]) <=> Cuts(g)
    BY <2>1, <2>2
  <2> HIDE DEF D
  <2> QED BY <2>3 DEF Descends
<1>4. Cut(s) = (CHOOSE g : Cuts(g))[<<1, << >>>>]
  BY DEF Cut
<1>5. \E f : Descends(f, D, B, nx, v)
  <2> HIDE DEF D, B, nx, h, v
  <2>1. PICK b : b = Len(s) + 1
    OBVIOUS
  <2>2. Downward(D, B, nx, h, b)
    BY <1>2, <2>1
  <2> QED BY <2>2, DescentExists
<1> HIDE DEF Cuts
<1>6. Cuts(CHOOSE g : Cuts(g))
  BY <1>3, <1>5
<1>7. Descends(CHOOSE g : Cuts(g), D, B, nx, v)
  BY <1>3, <1>6
<1> QED BY <1>2, <1>4, <1>7

\* Every text is one over its own characters.
LEMMA OwnCharacters ==
  ASSUME NEW S, NEW s \in Seq(S)
  PROVE  s \in Seq(Range(s)) /\ Range(s) \subseteq S
<1>1. Range(s) = {s[i] : i \in 1 .. Len(s)} /\ Range(s) \subseteq S
  BY Positions
<1>2. \A i \in 1 .. Len(s) : s[i] \in Range(s)
  BY <1>1
<1>3. s = [i \in 1 .. Len(s) |-> s[i]] /\ Len(s) \in Nat
  BY LenProperties, ElementOfSeq
<1>4. PICK R : R = Range(s)
  OBVIOUS
<1>5. s \in [1 .. Len(s) -> R]
  BY <1>2, <1>3, <1>4
<1>6. s \in Seq(R)
  BY <1>3, <1>5, SeqDef
<1> QED BY <1>1, <1>4, <1>6

\* Cut finds the queries of a pass, and what is left is what is current in it.
LEMMA CutIsPass ==
  ASSUME NEW S, NEW s \in Seq(S)
  PROVE  Cut(s) = [queries |-> OnePass(s).queries, rest |-> OnePass(s).current]
<1> DEFINE R == Range(s)
           D == CutPlaces(s)
           B == CutEnds(s)
           nx == CutNext(s)
           v == CutValue(s)
           E == {x \in D : CutBefore(s, x[1], x[2])}
           P == {[queries |-> OnePass(s).queries, rest |-> OnePass(s).current]}
<1>1. s \in Seq(R) /\ Len(s) \in Nat
  BY OwnCharacters, LenProperties
<1>2. /\ \A x \in D : x[1] \in 1 .. Len(s) + 1 /\ x[2] \in Seq(Seq(R))
      /\ \A i \in 1 .. Len(s) + 1, qs \in Seq(Seq(R)) : <<i, qs>> \in D
      /\ \A x \in B : x \in D
  BY DEF CutPlaces, CutEnds
<1> HIDE DEF R, D, B, nx, v
<1>3. /\ \A x \in E : x \in D /\ CutBefore(s, x[1], x[2])
      /\ \A i, qs : <<i, qs>> \in D /\ CutBefore(s, i, qs) => <<i, qs>> \in E
      /\ E \subseteq D
  OBVIOUS
<1> HIDE DEF E
<1>4. ASSUME NEW x \in E, x \in B PROVE v[x] \in P
  <2>1. PICK i, qs, r, p : i = x[1] /\ qs = x[2] /\ r = SubSeq(s, i, Len(s))
          /\ p = SubSeq(s, 1, i - 1)
    OBVIOUS
  <2>2. /\ i \in 1 .. Len(s) + 1 /\ qs \in Seq(Seq(R))
        /\ OnePass(p) = [mode |-> "code", current |-> << >>, queries |-> qs]
    BY <1>2, <1>3, <2>1 DEF CutBefore
  <2>3. findSemicolon(r) = 0 /\ v[x] = [queries |-> qs, rest |-> r]
    <3>1. x \in D
      BY <1>3
    <3>2. findSemicolon(r) = 0
      BY <1>4, <2>1 DEF B, CutEnds, Behind
    <3>3. v[x] = [queries |-> qs, rest |-> r]
      BY <2>1, <3>1, Zenon DEF v, D, CutValue, Behind
    <3> QED BY <3>2, <3>3
  <2>4. r \in Seq(R) /\ p \in Seq(R) /\ p \o r = s
    <3>1. /\ SubSeq(s, i, Len(s)) \in Seq(R) /\ SubSeq(s, 1, i - 1) \in Seq(R)
          /\ SubSeq(s, 1, i - 1) \o SubSeq(s, i, Len(s)) = s
      BY <1>1, <2>2, TextBehind
    <3> QED BY <2>1, <3>1, Zenon
  <2>5. Open(r)
    BY <2>3, <2>4, SemicolonFound
  <2>6. OnePass(r).current = r /\ OnePass(r).queries = << >>
    BY <2>4, <2>5, OpenText DEF Open
  <2>7. OnePass(p).mode = "code" /\ OnePass(p).current = << >> /\ OnePass(p).queries = qs
    BY <2>2
  <2>8. OnePass(p \o r) = [mode |-> OnePass(r).mode, current |-> OnePass(r).current,
                           queries |-> OnePass(p).queries \o OnePass(r).queries]
    BY <2>4, <2>7, PassStartsAnew
  <2>9. qs \o << >> = qs
    BY <2>2, ConcatEmptySeq
  <2>10. OnePass(s).current = r /\ OnePass(s).queries = qs
    <3>1. OnePass(s) = [mode |-> OnePass(r).mode, current |-> r, queries |-> qs]
      BY <2>4, <2>6, <2>7, <2>8, <2>9, Zenon
    <3> QED BY <3>1
  <2> QED BY <2>3, <2>10
<1>5. ASSUME NEW x \in E, x \notin B PROVE nx[x] \in E
  <2>1. PICK i, qs, r, n : i = x[1] /\ qs = x[2] /\ r = SubSeq(s, i, Len(s)) /\ n = findSemicolon(r)
    OBVIOUS
  <2>2. x \in D /\ i \in 1 .. Len(s) + 1 /\ qs \in Seq(Seq(R))
        /\ CutBefore(s, i, qs)
    BY <1>2, <1>3, <2>1
  <2>3. n # 0
    BY <1>5, <2>1, <2>2 DEF B, D, CutEnds, Behind
  <2>4. PICK q : q = SubSeq(r, 1, n)
    OBVIOUS
  <2>5. nx[x] = <<i + n, WithQuery(qs, q)>>
    BY <1>5, <2>1, <2>2, <2>4, Zenon DEF nx, D, B, CutNext, Behind
  <2>6. PICK j : j = i + n
    OBVIOUS
  <2>7. /\ n \in 1 .. Len(s) - i + 1 /\ q \in Seq(R) /\ CutBefore(s, j, WithQuery(qs, q))
    <3>1. PICK T : T = R
      OBVIOUS
    <3>2. s \in Seq(T) /\ r = Behind(s, i) /\ n = findSemicolon(r) /\ i \in 1 .. Len(s) + 1
      BY <1>1, <2>1, <2>2, <3>1 DEF Behind
    <3>3. CutBefore(s, i, qs)
      BY <2>2
    <3>4. /\ n \in 1 .. Len(s) - i + 1 /\ q \in Seq(T) /\ CutBefore(s, j, WithQuery(qs, q))
      BY <2>3, <2>4, <2>6, <3>2, <3>3, QueryCut
    <3> QED BY <3>1, <3>4
  <2>8. j \in 1 .. Len(s) + 1
    BY <1>1, <2>2, <2>6, <2>7
  <2>9. WithQuery(qs, q) \in Seq(Seq(R))
    <3>1. Append(qs, q) \in Seq(Seq(R))
      BY <2>2, <2>7, AppendProperties
    <3> QED BY <2>2, <3>1 DEF WithQuery
  <2> QED BY <1>2, <1>3, <2>5, <2>6, <2>7, <2>8, <2>9
<1>6. <<1, << >>>> \in E
  <2>1. 1 \in 1 .. Len(s) + 1 /\ 1 - 1 = 0 /\ << >> \in Seq(Seq(R))
    BY <1>1, EmptySeq
  <2>2. SubSeq(s, 1, 0) = << >>
    BY UpToPlace
  <2>3. OnePass(SubSeq(s, 1, 0)) = [mode |-> "code", current |-> << >>, queries |-> << >>]
    BY <2>2, PassSteps DEF Start
  <2>4. CutBefore(s, 1, << >>)
    BY <2>1, <2>3 DEF CutBefore
  <2> QED BY <1>2, <1>3, <2>1, <2>4
<1>7. Cut(s) \in P
  <2>1. PICK h, b : Downward(D, B, nx, h, b)
    BY <1>1, CutDescends DEF D, B, nx, R
  <2>2. PICK f : Descends(f, D, B, nx, v) /\ Cut(s) = f[<<1, << >>>>]
    BY <1>1, CutDescends DEF D, B, nx, v, R
  <2>3. E \subseteq D /\ (\A x \in E \ B : nx[x] \in E) /\ (\A x \in E \cap B : v[x] \in P)
    BY <1>3, <1>4, <1>5
  <2> HIDE DEF P
  <2>4. \A x \in E : f[x] \in P
    BY <2>1, <2>2, <2>3, DescentStays
  <2> QED BY <1>6, <2>2, <2>4
<1> QED BY <1>7

-----------------------------------------------------------------------------
(* How the Lexer goes on *)

\* From a place, with the tokens so far.
LexPlaces(s) == (1 .. Len(s) + 1) \X Seq(Kinds)

\* From the place i with the tokens t to the place j with the tokens u.
LexStep(s, i, t, j, u) ==
  \/ s[i] \in Blanks /\ j = i + 1 /\ u = t
  \/ Dashes(s, i) /\ j = Find(s, i, "newline") /\ u = t
  \/ s[i] \in Single /\ ~Dashes(s, i) /\ j = i + 1 /\ u = Append(t, s[i])
  \/ /\ s[i] = "quote" /\ Find(s, i + 1, "quote") <= Len(s)
     /\ j = Find(s, i + 1, "quote") + 1 /\ u = Append(t, "string")

\* The end d at the place i with the tokens t.
LexStop(s, i, t, d) ==
  \/ i > Len(s) /\ d = Stop(t, "eof")
  \/ i <= Len(s) /\ s[i] \notin Blanks \cup Single \cup {"quote"} /\ d = Stop(t, "syntax")
  \/ i <= Len(s) /\ s[i] = "quote" /\ Find(s, i + 1, "quote") > Len(s) /\ d = Stop(t, "incomplete")

\* Where it stops: behind the text, at a stray character, at an open string.
LexEnds(s) ==
  {x \in LexPlaces(s) :
     \/ x[1] > Len(s)
     \/ s[x[1]] \notin Blanks \cup Single \cup {"quote"}
     \/ s[x[1]] = "quote" /\ Find(s, x[1] + 1, "quote") > Len(s)}

\* Where it goes from any other place.
LexNext(s) ==
  [x \in LexPlaces(s) |->
     IF x \in LexEnds(s) THEN x
     ELSE IF s[x[1]] \in Blanks THEN <<x[1] + 1, x[2]>>
     ELSE IF Dashes(s, x[1]) THEN <<Find(s, x[1], "newline"), x[2]>>
     ELSE IF s[x[1]] \in Single THEN <<x[1] + 1, Append(x[2], s[x[1]])>>
     ELSE <<Find(s, x[1] + 1, "quote") + 1, Append(x[2], "string")>>]

\* How much of the text is left.
LexLeft(s) == [x \in LexPlaces(s) |-> Len(s) + 1 - x[1]]

\* What it returns or throws when it stops at a place.
LexValue(s) ==
  [x \in LexPlaces(s) |->
     IF x[1] > Len(s) THEN Stop(x[2], "eof")
     ELSE IF s[x[1]] # "quote" THEN Stop(x[2], "syntax") ELSE Stop(x[2], "incomplete")]

\* A dash is one of the tokens of one character, a quote is not.
LEMMA KindFacts ==
  /\ "quote" \notin Blanks /\ "quote" \notin Single /\ Blanks \cap Single = {}
  /\ "-" \in Single /\ ";" \in Single /\ Single \subseteq Kinds /\ "string" \in Kinds
  /\ "string" \notin Single
  /\ \A s, i : Dashes(s, i) => s[i] = "-" /\ s[i + 1] = "-" /\ i < Len(s)
BY DEF Blanks, Single, Kinds, Dashes

\* From each place there is one or the other.
LEMMA LexPlaceFacts ==
  ASSUME NEW S, NEW s \in Seq(S), NEW i \in 1 .. Len(s) + 1, NEW t \in Seq(Kinds),
         NEW x, x = <<i, t>>
  PROVE  /\ x \in LexPlaces(s)
         /\ x \in LexEnds(s) => LexStop(s, i, t, LexValue(s)[x])
         /\ x \notin LexEnds(s) =>
              \E j \in i + 1 .. Len(s) + 1, u \in Seq(Kinds) :
                i <= Len(s) /\ LexNext(s)[x] = <<j, u>> /\ LexStep(s, i, t, j, u)
<1>1. Len(s) \in Nat
  BY LenProperties
<1>2. x \in LexPlaces(s) /\ x[1] = i /\ x[2] = t
  BY DEF LexPlaces
<1>3. x \in LexEnds(s) <=> \/ i > Len(s)
                           \/ s[i] \notin Blanks \cup Single \cup {"quote"}
                           \/ s[i] = "quote" /\ Find(s, i + 1, "quote") > Len(s)
  BY <1>2, Zenon DEF LexEnds
<1>4. LexValue(s)[x] = IF i > Len(s) THEN Stop(t, "eof")
                       ELSE IF s[i] # "quote" THEN Stop(t, "syntax") ELSE Stop(t, "incomplete")
  BY <1>2, Zenon DEF LexValue
<1>5. x \notin LexEnds(s) =>
        LexNext(s)[x] = IF s[i] \in Blanks THEN <<i + 1, t>>
                        ELSE IF Dashes(s, i) THEN <<Find(s, i, "newline"), t>>
                        ELSE IF s[i] \in Single THEN <<i + 1, Append(t, s[i])>>
                        ELSE <<Find(s, i + 1, "quote") + 1, Append(t, "string")>>
  BY <1>2, Zenon DEF LexNext
<1>6. i > Len(s) \/ i <= Len(s)
  BY <1>1
<1>7. ASSUME x \in LexEnds(s) PROVE LexStop(s, i, t, LexValue(s)[x])
  <2>1. PICK d : d = LexValue(s)[x]
    OBVIOUS
  <2>2. s[i] \notin Blanks \cup Single \cup {"quote"} => s[i] # "quote"
    OBVIOUS
  <2>3. LexStop(s, i, t, d)
    <3>1. CASE i > Len(s)
      BY <1>4, <2>1, <3>1 DEF LexStop
    <3>2. CASE ~(i > Len(s)) /\ s[i] # "quote"
      <4>1. i <= Len(s) /\ s[i] \notin Blanks \cup Single \cup {"quote"}
        BY <1>3, <1>6, <1>7, <3>2
      <4> QED BY <1>4, <2>1, <3>2, <4>1, Zenon DEF LexStop
    <3>3. CASE ~(i > Len(s)) /\ s[i] = "quote"
      <4>1. i <= Len(s) /\ Find(s, i + 1, "quote") > Len(s)
        BY <1>3, <1>6, <1>7, <3>3
      <4> QED BY <1>4, <2>1, <3>3, <4>1, Zenon DEF LexStop
    <3> QED BY <3>1, <3>2, <3>3
  <2> QED BY <2>1, <2>3
<1>8. ASSUME x \notin LexEnds(s)
      PROVE  \E j \in i + 1 .. Len(s) + 1, u \in Seq(Kinds) :
                i <= Len(s) /\ LexNext(s)[x] = <<j, u>> /\ LexStep(s, i, t, j, u)
  <2>1. i \in 1 .. Len(s) /\ i <= Len(s) /\ i + 1 \in i + 1 .. Len(s) + 1
    <3>1. ~(i > Len(s))
      BY <1>3, <1>8
    <3> QED BY <1>1, <3>1
  <2>2. s[i] \in Blanks \cup Single \cup {"quote"}
        /\ ~(s[i] = "quote" /\ Find(s, i + 1, "quote") > Len(s))
    BY <1>3, <1>8
  <2> DEFINE Goal(j, u) == LexNext(s)[x] = <<j, u>> /\ LexStep(s, i, t, j, u)
  <2>3. \A k \in Kinds : Append(t, k) \in Seq(Kinds)
    BY AppendProperties
  <2>4. SUFFICES \E j \in i + 1 .. Len(s) + 1, u \in Seq(Kinds) : Goal(j, u)
    BY <2>1
  <2>5. CASE s[i] \in Blanks
    <3>1. Goal(i + 1, t)
      BY <1>5, <1>8, <2>5, Zenon DEF LexStep
    <3> QED BY <2>1, <3>1
  <2>6. CASE s[i] \notin Blanks /\ Dashes(s, i)
    <3>1. PICK j : j = Find(s, i, "newline")
      OBVIOUS
    <3>2. j \in i .. Len(s) + 1 /\ (j <= Len(s) => s[j] = "newline")
      BY <3>1, FindFacts
    <3>3. s[i] # "newline"
      BY <2>6, KindFacts
    <3>4. j \in i + 1 .. Len(s) + 1
      BY <1>1, <2>1, <3>2, <3>3
    <3>5. Goal(j, t)
      BY <1>5, <1>8, <2>6, <3>1, Zenon DEF LexStep
    <3> QED BY <3>4, <3>5
  <2>7. CASE s[i] \notin Blanks /\ ~Dashes(s, i) /\ s[i] \in Single
    <3>1. Goal(i + 1, Append(t, s[i]))
      BY <1>5, <1>8, <2>7, Zenon DEF LexStep
    <3>2. Append(t, s[i]) \in Seq(Kinds)
      BY <2>3, <2>7, KindFacts
    <3> QED BY <2>1, <3>1, <3>2
  <2>8. CASE s[i] = "quote"
    <3>1. PICK j, n : n = i + 1 /\ j = Find(s, n, "quote")
      OBVIOUS
    <3>2. n \in 1 .. Len(s) + 1
      BY <1>1, <2>1, <3>1
    <3>3. j \in n .. Len(s) + 1
      BY <3>1, <3>2, FindFacts
    <3>4. ~(j > Len(s))
      BY <2>2, <2>8, <3>1
    <3>5. j <= Len(s) /\ j + 1 \in i + 1 .. Len(s) + 1
      BY <1>1, <2>1, <3>1, <3>2, <3>3, <3>4
    <3>6. s[i] \notin Blanks /\ s[i] \notin Single /\ ~Dashes(s, i)
      BY <2>8, KindFacts
    <3>7. LexNext(s)[x] = <<j + 1, Append(t, "string")>>
      BY <1>5, <1>8, <3>1, <3>6, Zenon
    <3>8. LexStep(s, i, t, j + 1, Append(t, "string"))
      BY <2>8, <3>1, <3>5, Zenon DEF LexStep
    <3>9. Append(t, "string") \in Seq(Kinds)
      BY <2>3, KindFacts
    <3> QED BY <3>5, <3>7, <3>8, <3>9
  <2> QED BY <2>2, <2>5, <2>6, <2>7, <2>8
<1> QED BY <1>2, <1>7, <1>8

\* f tells how the Lexer ends from each place of s.
Reads(f, s) == Descends(f, LexPlaces(s), LexEnds(s), LexNext(s), LexValue(s))

\* Each step of the Lexer goes to a later place.
LEMMA LexLater ==
  ASSUME NEW S, NEW s \in Seq(S)
  PROVE  Downward(LexPlaces(s), LexEnds(s), LexNext(s), LexLeft(s), Len(s) + 1)
<1> DEFINE D == LexPlaces(s)
           B == LexEnds(s)
           nx == LexNext(s)
           h == LexLeft(s)
<1>1. Len(s) \in Nat
  BY LenProperties
<1>2. h \in [D -> 0 .. Len(s) + 1] /\ \A x \in D : h[x] = Len(s) + 1 - x[1]
  <2>1. \A x \in D : Len(s) + 1 - x[1] \in 0 .. Len(s) + 1
    BY <1>1 DEF LexPlaces
  <2> QED BY <2>1 DEF LexLeft
<1>3. ASSUME NEW x \in D \ B PROVE nx[x] \in D /\ h[nx[x]] < h[x]
  <2>1. PICK i, t : i = x[1] /\ t = x[2]
    OBVIOUS
  <2>2. i \in 1 .. Len(s) + 1 /\ t \in Seq(Kinds) /\ x = <<i, t>>
    BY <2>1 DEF LexPlaces
  <2>3. x \in D /\ x \notin B
    BY <1>3
  <2>4. PICK j \in i + 1 .. Len(s) + 1, u \in Seq(Kinds) :
          i <= Len(s) /\ nx[x] = <<j, u>> /\ LexStep(s, i, t, j, u)
    <3>1. \E j \in i + 1 .. Len(s) + 1, u \in Seq(Kinds) :
            i <= Len(s) /\ LexNext(s)[x] = <<j, u>> /\ LexStep(s, i, t, j, u)
      BY <2>2, <2>3, LexPlaceFacts
    <3> QED BY <3>1
  <2>5. j \in 1 .. Len(s) + 1 /\ Len(s) + 1 - j < Len(s) + 1 - i
    BY <1>1, <2>2, <2>4
  <2>6. <<j, u>> \in D
    BY <2>4, <2>5 DEF LexPlaces
  <2>7. h[<<j, u>>] = Len(s) + 1 - j /\ h[x] = Len(s) + 1 - i
    BY <1>2, <2>1, <2>3, <2>6
  <2> QED BY <2>4, <2>5, <2>6, <2>7
<1>4. \A x \in B : x \in D /\ nx[x] = x
  <2>1. \A x \in B : x \in D
    BY DEF LexEnds
  <2> QED BY <2>1, Zenon DEF LexNext
<1>5. nx \in [D -> D]
  <2>1. nx = [x \in D |-> nx[x]]
    BY DEF LexNext
  <2> HIDE DEF D, B, nx, h
  <2>2. \A x \in D : nx[x] \in D
    BY <1>3, <1>4
  <2> QED BY <2>1, <2>2
<1>6. Downward(D, B, nx, h, Len(s) + 1)
  <2> HIDE DEF D, B, nx, h
  <2> QED BY <1>1, <1>2, <1>3, <1>5 DEF Downward
<1> QED BY <1>6

\* tokenize is the end of a descent.
LEMMA LexDescends ==
  ASSUME NEW S, NEW s \in Seq(S)
  PROVE  \E f : Reads(f, s) /\ tokenize(s) = f[<<1, << >>>>]
<1> DEFINE D == LexPlaces(s)
           B == LexEnds(s)
           nx == LexNext(s)
           v == LexValue(s)
           h == LexLeft(s)
<1> DEFINE Lexes(g) == g = [x \in (1 .. Len(s) + 1) \X Seq(Kinds) |->
        LET i == x[1]
            tokens == x[2]
            close == Find(s, i + 1, "quote")
        IN  IF i > Len(s) THEN Stop(tokens, "eof")
            ELSE IF s[i] \in Blanks THEN g[<<i + 1, tokens>>]
            ELSE IF Dashes(s, i) THEN g[<<Find(s, i, "newline"), tokens>>]
            ELSE IF s[i] \in Single THEN g[<<i + 1, Append(tokens, s[i])>>]
            ELSE IF s[i] # "quote" THEN Stop(tokens, "syntax")
            ELSE IF close > Len(s) THEN Stop(tokens, "incomplete")
            ELSE g[<<close + 1, Append(tokens, "string")>>]]
<1>1. \A g : Lexes(g) <=> Descends(g, D, B, nx, v)
  <2> TAKE g
  <2>1. ASSUME NEW x \in D
        PROVE  (IF x \in B THEN v[x] ELSE g[nx[x]])
               = (LET i == x[1]
                      tokens == x[2]
                      close == Find(s, i + 1, "quote")
                  IN  IF i > Len(s) THEN Stop(tokens, "eof")
                      ELSE IF s[i] \in Blanks THEN g[<<i + 1, tokens>>]
                      ELSE IF Dashes(s, i) THEN g[<<Find(s, i, "newline"), tokens>>]
                      ELSE IF s[i] \in Single THEN g[<<i + 1, Append(tokens, s[i])>>]
                      ELSE IF s[i] # "quote" THEN Stop(tokens, "syntax")
                      ELSE IF close > Len(s) THEN Stop(tokens, "incomplete")
                      ELSE g[<<close + 1, Append(tokens, "string")>>])
    <3>1. PICK i, t, c, k, m :
            i = x[1] /\ t = x[2] /\ c = s[i] /\ k = Find(s, i + 1, "quote")
              /\ m = Find(s, i, "newline")
      OBVIOUS
    <3>2. x \in B <=> i > Len(s) \/ c \notin Blanks \cup Single \cup {"quote"}
                      \/ (c = "quote" /\ k > Len(s))
      BY <3>1, Zenon DEF LexEnds
    <3>3. x \notin B => nx[x] = IF c \in Blanks THEN <<i + 1, t>>
                                ELSE IF Dashes(s, i) THEN <<m, t>>
                                ELSE IF c \in Single THEN <<i + 1, Append(t, c)>>
                                ELSE <<k + 1, Append(t, "string")>>
      BY <3>1, Zenon DEF LexNext
    <3>4. v[x] = IF i > Len(s) THEN Stop(t, "eof")
                 ELSE IF c # "quote" THEN Stop(t, "syntax") ELSE Stop(t, "incomplete")
      BY <3>1, Zenon DEF LexValue
    <3>5. (Dashes(s, i) => c \in Single) /\ (c = "quote" => c \notin Blanks /\ c \notin Single)
      BY <3>1, KindFacts
    <3> HIDE DEF v, B, nx, D
    <3>6. (IF x \in B THEN v[x] ELSE g[nx[x]])
          = IF i > Len(s) THEN Stop(t, "eof")
            ELSE IF c \in Blanks THEN g[<<i + 1, t>>]
            ELSE IF Dashes(s, i) THEN g[<<m, t>>]
            ELSE IF c \in Single THEN g[<<i + 1, Append(t, c)>>]
            ELSE IF c # "quote" THEN Stop(t, "syntax")
            ELSE IF k > Len(s) THEN Stop(t, "incomplete")
            ELSE g[<<k + 1, Append(t, "string")>>]
      <4>1. CASE i > Len(s)
        BY <3>2, <3>4, <4>1, Zenon
      <4>2. CASE ~(i > Len(s)) /\ c \in Blanks
        BY <3>2, <3>3, <3>5, <4>2, Zenon
      <4>3. CASE ~(i > Len(s)) /\ c \notin Blanks /\ Dashes(s, i)
        BY <3>2, <3>3, <3>5, <4>3, Zenon
      <4>4. CASE ~(i > Len(s)) /\ c \notin Blanks /\ ~Dashes(s, i) /\ c \in Single
        BY <3>2, <3>3, <3>5, <4>4, Zenon
      <4>5. CASE ~(i > Len(s)) /\ c \notin Blanks /\ ~Dashes(s, i) /\ c \notin Single /\ c # "quote"
        <5>1. c \notin Blanks \cup Single \cup {"quote"}
          BY <4>5
        <5> QED BY <3>2, <3>4, <4>5, <5>1, Zenon
      <4>6. CASE ~(i > Len(s)) /\ c \notin Blanks /\ ~Dashes(s, i) /\ c \notin Single /\ c = "quote"
        <5>1. c \in Blanks \cup Single \cup {"quote"}
          BY <4>6
        <5>2. CASE k > Len(s)
          BY <3>2, <3>4, <4>6, <5>2, Zenon
        <5>3. CASE ~(k > Len(s))
          BY <3>2, <3>3, <4>6, <5>1, <5>3, Zenon
        <5> QED BY <5>2, <5>3
      <4> QED BY <4>1, <4>2, <4>3, <4>4, <4>5, <4>6, Zenon
    <3> QED BY <3>1, <3>6, Zenon
  <2>2. D = (1 .. Len(s) + 1) \X Seq(Kinds)
    BY DEF LexPlaces
  <2> HIDE DEF v, B, nx
  <2>3. (g = [x \in D |-> IF x \in B THEN v[x] ELSE g[nx[x]]]) <=> Lexes(g)
    BY <2>1, <2>2
  <2> HIDE DEF D
  <2> QED BY <2>3 DEF Descends
<1>2. tokenize(s) = (CHOOSE g : Lexes(g))[<<1, << >>>>]
  BY DEF tokenize
<1>3. \E f : Descends(f, D, B, nx, v)
  <2>1. PICK b : Downward(D, B, nx, h, b)
    BY LexLater
  <2> HIDE DEF D, B, nx, h, v
  <2> QED BY <2>1, DescentExists
<1> HIDE DEF Lexes
<1>4. Lexes(CHOOSE g : Lexes(g))
  BY <1>1, <1>3
<1>5. Descends(CHOOSE g : Lexes(g), D, B, nx, v)
  BY <1>1, <1>4
<1> QED BY <1>2, <1>5 DEF Reads

\* What holds at the start and is kept by the steps of the Lexer holds where it ends.
LEMMA LexerReaches ==
  ASSUME NEW S, NEW s \in Seq(S), NEW E, NEW P, <<1, << >>>> \in E,
         \A i \in 1 .. Len(s) : \A j \in i + 1 .. Len(s) + 1 : \A t, u \in Seq(Kinds) :
            <<i, t>> \in E /\ LexStep(s, i, t, j, u) => <<j, u>> \in E,
         \A i \in 1 .. Len(s) + 1 : \A t \in Seq(Kinds) : \A d :
            <<i, t>> \in E /\ LexStop(s, i, t, d) => d \in P
  PROVE  tokenize(s) \in P
<1> DEFINE D == LexPlaces(s)
           B == LexEnds(s)
           nx == LexNext(s)
           v == LexValue(s)
           h == LexLeft(s)
           F == D \cap E
<1>1. Len(s) \in Nat
  BY LenProperties
<1>2. PICK f : Descends(f, D, B, nx, v) /\ tokenize(s) = f[<<1, << >>>>]
  BY LexDescends DEF Reads
<1>3. PICK b : Downward(D, B, nx, h, b)
  BY LexLater
<1>4. \A x \in D : \E i \in 1 .. Len(s) + 1, t \in Seq(Kinds) : x = <<i, t>>
  BY DEF LexPlaces
<1>5. \A i \in 1 .. Len(s) + 1, t \in Seq(Kinds) : <<i, t>> \in D
  BY DEF LexPlaces
<1>6. <<1, << >>>> \in F
  <2>1. 1 \in 1 .. Len(s) + 1 /\ << >> \in Seq(Kinds)
    BY <1>1, EmptySeq
  <2>2. <<1, << >>>> \in D
    BY <1>5, <2>1
  <2> HIDE DEF D
  <2> QED BY <2>2
<1>7. ASSUME NEW x \in F, x \in B PROVE v[x] \in P
  <2>1. PICK i \in 1 .. Len(s) + 1, t \in Seq(Kinds) : x = <<i, t>>
    BY <1>4
  <2>2. LexStop(s, i, t, v[x])
    BY <1>7, <2>1, LexPlaceFacts
  <2>3. <<i, t>> \in E
    BY <2>1
  <2> QED BY <2>2, <2>3
<1>8. ASSUME NEW x \in F, x \notin B PROVE nx[x] \in F
  <2>1. PICK i \in 1 .. Len(s) + 1, t \in Seq(Kinds) : x = <<i, t>>
    BY <1>4
  <2>2. PICK j \in i + 1 .. Len(s) + 1, u \in Seq(Kinds) :
          i <= Len(s) /\ nx[x] = <<j, u>> /\ LexStep(s, i, t, j, u)
    BY <1>8, <2>1, LexPlaceFacts
  <2>3. i \in 1 .. Len(s) /\ j \in 1 .. Len(s) + 1
    BY <1>1, <2>2
  <2>4. <<i, t>> \in E
    BY <2>1
  <2>5. <<j, u>> \in E
    BY <2>2, <2>3, <2>4
  <2> QED BY <1>5, <2>2, <2>3, <2>5
<1> HIDE DEF D, B, nx, v, h, F
<1>9. F \subseteq D
  BY DEF F
<1>10. \A x \in F : f[x] \in P
  <2>1. (\A x \in F \ B : nx[x] \in F) /\ (\A x \in F \cap B : v[x] \in P)
    BY <1>7, <1>8
  <2> QED BY <1>2, <1>3, <1>9, <2>1, DescentStays
<1> QED BY <1>2, <1>6, <1>10

-----------------------------------------------------------------------------
(* The Lexer and the pass are in step *)

\* A place between two tokens is outside of strings, and behind a comment
\* only if that ends there.
Sync(s, i) ==
  \/ Fresh(s, i)
  \/ At(s, i - 1).mode = "comment" /\ (i <= Len(s) => s[i] = "newline")

\* What a place in step means for the character there.
LEMMA SyncFacts ==
  ASSUME NEW S, NEW s \in Seq(S), NEW i \in 1 .. Len(s), Sync(s, i)
  PROVE  /\ s[i] # "newline" => Fresh(s, i) /\ At(s, i - 1).mode \in Plain
         /\ s[i] \in Blanks => At(s, i).mode = "code"
<1>1. Len(s) \in Nat /\ i <= Len(s)
  BY LenProperties
<1>2. s[i] # "newline" => Fresh(s, i)
  BY <1>1 DEF Sync
<1>3. Fresh(s, i) => At(s, i - 1).mode \in Plain
  BY FreshSteps
<1>4. ASSUME s[i] \in Blanks PROVE At(s, i).mode = "code"
  <2>1. s[i] # "quote" /\ s[i] # "-"
    BY <1>4 DEF Blanks
  <2>2. CASE Fresh(s, i)
    BY <2>1, <2>2, FreshSteps
  <2>3. CASE ~Fresh(s, i)
    <3>1. At(s, i - 1).mode = "comment" /\ s[i] = "newline"
      BY <1>1, <2>3 DEF Sync
    <3>2. At(s, i - 1).mode \in Modes /\ At(s, i).mode = Turned(At(s, i - 1).mode, s[i])
      BY PlaceFacts
    <3> QED BY <3>1, <3>2, TurnedModes
  <2> QED BY <2>2, <2>3
<1> QED BY <1>2, <1>3, <1>4

\* The steps of the Lexer lead from places in step to places in step.
LEMMA SyncStays ==
  ASSUME NEW S, NEW s \in Seq(S), NEW i \in 1 .. Len(s), Sync(s, i),
         NEW t, NEW u, NEW j, LexStep(s, i, t, j, u)
  PROVE  /\ Sync(s, j)
         /\ Dashes(s, i) => At(s, j - 1).mode = "comment"
         /\ s[i] = "quote" => s[j - 1] = "quote"
<1>1. Len(s) \in Nat /\ i \in Int
  BY LenProperties
<1>2. /\ s[i] \in Blanks => s[i] # "quote" /\ s[i] # "-"
      /\ Dashes(s, i) => s[i] = "-"
      /\ s[i] \in Single => s[i] # "quote" /\ s[i] # "newline"
  BY DEF Blanks, Single, Dashes
<1>3. CASE s[i] \in Blanks /\ j = i + 1
  <2>1. At(s, i).mode = "code"
    BY <1>3, SyncFacts
  <2>2. Fresh(s, i + 1)
    BY <1>1, <2>1, CodeIsFresh
  <2>3. ~Dashes(s, i) /\ s[i] # "quote"
    BY <1>2, <1>3
  <2> QED BY <1>3, <2>2, <2>3 DEF Sync
<1>4. CASE Dashes(s, i) /\ j = Find(s, i, "newline")
  <2>1. Fresh(s, i)
    BY <1>2, <1>4, SyncFacts
  <2>2. /\ j <= Len(s) => s[j] = "newline"
        /\ At(s, j - 1).mode = "comment"
    BY <1>4, <2>1, CommentSkipped
  <2>3. s[i] # "quote"
    BY <1>2, <1>4
  <2> QED BY <2>2, <2>3 DEF Sync
<1>5. CASE s[i] \in Single /\ ~Dashes(s, i) /\ j = i + 1
  <2>1. Fresh(s, i)
    BY <1>2, <1>5, SyncFacts
  <2>2. Fresh(s, i + 1)
    BY <1>2, <1>5, <2>1, FreshSteps
  <2>3. s[i] # "quote"
    BY <1>2, <1>5
  <2> QED BY <1>5, <2>2, <2>3 DEF Sync
<1>6. CASE s[i] = "quote" /\ Find(s, i + 1, "quote") <= Len(s) /\ j = Find(s, i + 1, "quote") + 1
  <2>1. PICK k : k = Find(s, i + 1, "quote")
    OBVIOUS
  <2>2. Fresh(s, i)
    BY <1>6, SyncFacts
  <2>3. At(s, i).mode = "string"
    BY <1>6, <2>2, FreshSteps
  <2>4. k \in i + 1 .. Len(s) + 1 /\ s[k] = "quote" /\ At(s, k).mode = "code"
    BY <1>6, <2>1, <2>3, StringSkipped
  <2>5. k \in Int
    BY <1>1, <2>4
  <2>6. Fresh(s, k + 1)
    BY <2>4, <2>5, CodeIsFresh
  <2>7. j = k + 1 /\ j - 1 = k
    BY <1>6, <2>1, <2>5
  <2>8. ~Dashes(s, i)
    BY <1>2, <1>6
  <2> QED BY <2>4, <2>6, <2>7, <2>8 DEF Sync
<1> QED BY <1>3, <1>4, <1>5, <1>6 DEF LexStep

\* Where no query ended, there was no end of one.
LEMMA QuietBefore ==
  ASSUME NEW S, NEW s \in Seq(S), NEW n \in 0 .. Len(s), Quiet(s, n)
  PROVE  \A i \in 1 .. n : ~(At(s, i - 1).mode \in Plain /\ s[i] = ";")
<1>1. Len(s) \in Nat
  BY LenProperties
<1>2. SUFFICES ASSUME NEW i \in 1 .. n, At(s, i - 1).mode \in Plain, s[i] = ";" PROVE FALSE
  OBVIOUS
<1> DEFINE Loud == {k \in 1 .. n : ~Quiet(s, k)}
<1>3. i \in 1 .. Len(s) /\ i \in Int /\ n \in Int /\ n \in i .. n
  BY <1>1
<1>4. i \in Loud
  BY <1>2, <1>3, PlaceFacts
<1>5. ASSUME NEW k \in i .. n - 1, k \in Loud PROVE k + 1 \in Loud
  <2>1. PICK m : m = k + 1
    OBVIOUS
  <2>2. m \in 1 .. Len(s) /\ m \in 1 .. n /\ m - 1 = k
    BY <1>1, <1>3, <2>1
  <2>3. ~Quiet(s, m - 1)
    BY <1>5, <2>2
  <2>4. ~Quiet(s, m)
    BY <2>2, <2>3, PlaceFacts
  <2> QED BY <2>1, <2>2, <2>4
<1> HIDE DEF Loud
<1>6. \A k \in i .. n : k \in Loud
  BY <1>3, <1>4, <1>5, Upward
<1>7. n \in Loud
  BY <1>3, <1>6
<1> QED BY <1>7 DEF Loud

\* No semicolon among the tokens, and one that is the last of them.
NoSemicolon(t) == \A k \in 1 .. Len(t) : t[k] # ";"

OneSemicolon(t) == Len(t) > 0 /\ \A k \in 1 .. Len(t) : t[k] = ";" <=> k = Len(t)

\* What tokenize can return or throw.
Scans == [tokens : Seq(Kinds), end : {"eof", "syntax", "incomplete"}]

\* One token more.
LEMMA TokenAdded ==
  ASSUME NEW t \in Seq(Kinds), NEW c \in Kinds, NoSemicolon(t)
  PROVE  /\ c # ";" => NoSemicolon(Append(t, c))
         /\ c = ";" => OneSemicolon(Append(t, c))
<1>1. PICK u : u = Append(t, c)
  OBVIOUS
<1>2. /\ Len(u) = Len(t) + 1 /\ Len(t) \in Nat
      /\ \A k \in 1 .. Len(t) : u[k] = t[k]
      /\ u[Len(t) + 1] = c
  BY <1>1, AppendProperties, LenProperties
<1>3. \A k \in 1 .. Len(t) : u[k] # ";"
  BY <1>2 DEF NoSemicolon
<1>4. \A k \in 1 .. Len(u) : k \in 1 .. Len(t) \/ k = Len(t) + 1
  BY <1>2
<1>5. \A k \in 1 .. Len(t) : k # Len(u)
  BY <1>2
<1>6. Len(u) > 0
  BY <1>2
<1>7. c # ";" => NoSemicolon(u)
  BY <1>2, <1>3, <1>4 DEF NoSemicolon
<1>8. c = ";" => OneSemicolon(u)
  BY <1>2, <1>3, <1>4, <1>5, <1>6 DEF OneSemicolon
<1> QED BY <1>1, <1>7, <1>8

\* How a step changes the tokens.
LEMMA TokensOfStep ==
  ASSUME NEW s, NEW i, NEW t \in Seq(Kinds), NEW j, NEW u, LexStep(s, i, t, j, u),
         NoSemicolon(t)
  PROVE  /\ s[i] # ";" => NoSemicolon(u)
         /\ s[i] = ";" => j = i + 1 /\ OneSemicolon(u)
<1>1. ";" \notin Blanks /\ ~(";" = "-") /\ ~(";" = "quote") /\ ~("string" = ";")
  BY DEF Blanks
<1>2. CASE s[i] \in Blanks /\ u = t
  BY <1>1, <1>2
<1>3. CASE Dashes(s, i) /\ u = t
  BY <1>1, <1>3, KindFacts
<1>4. CASE s[i] \in Single /\ j = i + 1 /\ u = Append(t, s[i])
  <2>1. s[i] \in Kinds
    BY <1>4, KindFacts
  <2> QED BY <1>4, <2>1, TokenAdded
<1>5. CASE s[i] = "quote" /\ u = Append(t, "string")
  <2>1. "string" \in Kinds
    BY KindFacts
  <2>2. NoSemicolon(u)
    BY <1>1, <1>5, <2>1, TokenAdded
  <2> QED BY <1>1, <1>5, <2>2
<1> QED BY <1>2, <1>3, <1>4, <1>5 DEF LexStep

\* The end of a text is one of these.
LEMMA StopTyped ==
  ASSUME NEW s, NEW i, NEW t \in Seq(Kinds), NEW d, LexStop(s, i, t, d)
  PROVE  d \in Scans /\ d.tokens = t
BY DEF LexStop, Stop, Scans

\* The Lexer finds no semicolon in a text in which no query ends.
LEMMA OpenTokens ==
  ASSUME NEW S, NEW s \in Seq(S), Open(s)
  PROVE  tokenize(s) \in Scans /\ NoSemicolon(tokenize(s).tokens)
<1> DEFINE E == {x \in LexPlaces(s) : Sync(s, x[1]) /\ NoSemicolon(x[2])}
           P == {d \in Scans : NoSemicolon(d.tokens)}
<1>1. Len(s) \in Nat
  BY LenProperties
<1>2. \A i, t : <<i, t>> \in E <=> <<i, t>> \in LexPlaces(s) /\ Sync(s, i) /\ NoSemicolon(t)
  OBVIOUS
<1>3. \A i \in 1 .. Len(s) + 1, t \in Seq(Kinds) : <<i, t>> \in LexPlaces(s)
  BY DEF LexPlaces
<1>4. \A i \in 1 .. Len(s) : ~(At(s, i - 1).mode \in Plain /\ s[i] = ";")
  <2>1. Quiet(s, Len(s)) /\ Len(s) \in 0 .. Len(s)
    <3>1. SubSeq(s, 1, Len(s)) = s /\ At(s, Len(s)) = OnePass(s)
      BY UpToPlace, PlaceSteps
    <3> QED BY <1>1, <3>1 DEF Quiet, Open
  <2> QED BY <2>1, QuietBefore
<1> HIDE DEF E
<1>5. <<1, << >>>> \in E
  <2>1. At(s, 0).mode = "code"
    BY PlaceSteps DEF Start
  <2>2. Sync(s, 1)
    BY <2>1 DEF Sync, Fresh
  <2>3. 1 \in 1 .. Len(s) + 1 /\ << >> \in Seq(Kinds) /\ NoSemicolon(<< >>)
    BY <1>1, EmptySeq DEF NoSemicolon
  <2> QED BY <1>2, <1>3, <2>2, <2>3
<1>6. ASSUME NEW i \in 1 .. Len(s), NEW j \in i + 1 .. Len(s) + 1, NEW t \in Seq(Kinds),
             NEW u \in Seq(Kinds), <<i, t>> \in E, LexStep(s, i, t, j, u)
      PROVE  <<j, u>> \in E
  <2>1. Sync(s, i) /\ NoSemicolon(t)
    BY <1>2, <1>6
  <2>2. Sync(s, j)
    BY <1>6, <2>1, SyncStays
  <2>3. s[i] # ";"
    <3>1. s[i] = ";" => At(s, i - 1).mode \in Plain
      BY <2>1, SyncFacts
    <3> QED BY <1>4, <3>1
  <2>4. NoSemicolon(u)
    BY <1>6, <2>1, <2>3, TokensOfStep
  <2>5. j \in 1 .. Len(s) + 1
    BY <1>1
  <2> QED BY <1>2, <1>3, <2>2, <2>4, <2>5
<1>7. ASSUME NEW i \in 1 .. Len(s) + 1, NEW t \in Seq(Kinds), NEW d,
             <<i, t>> \in E, LexStop(s, i, t, d)
      PROVE  d \in P
  <2>1. NoSemicolon(t)
    BY <1>2, <1>7
  <2>2. d \in Scans /\ d.tokens = t
    BY <1>7, StopTyped
  <2> QED BY <2>1, <2>2
<1> HIDE DEF P
<1>8. tokenize(s) \in P
  BY <1>5, <1>6, <1>7, LexerReaches
<1> QED BY <1>8 DEF P

\* A query is all the Lexer reads of it: it ends in code, with a semicolon.
LEMMA ClosedPlaces ==
  ASSUME NEW S, NEW q \in Seq(S), Closed(q)
  PROVE  /\ Len(q) \in Nat \ {0} /\ q[Len(q)] = ";"
         /\ At(q, Len(q)).mode = "code"
         /\ \A i \in 1 .. Len(q) - 1 : ~(At(q, i - 1).mode \in Plain /\ q[i] = ";")
<1>1. q # << >> /\ q[Len(q)] = ";" /\ OnePass(Front(q)).mode \in Plain
      /\ OnePass(Front(q)).current = Front(q)
  BY DEF Closed, Open
<1>2. PICK n : n = Len(q)
  OBVIOUS
<1>3. n \in Nat \ {0}
  BY <1>1, <1>2, LenProperties, EmptySeq
<1>4. n \in 1 .. Len(q) /\ n - 1 \in 0 .. Len(q)
  BY <1>2, <1>3
<1>5. Front(q) = SubSeq(q, 1, n - 1)
  BY <1>2 DEF Front
<1>6. At(q, n - 1).mode \in Plain /\ Quiet(q, n - 1)
  BY <1>1, <1>5 DEF At, Quiet
<1>7. At(q, n).mode = "code"
  <2>1. At(q, n - 1).mode \in Modes /\ At(q, n).mode = Turned(At(q, n - 1).mode, q[n])
    BY <1>4, PlaceFacts
  <2>2. q[n] # "quote" /\ q[n] # "-"
    BY <1>1, <1>2
  <2> QED BY <1>6, <2>1, <2>2, TurnedModes
<1>8. \A i \in 1 .. n - 1 : ~(At(q, i - 1).mode \in Plain /\ q[i] = ";")
  BY <1>4, <1>6, QuietBefore
<1> QED BY <1>1, <1>2, <1>3, <1>7, <1>8

\* In a query the Lexer meets no open string, and no semicolon but at its end.
LEMMA ClosedTokens ==
  ASSUME NEW S, NEW q \in Seq(S), Closed(q)
  PROVE  /\ tokenize(q) \in Scans /\ tokenize(q).end # "incomplete"
         /\ tokenize(q).end = "eof" => OneSemicolon(tokenize(q).tokens)
         /\ tokenize(q).end = "syntax" => NoSemicolon(tokenize(q).tokens)
<1> DEFINE Right(i, t) == /\ i <= Len(q) => NoSemicolon(t)
                          /\ i > Len(q) => OneSemicolon(t)
           E == {x \in LexPlaces(q) : Sync(q, x[1]) /\ Right(x[1], x[2])}
           P == {d \in Scans : /\ d.end # "incomplete"
                               /\ d.end = "eof" => OneSemicolon(d.tokens)
                               /\ d.end = "syntax" => NoSemicolon(d.tokens)}
<1>1. /\ Len(q) \in Nat \ {0} /\ q[Len(q)] = ";" /\ At(q, Len(q)).mode = "code"
      /\ \A i \in 1 .. Len(q) - 1 : ~(At(q, i - 1).mode \in Plain /\ q[i] = ";")
  BY ClosedPlaces
<1>0. Len(q) \in Nat /\ Len(q) > 0
  <2>1. PICK n : n = Len(q)
    OBVIOUS
  <2>2. n \in Nat /\ n # 0
    BY <1>1, <2>1
  <2>3. n > 0
    BY <2>2
  <2> QED BY <2>1, <2>2, <2>3
<1>2. \A i, t : <<i, t>> \in E <=> <<i, t>> \in LexPlaces(q) /\ Sync(q, i) /\ Right(i, t)
  OBVIOUS
<1>3. \A i \in 1 .. Len(q) + 1, t \in Seq(Kinds) : <<i, t>> \in LexPlaces(q)
  BY DEF LexPlaces
<1> HIDE DEF E
<1>4. <<1, << >>>> \in E
  <2>1. At(q, 0).mode = "code"
    BY PlaceSteps DEF Start
  <2>2. Sync(q, 1)
    BY <2>1 DEF Sync, Fresh
  <2>3. 1 \in 1 .. Len(q) + 1 /\ << >> \in Seq(Kinds) /\ NoSemicolon(<< >>) /\ ~(1 > Len(q))
    BY <1>0, EmptySeq DEF NoSemicolon
  <2> QED BY <1>2, <1>3, <2>2, <2>3
<1>5. ASSUME NEW i \in 1 .. Len(q), NEW j \in i + 1 .. Len(q) + 1, NEW t \in Seq(Kinds),
             NEW u \in Seq(Kinds), <<i, t>> \in E, LexStep(q, i, t, j, u)
      PROVE  <<j, u>> \in E
  <2>1. Sync(q, i) /\ NoSemicolon(t)
    <3>1. i <= Len(q)
      BY <1>0
    <3> QED BY <1>2, <1>5, <3>1
  <2>2. /\ Sync(q, j)
        /\ Dashes(q, i) => At(q, j - 1).mode = "comment"
        /\ q[i] = "quote" => q[j - 1] = "quote"
    BY <1>5, <2>1, SyncStays
  <2>3. /\ q[i] # ";" => NoSemicolon(u)
        /\ q[i] = ";" => j = i + 1 /\ OneSemicolon(u)
    BY <1>5, <2>1, TokensOfStep
  <2>4. q[i] = ";" => At(q, i - 1).mode \in Plain
    BY <2>1, SyncFacts
  <2>5. j \in 1 .. Len(q) + 1
    BY <1>0
  <2>6. CASE q[i] = ";"
    <3>1. ~(i \in 1 .. Len(q) - 1)
      BY <1>1, <2>4, <2>6
    <3>2. i = Len(q)
      BY <1>0, <3>1
    <3>3. j > Len(q) /\ ~(j <= Len(q))
      <4>1. j = i + 1
        BY <2>3, <2>6
      <4> QED BY <1>0, <3>2, <4>1
    <3>4. Right(j, u)
      BY <2>3, <2>6, <3>3
    <3> HIDE DEF Right
    <3> QED BY <1>2, <1>3, <2>2, <2>5, <3>4
  <2>7. CASE q[i] # ";"
    <3>1. j <= Len(q)
      <4>1. SUFFICES ASSUME j = Len(q) + 1 PROVE FALSE
        BY <1>0, <2>5
      <4>2. j - 1 = Len(q)
        BY <1>0, <4>1
      <4>3. ~Dashes(q, i)
        BY <1>1, <2>2, <4>2
      <4>4. q[i] # "quote"
        BY <1>1, <2>2, <4>2
      <4>5. j = i + 1
        BY <1>5, <4>3, <4>4 DEF LexStep
      <4>6. i = Len(q)
        BY <1>0, <4>1, <4>5
      <4> QED BY <1>1, <2>7, <4>6
    <3>2. ~(j > Len(q))
      BY <1>0, <2>5, <3>1
    <3>3. Right(j, u)
      BY <2>3, <2>7, <3>2
    <3> HIDE DEF Right
    <3> QED BY <1>2, <1>3, <2>2, <2>5, <3>3
  <2> QED BY <2>6, <2>7
<1>6. ASSUME NEW i \in 1 .. Len(q) + 1, NEW t \in Seq(Kinds), NEW d,
             <<i, t>> \in E, LexStop(q, i, t, d)
      PROVE  d \in P
  <2>1. Sync(q, i) /\ Right(i, t)
    BY <1>2, <1>6
  <2>2. d \in Scans /\ d.tokens = t
    BY <1>6, StopTyped
  <2>3. CASE i > Len(q) /\ d = Stop(t, "eof")
    <3>1. d.end = "eof" /\ OneSemicolon(d.tokens)
      BY <2>1, <2>2, <2>3 DEF Stop
    <3> QED BY <2>2, <3>1
  <2>4. CASE i <= Len(q) /\ d = Stop(t, "syntax")
    <3>1. d.end = "syntax" /\ NoSemicolon(d.tokens)
      BY <2>1, <2>2, <2>4 DEF Stop
    <3> QED BY <2>2, <3>1
  <2>5. CASE i <= Len(q) /\ q[i] = "quote" /\ Find(q, i + 1, "quote") > Len(q)
    <3>1. i \in 1 .. Len(q) /\ q[i] # "newline"
      BY <1>0, <2>5
    <3>2. Fresh(q, i)
      BY <2>1, <3>1, SyncFacts
    <3>3. At(q, i).mode = "string"
      BY <2>5, <3>1, <3>2, FreshSteps
    <3>4. PICK k : k = Find(q, i + 1, "quote")
      OBVIOUS
    <3>5. k \in i + 1 .. Len(q) + 1 /\ At(q, k - 1).mode = "string"
      BY <3>1, <3>3, <3>4, StringSkipped
    <3>6. k - 1 = Len(q)
      BY <1>0, <2>5, <3>1, <3>4, <3>5
    <3> QED BY <1>1, <3>5, <3>6
  <2> QED BY <1>6, <2>3, <2>4, <2>5 DEF LexStop
<1> HIDE DEF P
<1>7. tokenize(q) \in P
  BY <1>4, <1>5, <1>6, LexerReaches
<1> QED BY <1>7 DEF P

\* Where a text goes on with a new line, the Lexer finds the same before that.
LEMMA FindSame ==
  ASSUME NEW S, NEW s \in Seq(S), NEW t \in Seq(S), NEW i \in 1 .. Len(s) + 1, NEW c,
         Len(s) < Len(t), \A k \in 1 .. Len(s) : t[k] = s[k],
         Find(s, i, c) <= Len(s) \/ t[Len(s) + 1] = c
  PROVE  Find(t, i, c) = Find(s, i, c)
<1>1. Len(s) \in Nat /\ Len(t) \in Nat
  BY LenProperties
<1>2. PICK a, b : a = Find(s, i, c) /\ b = Find(t, i, c)
  OBVIOUS
<1>3. /\ a \in i .. Len(s) + 1 /\ (a <= Len(s) => s[a] = c)
      /\ \A k \in i .. a - 1 : s[k] # c
  BY <1>2, FindFacts
<1>4. /\ b \in i .. Len(t) + 1 /\ (b <= Len(t) => t[b] = c)
      /\ \A k \in i .. b - 1 : t[k] # c
  <2>1. i \in 1 .. Len(t) + 1
    BY <1>1
  <2> QED BY <1>2, <2>1, FindFacts
<1>5. t[a] = c
  <2>1. CASE a <= Len(s)
    BY <1>1, <1>3, <2>1
  <2>2. CASE ~(a <= Len(s))
    <3>1. a = Len(s) + 1
      BY <1>1, <1>3, <2>2
    <3> QED BY <1>2, <2>2, <3>1
  <2> QED BY <2>1, <2>2
<1>6. ~(a < b)
  BY <1>1, <1>3, <1>4, <1>5
<1>7. ~(b < a)
  <2>1. SUFFICES ASSUME b < a PROVE FALSE
    OBVIOUS
  <2>2. b \in 1 .. Len(s) /\ b \in i .. a - 1 /\ b <= Len(t)
    BY <1>1, <1>3, <1>4, <2>1
  <2> QED BY <1>3, <1>4, <2>2
<1>8. a = b
  BY <1>1, <1>3, <1>4, <1>6, <1>7
<1> QED BY <1>2, <1>8

\* t is s and a line break and more.
GoesOn(s, t) ==
  Len(s) < Len(t) /\ (\A k \in 1 .. Len(s) : t[k] = s[k]) /\ t[Len(s) + 1] = "newline"

\* The steps in s are those in t.
LEMMA StepSame ==
  ASSUME NEW S, NEW s \in Seq(S), NEW t \in Seq(S), GoesOn(s, t), NEW i \in 1 .. Len(s),
         NEW a, NEW j, NEW b, LexStep(s, i, a, j, b)
  PROVE  /\ t[i] = s[i] /\ s[i] \in Blanks \cup Single \cup {"quote"}
         /\ s[i] = "quote" => Find(t, i + 1, "quote") <= Len(t)
         /\ \A k, c : LexStep(t, i, a, k, c) => k = j /\ c = b
<1>1. Len(s) \in Nat /\ Len(t) \in Nat /\ i \in 1 .. Len(s) + 1 /\ i + 1 \in 1 .. Len(s) + 1
  BY LenProperties
<1>2. Len(s) < Len(t) /\ (\A k \in 1 .. Len(s) : t[k] = s[k]) /\ t[Len(s) + 1] = "newline"
  BY DEF GoesOn
<1>3. t[i] = s[i]
  BY <1>2
<1>4. s[i] \in Blanks \cup Single \cup {"quote"}
  BY KindFacts DEF LexStep
<1>5. Dashes(t, i) <=> Dashes(s, i)
  <2>1. CASE i < Len(s)
    <3>1. i < Len(t) /\ t[i + 1] = s[i + 1]
      BY <1>1, <1>2, <2>1
    <3> QED BY <1>3, <2>1, <3>1 DEF Dashes
  <2>2. CASE ~(i < Len(s))
    <3>1. i = Len(s)
      BY <1>1, <2>2
    <3>2. t[i + 1] # "-"
      BY <1>2, <3>1
    <3> QED BY <2>2, <3>2 DEF Dashes
  <2> QED BY <2>1, <2>2
<1>6. Find(t, i, "newline") = Find(s, i, "newline")
  BY <1>1, <1>2, FindSame
<1>7. PICK n : n = i + 1
  OBVIOUS
<1>8. PICK e, g : e = Find(s, n, "quote") /\ g = Find(t, n, "quote")
  OBVIOUS
<1>9. e <= Len(s) => g = e
  <2>1. n \in 1 .. Len(s) + 1
    BY <1>1, <1>7
  <2> QED BY <1>2, <1>8, <2>1, FindSame
<1>10. s[i] = "quote" => e <= Len(s)
  <2>1. s[i] = "quote" => s[i] \notin Blanks /\ ~Dashes(s, i) /\ s[i] \notin Single
    BY KindFacts
  <2> QED BY <1>7, <1>8, <2>1 DEF LexStep
<1>11. s[i] = "quote" => g <= Len(t) /\ g = e
  <2>1. e <= Len(s) /\ g = e => g <= Len(t)
    <3>1. ASSUME e <= Len(s), g = e PROVE g <= Len(t)
      <4>1. e \in n .. Len(s) + 1
        <5>1. n \in 1 .. Len(s) + 1
          BY <1>1, <1>7
        <5> QED BY <1>8, <5>1, FindFacts
      <4> QED BY <1>1, <1>2, <1>7, <3>1, <4>1
    <3> QED BY <3>1
  <2> QED BY <1>9, <1>10, <2>1
<1>12. ASSUME NEW k, NEW c, LexStep(t, i, a, k, c) PROVE k = j /\ c = b
  <2>1. CASE s[i] \in Blanks
    <3>1. ~Dashes(s, i) /\ s[i] \notin Single /\ s[i] # "quote"
      BY <2>1, KindFacts
    <3> QED BY <1>3, <1>5, <1>12, <2>1, <3>1, Zenon DEF LexStep
  <2>2. CASE Dashes(s, i)
    <3>1. s[i] \notin Blanks /\ s[i] # "quote"
      BY <2>2, KindFacts
    <3> QED BY <1>3, <1>5, <1>6, <1>12, <2>2, <3>1, Zenon DEF LexStep
  <2>3. CASE s[i] \in Single /\ ~Dashes(s, i)
    <3>1. s[i] \notin Blanks /\ s[i] # "quote"
      BY <2>3, KindFacts
    <3> QED BY <1>3, <1>5, <1>12, <2>3, <3>1, Zenon DEF LexStep
  <2>4. CASE s[i] = "quote"
    <3>1. s[i] \notin Blanks /\ s[i] \notin Single /\ ~Dashes(s, i) /\ g = e
      BY <1>11, <2>4, KindFacts
    <3>2. j = e + 1 /\ b = Append(a, "string")
      BY <1>7, <1>8, <3>1, Zenon DEF LexStep
    <3>3. k = g + 1 /\ c = Append(a, "string")
      BY <1>3, <1>5, <1>7, <1>8, <1>12, <3>1, Zenon DEF LexStep
    <3> QED BY <3>1, <3>2, <3>3
  <2> QED BY <1>4, <2>1, <2>2, <2>3, <2>4
<1> QED BY <1>3, <1>4, <1>7, <1>8, <1>11, <1>12

\* An error of the Lexer in a text is one however the text goes on.
LEMMA SyntaxStays ==
  ASSUME NEW S, NEW s \in Seq(S), NEW t \in Seq(S), GoesOn(s, t), tokenize(s).end = "syntax"
  PROVE  tokenize(t).end = "syntax"
<1>1. PICK f : Reads(f, s) /\ tokenize(s) = f[<<1, << >>>>]
  BY LexDescends
<1> DEFINE E == {x \in LexPlaces(s) : f[x].end = "syntax"}
           P == {d \in Scans : d.end = "syntax"}
<1>2. Len(s) \in Nat /\ Len(t) \in Nat /\ Len(s) < Len(t)
  BY LenProperties DEF GoesOn
<1>3. \A x \in LexPlaces(s) : f[x] = IF x \in LexEnds(s) THEN LexValue(s)[x]
                                     ELSE f[LexNext(s)[x]]
  <2>1. PICK D, B, nx, v : D = LexPlaces(s) /\ B = LexEnds(s) /\ nx = LexNext(s) /\ v = LexValue(s)
    OBVIOUS
  <2>2. f = [n \in D |-> IF n \in B THEN v[n] ELSE f[nx[n]]]
    BY <1>1, <2>1, Zenon DEF Reads, Descends
  <2>3. \A n \in D : f[n] = IF n \in B THEN v[n] ELSE f[nx[n]]
    BY <2>2
  <2> QED BY <2>1, <2>3
<1>4. \A i, a : <<i, a>> \in E <=> <<i, a>> \in LexPlaces(s) /\ f[<<i, a>>].end = "syntax"
  OBVIOUS
<1>5. \A i, a : <<i, a>> \in LexPlaces(s) <=> i \in 1 .. Len(s) + 1 /\ a \in Seq(Kinds)
  BY DEF LexPlaces
<1>6. /\ \A a : Stop(a, "eof").end = "eof" /\ Stop(a, "syntax").end = "syntax"
                /\ Stop(a, "incomplete").end = "incomplete"
  BY DEF Stop
<1> HIDE DEF E
<1>7. ASSUME NEW i, NEW a, <<i, a>> \in E
      PROVE  \/ i \in 1 .. Len(s) /\ t[i] = s[i] /\ s[i] \notin Blanks \cup Single \cup {"quote"}
             \/ \E j \in i + 1 .. Len(s) + 1, b \in Seq(Kinds) :
                  i \in 1 .. Len(s) /\ <<j, b>> \in E /\ LexStep(s, i, a, j, b)
  <2>1. PICK x : x = <<i, a>>
    OBVIOUS
  <2>2. x \in LexPlaces(s) /\ i \in 1 .. Len(s) + 1 /\ a \in Seq(Kinds) /\ f[x].end = "syntax"
    BY <1>4, <1>5, <1>7, <2>1
  <2>3. CASE x \in LexEnds(s)
    <3>1. f[x] = LexValue(s)[x]
      BY <1>3, <2>2, <2>3
    <3>2. LexStop(s, i, a, f[x])
      <4>1. LexStop(s, i, a, LexValue(s)[x])
        BY <2>1, <2>2, <2>3, LexPlaceFacts
      <4> QED BY <3>1, <4>1
    <3>3. PICK d : d = f[x]
      OBVIOUS
    <3>4. d.end = "syntax" /\ LexStop(s, i, a, d)
      BY <2>2, <3>2, <3>3
    <3>5. i <= Len(s) /\ s[i] \notin Blanks \cup Single \cup {"quote"}
      BY <1>6, <3>4 DEF LexStop
    <3>6. i \in 1 .. Len(s)
      BY <1>2, <2>2, <3>5
    <3>7. t[i] = s[i]
      BY <3>6 DEF GoesOn
    <3> QED BY <3>5, <3>6, <3>7
  <2>4. CASE x \notin LexEnds(s)
    <3>1. PICK j \in i + 1 .. Len(s) + 1, b \in Seq(Kinds) :
            i <= Len(s) /\ LexNext(s)[x] = <<j, b>> /\ LexStep(s, i, a, j, b)
      BY <2>1, <2>2, <2>4, LexPlaceFacts
    <3>2. f[<<j, b>>] = f[x]
      BY <1>3, <2>2, <2>4, <3>1
    <3>3. i \in 1 .. Len(s) /\ j \in 1 .. Len(s) + 1
      BY <1>2, <2>2, <3>1
    <3>4. <<j, b>> \in E
      BY <1>4, <1>5, <2>2, <3>2, <3>3
    <3> QED BY <3>1, <3>3, <3>4
  <2> QED BY <2>3, <2>4
<1>8. <<1, << >>>> \in E
  <2>1. 1 \in 1 .. Len(s) + 1 /\ << >> \in Seq(Kinds)
    BY <1>2, EmptySeq
  <2> QED BY <1>1, <1>4, <1>5, <2>1
<1>9. ASSUME NEW i \in 1 .. Len(t), NEW j \in i + 1 .. Len(t) + 1, NEW a \in Seq(Kinds),
             NEW b \in Seq(Kinds), <<i, a>> \in E, LexStep(t, i, a, j, b)
      PROVE  <<j, b>> \in E
  <2>1. CASE t[i] = s[i] /\ s[i] \notin Blanks \cup Single \cup {"quote"}
    <3>1. t[i] \in Blanks \cup Single \cup {"quote"}
      BY <1>9, KindFacts DEF LexStep
    <3> QED BY <2>1, <3>1
  <2>2. CASE \E k \in i + 1 .. Len(s) + 1, c \in Seq(Kinds) :
                  i \in 1 .. Len(s) /\ <<k, c>> \in E /\ LexStep(s, i, a, k, c)
    <3>1. PICK k, c : i \in 1 .. Len(s) /\ <<k, c>> \in E /\ LexStep(s, i, a, k, c)
      BY <2>2
    <3>2. j = k /\ b = c
      BY <1>9, <3>1, StepSame
    <3> QED BY <3>1, <3>2
  <2> QED BY <1>7, <1>9, <2>1, <2>2
<1>10. ASSUME NEW i \in 1 .. Len(t) + 1, NEW a \in Seq(Kinds), NEW d,
              <<i, a>> \in E, LexStop(t, i, a, d)
       PROVE  d \in P
  <2>1. d \in Scans
    BY <1>10, StopTyped
  <2>2. i \in 1 .. Len(s) => ~(i > Len(t))
    BY <1>2
  <2>3. CASE i \in 1 .. Len(s) /\ t[i] = s[i] /\ s[i] \notin Blanks \cup Single \cup {"quote"}
    <3>1. t[i] # "quote"
      BY <2>3
    <3>2. d = Stop(a, "syntax")
      BY <1>10, <2>2, <2>3, <3>1 DEF LexStop
    <3> QED BY <1>6, <2>1, <3>2
  <2>4. CASE \E k \in i + 1 .. Len(s) + 1, c \in Seq(Kinds) :
                  i \in 1 .. Len(s) /\ <<k, c>> \in E /\ LexStep(s, i, a, k, c)
    <3>1. PICK k, c : i \in 1 .. Len(s) /\ <<k, c>> \in E /\ LexStep(s, i, a, k, c)
      BY <2>4
    <3>2. /\ t[i] = s[i] /\ s[i] \in Blanks \cup Single \cup {"quote"}
          /\ s[i] = "quote" => Find(t, i + 1, "quote") <= Len(t)
      BY <3>1, StepSame
    <3>3. t[i] = "quote" /\ Find(t, i + 1, "quote") > Len(t)
      BY <1>10, <2>2, <3>1, <3>2 DEF LexStop
    <3>4. PICK g : g = Find(t, i + 1, "quote")
      OBVIOUS
    <3>5. g <= Len(t) /\ g > Len(t)
      BY <3>2, <3>3, <3>4
    <3>6. g \in Int
      <4>1. PICK n : n = i + 1
        OBVIOUS
      <4>2. n \in 1 .. Len(t) + 1
        BY <1>2, <3>1, <4>1
      <4>3. g \in n .. Len(t) + 1
        BY <3>4, <4>1, <4>2, FindFacts
      <4> QED BY <1>2, <4>2, <4>3
    <3> QED BY <1>2, <3>5, <3>6
  <2> QED BY <1>7, <1>10, <2>3, <2>4
<1> HIDE DEF P
<1>11. tokenize(t) \in P
  BY <1>8, <1>9, <1>10, LexerReaches
<1> QED BY <1>11 DEF P

-----------------------------------------------------------------------------
(* Lines put together *)

\* Sequences of one and of two.
LEMMA ShortTexts ==
  ASSUME NEW S, NEW a \in S, NEW b \in S
  PROVE  /\ <<a>> \in Seq(S) /\ <<a>> = Append(<< >>, a)
         /\ <<a, b>> \in Seq(S) /\ <<a, b>> = Append(<<a>>, b)
<1>0. PICK x, y : x = <<a>> /\ y = <<a, b>>
  OBVIOUS
<1>1. PICK u, v : u = Append(<< >>, a) /\ v = Append(x, b)
  OBVIOUS
<1>2. x \in Seq(S) /\ Len(x) = 1 /\ x[1] = a
  <2>1. x[1] = a
    BY <1>0
  <2> QED BY <1>0, <2>1, OneKid
<1>3. y \in Seq(S) /\ Len(y) = 2 /\ y[1] = a /\ y[2] = b
  <2>1. Len(y) = 2
    BY <1>0
  <2>2. y[1] = a /\ y[2] = b
    BY <1>0
  <2>3. y \in Seq(S)
    BY <1>0
  <2> QED BY <2>1, <2>2, <2>3
<1>4. u \in Seq(S) /\ Len(u) = 1 /\ u[1] = a
  <2>1. << >> \in Seq(S) /\ Len(<< >>) = 0
    BY EmptySeq
  <2>2. u \in Seq(S) /\ Len(u) = 0 + 1 /\ u[0 + 1] = a
    BY <1>1, <2>1, AppendProperties
  <2> QED BY <2>2
<1>5. v \in Seq(S) /\ Len(v) = 2 /\ v[1] = a /\ v[2] = b
  <2>1. x \in Seq(S) /\ v = Append(x, b)
    BY <1>1, <1>2
  <2>2. v \in Seq(S) /\ Len(v) = Len(x) + 1
    BY <2>1, AppendProperties
  <2>3. \A i \in 1 .. Len(x) : v[i] = x[i]
    BY <2>1, AppendProperties
  <2>4. v[Len(x) + 1] = b
    BY <2>1, AppendProperties
  <2> QED BY <1>2, <2>2, <2>3, <2>4
<1>6. x = u
  BY <1>2, <1>4, SeqEqual
<1>7. y = v
  BY <1>3, <1>5, SeqEqual
<1> QED BY <1>0, <1>1, <1>2, <1>3, <1>6, <1>7, Zenon

\* The mode behind a character more, and what its semicolon does.
LEMMA ModeAfter ==
  ASSUME NEW S, NEW s \in Seq(S), NEW c \in S, NEW m, m = OnePass(s).mode
  PROVE  /\ m \in Modes /\ OnePass(Append(s, c)).mode = Turned(m, c)
         /\ m \in Plain /\ c = ";" => OnePass(Append(s, c)).current = << >>
         /\ c # ";" => /\ OnePass(Append(s, c)).current = Append(OnePass(s).current, c)
                       /\ OnePass(Append(s, c)).queries = OnePass(s).queries
<1>1. PICK st, u : st = OnePass(s) /\ u = OnePass(Append(s, c))
  OBVIOUS
<1>2. st \in States(S) /\ u = Scan(st, c)
  BY <1>1, PassTyped, PassSteps
<1>3. st.mode = m /\ m \in Modes
  BY <1>1, <1>2 DEF States
<1>4. CASE m \in Plain /\ c = ";"
  <2>1. u.mode = "code" /\ u.current = << >>
    <3>1. st.mode \in Plain /\ c = ";"
      BY <1>3, <1>4
    <3>2. u = [mode |-> "code", current |-> << >>,
               queries |-> IF isBlank(st.current) THEN st.queries
                           ELSE Append(st.queries, Append(st.current, c))]
      BY <1>2, <3>1, ScanFacts
    <3> QED BY <3>2
  <2>2. Turned(m, c) = "code"
    <3>1. c # "quote" /\ c # "-" /\ m \in Plain /\ m \in Modes
      BY <1>3, <1>4
    <3> QED BY <3>1, TurnedModes
  <2> QED BY <1>1, <1>3, <1>4, <2>1, <2>2
<1>5. CASE ~(m \in Plain /\ c = ";")
  <2>1. u = [mode |-> Turned(st.mode, c), current |-> Append(st.current, c),
             queries |-> st.queries]
    BY <1>2, <1>3, <1>5, ScanFacts
  <2>2. u.mode = Turned(m, c) /\ u.current = Append(st.current, c) /\ u.queries = st.queries
    BY <1>3, <2>1
  <2> QED BY <1>1, <1>3, <1>5, <2>2
<1> QED BY <1>4, <1>5

\* White space leads nowhere.
LEMMA BlankMode ==
  ASSUME NEW S, NEW s \in Seq(S), isBlank(s)
  PROVE  OnePass(s).mode = "code"
<1> DEFINE P == {t \in Seq(S) : isBlank(t) => OnePass(t).mode = "code"}
<1>1. << >> \in P
  BY PassSteps, EmptySeq DEF Start
<1>2. ASSUME NEW t \in Seq(S), NEW c \in S, t \in P PROVE Append(t, c) \in P
  <2>1. PICK u : u = Append(t, c)
    OBVIOUS
  <2>2. u \in Seq(S)
    BY <2>1, LongerText
  <2>3. ASSUME isBlank(u) PROVE OnePass(u).mode = "code"
    <3>1. isBlank(t) /\ c \in Blanks
      BY <2>1, <2>3, BlankFacts
    <3>2. OnePass(t).mode = "code"
      BY <1>2, <3>1
    <3>3. OnePass(u).mode = Turned("code", c)
      BY <2>1, <3>2, ModeAfter
    <3>4. c # "quote" /\ c # "-" /\ "code" \in Plain /\ "code" \in Modes
      BY <3>1 DEF Blanks, Plain, Modes
    <3> QED BY <3>3, <3>4, TurnedModes
  <2> QED BY <2>1, <2>2, <2>3
<1> HIDE DEF P
<1>3. \A t \in Seq(S) : t \in P
  BY <1>1, <1>2, TextInduction
<1> QED BY <1>3 DEF P

\* A line behind a text.
LEMMA JoinedFacts ==
  ASSUME NEW S, NEW s \in Seq(S), NEW l \in Seq(S), "newline" \in S
  PROVE  /\ Joined(s, l) \in Seq(S)
         /\ s = << >> => Joined(s, l) = l
         /\ s # << >> => /\ Joined(s, l) = Append(s, "newline") \o l
                         /\ GoesOn(s, Joined(s, l))
<1>1. PICK n : n = "newline"
  OBVIOUS
<1>2. PICK e, a : e = <<n>> /\ a = Append(s, n)
  OBVIOUS
<1>3. n \in S /\ a \in Seq(S)
  BY <1>1, <1>2, LongerText
<1>4. a = s \o e
  BY <1>2, <1>3, AppendIsConcat
<1>5. a \o l \in Seq(S) /\ Len(a \o l) = Len(a) + Len(l)
      /\ \A i \in 1 .. Len(a) + Len(l) : (a \o l)[i] = IF i <= Len(a) THEN a[i] ELSE l[i - Len(a)]
  BY <1>3, ConcatProperties
<1>6. Len(s) \in Nat /\ Len(l) \in Nat /\ Len(a) = Len(s) + 1
      /\ (\A i \in 1 .. Len(s) : a[i] = s[i]) /\ a[Len(s) + 1] = n
  BY <1>2, <1>3, AppendProperties, LenProperties
<1>7. s # << >> => Joined(s, l) = a \o l
  BY <1>1, <1>2, <1>4, Zenon DEF Joined
<1>8. s = << >> => Joined(s, l) = l
  BY Zenon DEF Joined
<1>9. GoesOn(s, a \o l)
  <2>1. PICK t : t = a \o l
    OBVIOUS
  <2>2. Len(s) < Len(t)
    BY <1>5, <1>6, <2>1
  <2>3. \A k \in 1 .. Len(s) + 1 : t[k] = a[k]
    BY <1>5, <1>6, <2>1
  <2>4. \A k \in 1 .. Len(s) : t[k] = s[k]
    BY <1>6, <2>3
  <2>5. t[Len(s) + 1] = n
    <3>1. Len(s) + 1 \in 1 .. Len(s) + 1
      BY <1>6
    <3> QED BY <1>6, <2>3, <3>1
  <2> QED BY <1>1, <2>1, <2>2, <2>4, <2>5 DEF GoesOn
<1>10. Joined(s, l) \in Seq(S)
  BY <1>5, <1>7, <1>8
<1> QED BY <1>1, <1>2, <1>7, <1>8, <1>9, <1>10

\* Behind each text a semicolon gets rid of it.
LEMMA Finishes ==
  ASSUME NEW S, NEW s \in Seq(S), {"newline", ";", "quote"} \subseteq S
  PROVE  \E line \in {<<";">>, <<"quote", ";">>} : Cut(Joined(s, line)).rest = << >>
<1>1. PICK nl, sc, qt : nl = "newline" /\ sc = ";" /\ qt = "quote"
  OBVIOUS
<1>2. nl \in S /\ sc \in S /\ qt \in S
  BY <1>1
<1>3. /\ <<sc>> \in Seq(S) /\ <<qt, sc>> \in Seq(S)
  BY <1>2, ShortTexts
<1>4. ASSUME NEW line \in Seq(S) PROVE Cut(Joined(s, line)).rest = OnePass(Joined(s, line)).current
  <2>1. Joined(s, line) \in Seq(S)
    BY <1>1, <1>2, JoinedFacts
  <2>2. PICK j, cut, qs, r : /\ j = Joined(s, line) /\ cut = Cut(j)
                             /\ qs = OnePass(j).queries /\ r = OnePass(j).current
    OBVIOUS
  <2>3. cut = [queries |-> qs, rest |-> r]
    BY <2>1, <2>2, CutIsPass
  <2>4. cut.rest = r
    BY <2>3
  <2> QED BY <2>2, <2>4
<1>5. CASE s = << >>
  <2>1. Joined(s, <<sc>>) = <<sc>>
    BY <1>1, <1>2, <1>3, <1>5, JoinedFacts
  <2>2. <<sc>> = Append(<< >>, sc)
    BY <1>2, ShortTexts
  <2>3. << >> \in Seq(S) /\ OnePass(<< >>).mode = "code" /\ "code" \in Plain
    <3>1. << >> \in Seq(S)
      BY EmptySeq
    <3>2. OnePass(<< >>) = Start
      BY PassSteps
    <3>3. Start.mode = "code" /\ "code" \in Plain
      BY DEF Start, Plain
    <3> QED BY <3>1, <3>2, <3>3
  <2>4. OnePass(Append(<< >>, sc)).current = << >>
    BY <1>1, <1>2, <2>3, ModeAfter
  <2>5. Cut(Joined(s, <<sc>>)).rest = << >>
    BY <1>3, <1>4, <2>1, <2>2, <2>4
  <2> QED BY <1>1, <2>5
<1>6. CASE s # << >>
  <2>1. PICK a : a = Append(s, nl)
    OBVIOUS
  <2>2. a \in Seq(S)
    BY <1>2, <2>1, LongerText
  <2>3. Joined(s, <<sc>>) = a \o <<sc>> /\ Joined(s, <<qt, sc>>) = a \o <<qt, sc>>
    BY <1>1, <1>2, <1>3, <1>6, <2>1, JoinedFacts
  <2>4. a \o <<sc>> = Append(a, sc)
    BY <1>2, <2>2, AppendIsConcat
  <2>5. a \o <<qt, sc>> = Append(Append(a, qt), sc)
    <3>1. PICK u : u = Append(a \o <<qt>>, sc)
      OBVIOUS
    <3>2. u = a \o Append(<<qt>>, sc)
      <4>1. PICK one : one = <<qt>>
        OBVIOUS
      <4>2. one \in Seq(S) /\ u = Append(a \o one, sc)
        BY <1>2, <3>1, <4>1, ShortTexts
      <4>3. u = a \o Append(one, sc)
        BY <1>2, <2>2, <4>2, AppendBehind
      <4> QED BY <4>1, <4>3, Zenon
    <3>3. Append(<<qt>>, sc) = <<qt, sc>>
      BY <1>2, ShortTexts
    <3>4. a \o <<qt>> = Append(a, qt)
      BY <1>2, <2>2, AppendIsConcat
    <3> QED BY <3>1, <3>2, <3>3, <3>4, Zenon
  <2>6. PICK m, k : m = OnePass(s).mode /\ k = OnePass(a).mode
    OBVIOUS
  <2>7. m \in Modes /\ k = Turned(m, nl)
    BY <1>2, <2>1, <2>6, ModeAfter
  <2>8. m = "string" => k = "string"
    BY <1>1, <2>7, TurnedModes
  <2>9. m # "string" => k = "code"
    <3>1. m = "comment" \/ m \in Plain \/ m = "string"
      BY <2>7 DEF Modes
    <3> QED BY <1>1, <2>7, <3>1, TurnedModes
  <2>10. CASE m # "string"
    <3>1. k \in Plain
      BY <2>9, <2>10 DEF Plain
    <3>2. OnePass(Append(a, sc)).current = << >>
      BY <1>1, <1>2, <2>2, <2>6, <3>1, ModeAfter
    <3>3. Cut(Joined(s, <<sc>>)).rest = << >>
      BY <1>3, <1>4, <2>3, <2>4, <3>2
    <3> QED BY <1>1, <3>3
  <2>11. CASE m = "string"
    <3>1. PICK b : b = Append(a, qt)
      OBVIOUS
    <3>2. b \in Seq(S)
      BY <1>2, <2>2, <3>1, LongerText
    <3>3. OnePass(b).mode = Turned(k, qt)
      BY <1>2, <2>2, <2>6, <3>1, ModeAfter
    <3>4. Turned(k, qt) = "code" /\ "code" \in Plain
      BY <1>1, <2>8, <2>11, TurnedModes DEF Modes, Plain
    <3>5. OnePass(Append(b, sc)).current = << >>
      <4>1. OnePass(b).mode \in Plain
        BY <3>3, <3>4
      <4> QED BY <1>1, <1>2, <3>2, <4>1, ModeAfter
    <3>6. Cut(Joined(s, <<qt, sc>>)).rest = << >>
      BY <1>3, <1>4, <2>3, <2>5, <3>1, <3>5
    <3> QED BY <1>1, <3>6
  <2> QED BY <2>10, <2>11
<1> QED BY <1>5, <1>6

-----------------------------------------------------------------------------
(* What is kept from line to line *)

\* Sameness of queries goes over from one to the next.
LEMMA SameChain ==
  ASSUME NEW a, NEW b, NEW c, SameQueries(a, b), SameQueries(b, c)
  PROVE  SameQueries(a, c) /\ SameQueries(b, a)
BY DEF SameQueries

\* A text that is cut, and an open one behind it.
LEMMA KeptFrom ==
  ASSUME NEW S, NEW p \in Seq(S), NEW b \in Seq(S), NEW whole, whole = p \o b,
         NEW qs, Open(b), Ready(p, qs)
  PROVE  Kept(b, whole, qs)
<1>1. PICK n : n = Len(p)
  OBVIOUS
<1>2. /\ Len(p) \in Nat /\ Len(b) \in Nat /\ whole \in Seq(S) /\ Len(whole) = Len(p) + Len(b)
      /\ \A i \in 1 .. Len(p) + Len(b) : whole[i] = IF i <= Len(p) THEN p[i] ELSE b[i - Len(p)]
  BY ConcatProperties, LenProperties
<1>3. n \in 0 .. Len(whole)
  BY <1>1, <1>2
<1>4. PICK s : s = SubSeq(whole, 1, n)
  OBVIOUS
<1>5. s = p
  <2>1. n \in Int /\ 1 <= 1 /\ 1 <= n + 1 /\ n <= Len(whole) /\ n - 1 + 1 = n
    BY <1>1, <1>2
  <2>2. /\ s \in Seq(S) /\ Len(s) = n - 1 + 1
        /\ \A i \in 1 .. n - 1 + 1 : s[i] = whole[1 + i - 1]
    BY <1>2, <1>4, <2>1, SubFacts
  <2>3. \A i \in 1 .. n : s[i] = p[i]
    <3>1. ASSUME NEW i \in 1 .. n PROVE s[i] = p[i]
      <4>1. i \in 1 .. n - 1 + 1 /\ 1 + i - 1 = i /\ i \in 1 .. Len(p) + Len(b) /\ i <= Len(p)
        BY <1>1, <1>2, <2>1
      <4> QED BY <1>2, <2>2, <4>1
    <3> QED BY <3>1
  <2> QED BY <1>1, <2>1, <2>2, <2>3, SeqEqual
<1>6. whole = SubSeq(whole, 1, n) \o b /\ Ready(SubSeq(whole, 1, n), qs)
  BY <1>4, <1>5, Zenon
<1> QED BY <1>3, <1>6 DEF Kept

\* What a text in which no query ends adds to one that is cut.
LEMMA ReadyBehind ==
  ASSUME NEW S, NEW p \in Seq(S), NEW c \in Seq(S), NEW qs, Ready(p, qs), Open(c)
  PROVE  /\ SameQueries(qs, OnePass(p \o c).queries)
         /\ Trimmed(OnePass(p \o c).current) = Trimmed(c)
         /\ isBlank(OnePass(p \o c).current) <=> isBlank(c)
         /\ isBlank(c) => Ready(p \o c, qs)
<1>1. PICK x, y, z : x = OnePass(p \o c) /\ y = OnePass(c) /\ z = OnePass(p).queries
  OBVIOUS
<1>2. y.current = c /\ y.queries = << >>
  BY <1>1, OpenText DEF Open
<1>3. Follows(x, y, z, S)
  BY <1>1, PassGoesOn DEF Ready
<1>4. PICK w \in Seq(S) : isBlank(w) /\ x.current = w \o y.current
  BY <1>3 DEF Follows
<1>5. x.mode = y.mode /\ SameQueries(x.queries, z \o y.queries)
  BY <1>3 DEF Follows
<1>6. z \in Seq(Seq(S))
  BY <1>1, PassTyped DEF States
<1>7. z \o << >> = z
  BY <1>6, ConcatEmptySeq
<1>8. SameQueries(x.queries, z)
  BY <1>2, <1>5, <1>7, Zenon
<1>9. SameQueries(qs, z)
  BY <1>1 DEF Ready
<1>10. SameQueries(qs, x.queries)
  <2>1. SameQueries(z, x.queries)
    BY <1>8 DEF SameQueries
  <2> QED BY <1>9, <2>1, SameChain
<1>11. x.current = w \o c
  BY <1>2, <1>4, Zenon
<1>12. Trimmed(w \o c) = Trimmed(c) /\ (isBlank(w \o c) <=> isBlank(c))
  BY <1>4, TrimmedBlank, BlankFacts
<1>13. isBlank(c) => x.mode = "code"
  BY <1>1, <1>5, BlankMode
<1>14. isBlank(c) => Ready(p \o c, qs)
  BY <1>1, <1>10, <1>11, <1>12, <1>13, Zenon DEF Ready
<1> QED BY <1>1, <1>10, <1>11, <1>12, <1>14, Zenon

\* A line break leaves a text ready.
LEMMA ReadyBreak ==
  ASSUME NEW S, NEW p \in Seq(S), NEW qs, Ready(p, qs), "newline" \in S
  PROVE  Append(p, "newline") \in Seq(S) /\ Ready(Append(p, "newline"), qs)
<1>1. PICK n, a : n = "newline" /\ a = Append(p, n)
  OBVIOUS
<1>2. PICK m : m = OnePass(p).mode
  OBVIOUS
<1>3. /\ a \in Seq(S) /\ m = "code" /\ m \in Modes /\ m \in Plain
  BY <1>1, <1>2, LongerText, PassTyped DEF Ready, Plain, Modes
<1>4. /\ OnePass(a).mode = Turned(m, n) /\ OnePass(a).current = Append(OnePass(p).current, n)
      /\ OnePass(a).queries = OnePass(p).queries
  BY <1>1, <1>2, ModeAfter
<1>5. Turned(m, n) = "code"
  BY <1>1, <1>3, TurnedModes
<1>6. isBlank(OnePass(a).current)
  <2>1. OnePass(p).current \in Seq(S) /\ n \in Blanks /\ isBlank(OnePass(p).current)
    BY <1>1, PassTyped DEF States, Ready, Blanks
  <2>2. PICK cur : cur = OnePass(p).current
    OBVIOUS
  <2>3. cur \in Seq(S) /\ n \in S /\ n \in Blanks /\ isBlank(cur)
    BY <1>1, <2>1, <2>2
  <2>4. isBlank(Append(cur, n))
    BY <2>3, BlankFacts
  <2> QED BY <1>4, <2>2, <2>4, Zenon
<1>7. SameQueries(qs, OnePass(a).queries)
  BY <1>4 DEF Ready
<1>8. Ready(a, qs)
  BY <1>4, <1>5, <1>6, <1>7 DEF Ready
<1> QED BY <1>1, <1>3, <1>8

\* u is a and behind that b.
Consists(u, a, b) == u = a \o b

\* The first two of three texts in a row.
LEMMA FirstTwo ==
  ASSUME NEW S, NEW a \in Seq(S), NEW b \in Seq(S), NEW c \in Seq(S),
         NEW bc, Consists(bc, b, c), NEW u, Consists(u, a, bc)
  PROVE  \E ab \in Seq(S) : Consists(ab, a, b) /\ Consists(u, ab, c)
<1>1. PICK ab : ab = a \o b
  OBVIOUS
<1>2. ab \in Seq(S)
  BY <1>1, ConcatProperties
<1>3. (a \o b) \o c = a \o (b \o c)
  BY ConcatAssociative
<1>4. Consists(u, ab, c) /\ Consists(ab, a, b)
  BY <1>1, <1>3, Zenon DEF Consists
<1> QED BY <1>2, <1>4

\* A line behind a text is one behind its end.
LEMMA JoinedBehind ==
  ASSUME NEW S, NEW a \in Seq(S), NEW b \in Seq(S), b # << >>, NEW l \in Seq(S),
         NEW whole \in Seq(S), whole # << >>, Consists(whole, a, b), "newline" \in S
  PROVE  Consists(Joined(whole, l), a, Joined(b, l))
<1>1. PICK nl : nl = "newline"
  OBVIOUS
<1>2. PICK bl, wl : bl = Append(b, nl) /\ wl = Append(whole, nl)
  OBVIOUS
<1>3. Joined(whole, l) = wl \o l /\ Joined(b, l) = bl \o l
  BY <1>1, <1>2, JoinedFacts
<1>4. wl = Append(a \o b, nl) /\ bl \in Seq(S) /\ nl \in S
  BY <1>1, <1>2, LongerText DEF Consists
<1>5. wl = a \o bl
  <2>1. wl = a \o Append(b, nl)
    BY <1>4, AppendBehind
  <2> QED BY <1>2, <2>1, Zenon
<1>6. (a \o bl) \o l = a \o (bl \o l)
  <2>1. bl \in Seq(S)
    BY <1>4
  <2> QED BY <2>1, ConcatAssociative
<1> QED BY <1>3, <1>5, <1>6, Zenon DEF Consists

\* The whole text is cut into the queries qs, and c is behind those.
AfterLine(S, whole, j, c, qs) ==
  /\ j \in Seq(S) /\ c \in Seq(S) /\ Open(c) /\ qs \in Seq(Seq(S))
  /\ \E p \in Seq(S) : Consists(whole, p, c) /\ Ready(p, qs)

\* A line is read: what of the whole text is behind the queries is current.
LEMMA LineRead ==
  ASSUME NEW S, NEW b \in Seq(S), NEW whole \in Seq(S), NEW qs \in Seq(Seq(S)),
         Kept(b, whole, qs), NEW l \in Seq(S), "newline" \in S,
         NEW j, j = Joined(b, l), NEW more, Consists(more, qs, OnePass(j).queries),
         NEW c, c = OnePass(j).current
  PROVE  AfterLine(S, Joined(whole, l), j, c, more)
<1>1. PICK n \in 0 .. Len(whole) :
        whole = SubSeq(whole, 1, n) \o b /\ Ready(SubSeq(whole, 1, n), qs)
  BY DEF Kept
<1>2. PICK done, nl : done = SubSeq(whole, 1, n) /\ nl = "newline"
  OBVIOUS
<1>3. done \in Seq(S) /\ whole = done \o b /\ Ready(done, qs) /\ nl \in S
  <2>1. SubSeq(whole, 1, n) \in Seq(S)
    BY UpToPlace
  <2> QED BY <1>1, <1>2, <2>1, Zenon
<1>4. j \in Seq(S)
  BY JoinedFacts
<1>5. PICK f, st : f = st.queries /\ st = OnePass(j)
  OBVIOUS
<1>6. /\ st \in States(S) /\ f \in Seq(Seq(S)) /\ c \in Seq(S) /\ c = st.current
      /\ more = qs \o f
  <2>1. st \in States(S)
    BY <1>4, <1>5, PassTyped
  <2>2. c = st.current /\ more = qs \o f
    BY <1>5, Zenon DEF Consists
  <2> QED BY <1>5, <2>1, <2>2 DEF States
<1>7. Open(c)
  <2>1. OnePass(c) = [mode |-> st.mode, current |-> c, queries |-> << >>]
    BY <1>4, <1>5, <1>6, PassParts, Zenon
  <2> QED BY <2>1 DEF Open
<1>8. more \in Seq(Seq(S))
  BY <1>6, ConcatProperties
<1>9. PICK d \in Seq(S) : /\ j = d \o c
                          /\ OnePass(d) = [mode |-> "code", current |-> << >>, queries |-> f]
  <2>1. \E d \in Seq(S) : /\ j = d \o OnePass(j).current
                          /\ OnePass(d) = [mode |-> "code", current |-> << >>,
                                           queries |-> OnePass(j).queries]
    BY <1>4, PassParts
  <2> QED BY <1>5, <1>6, <2>1, Zenon
<1>10. \E p \in Seq(S) : Joined(whole, l) = p \o j /\ Ready(p, qs)
  <2>1. CASE whole = << >>
    <3>1. b = << >> /\ done = << >>
      <4>1. Len(done) \in Nat /\ Len(b) \in Nat /\ Len(whole) = Len(done) + Len(b)
        BY <1>3, ConcatProperties, LenProperties
      <4>2. Len(whole) = 0
        BY <2>1, EmptySeq
      <4>3. Len(done) = 0 /\ Len(b) = 0
        <5>1. PICK x, y : x = Len(done) /\ y = Len(b)
          OBVIOUS
        <5>2. x \in Nat /\ y \in Nat /\ x + y = 0
          BY <4>1, <4>2, <5>1
        <5>3. x = 0 /\ y = 0
          BY <5>2
        <5> QED BY <5>1, <5>3
      <4> QED BY <1>3, <4>3, EmptySeq
    <3>2. Joined(whole, l) = l /\ j = l
      BY <2>1, <3>1, JoinedFacts
    <3>3. done \o l = l
      BY <3>1, ConcatEmptySeq
    <3> QED BY <1>3, <3>2, <3>3
  <2>2. CASE whole # << >> /\ b # << >>
    <3>1. Joined(whole, l) = done \o Joined(b, l)
      <4>1. done \in Seq(S) /\ Consists(whole, done, b)
        BY <1>3 DEF Consists
      <4>2. Consists(Joined(whole, l), done, Joined(b, l))
        BY <2>2, <4>1, JoinedBehind
      <4> QED BY <4>2 DEF Consists
    <3> QED BY <1>3, <3>1
  <2>3. CASE whole # << >> /\ b = << >>
    <3>1. PICK wl : wl = Append(whole, nl)
      OBVIOUS
    <3>2. Joined(whole, l) = wl \o l /\ j = l
      BY <1>2, <2>3, <3>1, JoinedFacts
    <3>3. whole = done
      BY <1>3, <2>3, ConcatEmptySeq
    <3>4. wl \in Seq(S) /\ Ready(wl, qs)
      BY <1>2, <1>3, <3>1, <3>3, ReadyBreak
    <3> QED BY <3>2, <3>4
  <2> QED BY <2>1, <2>2, <2>3
<1>11. PICK p \in Seq(S) : Joined(whole, l) = p \o j /\ Ready(p, qs)
  BY <1>10
<1>12. PICK u : u = Joined(whole, l)
  OBVIOUS
<1>13. Consists(u, p, j) /\ Consists(j, d, c) /\ c \in Seq(S)
  BY <1>6, <1>9, <1>11, <1>12, Zenon DEF Consists
<1>14. PICK e \in Seq(S) : e = p \o d /\ u = e \o c
  <2>1. PICK e \in Seq(S) : Consists(e, p, d) /\ Consists(u, e, c)
    BY <1>13, FirstTwo
  <2>2. e = p \o d /\ u = e \o c
    BY <2>1 DEF Consists
  <2> QED BY <2>2
<1>15. Ready(e, more)
  <2>1. PICK x, y, z : x = OnePass(p \o d) /\ y = OnePass(d) /\ z = OnePass(p).queries
    OBVIOUS
  <2>2. y.mode = "code" /\ y.current = << >> /\ y.queries = f
    BY <1>9, <2>1
  <2>3. Follows(x, y, z, S)
    BY <1>11, <2>1, PassGoesOn DEF Ready
  <2>4. PICK w \in Seq(S) : isBlank(w) /\ x.current = w \o y.current
    BY <2>3 DEF Follows
  <2>5. x.mode = "code" /\ SameQueries(x.queries, z \o f)
    BY <2>2, <2>3 DEF Follows
  <2>6. w \o << >> = w
    BY ConcatEmptySeq
  <2>7. isBlank(x.current)
    BY <2>2, <2>4, <2>6, Zenon
  <2>8. z \in Seq(Seq(S)) /\ SameQueries(qs, z)
    BY <1>11, <2>1, PassTyped DEF States, Ready
  <2>9. SameQueries(qs \o f, z \o f)
    <3>1. PICK T : T = Seq(S)
      OBVIOUS
    <3>2. qs \in Seq(T) /\ z \in Seq(T) /\ f \in Seq(T)
      BY <1>6, <2>8, <3>1
    <3> QED BY <2>8, <3>2, SameConcat
  <2>10. SameQueries(more, x.queries)
    <3>1. SameQueries(z \o f, x.queries)
      BY <2>5 DEF SameQueries
    <3> QED BY <1>6, <2>9, <3>1, SameChain
  <2> QED BY <1>14, <2>1, <2>5, <2>7, <2>10 DEF Ready
<1>16. Consists(Joined(whole, l), e, c)
  BY <1>12, <1>14, Zenon DEF Consists
<1> QED BY <1>4, <1>6, <1>7, <1>8, <1>15, <1>16 DEF AfterLine

\* A text without its end.
LEMMA CutOff ==
  ASSUME NEW S, NEW p \in Seq(S), NEW c \in Seq(S), NEW whole, Consists(whole, p, c)
  PROVE  /\ whole \in Seq(S) /\ SubSeq(whole, 1, Len(whole) - Len(c)) = p
         /\ SubSeq(whole, 1, Len(whole) - 0) = whole
<1>1. PICK n : n = Len(whole) - Len(c)
  OBVIOUS
<1>2. /\ Len(p) \in Nat /\ Len(c) \in Nat /\ whole \in Seq(S) /\ Len(whole) = Len(p) + Len(c)
      /\ \A i \in 1 .. Len(p) + Len(c) : whole[i] = IF i <= Len(p) THEN p[i] ELSE c[i - Len(p)]
  BY ConcatProperties, LenProperties DEF Consists
<1>3. PICK s : s = SubSeq(whole, 1, n)
  OBVIOUS
<1>4. /\ n = Len(p) /\ n \in Int /\ 1 <= 1 /\ 1 <= n + 1 /\ n <= Len(whole) /\ n - 1 + 1 = n
      /\ Len(whole) - 0 = Len(whole)
  BY <1>1, <1>2
<1>5. /\ s \in Seq(S) /\ Len(s) = n - 1 + 1
      /\ \A i \in 1 .. n - 1 + 1 : s[i] = whole[1 + i - 1]
  BY <1>2, <1>3, <1>4, SubFacts
<1>6. \A i \in 1 .. n : s[i] = p[i]
  <2>1. ASSUME NEW i \in 1 .. n PROVE s[i] = p[i]
    <3>1. i \in 1 .. n - 1 + 1 /\ 1 + i - 1 = i /\ i \in 1 .. Len(p) + Len(c) /\ i <= Len(p)
      BY <1>2, <1>4
    <3> QED BY <1>2, <1>5, <3>1
  <2> QED BY <2>1
<1>7. s = p
  BY <1>4, <1>5, <1>6, SeqEqual
<1>8. SubSeq(whole, 1, Len(whole) - 0) = whole
  <2>1. SubSeq(whole, 1, Len(whole)) = whole
    BY <1>2, UpToPlace
  <2> QED BY <1>4, <2>1
<1> QED BY <1>1, <1>2, <1>3, <1>7, <1>8

\* Whether what is left is kept, discarded or blank, what was kept is.
LEMMA LineKept ==
  ASSUME NEW S, NEW p \in Seq(S), NEW c \in Seq(S), NEW whole, Consists(whole, p, c), Open(c),
         NEW qs, Ready(p, qs), NEW b, NEW d,
         \/ b = Unblanked(c) /\ d = << >>
         \/ d = Unblanked(c) /\ b = << >>,
         NEW t, t = SubSeq(whole, 1, Len(whole) - Len(d))
  PROVE  /\ Kept(b, t, qs) /\ b \in Seq(S) /\ t \in Seq(S) /\ d \in Seq(S)
<1>1. /\ whole \in Seq(S) /\ SubSeq(whole, 1, Len(whole) - Len(c)) = p
      /\ SubSeq(whole, 1, Len(whole) - 0) = whole
  BY CutOff
<1>2. PICK e : e = << >>
  OBVIOUS
<1>3. e \in Seq(S) /\ Len(e) = 0 /\ Open(e)
  <2>1. OnePass(<< >>).current = << >>
    BY PassSteps DEF Start
  <2> QED BY <1>2, <2>1, EmptySeq DEF Open
<1>4. CASE isBlank(c)
  <2>1. b = e /\ d = e
    BY <1>2, <1>4 DEF Unblanked
  <2>2. t = whole
    <3>1. Len(d) = 0
      BY <1>3, <2>1
    <3> QED BY <1>1, <3>1
  <2>3. PICK u : u = p \o c
    OBVIOUS
  <2>4. u = whole /\ Ready(u, qs)
    BY <1>4, <2>3, ReadyBehind DEF Consists
  <2>5. whole \o e = whole
    BY <1>1, <1>2, ConcatEmptySeq
  <2>6. Kept(e, whole, qs)
    BY <1>1, <1>3, <2>4, <2>5, KeptFrom
  <2> QED BY <1>1, <1>3, <2>1, <2>2, <2>6
<1>5. CASE ~isBlank(c) /\ b = c /\ d = e
  <2>1. t = whole
    <3>1. Len(d) = 0
      BY <1>3, <1>5
    <3> QED BY <1>1, <3>1
  <2>2. whole = p \o c
    BY DEF Consists
  <2>3. Kept(c, whole, qs)
    BY <2>2, KeptFrom
  <2> QED BY <1>1, <1>3, <1>5, <2>1, <2>3
<1>6. CASE ~isBlank(c) /\ d = c /\ b = e
  <2>1. t = p
    BY <1>1, <1>6
  <2>2. p = p \o e
    BY <1>2, ConcatEmptySeq
  <2>3. Kept(e, p, qs)
    BY <1>3, <2>2, KeptFrom
  <2> QED BY <1>3, <1>6, <2>1, <2>3
<1> QED BY <1>2, <1>4, <1>5, <1>6 DEF Unblanked

-----------------------------------------------------------------------------
(* The invariant *)

\* The characters of a text of lines.
Chs == Chars \cup {"newline", "exit"}

\* Each step ends the session or reads a line of text.
LEMMA LinesOnly ==
  ASSUME QueryAssumption, TypeOK, Next
  PROVE  Return \/ \E line : stripBom(line) \in Texts /\ ReadLine(line)
<1>1. Chars \subseteq Chs /\ "exit" \in Chs /\ Texts = Seq(Chs)
  BY DEF Chs, Texts
<1>2. CASE Return
  BY <1>2
<1>3. CASE \E n \in 0 .. Room : \E line \in [1 .. n -> Chars] :
             \/ ReadLine(line)
             \/ firstLine /\ ReadLine(Bom \o line)
  <2>1. PICK n \in 0 .. Room : \E line \in [1 .. n -> Chars] :
             \/ ReadLine(line)
             \/ firstLine /\ ReadLine(Bom \o line)
    BY <1>3
  <2>2. PICK line \in [1 .. n -> Chars] :
             \/ ReadLine(line)
             \/ firstLine /\ ReadLine(Bom \o line)
    BY <2>1
  <2>3. n \in Nat
    <3>1. text \in Seq(Chs)
      BY <1>1 DEF TypeOK
    <3>2. Len(text) \in Nat
      BY <3>1, LenProperties
    <3>3. Room \in Int
      BY <3>2 DEF Room, QueryAssumption
    <3> QED BY <3>3
  <2>4. line \in Seq(Chs)
    <3>1. line \in [1 .. n -> Chs]
      BY <1>1
    <3> QED BY <2>3, <3>1, SeqDef
  <2>5. CASE ReadLine(line)
    <3>1. line # << >> => Tail(line) \in Seq(Chs)
      BY <2>4, HeadTailProperties
    <3>2. stripBom(line) \in Seq(Chs)
      BY <2>4, <3>1 DEF stripBom
    <3> QED BY <1>1, <2>5, <3>2
  <2>6. CASE firstLine /\ ReadLine(Bom \o line)
    <3>1. PICK S, e, u, v : S = Chs \cup {"bom"} /\ e = "bom" /\ u = <<e>> \o line /\ v = Tail(u)
      OBVIOUS
    <3>2. e \in S /\ line \in Seq(S)
      <4>1. Chs \subseteq S
        BY <3>1
      <4> QED BY <2>4, <3>1, <4>1, SeqMonotonic
    <3>3. /\ u \in Seq(S) /\ Len(u) = Len(line) + 1 /\ u[1] = e
          /\ \A i \in 2 .. Len(line) + 1 : u[i] = line[i - 1]
      BY <3>1, <3>2, PushFacts
    <3>4. Len(line) \in Nat /\ u # << >>
      BY <3>2, <3>3, EmptySeq, LenProperties
    <3>5. Head(u) = e /\ v \in Seq(S) /\ Len(v) = Len(u) - 1
          /\ \A i \in 1 .. Len(v) : v[i] = u[i + 1]
      <4>1. Head(u) = u[1] /\ Tail(u) \in Seq(S) /\ Len(Tail(u)) = Len(u) - 1
            /\ \A i \in 1 .. Len(Tail(u)) : Tail(u)[i] = u[i + 1]
        BY <3>3, <3>4, HeadTailProperties
      <4> QED BY <3>1, <3>3, <4>1
    <3>6. v = line
      <4>1. Len(v) = Len(line)
        BY <3>3, <3>4, <3>5
      <4>2. ASSUME NEW i \in 1 .. Len(v) PROVE v[i] = line[i]
        <5>1. PICK k : k = i + 1
          OBVIOUS
        <5>2. k \in 2 .. Len(line) + 1 /\ k - 1 = i
          BY <3>4, <4>1, <5>1
        <5>3. v[i] = u[k] /\ u[k] = line[k - 1]
          BY <3>3, <3>5, <5>1, <5>2
        <5> QED BY <5>2, <5>3
      <4> QED BY <3>2, <3>5, <4>1, <4>2, SeqEqual
    <3>7. u = Bom \o line
      BY <3>1, Zenon DEF Bom
    <3>8. stripBom(u) = line
      BY <2>6, <3>1, <3>4, <3>5, <3>6, Zenon DEF stripBom
    <3>9. stripBom(u) \in Texts /\ ReadLine(u)
      BY <1>1, <2>4, <2>6, <3>7, <3>8, Zenon
    <3> QED BY <3>9
  <2> QED BY <2>2, <2>5, <2>6
<1>4. CASE Room > 0 /\ ReadLine(Exit)
  <2>1. Exit \in Seq(Chs) /\ Exit[1] = "exit"
    <3>1. PICK e : e = "exit"
      OBVIOUS
    <3>2. e \in Chs
      BY <1>1, <3>1
    <3>3. <<e>> \in Seq(Chs) /\ <<e>>[1] = e
      BY <3>2, OneKid
    <3> QED BY <3>1, <3>3 DEF Exit
  <2>2. Exit # << >> => Tail(Exit) \in Seq(Chs)
    BY <2>1, HeadTailProperties
  <2>3. stripBom(Exit) \in Seq(Chs)
    BY <2>1, <2>2 DEF stripBom
  <2> QED BY <1>1, <1>4, <2>3
<1> QED BY <1>2, <1>3, <1>4 DEF Next

\* A text and its queries, as the types of the variables say.
LEMMA TypesOfState ==
  ASSUME TypeOK
  PROVE  /\ buffer \in Seq(Chs) /\ text \in Seq(Chs) /\ discarded \in Seq(Chs)
         /\ sent \in Seq(Seq(Chs)) /\ Texts = Seq(Chs) /\ "newline" \in Chs
BY DEF TypeOK, Texts, Chs

\* It holds at the start.
LEMMA SoundAtFirst ==
  ASSUME Init
  PROVE  TypeOK /\ Sound
<1>1. PICK e : e = << >>
  OBVIOUS
<1>2. /\ buffer = e /\ text = e /\ discarded = e /\ sent = e
      /\ interactive \in BOOLEAN /\ firstLine = TRUE /\ ended = FALSE /\ reported = FALSE
  BY <1>1 DEF Init
<1>3. e \in Seq(Chs) /\ e \in Seq(Seq(Chs)) /\ Len(e) = 0
  BY <1>1, EmptySeq
<1>4. TypeOK
  BY <1>2, <1>3 DEF TypeOK, Texts, Chs
<1>5. OnePass(e) = [mode |-> "code", current |-> e, queries |-> e]
  BY <1>1, PassSteps DEF Start
<1>6. OnePass(e).mode = "code" /\ OnePass(e).current = e /\ OnePass(e).queries = e
  BY <1>5
<1>7. Open(e) /\ Ready(e, e)
  <2>1. isBlank(e)
    BY <1>1, BlankFacts
  <2>2. SameQueries(e, e)
    BY <1>3 DEF SameQueries
  <2> QED BY <1>6, <2>1, <2>2 DEF Open, Ready
<1>8. e = e \o e
  BY <1>1, <1>3, ConcatEmptySeq
<1>9. Kept(e, e, e)
  BY <1>3, <1>7, <1>8, KeptFrom
<1> QED BY <1>1, <1>2, <1>3, <1>4, <1>9 DEF Sound

\* Reading a line keeps it.
LEMMA SoundRead ==
  ASSUME TypeOK, Sound, NEW line, stripBom(line) \in Texts, ReadLine(line)
  PROVE  TypeOK' /\ Sound'
<1>1. PICK l, j : l = stripBom(line) /\ j = Joined(buffer, l)
  OBVIOUS
<1>2. PICK c, found, whole : c = OnePass(j).current /\ found = OnePass(j).queries
                             /\ whole = Joined(text, l)
  OBVIOUS
<1>3. /\ buffer \in Seq(Chs) /\ text \in Seq(Chs) /\ discarded \in Seq(Chs)
      /\ sent \in Seq(Seq(Chs)) /\ Texts = Seq(Chs) /\ "newline" \in Chs
  BY TypesOfState
<1>4. l \in Seq(Chs)
  BY <1>1, <1>3
<1>5. PICK more : more = sent \o found
  OBVIOUS
<1>6. /\ j \in Seq(Chs) /\ c \in Seq(Chs) /\ Open(c) /\ more \in Seq(Seq(Chs))
      /\ \E p \in Seq(Chs) : Consists(whole, p, c) /\ Ready(p, more)
  <2>1. Kept(buffer, text, sent)
    BY DEF Sound
  <2>2. Consists(more, sent, OnePass(j).queries)
    BY <1>2, <1>5, Zenon DEF Consists
  <2>3. PICK S : S = Chs
    OBVIOUS
  <2>4. /\ buffer \in Seq(S) /\ text \in Seq(S) /\ sent \in Seq(Seq(S)) /\ l \in Seq(S)
        /\ "newline" \in S
    BY <1>3, <1>4, <2>3
  <2>5. j = Joined(buffer, l) /\ c = OnePass(j).current
    BY <1>1, <1>2
  <2>6. AfterLine(S, Joined(text, l), j, c, more)
    BY <2>1, <2>2, <2>4, <2>5, LineRead
  <2> QED BY <1>2, <2>3, <2>6, Zenon DEF AfterLine
<1>7. PICK cut : cut = Cut(j)
  OBVIOUS
<1>8. cut = [queries |-> found, rest |-> c]
  BY <1>2, <1>6, <1>7, CutIsPass, Zenon
<1>9. cut.queries = found /\ cut.rest = c
  BY <1>8
<1>10. PICK rest : rest = Unblanked(c)
  OBVIOUS
<1>11. /\ ~ended
       /\ sent' = more
       /\ \/ Hopeless(rest) /\ buffer' = << >> /\ discarded' = rest
          \/ ~Hopeless(rest) /\ buffer' = rest /\ discarded' = << >>
       /\ text' = SubSeq(whole, 1, Len(whole) - Len(discarded'))
       /\ firstLine' = FALSE
       /\ UNCHANGED <<interactive, ended, reported>>
  BY <1>1, <1>2, <1>5, <1>7, <1>9, <1>10, Zenon DEF ReadLine
<1>12. /\ Kept(buffer', text', sent')
       /\ buffer' \in Seq(Chs) /\ text' \in Seq(Chs) /\ discarded' \in Seq(Chs)
  <2>1. PICK p \in Seq(Chs) : Consists(whole, p, c) /\ Ready(p, more)
    BY <1>6
  <2>2. PICK b, d, t : b = buffer' /\ d = discarded' /\ t = text'
    OBVIOUS
  <2>3. /\ \/ b = Unblanked(c) /\ d = << >>
           \/ d = Unblanked(c) /\ b = << >>
        /\ t = SubSeq(whole, 1, Len(whole) - Len(d))
    BY <1>10, <1>11, <2>2, Zenon
  <2>4. c \in Seq(Chs) /\ Open(c)
    BY <1>6
  <2>5. Kept(b, t, more) /\ b \in Seq(Chs) /\ t \in Seq(Chs) /\ d \in Seq(Chs)
    BY <2>1, <2>3, <2>4, LineKept
  <2> QED BY <1>11, <2>2, <2>5, Zenon
<1>13. TypeOK'
  <2>1. sent' \in Seq(Seq(Chs))
    BY <1>6, <1>11
  <2>2. {interactive', firstLine', ended', reported'} \subseteq BOOLEAN
    BY <1>11 DEF TypeOK
  <2> QED BY <1>12, <2>1, <2>2 DEF TypeOK, Texts, Chs
<1>14. \A i \in 1 .. Len(sent') : Closed(sent'[i])
  <2>1. \A i \in 1 .. Len(found) : Closed(found[i])
    BY <1>2, <1>6, PassParts, Zenon
  <2>2. \A i \in 1 .. Len(sent) : Closed(sent[i])
    BY DEF Sound
  <2>3. found \in Seq(Seq(Chs))
    BY <1>2, <1>6, PassTyped DEF States
  <2>4. PICK T : T = Seq(Chs)
    OBVIOUS
  <2>5. sent \in Seq(T) /\ found \in Seq(T)
    BY <1>3, <2>3, <2>4
  <2>6. /\ Len(more) = Len(sent) + Len(found) /\ Len(sent) \in Nat /\ Len(found) \in Nat
        /\ \A i \in 1 .. Len(sent) + Len(found) :
             more[i] = IF i <= Len(sent) THEN sent[i] ELSE found[i - Len(sent)]
    BY <1>5, <2>5, ConcatProperties, LenProperties
  <2>7. ASSUME NEW i \in 1 .. Len(more) PROVE Closed(more[i])
    <3>1. CASE i <= Len(sent)
      <4>1. i \in 1 .. Len(sent) /\ more[i] = sent[i]
        BY <2>6, <3>1
      <4> QED BY <2>2, <4>1
    <3>2. CASE ~(i <= Len(sent))
      <4>1. PICK k : k = i - Len(sent)
        OBVIOUS
      <4>2. k \in 1 .. Len(found) /\ more[i] = found[k]
        BY <2>6, <3>2, <4>1
      <4> QED BY <2>1, <4>2
    <3> QED BY <3>1, <3>2
  <2> QED BY <1>11, <2>7
<1>15. discarded' # << >> => tokenize(discarded').end = "syntax"
  <2>1. discarded' # << >> => Hopeless(discarded')
    BY <1>11, Zenon
  <2> QED BY <2>1 DEF Hopeless
<1>16. ended' => reported' = ~isBlank(buffer')
  BY <1>11
<1> QED BY <1>12, <1>13, <1>14, <1>15, <1>16 DEF Sound

\* The end of the session keeps it.
LEMMA SoundAtEnd ==
  ASSUME TypeOK, Sound, Return
  PROVE  TypeOK' /\ Sound'
<1>1. /\ ended' = TRUE /\ reported' = ~isBlank(buffer) /\ interactive' = interactive
      /\ firstLine' = firstLine /\ buffer' = buffer /\ sent' = sent /\ text' = text
      /\ discarded' = discarded
  BY DEF Return
<1>2. TypeOK'
  <2>1. (~isBlank(buffer)) \in BOOLEAN
    BY DEF isBlank
  <2>2. reported' \in BOOLEAN
    BY <1>1, <2>1
  <2> QED BY <1>1, <2>2 DEF TypeOK
<1>3. Sound'
  <2>1. /\ Kept(buffer, text, sent)
        /\ \A i \in 1 .. Len(sent) : Closed(sent[i])
        /\ discarded # << >> => tokenize(discarded).end = "syntax"
    BY DEF Sound
  <2>2. reported' = ~isBlank(buffer')
    BY <1>1, Zenon
  <2> QED BY <1>1, <2>1, <2>2, Zenon DEF Sound
<1> QED BY <1>2, <1>3

-----------------------------------------------------------------------------
(* The theorems *)

\* Types and invariant, of every state there can be.
LEMMA AlwaysSound == Spec => [](TypeOK /\ Sound)
<1>1. Init => TypeOK /\ Sound
  BY SoundAtFirst
<1>2. TypeOK /\ Sound /\ [Next]_vars => (TypeOK /\ Sound)'
  <2>1. SUFFICES ASSUME TypeOK, Sound, [Next]_vars PROVE TypeOK' /\ Sound'
    OBVIOUS
  <2>2. CASE Next
    <3>1. Return \/ \E line : stripBom(line) \in Texts /\ ReadLine(line)
      BY <2>1, <2>2, QueryAssumption, LinesOnly
    <3>2. CASE Return
      BY <2>1, <3>2, SoundAtEnd
    <3>3. CASE \E line : stripBom(line) \in Texts /\ ReadLine(line)
      <4>1. PICK line : stripBom(line) \in Texts /\ ReadLine(line)
        BY <3>3
      <4> QED BY <2>1, <4>1, SoundRead
    <3> QED BY <3>1, <3>2, <3>3
  <2>3. CASE UNCHANGED vars
    <3>1. TypeOK'
      BY <2>1, <2>3 DEF TypeOK, vars
    <3>2. Sound'
      BY <2>1, <2>3, Zenon DEF Sound, vars
    <3> QED BY <3>1, <3>2
  <2> QED BY <2>1, <2>2, <2>3
<1> QED BY <1>1, <1>2, PTL DEF Spec

\* Buffer, text and queries are texts of lines: the byte order mark is in none.
THEOREM TypeCorrect == Spec => []TypeOK
BY AlwaysSound, PTL

\* The queries run are those of a single pass over everything that was read.
THEOREM QueriesCutWhole == Spec => []CutsWholeText
<1>1. TypeOK /\ Sound => CutsWholeText
  <2>1. SUFFICES ASSUME TypeOK, Sound PROVE CutsWholeText
    OBVIOUS
  <2>2. buffer \in Seq(Chs) /\ Kept(buffer, text, sent) /\ (ended => reported = ~isBlank(buffer))
        /\ text \in Seq(Chs)
    BY <2>1, TypesOfState DEF Sound
  <2>3. PICK n \in 0 .. Len(text) :
          text = SubSeq(text, 1, n) \o buffer /\ Ready(SubSeq(text, 1, n), sent)
    BY <2>2 DEF Kept
  <2>4. PICK p, u : p = SubSeq(text, 1, n) /\ u = p \o buffer
    OBVIOUS
  <2>5. p \in Seq(Chs) /\ Ready(p, sent) /\ text = u /\ Open(buffer)
    <3>1. SubSeq(text, 1, n) \in Seq(Chs)
      BY <2>2, UpToPlace
    <3>2. Open(buffer)
      BY <2>2 DEF Kept
    <3> QED BY <2>3, <2>4, <3>1, <3>2, Zenon
  <2>6. /\ SameQueries(sent, OnePass(p \o buffer).queries)
        /\ Trimmed(OnePass(p \o buffer).current) = Trimmed(buffer)
        /\ isBlank(OnePass(p \o buffer).current) <=> isBlank(buffer)
    BY <2>2, <2>5, ReadyBehind
  <2>7. /\ SameQueries(sent, OnePass(text).queries)
        /\ Trimmed(OnePass(text).current) = Trimmed(buffer)
        /\ isBlank(OnePass(text).current) <=> isBlank(buffer)
    BY <2>4, <2>5, <2>6, Zenon
  <2>8. ended /\ ~reported => isBlank(OnePass(text).current)
    BY <2>2, <2>7, Zenon
  <2> QED BY <2>7, <2>8, Zenon DEF CutsWholeText
<1> QED BY <1>1, AlwaysSound, PTL

\* The Lexer reads each query to the semicolon that findSemicolon cut it at, and
\* none in the buffer.
THEOREM LexerAlwaysAgrees == Spec => []LexerAgrees
<1>1. TypeOK /\ Sound => LexerAgrees
  <2>1. SUFFICES ASSUME TypeOK, Sound PROVE LexerAgrees
    OBVIOUS
  <2>2. buffer \in Seq(Chs) /\ sent \in Seq(Seq(Chs)) /\ Open(buffer)
        /\ \A i \in 1 .. Len(sent) : Closed(sent[i])
    BY <2>1, TypesOfState DEF Sound, Kept
  <2>3. ~Contains(tokenize(buffer).tokens, ";")
    <3>1. NoSemicolon(tokenize(buffer).tokens)
      BY <2>2, OpenTokens
    <3> QED BY <3>1 DEF NoSemicolon, Contains
  <2>4. ASSUME NEW i \in 1 .. Len(sent)
        PROVE  LET scanned == tokenize(sent[i])
                   m == Len(scanned.tokens)
               IN  /\ scanned.end # "incomplete"
                   /\ \A j \in 1 .. m : scanned.tokens[j] = ";" <=> scanned.end = "eof" /\ j = m
                   /\ scanned.end = "eof" => m > 0
    <3>1. PICK q, d, t : q = sent[i] /\ d = tokenize(q) /\ t = d.tokens
      OBVIOUS
    <3>2. q \in Seq(Chs) /\ Closed(q)
      <4>1. sent[i] \in Seq(Chs)
        BY <2>2, ElementOfSeq
      <4> QED BY <2>2, <3>1, <4>1
    <3>3. /\ d \in Scans /\ d.end # "incomplete"
          /\ d.end = "eof" => OneSemicolon(t)
          /\ d.end = "syntax" => NoSemicolon(t)
      BY <3>1, <3>2, ClosedTokens
    <3>4. d.end = "eof" \/ d.end = "syntax"
      BY <3>3 DEF Scans
    <3>5. /\ \A j \in 1 .. Len(t) : t[j] = ";" <=> d.end = "eof" /\ j = Len(t)
          /\ d.end = "eof" => Len(t) > 0
      BY <3>3, <3>4 DEF OneSemicolon, NoSemicolon
    <3> QED BY <3>1, <3>3, <3>5, Zenon
  <2> QED BY <2>3, <2>4 DEF LexerAgrees
<1> QED BY <1>1, AlwaysSound, PTL

\* Whatever is in the buffer, a line can get rid of it.
THEOREM AlwaysCanFinish == Spec => []CanFinish
<1>1. TypeOK => CanFinish
  <2>1. SUFFICES ASSUME TypeOK PROVE CanFinish
    OBVIOUS
  <2>2. PICK S : S = Chs \cup {"newline", ";", "quote"}
    OBVIOUS
  <2>3. buffer \in Seq(Chs) /\ Chs \subseteq S /\ {"newline", ";", "quote"} \subseteq S
    BY <2>1, <2>2, TypesOfState
  <2>4. buffer \in Seq(S)
    BY <2>3, SeqMonotonic
  <2> QED BY <2>3, <2>4, Finishes DEF CanFinish
<1> QED BY <1>1, AlwaysSound, PTL

\* Whatever is discarded stays an error of the Lexer, whatever is read after it.
THEOREM HopelessForGood ==
  Spec => [](discarded # << >> =>
               \A more \in Texts : tokenize(Joined(discarded, more)).end = "syntax")
<1>1. ASSUME TypeOK, Sound, discarded # << >>, NEW more \in Texts
      PROVE  tokenize(Joined(discarded, more)).end = "syntax"
  <2>1. /\ discarded \in Seq(Chs) /\ more \in Seq(Chs) /\ "newline" \in Chs
        /\ tokenize(discarded).end = "syntax"
    BY <1>1, TypesOfState DEF Sound
  <2>2. PICK t : t = Joined(discarded, more)
    OBVIOUS
  <2>3. t \in Seq(Chs) /\ GoesOn(discarded, t)
    BY <1>1, <2>1, <2>2, JoinedFacts
  <2>4. tokenize(t).end = "syntax"
    BY <2>1, <2>3, SyntaxStays
  <2> QED BY <2>2, <2>4
<1>2. TypeOK /\ Sound
        => (discarded # << >> =>
              \A more \in Texts : tokenize(Joined(discarded, more)).end = "syntax")
  BY <1>1
<1> QED BY <1>2, AlwaysSound, PTL

\* In particular no short line behind it helps.
THEOREM OnlyHopeless == Spec => []OnlyHopelessDiscarded
<1>1. (discarded # << >> =>
         \A more \in Texts : tokenize(Joined(discarded, more)).end = "syntax")
        => OnlyHopelessDiscarded
  <2>1. SUFFICES ASSUME \A more \in Texts : tokenize(Joined(discarded, more)).end = "syntax",
                        NEW n \in 0 .. 2, NEW line \in [1 .. n -> Chars]
                 PROVE  tokenize(Joined(discarded, line)).end = "syntax"
    BY DEF OnlyHopelessDiscarded
  <2>2. line \in Texts
    <3>1. n \in Nat /\ line \in [1 .. n -> Chars \cup {"newline", "exit"}]
      OBVIOUS
    <3> QED BY <3>1, SeqDef DEF Texts
  <2> QED BY <2>1, <2>2
<1> QED BY <1>1, HopelessForGood, PTL
=============================================================================
