----------------------------- MODULE QueryStream -----------------------------
(***************************************************************************)
(* From lines of input to queries: runStream of main.cpp, which collects   *)
(* lines in a buffer and cuts queries out of it, and the scanning of the   *)
(* Lexer, by which an interactive session decides whether what is left     *)
(* could still become a query.                                             *)
(*                                                                         *)
(* A text is a sequence of character classes: what either scanner tells    *)
(* apart.  "word" is any character of a word or number, "stray" what the   *)
(* Lexer refuses (no token begins with it, or a keyword in mixed case),    *)
(* "blank" white space within a line.  NUL, which ends the input for the   *)
(* Lexer only, is not among them.                                          *)
(***************************************************************************)
EXTENDS Integers, Sequences, SequencesExt

CONSTANTS
  Chars,      \* the characters of a line
  MaxText     \* bound on the characters read and not discarded

QueryAssumption == MaxText \in Nat

ASSUME QueryAssumption

Exit == <<"exit">>     \* the line `exit' or `quit'
Bom == <<"bom">>       \* the three bytes some editors begin a file with

VARIABLES
  interactive,   \* reading the terminal and not a script
  firstLine,     \* no line was read yet
  buffer,        \* text that is not cut into queries yet
  ended,         \* runStream has returned
  reported,      \* it reported an incomplete statement
  sent,          \* history: the queries given to runQuery
  text,          \* history: the lines read, without what was discarded
  discarded      \* history: what the last line made it discard

vars == <<interactive, firstLine, buffer, ended, reported, sent, text, discarded>>

-----------------------------------------------------------------------------
(* Scanning *)

\* The first position from i on that holds c, or the one after the end.
Find(s, i, c) ==
  CHOOSE j \in i .. Len(s) + 1 :
    /\ j = Len(s) + 1 \/ s[j] = c
    /\ \A k \in i .. j - 1 : s[k] # c

Dashes(s, i) == i < Len(s) /\ s[i] = "-" /\ s[i + 1] = "-"

Blanks == {"blank", "newline"}
isBlank(s) == \A i \in 1 .. Len(s) : s[i] \in Blanks

\* Mutant: a comment ends with the text and not with its line.
findSemicolonEndless(s) ==
  LET scan[x \in (1 .. Len(s) + 2) \X BOOLEAN] ==
        LET i == x[1]
            inString == x[2]
        IN  IF i > Len(s) \/ (~inString /\ Dashes(s, i)) THEN 0
            ELSE IF inString THEN scan[<<i + 1, s[i] # "quote">>]
            ELSE IF s[i] = "quote" THEN scan[<<i + 1, TRUE>>]
            ELSE IF s[i] = ";" THEN i
            ELSE scan[<<i + 1, FALSE>>]
  IN  scan[<<1, FALSE>>]

\* The first semicolon outside of strings and comments, or 0.
findSemicolon(s) ==
  LET scan[x \in (1 .. Len(s) + 2) \X BOOLEAN] ==
        LET i == x[1]
            inString == x[2]
        IN  IF i > Len(s) THEN 0
            ELSE IF inString THEN scan[<<i + 1, s[i] # "quote">>]
            ELSE IF s[i] = "quote" THEN scan[<<i + 1, TRUE>>]
            ELSE IF Dashes(s, i) THEN scan[<<Find(s, i, "newline") + 1, FALSE>>]
            ELSE IF s[i] = ";" THEN i
            ELSE scan[<<i + 1, FALSE>>]
  IN  scan[<<1, FALSE>>]

\* The tokens that are one character each here, and all kinds of tokens.
Single == {"word", "exit", ";", "-"}
Kinds == Single \cup {"string"}

Stop(tokens, how) == [tokens |-> tokens, end |-> how]

\* Mutant: a single dash begins a comment.
tokenizeOneDash(s) ==
  LET read[x \in (1 .. Len(s) + 1) \X Seq(Kinds)] ==
        LET i == x[1]
            tokens == x[2]
            close == Find(s, i + 1, "quote")
        IN  IF i > Len(s) THEN Stop(tokens, "eof")
            ELSE IF s[i] \in Blanks THEN read[<<i + 1, tokens>>]
            ELSE IF s[i] = "-" THEN read[<<Find(s, i, "newline"), tokens>>]
            ELSE IF s[i] \in Single THEN read[<<i + 1, Append(tokens, s[i])>>]
            ELSE IF s[i] # "quote" THEN Stop(tokens, "syntax")
            ELSE IF close > Len(s) THEN Stop(tokens, "incomplete")
            ELSE read[<<close + 1, Append(tokens, "string")>>]
  IN  read[<<1, << >>>>]

\* Lexer::tokenize: the kinds of the tokens, and whether the text ended
\* ("eof"), or tokenize threw IncompleteInput or SyntaxError.
tokenize(s) ==
  LET read[x \in (1 .. Len(s) + 1) \X Seq(Kinds)] ==
        LET i == x[1]
            tokens == x[2]
            close == Find(s, i + 1, "quote")
        IN  IF i > Len(s) THEN Stop(tokens, "eof")
            ELSE IF s[i] \in Blanks THEN read[<<i + 1, tokens>>]
            ELSE IF Dashes(s, i) THEN read[<<Find(s, i, "newline"), tokens>>]
            ELSE IF s[i] \in Single THEN read[<<i + 1, Append(tokens, s[i])>>]
            ELSE IF s[i] # "quote" THEN Stop(tokens, "syntax")
            ELSE IF close > Len(s) THEN Stop(tokens, "incomplete")
            ELSE read[<<close + 1, Append(tokens, "string")>>]
  IN  read[<<1, << >>>>]

-----------------------------------------------------------------------------
Init ==
  /\ interactive \in BOOLEAN
  /\ firstLine = TRUE /\ buffer = << >> /\ ended = FALSE /\ reported = FALSE
  /\ sent = << >> /\ text = << >> /\ discarded = << >>

\* Mutant: a byte order mark stays.
stripBomNever(line) == line

\* Only the first line may begin with one.
stripBom(line) ==
  IF firstLine /\ line # << >> /\ Head(line) = "bom" THEN Tail(line) ELSE line

Joined(s, line) == IF s = << >> THEN line ELSE s \o <<"newline">> \o line

\* The queries of s, blank ones left out, and the text behind the last.
Cut(s) ==
  LET cut[x \in (1 .. Len(s) + 1) \X Seq(Seq(Range(s)))] ==
        LET rest == SubSeq(s, x[1], Len(s))
            pos == findSemicolon(rest)
            query == SubSeq(rest, 1, pos)
        IN  IF pos = 0 THEN [queries |-> x[2], rest |-> rest]
            ELSE cut[<<x[1] + pos,
                       IF isBlank(Front(query)) THEN x[2] ELSE Append(x[2], query)>>]
  IN  cut[<<1, << >>>>]

Unblanked(s) == IF isBlank(s) THEN << >> ELSE s

\* Mutant: an unclosed string counts as an error.
HopelessIncomplete(s) == interactive /\ tokenize(s).end # "eof"

\* What an interactive session throws away, with a message: a text in which
\* the Lexer meets an error other than a string that is still open.
Hopeless(s) == interactive /\ tokenize(s).end = "syntax"

\* Mutant: lines are put together without the line break.
ReadLineGlued(line) ==
  LET l == stripBom(line)
      cut == Cut(buffer \o l)
      rest == Unblanked(cut.rest)
      all == Joined(text, l)
  IN  /\ ~ended /\ ~(interactive /\ l = Exit)
      /\ sent' = sent \o cut.queries
      /\ \/ Hopeless(rest) /\ buffer' = << >> /\ discarded' = rest
         \/ ~Hopeless(rest) /\ buffer' = rest /\ discarded' = << >>
      /\ text' = SubSeq(all, 1, Len(all) - Len(discarded'))
      /\ firstLine' = FALSE
      /\ UNCHANGED <<interactive, ended, reported>>

ReadLine(line) ==
  LET l == stripBom(line)
      cut == Cut(Joined(buffer, l))
      rest == Unblanked(cut.rest)
      all == Joined(text, l)
  IN  /\ ~ended /\ ~(interactive /\ l = Exit)
      /\ sent' = sent \o cut.queries
      /\ \/ Hopeless(rest) /\ buffer' = << >> /\ discarded' = rest
         \/ ~Hopeless(rest) /\ buffer' = rest /\ discarded' = << >>
      /\ text' = SubSeq(all, 1, Len(all) - Len(discarded'))
      /\ firstLine' = FALSE
      /\ UNCHANGED <<interactive, ended, reported>>

\* The end of the input, or `exit' or `quit' at the terminal.
Return ==
  /\ ~ended
  /\ ended' = TRUE
  /\ reported' = ~isBlank(buffer)
  /\ UNCHANGED <<interactive, firstLine, buffer, sent, text, discarded>>

Room == MaxText - Len(text) - 1

Next ==
  \/ \E n \in 0 .. Room : \E line \in [1 .. n -> Chars] :
       \/ ReadLine(line)
       \/ firstLine /\ ReadLine(Bom \o line)
  \/ Room > 0 /\ ReadLine(Exit)
  \/ Return

Spec == Init /\ [][Next]_vars

-----------------------------------------------------------------------------
(* Properties *)

Texts == Seq(Chars \cup {"newline", "exit"})

\* Buffer and histories are texts of lines; the byte order mark of a script
\* is in none of them (stripBom, main.cpp:21).
TypeOK ==
  /\ {buffer, text, discarded} \subseteq Texts /\ sent \in Seq(Texts)
  /\ {interactive, firstLine, ended, reported} \subseteq BOOLEAN

\* One pass over a text, a character at a time: `mode' is what the next
\* character is in.
Plain == {"code", "dash"}

Scan(st, c) ==
  LET plain == st.mode \in Plain
      now == st.current \o <<c>>
      mode == CASE st.mode = "string" -> IF c = "quote" THEN "code" ELSE "string"
                [] st.mode = "comment" -> IF c = "newline" THEN "code" ELSE "comment"
                [] plain /\ c = "quote" -> "string"
                [] plain /\ c = "-" -> IF st.mode = "dash" THEN "comment" ELSE "dash"
                [] OTHER -> "code"
  IN  IF plain /\ c = ";"
        THEN [mode |-> "code", current |-> << >>,
              queries |-> IF isBlank(st.current) THEN st.queries ELSE Append(st.queries, now)]
        ELSE [mode |-> mode, current |-> now, queries |-> st.queries]

OnePass(s) ==
  LET after[i \in 0 .. Len(s)] ==
        IF i = 0 THEN [mode |-> "code", current |-> << >>, queries |-> << >>]
        ELSE Scan(after[i - 1], s[i])
  IN  after[Len(s)]

\* A text from its first character that is not white space.
Trimmed(s) ==
  IF isBlank(s) THEN << >>
  ELSE SubSeq(s, CHOOSE i \in 1 .. Len(s) : s[i] \notin Blanks /\ isBlank(SubSeq(s, 1, i - 1)),
              Len(s))

SameQueries(s, t) == Len(s) = Len(t) /\ \A i \in 1 .. Len(s) : Trimmed(s[i]) = Trimmed(t[i])

\* The queries run are those a single pass over everything read would find,
\* in order, however the text is cut into lines and whatever was discarded
\* in between; and unless the end is reported as incomplete, nothing that
\* was read is left (runStream, main.cpp:94-141).
CutsWholeText ==
  LET whole == OnePass(text)
  IN  /\ SameQueries(sent, whole.queries)
      /\ Trimmed(buffer) = Trimmed(whole.current)
      /\ ended /\ ~reported => isBlank(whole.current)

\* findSemicolon and the Lexer agree on what a semicolon, a string and a
\* comment are: no query has an open string, its semicolon is its last
\* token and its only one, and there is none in what stays in the buffer
\* (main.cpp:30, lexer.cpp:57-73).
LexerAgrees ==
  /\ \A i \in 1 .. Len(sent) :
       LET scanned == tokenize(sent[i])
           n == Len(scanned.tokens)
       IN  /\ scanned.end # "incomplete"
           /\ \A j \in 1 .. n : scanned.tokens[j] = ";" <=> scanned.end = "eof" /\ j = n
           /\ scanned.end = "eof" => n > 0
  /\ ~Contains(tokenize(buffer).tokens, ";")

\* No text is a dead end: whatever is in the buffer, a semicolon on a line
\* of its own, behind a quote if a string is open, gets rid of it.
CanFinish ==
  \E line \in {<<";">>, <<"quote", ";">>} : Cut(Joined(buffer, line)).rest = << >>

\* An interactive session discards only what no further line can turn into
\* queries that the Lexer accepts; an open string is waited for
\* (main.cpp:125-135).
OnlyHopelessDiscarded ==
  discarded # << >> =>
    \A n \in 0 .. 2 : \A line \in [1 .. n -> Chars] :
      tokenize(Joined(discarded, line)).end = "syntax"

-----------------------------------------------------------------------------
(* The strengthening from which the proofs derive the invariants *)

\* A text in which a pass meets no end of a query.
Open(s) == OnePass(s).current = s

\* A text that ends with the first end of a query in it.
Closed(q) ==
  /\ q # << >> /\ q[Len(q)] = ";"
  /\ OnePass(Front(q)).mode \in Plain /\ Open(Front(q))

\* A text that is cut into the queries qs, with nothing but white space left.
Ready(s, qs) ==
  /\ OnePass(s).mode = "code" /\ isBlank(OnePass(s).current)
  /\ SameQueries(qs, OnePass(s).queries)

\* The text is cut into the queries qs as far as the buffer, in which no query
\* ends yet.
Kept(buf, whole, qs) ==
  /\ Open(buf)
  /\ \E n \in 0 .. Len(whole) :
       whole = SubSeq(whole, 1, n) \o buf /\ Ready(SubSeq(whole, 1, n), qs)

\* The buffer is what is left of the text, queries are closed, an end is
\* reported unless nothing is left, and what is discarded is hopeless.
Sound ==
  /\ Kept(buffer, text, sent)
  /\ \A i \in 1 .. Len(sent) : Closed(sent[i])
  /\ ended => reported = ~isBlank(buffer)
  /\ discarded # << >> => tokenize(discarded).end = "syntax"
=============================================================================
