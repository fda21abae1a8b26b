-------------------------------- MODULE Where --------------------------------
(***************************************************************************)
(* Conditions: how the Parser reads the tokens behind WHERE (parseExpr and *)
(* the functions it descends into) and what the Executor then makes of a   *)
(* row (evalExpr, matchRow).                                               *)
(*                                                                         *)
(* A client writes a condition token by token; at any point it may end.    *)
(* The condition as read is compared with a grammar, the rows it selects   *)
(* with the three-valued logic of SQL.                                     *)
(*                                                                         *)
(* Tokens are strings.  Columns and string literals are few, numbers two:  *)
(* "one", and "edge", the smallest that needs a minus sign to be an int.   *)
(* Signed overflow is undefined, so the result of a comparison may be any  *)
(* of several: evalExpr yields the set of the possible outcomes.           *)
(***************************************************************************)
EXTENDS Integers, Sequences, FiniteSets

CONSTANTS
  Half,         \* ints are -Half .. Half - 1
  MaxDepth,     \* MAX_EXPR_DEPTH
  Columns,      \* tokens that may name columns
  Unknown,      \* those of Columns that the table does not have
  Patterns,     \* string literals that are regular expressions
  BadPatterns,  \* string literals that are not
  IntValues, StrValues,  \* values found in columns; strings by their order
  Order(_),     \* the string value of a literal
  Matching(_)   \* the string values that a regular expression matches

WhereAssumption ==
  /\ Half \in Nat \ {0, 1} /\ MaxDepth \in Nat
  /\ IntValues \subseteq -Half .. Half - 1 /\ StrValues \subseteq Nat

ASSUME WhereAssumption

VARIABLE tokens    \* the condition as far as it is written

Comparisons == {"==", "!=", "<", ">", "<=", ">="}
Numbers == {"one", "edge"}
Literals == Patterns \cup BadPatterns
Tokens == Columns \cup Numbers \cup Literals \cup Comparisons
            \cup {"NULL", "-", "(", ")", "AND", "OR", "BETWEEN", "LIKE"}

-----------------------------------------------------------------------------
(* Reading.  A reader takes a position and returns the tree of what it     *)
(* read and the position behind it, or Error.                              *)

Error == [tree |-> << >>, pos |-> 0]
Read(tree, p) == [tree |-> tree, pos |-> p]

\* The tree, if its last part could be read.
Node(tree, last) == IF last = Error THEN Error ELSE Read(tree, last.pos)

\* The token at p; parse() expects a semicolon behind the condition.  There
\* is nothing to continue with at the position of Error.
At(p) == IF p \in DOMAIN tokens THEN tokens[p] ELSE ";"

\* A number with its sign, which must be an int.
parseIntFromToken(t, negative) ==
  LET magnitude == IF t = "one" THEN 1 ELSE Half
      n == IF negative THEN -magnitude ELSE magnitude
  IN  IF n \in -Half .. Half - 1 THEN <<"int", n>> ELSE << >>

RECURSIVE parseExpr(_, _), moreOr(_, _), moreAnd(_, _), parseAnd(_, _)

closed(inner) == IF At(inner.pos) = ")" THEN Read(inner.tree, inner.pos + 1) ELSE Error

number(n, p) == IF n = << >> THEN Error ELSE Read(n, p)

parsePrimary(p, depth) ==
  CASE At(p) = "(" -> closed(parseExpr(p + 1, depth))
    [] At(p) \in Numbers -> number(parseIntFromToken(At(p), FALSE), p + 1)
    [] At(p) = "-" /\ At(p + 1) \in Numbers -> number(parseIntFromToken(At(p + 1), TRUE), p + 2)
    [] At(p) \in Literals -> Read(<<"str", At(p)>>, p + 1)
    [] At(p) = "NULL" -> Read(<<"null">>, p + 1)
    [] At(p) \in Columns -> Read(<<"column", At(p)>>, p + 1)
    [] OTHER -> Error

interval(left, lo, hi) == Node(<<"BETWEEN", left.tree, lo.tree, hi.tree>>, hi)

\* Mutant: the upper end of BETWEEN is read as a whole condition.
betweenGreedy(left, lo, depth) ==
  IF At(lo.pos) = "AND" THEN interval(left, lo, parseAnd(lo.pos + 1, depth)) ELSE Error

between(left, lo, depth) ==
  IF At(lo.pos) = "AND" THEN interval(left, lo, parsePrimary(lo.pos + 1, depth)) ELSE Error

binary(op, left, right) == Node(<<op, left.tree, right.tree>>, right)

compared(left, depth) ==
  CASE At(left.pos) = "BETWEEN" -> between(left, parsePrimary(left.pos + 1, depth), depth)
    [] At(left.pos) = "LIKE" ->
         IF At(left.pos + 1) \in Literals
           THEN Read(<<"LIKE", left.tree, At(left.pos + 1)>>, left.pos + 2) ELSE Error
    [] At(left.pos) \in Comparisons ->
         binary(At(left.pos), left, parsePrimary(left.pos + 1, depth))
    [] OTHER -> left

parseComparison(p, depth) == compared(parsePrimary(p, depth), depth)

moreAnd(left, depth) ==
  IF At(left.pos) # "AND" THEN left
  ELSE moreAnd(binary("AND", left, parseComparison(left.pos + 1, depth)), depth)

parseAnd(p, depth) == moreAnd(parseComparison(p, depth), depth)

moreOr(left, depth) ==
  IF At(left.pos) # "OR" THEN left
  ELSE moreOr(binary("OR", left, parseAnd(left.pos + 1, depth)), depth)

parseOr(p, depth) == moreOr(parseAnd(p, depth), depth)

\* Each pair of parentheses enters here once more.
parseExpr(p, depth) ==
  IF depth + 1 > MaxDepth THEN Error ELSE parseOr(p, depth + 1)

\* The tree of the whole condition, or << >>: parse() fails unless the
\* semicolon follows it.
parse ==
  LET r == parseExpr(1, 0) IN IF r.pos = Len(tokens) + 1 THEN r.tree ELSE << >>

-----------------------------------------------------------------------------
(* Evaluation.  Values are <<"null">>, <<"int", n>> and <<"str", n>>;      *)
(* <<"throw">> is an exception.                                            *)

Truth(b) == <<"int", IF b THEN 1 ELSE 0>>
IsTrue(v) == v[1] = "int" /\ v[2] # 0
Null == <<"null">>
Throw == <<"throw">>

\* The results of l - r: beyond the range it is undefined, and builds wrap
\* or compare l and r themselves.
Differences(l, r) ==
  LET d == l - r
      wrapped == ((d + Half) % (2 * Half)) - Half
  IN  {d, wrapped}

Holds(op, d) ==
  CASE op = "==" -> d = 0
    [] op = "!=" -> d # 0
    [] op = "<" -> d < 0
    [] op = ">" -> d > 0
    [] op = "<=" -> d <= 0
    [] op = ">=" -> d >= 0

Compare(op, l, r) ==
  IF Throw \in {l, r} THEN {Throw}
  ELSE IF Null \in {l, r} THEN {Truth(FALSE)}
  ELSE IF l[1] # r[1] THEN {Throw}
  ELSE IF l[1] = "int" THEN {Truth(Holds(op, d)) : d \in Differences(l[2], r[2])}
  ELSE {Truth(Holds(op, l[2] - r[2]))}

\* Mutant: the upper end belongs to the interval.
BetweenClosed(v, l, h) ==
  IF Throw \in {v, l, h} THEN Throw
  ELSE IF Null \in {v, l, h} THEN Truth(FALSE)
  ELSE IF v[1] = l[1] /\ v[1] = h[1] THEN Truth(v[2] >= l[2] /\ v[2] <= h[2])
  ELSE Throw

Between(v, l, h) ==
  IF Throw \in {v, l, h} THEN Throw
  ELSE IF Null \in {v, l, h} THEN Truth(FALSE)
  ELSE IF v[1] = l[1] /\ v[1] = h[1] THEN Truth(v[2] >= l[2] /\ v[2] < h[2])
  ELSE Throw

Like(v, pattern) ==
  IF v = Throw THEN Throw
  ELSE IF v[1] # "str" THEN Truth(FALSE)
  ELSE IF pattern \in BadPatterns THEN Throw
  ELSE Truth(v[2] \in Matching(pattern))

\* The right operand counts only if the left one leaves the result open.
And(l, r) ==
  IF l = Throw THEN Throw
  ELSE IF ~IsTrue(l) THEN Truth(FALSE)
  ELSE IF r = Throw THEN Throw ELSE Truth(IsTrue(r))

Or(l, r) ==
  IF l = Throw THEN Throw
  ELSE IF IsTrue(l) THEN Truth(TRUE)
  ELSE IF r = Throw THEN Throw ELSE Truth(IsTrue(r))

\* The possible outcomes of e on the row.
RECURSIVE evalExpr(_, _)
evalExpr(e, row) ==
  LET Part(i) == evalExpr(e[i], row)
  IN  CASE e[1] \in {"int", "null"} -> {e}
        [] e[1] = "str" -> {<<"str", Order(e[2])>>}
        [] e[1] = "column" -> {IF e[2] \in Unknown THEN Throw ELSE row[e[2]]}
        [] e[1] \in Comparisons -> UNION {Compare(e[1], l, r) : l \in Part(2), r \in Part(3)}
        [] e[1] = "BETWEEN" -> {Between(v, l, h) : v \in Part(2), l \in Part(3), h \in Part(4)}
        [] e[1] = "LIKE" -> {Like(v, e[3]) : v \in Part(2)}
        [] e[1] = "AND" -> {And(l, r) : l \in Part(2), r \in Part(3)}
        [] e[1] = "OR" -> {Or(l, r) : l \in Part(2), r \in Part(3)}

\* Is the row selected?  An exception ends the statement.
matchRow(e, row) ==
  {IF v = Throw THEN "throws" ELSE IF IsTrue(v) THEN "yes" ELSE "no" : v \in evalExpr(e, row)}

-----------------------------------------------------------------------------
(* Writing a condition *)

Init == tokens = << >>

Write(t) == tokens' = Append(tokens, t)

Next == \E t \in Tokens : Write(t)

Spec == Init /\ [][Next]_tokens

-----------------------------------------------------------------------------
(* The grammar:                                                            *)
(*   or         = and | or "OR" and                                        *)
(*   and        = comparison | and "AND" comparison                        *)
(*   comparison = primary | primary op primary | primary "LIKE" string     *)
(*              | primary "BETWEEN" primary "AND" primary                  *)
(*   primary    = column | string | "NULL" | ["-"] number | "(" or ")"     *)
(* Each operator is the set of the trees that s has as that symbol, with   *)
(* at most `deep' pairs of parentheses in each other.                      *)

Cut(s, i, j) == SubSeq(s, i, j)
Nodes(kind, L, R) == {<<kind, l, r>> : l \in L, r \in R}

RECURSIVE OrTrees(_, _), AndTrees(_, _), ComparisonTrees(_, _), PrimaryTrees(_, _)

PrimaryTrees(s, deep) ==
  LET n == Len(s) IN
  CASE n = 1 /\ s[1] \in Columns -> {<<"column", s[1]>>}
    [] n = 1 /\ s[1] \in Literals -> {<<"str", s[1]>>}
    [] n = 1 /\ s[1] = "NULL" -> {<<"null">>}
    [] n = 1 /\ s[1] = "one" -> {<<"int", 1>>}
    [] n = 2 /\ s[1] = "-" /\ s[2] \in Numbers -> {<<"int", IF s[2] = "one" THEN -1 ELSE -Half>>}
    [] n >= 3 /\ s[1] = "(" /\ s[n] = ")" /\ deep > 0 -> OrTrees(Cut(s, 2, n - 1), deep - 1)
    [] OTHER -> {}

ComparisonTrees(s, deep) ==
  LET n == Len(s)
      Part(i, j) == PrimaryTrees(Cut(s, i, j), deep)
      Ops == {i \in 2 .. n - 1 : s[i] \in Comparisons}
      Betweens == {i \in 2 .. n - 1 : s[i] = "BETWEEN"}
      Ands == {i \in 2 .. n - 1 : s[i] = "AND"}
  IN  Part(1, n)
      \cup UNION {Nodes(s[i], Part(1, i - 1), Part(i + 1, n)) : i \in Ops}
      \cup (IF n >= 3 /\ s[n - 1] = "LIKE" /\ s[n] \in Literals
              THEN Nodes("LIKE", Part(1, n - 2), {s[n]}) ELSE {})
      \cup UNION {{<<"BETWEEN", v, l, h>> :
                     v \in Part(1, i - 1), l \in Part(i + 1, j - 1), h \in Part(j + 1, n)} :
                  i \in Betweens, j \in Ands}

AndTrees(s, deep) ==
  ComparisonTrees(s, deep) \cup
  UNION {Nodes("AND", AndTrees(Cut(s, 1, i - 1), deep), ComparisonTrees(Cut(s, i + 1, Len(s)), deep)) :
           i \in {j \in 2 .. Len(s) - 1 : s[j] = "AND"}}

OrTrees(s, deep) ==
  AndTrees(s, deep) \cup
  UNION {Nodes("OR", OrTrees(Cut(s, 1, i - 1), deep), AndTrees(Cut(s, i + 1, Len(s)), deep)) :
           i \in {j \in 2 .. Len(s) - 1 : s[j] = "OR"}}

\* What the Parser reads is what the grammar says, for every condition and
\* for everything that is none: the grammar has at most one tree for it, and
\* the Parser finds that tree, and an error where there is none or where
\* parentheses are nested too deep (parser.cpp:301-455).
ParsesGrammar ==
  LET trees == OrTrees(tokens, MaxDepth - 1)
  IN  IF parse = << >> THEN trees = {} ELSE trees = {parse}

-----------------------------------------------------------------------------
(* Three-valued logic: a condition is true, false or unknown ("T", "F",    *)
(* "U"), and a row is selected if it is true.  A comparison of different   *)
(* types, or with an unknown column, is unknown.                           *)

Both(p, q) == IF "F" \in {p, q} THEN "F" ELSE IF "U" \in {p, q} THEN "U" ELSE "T"
Either(p, q) == IF "T" \in {p, q} THEN "T" ELSE IF "U" \in {p, q} THEN "U" ELSE "F"
Known(b) == IF b THEN "T" ELSE "F"

Plain(e) == e[1] \in {"int", "null", "str", "column"}
Val(e, row) == CHOOSE v \in evalExpr(e, row) : TRUE

Sql2(op, l, r) ==
  IF {l, r} \cap {Null, Throw} # {} \/ l[1] # r[1] THEN "U" ELSE Known(Holds(op, l[2] - r[2]))

RECURSIVE Sql(_, _), Simple(_), Mixed(_, _), Far(_, _)
Sql(e, row) ==
  CASE Plain(e) -> IF Val(e, row) = Null THEN "U" ELSE Known(IsTrue(Val(e, row)))
    [] e[1] \in Comparisons -> Sql2(e[1], Val(e[2], row), Val(e[3], row))
    [] e[1] = "BETWEEN" -> Both(Sql2(">=", Val(e[2], row), Val(e[3], row)),
                                Sql2("<", Val(e[2], row), Val(e[4], row)))
    [] e[1] = "LIKE" ->
         LET v == Val(e[2], row)
         IN  IF v[1] # "str" \/ e[3] \in BadPatterns THEN "U" ELSE Known(v[2] \in Matching(e[3]))
    [] e[1] = "AND" -> Both(Sql(e[2], row), Sql(e[3], row))
    [] e[1] = "OR" -> Either(Sql(e[2], row), Sql(e[3], row))

\* The operands of comparisons are columns and literals.
Simple(e) ==
  CASE Plain(e) -> TRUE
    [] e[1] \in {"AND", "OR"} -> Simple(e[2]) /\ Simple(e[3])
    [] OTHER -> \A i \in 2 .. (IF e[1] = "LIKE" THEN 2 ELSE Len(e)) : Plain(e[i])

\* Something in e is unknown or a pattern that is none, or types are mixed.
Mixed(e, row) ==
  CASE Plain(e) -> Val(e, row) = Throw
    [] e[1] \in {"AND", "OR"} -> Mixed(e[2], row) \/ Mixed(e[3], row)
    [] e[1] = "LIKE" -> Mixed(e[2], row) \/ e[3] \in BadPatterns
    [] OTHER -> \/ \E i \in 2 .. Len(e) : Mixed(e[i], row)
                \/ Cardinality({Val(e[i], row)[1] : i \in 2 .. Len(e)} \ {"null"}) > 1

\* An order comparison of ints whose difference is no int.
Far(e, row) ==
  CASE e[1] \in {"AND", "OR"} -> Far(e[2], row) \/ Far(e[3], row)
    [] e[1] \in Comparisons \ {"==", "!="} ->
         LET l == Val(e[2], row)
             r == Val(e[3], row)
         IN  l[1] = "int" /\ r[1] = "int" /\ l[2] - r[2] \notin -Half .. Half - 1
    [] OTHER -> FALSE

Rows == [Columns \ Unknown -> {Null} \cup {<<"int", n>> : n \in IntValues}
                      \cup {<<"str", n>> : n \in StrValues}]

\* A condition selects the rows for which it is true in three-valued logic,
\* though evalExpr knows only true and false and stops at the first operand
\* of AND or OR that decides; BETWEEN is its two comparisons.  It throws
\* only where types are mixed, a column is unknown or a pattern is none.
\* Left out are comparisons of comparisons, and the order of ints too far
\* apart for their difference to be an int (executor.cpp:404-504).
SelectsLikeSql ==
  parse # << >> /\ Simple(parse) =>
    \A row \in Rows :
      LET answers == matchRow(parse, row)
      IN  /\ "throws" \in answers => Mixed(parse, row)
          /\ ~Far(parse, row) =>
               answers \subseteq {"throws", IF Sql(parse, row) = "T" THEN "yes" ELSE "no"}
=============================================================================
