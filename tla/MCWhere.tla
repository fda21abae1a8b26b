------------------------------ MODULE MCWhere ------------------------------
(* A small instance of Where: 3-bit ints, two columns.  Every sequence of up *)
(* to MaxAny tokens is written, right or wrong; longer ones only as long as  *)
(* operands and operators take turns and MaxTokens tokens are enough to      *)
(* complete them; beyond MaxAll tokens only those of Few.                    *)
EXTENDS Where

CONSTANTS MaxAny, MaxAll, MaxTokens, Few

MCInts == {-4, -1, 0, 3}
MCOrder(t) == IF t = "x" THEN 1 ELSE 0
MCMatching(t) == {1}

Operators == Comparisons \cup {"AND", "OR", "BETWEEN", "LIKE", ")"}

EndsOperand ==
  tokens # << >> /\ tokens[Len(tokens)] \in Columns \cup Numbers \cup Literals \cup {"NULL", ")"}

Places(t) == {i \in DOMAIN tokens : tokens[i] = t}
Open == Cardinality(Places("(")) - Cardinality(Places(")"))
Completion == Open + (IF EndsOperand THEN 0 ELSE 1)

MCNext ==
  \E t \in Tokens :
    /\ Write(t)
    /\ \/ Len(tokens) < MaxAny
       \/ /\ EndsOperand <=> t \in Operators
          /\ Len(tokens) < MaxAll \/ {tokens'[i] : i \in DOMAIN tokens'} \subseteq Few
          /\ Open' >= 0
          /\ Len(tokens') + Completion' <= MaxTokens

MCSpec == Init /\ [][MCNext]_tokens
=============================================================================
