--------------------------- MODULE MCTableEngine ---------------------------
(* Small instances of TableEngine. *)
EXTENDS TableEngine, TLC

CONSTANTS a, b,      \* INT values
          s, z, xl   \* STRING values, the last too long for a page

\* A unique INT column and a NOT_NULL STRING column with a default.
OneIndex == 1 :> "INDEXED" @@ 2 :> "NOT_NULL"
OneIndexTypes == 1 :> "INT" @@ 2 :> "STRING"
OneIndexDefault == 1 :> NULL @@ 2 :> s

OneIndexInserts ==
  { <<1 :> a @@ 2 :> xl>>, <<2 :> s>>,
    <<1 :> a, 1 :> b>>, <<1 :> b, 1 :> b>>, <<1 :> b, Malformed>> }

OneIndexUpdates ==
  { <<<<1, a>>>>, <<<<1, b>>, <<1, a>>>>, <<<<2, xl>>>>, <<<<1, NULL>>, <<2, s>>>>,
    <<<<1, s>>>>, <<<<0, a>>>> }

\* A unique INT column and a unique STRING column with a default.
TwoIndexes == 1 :> "INDEXED" @@ 2 :> "INDEXED"
TwoIndexesTypes == 1 :> "INT" @@ 2 :> "STRING"
TwoIndexesDefault == 1 :> NULL @@ 2 :> s

TwoIndexesInserts ==
  { <<1 :> a @@ 2 :> xl>>, <<2 :> s>>, <<1 :> a, 1 :> b @@ 2 :> z>>, <<1 :> a, Malformed>> }

TwoIndexesUpdates ==
  { <<<<1, b>>, <<1, a>>>>, <<<<2, xl>>>>, <<<<1, NULL>>, <<2, z>>>>, <<<<1, s>>>>,
    <<<<0, a>>>> }

\* A cut file lacks all nodes, or those of some values.
MCCuts == {Val, {a, s}}

\* A client that sends statements only when every index is open.
UseFirstSpec ==
  Init /\ [][Next /\ (pc = "idle" /\ pc' \in {"ins", "upd", "del"} => open = Indexed)]_vars
=============================================================================
