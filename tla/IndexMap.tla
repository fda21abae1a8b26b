------------------------------ MODULE IndexMap ------------------------------
(***************************************************************************)
(* What an index promises: a map from keys to RowIds in which a key occurs *)
(* at most once, changed one key at a time.  `sound' says whether the      *)
(* promise still holds; it never comes back.                               *)
(***************************************************************************)
CONSTANTS Keys, RowIds

VARIABLES map,    \* the RowId a lookup returns, for the keys it finds
          sound

vars == <<map, sound>>

Init == map = << >> /\ sound = TRUE

Insert(k, r) ==
  /\ k \notin DOMAIN map
  /\ map' = [x \in DOMAIN map \cup {k} |-> IF x = k THEN r ELSE map[x]]

Erase(k) ==
  /\ k \in DOMAIN map
  /\ map' = [x \in DOMAIN map \ {k} |-> map[x]]

Change == \/ \E k \in DOMAIN map \ DOMAIN map' : Erase(k)
          \/ \E k \in Keys \cap (DOMAIN map' \ DOMAIN map) :
               map'[k] \in RowIds /\ Insert(k, map'[k])

Next == /\ sound' \in BOOLEAN
        /\ sound' => sound /\ (Change \/ UNCHANGED map)

Spec == Init /\ [][Next]_vars
=============================================================================
