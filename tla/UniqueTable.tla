---------------------------- MODULE UniqueTable ----------------------------
(***************************************************************************)
(* What a table with INDEXED columns promises: a set of rows that changes  *)
(* one row at a time and, for as long as the indexes can be trusted, never *)
(* holds two rows with the same value in an INDEXED column.  Trust, once   *)
(* lost, does not come back.                                               *)
(***************************************************************************)
CONSTANTS RowIds,   \* the identifiers a row can get
          Rows,     \* the rows
          Keys      \* the columns that must be unique

VARIABLES rows,     \* a function from the identifiers in use to their rows
          trusted

vars == <<rows, trusted>>

TypeOK == /\ rows \in UNION {[S -> Rows] : S \in SUBSET RowIds}
          /\ trusted \in BOOLEAN

Distinct(a, b) == \A k \in Keys : a[k] # b[k]

Without(r) == [i \in DOMAIN rows \ {r} |-> rows[i]]

Free(f, row) == \A i \in DOMAIN f : Distinct(f[i], row)

With(f, r, row) == [i \in DOMAIN f \cup {r} |-> IF i = r THEN row ELSE f[i]]

Init == rows = << >> /\ trusted = TRUE

Insert(r, row) ==
  /\ r \notin DOMAIN rows
  /\ trusted' => Free(rows, row)
  /\ rows' = With(rows, r, row)

Delete(r) ==
  /\ r \in DOMAIN rows
  /\ rows' = Without(r)

\* The new version of a row gets a new identifier.
Replace(old, new, row) ==
  /\ old \in DOMAIN rows /\ new \notin DOMAIN rows
  /\ trusted' => Free(Without(old), row)
  /\ rows' = With(Without(old), new, row)

Next ==
  /\ trusted' \in BOOLEAN
  /\ trusted' => trusted
  /\ \/ UNCHANGED rows
     \/ \E r \in RowIds :
          \/ Delete(r)
          \/ \E row \in Rows : \/ Insert(r, row)
                               \/ \E new \in RowIds : Replace(r, new, row)

Spec == Init /\ [][Next]_vars

\* While the indexes can be trusted no two rows share an INDEXED value.
Unique ==
  trusted => \A i, j \in DOMAIN rows : i # j => Distinct(rows[i], rows[j])
=============================================================================
