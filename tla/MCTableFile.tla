---------------------------- MODULE MCTableFile ----------------------------
(* A small instance of TableFile. *)
EXTENDS TableFile, TLC

CONSTANTS small, whole, large, wraps, huge

\* With pages of 16 bytes and sizes of 6 bits: two small rows fill a page, and
\* so does the whole one; the large one is one byte too long.  With its size,
\* wraps takes 65 bytes, which count as one, and of the 66 bytes of the huge
\* row two are left, a small row.
MCSize == small :> 2 @@ whole :> 8 @@ large :> 9 @@ wraps :> 63 @@ huge :> 66
MCPrefix == [r \in Rows |-> IF r = huge THEN small ELSE r]
=============================================================================
