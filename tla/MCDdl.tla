------------------------------- MODULE MCDdl -------------------------------
(* Small instances of Ddl. *)
EXTENDS Ddl, TLC

CONSTANTS d, t, u   \* a database, two tables

MCNames == {<<d, t>>, <<d, u>>}
Symmetric == Permutations({t, u})
=============================================================================
