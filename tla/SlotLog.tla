------------------------------ MODULE SlotLog ------------------------------
(***************************************************************************)
(* What Storage promises of the row file of a table: slots are added with  *)
(* growing RowIds, a slot can be deleted, and nothing else ever happens to *)
(* one, whatever becomes of the process.                                   *)
(***************************************************************************)
EXTENDS Integers

CONSTANTS Rows, Deleted

VARIABLE slots   \* a function from the RowIds handed out to rows or Deleted

\* RowIds, pairs of a page and a slot, in the order of the file.
Before(r, s) == r[1] < s[1] \/ (r[1] = s[1] /\ r[2] < s[2])

Init == slots = << >>

Add(rid, row) ==
  /\ \A r \in DOMAIN slots : Before(r, rid)
  /\ slots' = [r \in DOMAIN slots \cup {rid} |-> IF r = rid THEN row ELSE slots[r]]

Delete(rid) ==
  /\ slots[rid] # Deleted
  /\ slots' = [slots EXCEPT ![rid] = Deleted]

\* The RowId of an added slot is one of the new domain.
Next == \/ \E rid \in DOMAIN slots' : \E row \in Rows : Add(rid, row)
        \/ \E rid \in DOMAIN slots : Delete(rid)

Spec == Init /\ [][Next]_slots
=============================================================================
