------------------------------ MODULE MCBTree ------------------------------
(* Small instances of BTree. *)
EXTENDS BTree

CONSTANTS KeyCount, SmallKeys

\* Each key comes with a rid of its own.
MCEntries == {<<k, 100 + k>> : k \in 1 .. KeyCount}

\* Orders of insertion that, with MaxKeys = 4, grow trees of three levels
\* and reach every case of redistributeOrSplitInternal.
Orders == {
  [i \in 1 .. 33 |-> 34 - i],
  <<1, 2, 3, 4, 33, 32, 31, 30, 29, 28, 27, 26, 13, 12, 11, 10, 9, 8, 7, 25, 24, 23, 22, 21,
    20, 19, 18, 17, 16, 15, 14, 6, 5>>,
  <<20, 19, 18, 17, 16, 33, 32, 31, 15, 14, 13, 12, 11, 30, 29, 28, 27, 26, 10, 25, 24, 23,
    22, 21, 9, 8, 7, 6, 5, 4, 3, 2, 1>>,
  <<30, 29, 28, 27, 26, 25, 4, 3, 24, 23, 22, 21, 20, 19, 18, 17, 16, 15, 14, 13, 12, 11, 10,
    9, 2, 1, 8, 7, 6, 5, 32, 31>>,
  <<18, 17, 16, 15, 33, 32, 31, 14, 13, 12, 11, 10, 9, 8, 30, 29, 28, 27, 7, 6, 5, 26, 25,
    24, 4, 3, 2, 1, 23, 22, 21, 20, 19>>}

\* An order that ends an insertion with an exception and goes on, and one
\* that leaves orphans and then overflows one.
HarmfulOrders == {
  <<33, 31>> \o [i \in 1 .. 28 |-> 29 - i] \o <<29, 30, 32>>,
  <<53, 52, 51, 49, 45, 34, 31, 30, 28, 27, 26, 25, 24, 23, 22, 20, 19, 18, 39, 17, 21, 29,
    42, 16, 15, 14, 33, 13, 12, 11, 37, 10, 38, 9, 32, 8, 7, 6, 5, 48, 4, 40, 50, 44, 41, 3,
    46, 47, 2, 43, 1, 36, 35>>}

\* A client inserts and erases the keys up to SmallKeys in any order; or it
\* inserts in one of these orders, and later erases the least or the greatest
\* key (the greatest, after a harmful order) until none is left.
VARIABLE client
Free == << >>
Shrinking == <<0>>
Harmed == <<0, 0>>

AnyOrder ==
  /\ client = Free
  /\ \E k \in 1 .. SmallKeys : Insert(k, 100 + k) \/ Erase(k)
  /\ UNCHANGED client

Grow ==
  LET n == Cardinality(Stored)
  IN  /\ client \in Orders \cup HarmfulOrders /\ n < Len(client)
      /\ Insert(client[n + 1], 100 + client[n + 1])
      /\ UNCHANGED client

Shrink ==
  /\ client \in Orders \cup {Shrinking}
  /\ \E k \in {Least(Stored), Greatest(Stored)} : Erase(k)
  /\ client' = Shrinking

ShrinkHarmed ==
  /\ \/ client \in HarmfulOrders /\ Cardinality(Stored) = Len(client)
     \/ client = Harmed
  /\ Erase(Greatest(Stored))
  /\ client' = Harmed

\* The tree up to the first call that misplaces a subtree.
MCNext ==
  \/ sound /\ (AnyOrder \/ Grow \/ (Stored # {} /\ (Shrink \/ ShrinkHarmed)))
  \/ Rebalance /\ UNCHANGED client

MCInit == Init /\ client \in {Free} \cup Orders \cup HarmfulOrders

MCSpec == MCInit /\ [][MCNext]_<<vars, client>> /\ WF_vars(Rebalance)
=============================================================================
