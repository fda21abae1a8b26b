----------------------------- MODULE BTreeOrder -----------------------------
(***************************************************************************)
(* Lookups find what the tree holds: the keys of the leaves are in order,  *)
(* the separators of the internal nodes lie between them, and the chain of *)
(* leaves follows them, until a split of a last child puts a subtree in    *)
(* the wrong place.                                                        *)
(*                                                                         *)
(* The steps of BTree are changes of a search tree, the one View makes of  *)
(* `nodes' and `root'.  A merge is a cut undone; a key passed to a         *)
(* neighbour is a merge and a cut; two nodes made three are a merge and    *)
(* two cuts; a root split is a root put over the root (Topped) and a cut;  *)
(* insert and erase give a leaf other keys of its span (Refilled).  So the *)
(* tree of each state is Ordered, a lookup comes to the leaf that holds    *)
(* its key, and the tree does what a map does.                             *)
(***************************************************************************)
EXTENDS BTreeProofs, SearchTrees

-----------------------------------------------------------------------------
(* The tree a store holds *)

\* A store f with the root r, as a tree.
View(f, r) ==
  [ids |-> DOMAIN f, root |-> r, leaves |-> {n \in DOMAIN f : f[n].leaf},
   keys |-> [n \in DOMAIN f |-> f[n].keys], vals |-> [n \in DOMAIN f |-> f[n].vals],
   kids |-> [n \in DOMAIN f |-> f[n].kids], next |-> [n \in DOMAIN f |-> f[n].next]]

\* T shows the store f with the root r.
Shows(T, f, r) ==
  /\ T.ids = DOMAIN f /\ T.root = r
  /\ T.leaves \subseteq T.ids /\ \A n \in DOMAIN f : n \in T.leaves <=> f[n].leaf
  /\ \A n \in DOMAIN f : /\ T.keys[n] = f[n].keys /\ T.vals[n] = f[n].vals
                         /\ T.kids[n] = f[n].kids /\ T.next[n] = f[n].next

\* Every store is shown by its view.
LEMMA ViewShows ==
  ASSUME NEW f, NEW r
  PROVE  Shows(View(f, r), f, r)
BY DEF View, Shows

\* The keys of the tree are integers.
LEMMA KeysAreInts ==
  ASSUME NEW s \in Seq(Keys)
  PROVE  s \in Seq(Int)
<1>1. Keys \subseteq Int
  BY BTreeAssumption DEF Keys
<1>2. \A j \in 1 .. Len(s) : s[j] \in Int
  BY <1>1, ElementOfSeq
<1> QED BY <1>2, SeqInto

\* A tree of nodes is a plain tree.
LEMMA ViewPlain ==
  ASSUME NEW T, NEW f, NEW r, Shows(T, f, r), Tree(f, r)
  PROVE  Plain(T)
<1>1. /\ r \in DOMAIN f /\ DOMAIN f \subseteq NodeId
      /\ \A n \in DOMAIN f : WellFormed(f[n])
      /\ \A n \in DOMAIN f : Kids(f, n) \subseteq DOMAIN f \ {r}
  BY TreeFacts
<1>2. NullPage \notin DOMAIN f
  BY <1>1, BTreeAssumption DEF NodeId, NullPage
<1>3. \A n \in DOMAIN f : /\ f[n].keys \in Seq(Keys) /\ f[n].kids \in Seq(NodeId)
                          /\ f[n].leaf => Len(f[n].vals) = Len(f[n].keys) /\ f[n].kids = << >>
                          /\ ~f[n].leaf => Len(f[n].kids) = Len(f[n].keys) + 1
  BY <1>1 DEF WellFormed, Node
<1>4. ASSUME NEW n \in DOMAIN f
      PROVE  f[n].keys \in Seq(Int) /\ f[n].kids \in Seq(DOMAIN f)
  <2>1. f[n].keys \in Seq(Int)
    BY <1>3, KeysAreInts
  <2>2. \A j \in 1 .. Len(f[n].kids) : f[n].kids[j] \in Kids(f, n)
    BY <1>3, Positions DEF Kids
  <2>3. \A j \in 1 .. Len(f[n].kids) : f[n].kids[j] \in DOMAIN f
    BY <2>2, <1>1
  <2>4. f[n].kids \in Seq(DOMAIN f)
    BY <2>3, <1>3, SeqInto
  <2> QED BY <2>1, <2>4
<1>5. \A n \in DOMAIN f : f[n].kids = << >> => Len(f[n].kids) = 0
  OBVIOUS
<1>6. /\ T.ids = DOMAIN f /\ T.root = r /\ T.leaves \subseteq T.ids
      /\ \A n \in DOMAIN f : n \in T.leaves <=> f[n].leaf
      /\ \A n \in DOMAIN f : /\ T.keys[n] = f[n].keys /\ T.vals[n] = f[n].vals
                             /\ T.kids[n] = f[n].kids
  BY DEF Shows
<1>7. \A n \in T.ids : T.keys[n] \in Seq(Int) /\ T.kids[n] \in Seq(T.ids)
  BY <1>4, <1>6
<1>8. \A n \in T.leaves : Len(T.kids[n]) = 0 /\ Len(T.vals[n]) = Len(T.keys[n])
  <2> TAKE n \in T.leaves
  <2>1. n \in DOMAIN f /\ f[n].leaf
    BY <1>6
  <2>2. Len(f[n].vals) = Len(f[n].keys) /\ Len(f[n].kids) = 0
    BY <2>1, <1>3, <1>5
  <2> QED BY <2>1, <2>2, <1>6
<1>9. \A n \in T.ids \ T.leaves : Len(T.kids[n]) = Len(T.keys[n]) + 1
  <2> TAKE n \in T.ids \ T.leaves
  <2>1. n \in DOMAIN f /\ ~f[n].leaf
    BY <1>6
  <2> QED BY <2>1, <1>3, <1>6
<1> QED BY <1>1, <1>2, <1>6, <1>7, <1>8, <1>9 DEF Plain

\* In a tree of nodes a child is listed once.
LEMMA ViewOnce ==
  ASSUME NEW T, NEW f, NEW r, Shows(T, f, r), Tree(f, r), NEW p \in DOMAIN f,
         NEW i \in 1 .. Len(f[p].kids), NEW x, x = f[p].kids[i]
  PROVE  Once(T, p, i, x)
<1>1. /\ r \in DOMAIN f /\ DOMAIN f \subseteq NodeId
      /\ \A n \in DOMAIN f : WellFormed(f[n])
      /\ \A n \in DOMAIN f : Kids(f, n) \subseteq DOMAIN f \ {r}
  BY TreeFacts
<1>2. \A n, q \in DOMAIN f : n # q => Kids(f, n) \cap Kids(f, q) = {}
  BY DEF Tree, Linked
<1>3. \A n \in DOMAIN f : /\ f[n].kids \in Seq(NodeId)
                          /\ f[n].leaf => f[n].kids = << >>
                          /\ ~f[n].leaf => IsInjective(f[n].kids)
  BY <1>1 DEF WellFormed, Node
<1>4. \A n \in DOMAIN f : \A j \in 1 .. Len(f[n].kids) : f[n].kids[j] \in Kids(f, n)
  BY <1>3, Positions DEF Kids
<1>5. x \in Kids(f, p) /\ x # r
  BY <1>1, <1>4
<1>6. ASSUME NEW n \in DOMAIN f, NEW j \in 1 .. Len(f[n].kids), f[n].kids[j] = x
      PROVE  n = p /\ j = i
  <2>1. n = p
    BY <1>2, <1>4, <1>5, <1>6
  <2>2. ~f[p].leaf
    BY <1>3
  <2>3. \A a, b \in 1 .. Len(f[p].kids) : f[p].kids[a] = f[p].kids[b] => a = b
    BY <2>2, <1>3, Positions
  <2> QED BY <2>1, <2>3, <1>6
<1> QED BY <1>5, <1>6 DEF Once, Shows

-----------------------------------------------------------------------------
(* What the rebalancing functions do, told of the trees shown *)

\* What the record a leaf is replaced with keeps of it,
LEMMA ValsSet ==
  ASSUME NEW N, WellFormed(N), NEW ks, NEW vs
  PROVE  /\ WithVals(N, ks, vs).keys = ks /\ WithVals(N, ks, vs).vals = vs
         /\ WithVals(N, ks, vs).kids = N.kids /\ WithVals(N, ks, vs).next = N.next
BY DEF WellFormed, Node, WithVals

\* the same where the link to the next leaf changes,
LEMMA NextSet ==
  ASSUME NEW N, WellFormed(N), NEW ks, NEW vs, NEW x
  PROVE  /\ WithNext(N, ks, vs, x).keys = ks /\ WithNext(N, ks, vs, x).vals = vs
         /\ WithNext(N, ks, vs, x).kids = N.kids /\ WithNext(N, ks, vs, x).next = x
BY DEF WellFormed, Node, WithNext

\* and what an internal node keeps.
LEMMA KidsSet ==
  ASSUME NEW N, WellFormed(N), NEW ks, NEW cs
  PROVE  /\ WithKids(N, ks, cs).keys = ks /\ WithKids(N, ks, cs).vals = N.vals
         /\ WithKids(N, ks, cs).kids = cs /\ WithKids(N, ks, cs).next = N.next
BY DEF WellFormed, Node, WithKids

\* The two nodes a merge is about, told of the tree they are in.
LEMMA NeighboursShown ==
  ASSUME Tree(nodes, root), NEW p, NEW i, NEW l, NEW r, Adjacent(p, i, l, r),
         NEW V, Shows(V, nodes, root)
  PROVE  /\ Siblings(V, p, i, l, r) /\ Plain(V) /\ Once(V, p, i, l) /\ Once(V, p, i + 1, r)
<1>1. /\ p \in DOMAIN nodes /\ l \in DOMAIN nodes \ {root} /\ r \in DOMAIN nodes \ {root}
      /\ l # r /\ p # l /\ p # r /\ ~nodes[p].leaf
      /\ i \in 1 .. Len(nodes[p].keys) /\ Len(nodes[p].kids) = Len(nodes[p].keys) + 1
      /\ nodes[l].leaf = nodes[r].leaf /\ WellFormed(nodes[p])
  BY Neighbours
<1>2. l = nodes[p].kids[i] /\ r = nodes[p].kids[i + 1]
  BY DEF Adjacent
<1>3. nodes[p].keys \in Seq(Keys)
  BY <1>1, NodeFields DEF WellFormed
<1>4. i \in 1 .. Len(nodes[p].kids) /\ i + 1 \in 1 .. Len(nodes[p].kids)
  BY <1>1, <1>3, LenProperties
<1>5. Plain(V)
  BY ViewPlain
<1>6. Once(V, p, i, l)
  BY <1>1, <1>2, <1>4, ViewOnce
<1>7. Once(V, p, i + 1, r)
  <2> DEFINE c == i + 1
  <2>1. c \in 1 .. Len(nodes[p].kids) /\ r = nodes[p].kids[c]
    BY <1>2, <1>4
  <2> HIDE DEF c
  <2>2. Once(V, p, c, r)
    BY <1>1, <2>1, ViewOnce
  <2> QED BY <2>2 DEF c
<1>8. Siblings(V, p, i, l, r)
  <2>1. /\ V.ids = DOMAIN nodes /\ V.leaves \subseteq V.ids
        /\ \A n \in DOMAIN nodes : n \in V.leaves <=> nodes[n].leaf
        /\ V.keys[p] = nodes[p].keys /\ V.kids[p] = nodes[p].kids
    BY <1>1 DEF Shows
  <2>2. p \in V.ids \ V.leaves /\ (l \in V.leaves <=> r \in V.leaves)
    BY <2>1, <1>1
  <2> QED BY <2>1, <2>2, <1>1, <1>2 DEF Siblings
<1> QED BY <1>5, <1>6, <1>7, <1>8

\* What Merged does, told of the trees shown.
LEMMA MergedShown ==
  ASSUME Tree(nodes, root), NEW p, NEW i, NEW l, NEW r, Adjacent(p, i, l, r),
         NEW V, Shows(V, nodes, root), NEW W, NEW g, g = Merged(p, i), Shows(W, g, root)
  PROVE  Merges(W, V, p, i, l, r)
<1> DEFINE L == nodes[l]
           R == nodes[r]
           f == Reparent(nodes, Range(R.kids), l)
           one == IF L.leaf
                  THEN [L EXCEPT !.keys = @ \o R.keys, !.vals = @ \o R.vals, !.next = R.next]
                  ELSE [L EXCEPT !.keys = @ \o <<nodes[p].keys[i]>> \o R.keys,
                                 !.kids = @ \o R.kids]
           P == WithKids(nodes[p], RemoveAt(nodes[p].keys, i), RemoveAt(nodes[p].kids, i + 1))
<1>1. /\ p \in DOMAIN nodes /\ l \in DOMAIN nodes \ {root} /\ r \in DOMAIN nodes \ {root}
      /\ l # r /\ p # l /\ p # r /\ ~nodes[p].leaf /\ L.leaf = R.leaf
      /\ WellFormed(nodes[p]) /\ WellFormed(L) /\ WellFormed(R)
  BY Neighbours
<1>2. \A n \in DOMAIN nodes : WellFormed(nodes[n])
  BY DEF Tree
<1>3. P.keys = RemoveAt(nodes[p].keys, i) /\ P.kids = RemoveAt(nodes[p].kids, i + 1)
  BY <1>1, KidsSet
<1>4. ASSUME L.leaf
      PROVE  /\ one.keys = L.keys \o R.keys /\ one.vals = L.vals \o R.vals
             /\ one.kids = L.kids \o R.kids /\ one.next = R.next
  <2> DEFINE ks == L.keys \o R.keys
             vs == L.vals \o R.vals
             x == R.next
  <2>1. one = WithNext(L, ks, vs, x)
    BY <1>4 DEF WithNext
  <2>2. L.kids = << >> /\ R.kids = << >>
    BY <1>1, <1>4 DEF WellFormed
  <2>3. L.kids \o R.kids = L.kids
    BY <2>2
  <2> HIDE DEF ks, vs, x, L, one
  <2>4. one.keys = ks /\ one.vals = vs /\ one.kids = L.kids /\ one.next = x
    BY <2>1, <1>1, NextSet
  <2> QED BY <2>3, <2>4 DEF ks, vs, x
<1>5. ASSUME ~L.leaf
      PROVE  /\ one.keys = L.keys \o <<nodes[p].keys[i]>> \o R.keys
             /\ one.kids = L.kids \o R.kids
  <2> DEFINE ks == L.keys \o <<nodes[p].keys[i]>> \o R.keys
             cs == L.kids \o R.kids
  <2>1. one = WithKids(L, ks, cs)
    BY <1>5 DEF WithKids
  <2> HIDE DEF ks, cs, L, one
  <2>2. one.keys = ks /\ one.kids = cs
    BY <2>1, <1>1, KidsSet
  <2> QED BY <2>2 DEF ks, cs
<1>6. g = Without([f EXCEPT ![p] = P, ![l] = one], r)
  BY DEF Merged, WithKids, Adjacent
<1>7. /\ DOMAIN f = DOMAIN nodes
      /\ \A n \in DOMAIN nodes : /\ f[n].leaf = nodes[n].leaf
                                 /\ f[n].keys = nodes[n].keys /\ f[n].vals = nodes[n].vals
                                 /\ f[n].kids = nodes[n].kids /\ f[n].next = nodes[n].next
  <2>1. l \in NodeId
    BY <1>1 DEF Tree
  <2> QED BY <2>1, <1>2, ReparentFacts
<1> HIDE DEF f, one, P
<1>8. /\ DOMAIN g = DOMAIN nodes \ {r} /\ g[p] = P /\ g[l] = one
      /\ \A n \in DOMAIN g \ {p, l} : g[n] = f[n]
  BY <1>1, <1>6, <1>7 DEF Without
<1>9. \A n \in DOMAIN g : g[n].leaf = nodes[n].leaf
  <2>1. MergedInto(g, p, l, r)
    BY MergedKeeps
  <2> QED BY <2>1 DEF MergedInto
<1>10. /\ V.ids = DOMAIN nodes /\ V.root = root /\ V.leaves \subseteq V.ids
       /\ \A n \in DOMAIN nodes : n \in V.leaves <=> nodes[n].leaf
       /\ \A n \in DOMAIN nodes : /\ V.keys[n] = nodes[n].keys /\ V.vals[n] = nodes[n].vals
                                  /\ V.kids[n] = nodes[n].kids /\ V.next[n] = nodes[n].next
  BY DEF Shows
<1>11. /\ W.ids = DOMAIN g /\ W.root = root /\ W.leaves \subseteq W.ids
       /\ \A n \in DOMAIN g : n \in W.leaves <=> g[n].leaf
       /\ \A n \in DOMAIN g : /\ W.keys[n] = g[n].keys /\ W.vals[n] = g[n].vals
                              /\ W.kids[n] = g[n].kids /\ W.next[n] = g[n].next
  BY DEF Shows
<1>12. W.leaves = V.leaves \ {r}
  BY <1>8, <1>9, <1>10, <1>11
<1>13. \A n \in V.ids \ {p, l, r} : Same(V, W, n)
  <2> TAKE n \in V.ids \ {p, l, r}
  <2>1. n \in DOMAIN g /\ n \in DOMAIN nodes /\ g[n] = f[n]
    BY <1>8, <1>10
  <2> QED BY <2>1, <1>7, <1>10, <1>11 DEF Same
<1>14. /\ W.keys[p] = RemoveAt(V.keys[p], i) /\ W.kids[p] = RemoveAt(V.kids[p], i + 1)
  BY <1>1, <1>3, <1>8, <1>10, <1>11
<1>15. /\ W.keys[l] = one.keys /\ W.kids[l] = one.kids /\ W.vals[l] = one.vals
       /\ W.next[l] = one.next
  BY <1>1, <1>8, <1>11
<1>16. CASE L.leaf
  <2>1. l \in V.leaves
    BY <1>1, <1>10, <1>16
  <2> QED BY <2>1, <1>1, <1>4, <1>8, <1>10, <1>11, <1>12, <1>13, <1>14, <1>15, <1>16 DEF Merges
<1>17. CASE ~L.leaf
  <2>1. l \notin V.leaves
    BY <1>1, <1>10, <1>17
  <2> QED BY <2>1, <1>1, <1>5, <1>8, <1>10, <1>11, <1>12, <1>13, <1>14, <1>15, <1>17 DEF Merges
<1> QED BY <1>16, <1>17

\* Merged puts neighbours together as the lemmas about trees ask for.
LEMMA MergedMergeable ==
  ASSUME Tree(nodes, root), NEW p, NEW i, NEW l, NEW r, Adjacent(p, i, l, r),
         NEW V, Shows(V, nodes, root), NEW W, NEW g, g = Merged(p, i), Shows(W, g, root),
         NEW d, Kind(V, l, d)
  PROVE  Mergeable(W, V, p, i, l, r, d)
<1>1. Siblings(V, p, i, l, r) /\ Plain(V) /\ Once(V, p, i, l) /\ Once(V, p, i + 1, r)
  BY NeighboursShown
<1>2. Merges(W, V, p, i, l, r)
  BY MergedShown
<1>3. MergedInto(g, p, l, r)
  BY MergedKeeps
<1>4. Tree(g, root) /\ p \in DOMAIN g /\ DOMAIN g = DOMAIN nodes \ {r}
  BY <1>3 DEF MergedInto
<1>5. Plain(W)
  BY <1>4, ViewPlain
<1>6. /\ p \in V.ids /\ i \in 1 .. Len(V.keys[p]) /\ V.kids[p][i] = l
      /\ p \notin V.leaves
  BY <1>1 DEF Siblings
<1>7. /\ V.kids[p] \in Seq(V.ids) /\ V.keys[p] \in Seq(Int)
      /\ Len(V.kids[p]) = Len(V.keys[p]) + 1 /\ Len(V.keys[p]) \in Nat
  BY <1>1, <1>6, LenProperties DEF Plain
<1>8. i + 1 \in 1 .. Len(V.kids[p]) /\ i \in 1 .. i + 1 - 1 /\ i \in 1 .. Len(V.kids[p]) - 1
  BY <1>6, <1>7
<1>9. W.kids[p] = RemoveAt(V.kids[p], i + 1)
  BY <1>2 DEF Merges
<1>10. Len(W.kids[p]) = Len(V.kids[p]) - 1 /\ W.kids[p][i] = V.kids[p][i]
  <2>1. \A c \in 1 .. Len(V.kids[p]) : W.kids[p] = RemoveAt(V.kids[p], c) =>
           Len(W.kids[p]) = Len(V.kids[p]) - 1 /\ \A j \in 1 .. c - 1 : W.kids[p][j] = V.kids[p][j]
    BY <1>7, RemoveAtFacts
  <2> QED BY <2>1, <1>8, <1>9
<1>11. W.kids[p] = g[p].kids
  BY <1>4 DEF Shows
<1>12. i \in 1 .. Len(g[p].kids) /\ l = g[p].kids[i]
  BY <1>6, <1>8, <1>10, <1>11
<1>13. Once(W, p, i, l)
  BY <1>4, <1>12, ViewOnce
<1>14. l \in V.leaves => V.vals[l] \in Seq(RowIds) /\ V.vals[r] \in Seq(RowIds)
  <2>1. l \in DOMAIN nodes /\ r \in DOMAIN nodes /\ WellFormed(nodes[l]) /\ WellFormed(nodes[r])
    BY Neighbours
  <2>2. nodes[l].vals \in Seq(RowIds) /\ nodes[r].vals \in Seq(RowIds)
    BY <2>1, NodeFields DEF WellFormed
  <2> QED BY <2>1, <2>2 DEF Shows
<1> QED BY <1>1, <1>2, <1>5, <1>13, <1>14 DEF Mergeable

\* A node with one key replaced keeps the rest of it,
LEMMA KeySet ==
  ASSUME NEW N, WellFormed(N), NEW i, NEW k
  PROVE  LET M == [N EXCEPT !.keys[i] = k]
         IN  /\ M.keys = [N.keys EXCEPT ![i] = k] /\ M.vals = N.vals
             /\ M.kids = N.kids /\ M.next = N.next /\ M.leaf = N.leaf
BY DEF WellFormed, Node

\* and so does one that is told of another parent.
LEMMA ParentSet ==
  ASSUME NEW N, WellFormed(N), NEW k
  PROVE  LET M == [N EXCEPT !.parent = k]
         IN  /\ M.keys = N.keys /\ M.vals = N.vals
             /\ M.kids = N.kids /\ M.next = N.next /\ M.leaf = N.leaf
BY DEF WellFormed, Node

\* What ShiftRight does, told of the trees shown.
LEMMA ShiftRightShown ==
  ASSUME Tree(nodes, root), NEW p, NEW i, NEW l, NEW r, Adjacent(p, i, l, r),
         nodes[l].keys # << >>,
         NEW V, Shows(V, nodes, root), NEW T, NEW g, g = ShiftRight(p, i), Shows(T, g, root)
  PROVE  PassedRight(T, V, p, i, l, r) /\ Plain(T)
<1> DEFINE L == nodes[l]
           R == nodes[r]
           k == Last(L.keys)
           P == [nodes[p] EXCEPT !.keys[i] = k]
<1>1. /\ p \in DOMAIN nodes /\ l \in DOMAIN nodes \ {root} /\ r \in DOMAIN nodes \ {root}
      /\ l # r /\ p # l /\ p # r /\ ~nodes[p].leaf /\ L.leaf = R.leaf
      /\ {p, l, r} \cap (Kids(nodes, l) \cup Kids(nodes, r)) = {}
      /\ WellFormed(nodes[p]) /\ WellFormed(L) /\ WellFormed(R)
  BY Neighbours
<1>2. /\ \A n \in DOMAIN nodes : WellFormed(nodes[n])
      /\ \A n \in DOMAIN nodes : Kids(nodes, n) \subseteq DOMAIN nodes \ {root}
  BY DEF Tree, Linked
<1>3. Tree(g, root) /\ DOMAIN g = DOMAIN nodes /\ \A n \in DOMAIN nodes : g[n].leaf = nodes[n].leaf
  BY ShiftRightKeeps
<1>4. Plain(T)
  BY <1>3, ViewPlain
<1>5. /\ V.ids = DOMAIN nodes /\ V.root = root /\ V.leaves \subseteq V.ids
      /\ \A n \in DOMAIN nodes : n \in V.leaves <=> nodes[n].leaf
      /\ \A n \in DOMAIN nodes : /\ V.keys[n] = nodes[n].keys /\ V.vals[n] = nodes[n].vals
                                 /\ V.kids[n] = nodes[n].kids /\ V.next[n] = nodes[n].next
  BY DEF Shows
<1>6. /\ T.ids = DOMAIN nodes /\ T.root = root /\ T.leaves \subseteq T.ids
      /\ \A n \in DOMAIN nodes : n \in T.leaves <=> nodes[n].leaf
      /\ \A n \in DOMAIN nodes : /\ T.keys[n] = g[n].keys /\ T.vals[n] = g[n].vals
                                 /\ T.kids[n] = g[n].kids /\ T.next[n] = g[n].next
  BY <1>3 DEF Shows
<1>7. P.keys = [nodes[p].keys EXCEPT ![i] = k] /\ P.kids = nodes[p].kids
  BY <1>1, KeySet
<1>8. T.leaves = V.leaves
  BY <1>5, <1>6
<1>9. CASE L.leaf
  <2> DEFINE X == WithVals(L, Front(L.keys), Front(L.vals))
             Y == WithVals(R, <<k>> \o R.keys, <<Last(L.vals)>> \o R.vals)
  <2>1. g = [nodes EXCEPT ![p] = P, ![l] = X, ![r] = Y]
    BY <1>9 DEF ShiftRight, WithVals, Adjacent
  <2>2. X.keys = Front(L.keys) /\ X.vals = Front(L.vals) /\ X.kids = L.kids /\ X.next = L.next
    BY <1>1, ValsSet
  <2>3. /\ Y.keys = <<k>> \o R.keys /\ Y.vals = <<Last(L.vals)>> \o R.vals
        /\ Y.kids = R.kids /\ Y.next = R.next
    <3> DEFINE ks == <<k>> \o R.keys
               vs == <<Last(L.vals)>> \o R.vals
    <3>1. Y = WithVals(R, ks, vs)
      OBVIOUS
    <3> HIDE DEF ks, vs, Y, R
    <3>2. Y.keys = ks /\ Y.vals = vs /\ Y.kids = R.kids /\ Y.next = R.next
      BY <3>1, <1>1, ValsSet
    <3> QED BY <3>2 DEF ks, vs, R
  <2> HIDE DEF P, X, Y
  <2>4. /\ g[p] = P /\ g[l] = X /\ g[r] = Y
        /\ \A n \in DOMAIN nodes \ {p, l, r} : g[n] = nodes[n]
    BY <1>1, <2>1
  <2>5. \A n \in V.ids \ {p, l, r} : Same(V, T, n)
    BY <1>5, <1>6, <2>4 DEF Same
  <2>6. l \in V.leaves
    BY <1>1, <1>5, <1>9
  <2>7. T.kids[p] = V.kids[p] /\ T.keys[p] = [V.keys[p] EXCEPT ![i] = Last(V.keys[l])]
    BY <1>1, <1>5, <1>6, <1>7, <2>4
  <2>8. /\ T.keys[l] = Front(V.keys[l]) /\ T.next[l] = V.next[l] /\ T.next[r] = V.next[r]
        /\ T.keys[r] = <<Last(V.keys[l])>> \o V.keys[r]
        /\ T.vals[l] = Front(V.vals[l]) /\ T.vals[r] = <<Last(V.vals[l])>> \o V.vals[r]
        /\ T.kids[l] = V.kids[l] /\ T.kids[r] = V.kids[r]
    BY <1>1, <1>5, <1>6, <2>2, <2>3, <2>4
  <2> QED BY <1>4, <1>5, <1>6, <1>8, <2>5, <2>6, <2>7, <2>8 DEF PassedRight
<1>10. CASE ~L.leaf
  <2> DEFINE c == Last(L.kids)
             X == WithKids(L, Front(L.keys), Front(L.kids))
             Y == WithKids(R, <<nodes[p].keys[i]>> \o R.keys, <<c>> \o R.kids)
             Z == [nodes[c] EXCEPT !.parent = r]
  <2>1. g = [nodes EXCEPT ![p] = P, ![l] = X, ![r] = Y, ![c] = Z]
    BY <1>10 DEF ShiftRight, WithKids, Adjacent
  <2>2. X.keys = Front(L.keys) /\ X.kids = Front(L.kids) /\ X.next = L.next
    BY <1>1, KidsSet
  <2>3. /\ Y.keys = <<nodes[p].keys[i]>> \o R.keys /\ Y.kids = <<c>> \o R.kids
        /\ Y.next = R.next
    <3> DEFINE ks == <<nodes[p].keys[i]>> \o R.keys
               cs == <<c>> \o R.kids
    <3>1. Y = WithKids(R, ks, cs)
      OBVIOUS
    <3> HIDE DEF ks, cs, Y, R
    <3>2. Y.keys = ks /\ Y.kids = cs /\ Y.next = R.next
      BY <3>1, <1>1, KidsSet
    <3> QED BY <3>2 DEF ks, cs, R
  <2>4. c \in Kids(nodes, l)
    <3>1. L.kids \in Seq(NodeId) /\ Len(L.kids) = Len(L.keys) + 1 /\ IsInjective(L.kids)
          /\ Len(L.keys) \in Nat
      BY <1>1, <1>10, NodeFields, LenProperties DEF WellFormed
    <3>2. L.kids # << >>
      BY <3>1
    <3> QED BY <3>1, <3>2, FrontKids DEF Kids
  <2>5. c \in DOMAIN nodes /\ c # p /\ c # l /\ c # r /\ WellFormed(nodes[c])
    BY <1>1, <1>2, <2>4
  <2>6. /\ Z.keys = nodes[c].keys /\ Z.vals = nodes[c].vals /\ Z.kids = nodes[c].kids
        /\ Z.next = nodes[c].next
    BY <2>5, ParentSet
  <2> HIDE DEF P, X, Y, Z, c
  <2>7. /\ g[p] = P /\ g[l] = X /\ g[r] = Y /\ g[c] = Z
        /\ \A n \in DOMAIN nodes \ {p, l, r, c} : g[n] = nodes[n]
    BY <1>1, <2>1, <2>5
  <2>8. \A n \in V.ids \ {p, l, r} : Same(V, T, n)
    <3> TAKE n \in V.ids \ {p, l, r}
    <3>1. n \in DOMAIN nodes
      BY <1>5
    <3>2. /\ g[n].keys = nodes[n].keys /\ g[n].vals = nodes[n].vals
          /\ g[n].kids = nodes[n].kids /\ g[n].next = nodes[n].next
      BY <3>1, <2>6, <2>7
    <3> QED BY <3>1, <3>2, <1>5, <1>6 DEF Same
  <2>9. l \notin V.leaves
    BY <1>1, <1>5, <1>10
  <2>10. T.kids[p] = V.kids[p] /\ T.keys[p] = [V.keys[p] EXCEPT ![i] = Last(V.keys[l])]
    BY <1>1, <1>5, <1>6, <1>7, <2>7
  <2>11. /\ T.keys[l] = Front(V.keys[l]) /\ T.next[l] = V.next[l] /\ T.next[r] = V.next[r]
         /\ T.keys[r] = <<V.keys[p][i]>> \o V.keys[r]
         /\ T.kids[l] = Front(V.kids[l]) /\ T.kids[r] = <<Last(V.kids[l])>> \o V.kids[r]
    BY <1>1, <1>5, <1>6, <2>2, <2>3, <2>7 DEF c
  <2> QED BY <1>4, <1>5, <1>6, <1>8, <2>8, <2>9, <2>10, <2>11 DEF PassedRight
<1> QED BY <1>9, <1>10

\* What ShiftLeft does, told of the trees shown.
LEMMA ShiftLeftShown ==
  ASSUME Tree(nodes, root), NEW p, NEW i, NEW l, NEW r, Adjacent(p, i, l, r),
         nodes[r].keys # << >>, nodes[r].leaf => Len(nodes[r].keys) >= 2,
         NEW V, Shows(V, nodes, root), NEW T, NEW g, g = ShiftLeft(p, i), Shows(T, g, root)
  PROVE  PassedLeft(T, V, p, i, l, r) /\ Plain(T)
<1> DEFINE L == nodes[l]
           R == nodes[r]
<1>1. /\ p \in DOMAIN nodes /\ l \in DOMAIN nodes \ {root} /\ r \in DOMAIN nodes \ {root}
      /\ l # r /\ p # l /\ p # r /\ ~nodes[p].leaf /\ L.leaf = R.leaf
      /\ {p, l, r} \cap (Kids(nodes, l) \cup Kids(nodes, r)) = {}
      /\ WellFormed(nodes[p]) /\ WellFormed(L) /\ WellFormed(R)
  BY Neighbours
<1>2. /\ \A n \in DOMAIN nodes : WellFormed(nodes[n])
      /\ \A n \in DOMAIN nodes : Kids(nodes, n) \subseteq DOMAIN nodes \ {root}
  BY DEF Tree, Linked
<1>3. Tree(g, root) /\ DOMAIN g = DOMAIN nodes /\ \A n \in DOMAIN nodes : g[n].leaf = nodes[n].leaf
  BY ShiftLeftKeeps
<1>4. Plain(T)
  BY <1>3, ViewPlain
<1>5. /\ V.ids = DOMAIN nodes /\ V.root = root /\ V.leaves \subseteq V.ids
      /\ \A n \in DOMAIN nodes : n \in V.leaves <=> nodes[n].leaf
      /\ \A n \in DOMAIN nodes : /\ V.keys[n] = nodes[n].keys /\ V.vals[n] = nodes[n].vals
                                 /\ V.kids[n] = nodes[n].kids /\ V.next[n] = nodes[n].next
  BY DEF Shows
<1>6. /\ T.ids = DOMAIN nodes /\ T.root = root /\ T.leaves \subseteq T.ids
      /\ \A n \in DOMAIN nodes : n \in T.leaves <=> nodes[n].leaf
      /\ \A n \in DOMAIN nodes : /\ T.keys[n] = g[n].keys /\ T.vals[n] = g[n].vals
                                 /\ T.kids[n] = g[n].kids /\ T.next[n] = g[n].next
  BY <1>3 DEF Shows
<1>8. T.leaves = V.leaves
  BY <1>5, <1>6
<1>9. CASE L.leaf
  <2> DEFINE k == R.keys[2]
             P == [nodes[p] EXCEPT !.keys[i] = k]
             X == WithVals(L, AtEnd(L.keys, Head(R.keys)), AtEnd(L.vals, Head(R.vals)))
             Y == WithVals(R, Tail(R.keys), Tail(R.vals))
  <2>1. g = [nodes EXCEPT ![p] = P, ![l] = X, ![r] = Y]
    BY <1>9 DEF ShiftLeft, WithVals, Adjacent, AtEnd
  <2>1a. P.keys = [nodes[p].keys EXCEPT ![i] = k] /\ P.kids = nodes[p].kids
    BY <1>1, KeySet
  <2>2. /\ X.keys = AtEnd(L.keys, Head(R.keys)) /\ X.vals = AtEnd(L.vals, Head(R.vals))
        /\ X.kids = L.kids /\ X.next = L.next
    BY <1>1, ValsSet
  <2>3. /\ Y.keys = Tail(R.keys) /\ Y.vals = Tail(R.vals)
        /\ Y.kids = R.kids /\ Y.next = R.next
    BY <1>1, ValsSet
  <2> HIDE DEF P, X, Y
  <2>4. /\ g[p] = P /\ g[l] = X /\ g[r] = Y
        /\ \A n \in DOMAIN nodes \ {p, l, r} : g[n] = nodes[n]
    BY <1>1, <2>1
  <2>5. \A n \in V.ids \ {p, l, r} : Same(V, T, n)
    BY <1>5, <1>6, <2>4 DEF Same
  <2>6. l \in V.leaves
    BY <1>1, <1>5, <1>9
  <2>7. T.kids[p] = V.kids[p] /\ T.keys[p] = [V.keys[p] EXCEPT ![i] = V.keys[r][2]]
    BY <1>1, <1>5, <1>6, <2>1a, <2>4
  <2>8. /\ T.keys[r] = Tail(V.keys[r]) /\ T.next[l] = V.next[l] /\ T.next[r] = V.next[r]
        /\ T.keys[l] = AtEnd(V.keys[l], Head(V.keys[r]))
        /\ T.vals[r] = Tail(V.vals[r]) /\ T.vals[l] = AtEnd(V.vals[l], Head(V.vals[r]))
        /\ T.kids[l] = V.kids[l] /\ T.kids[r] = V.kids[r]
    BY <1>1, <1>5, <1>6, <2>2, <2>3, <2>4
  <2> QED BY <1>4, <1>5, <1>6, <1>8, <2>5, <2>6, <2>7, <2>8 DEF PassedLeft
<1>10. CASE ~L.leaf
  <2> DEFINE k == Head(R.keys)
             c == Head(R.kids)
             P == [nodes[p] EXCEPT !.keys[i] = k]
             X == WithKids(L, AtEnd(L.keys, nodes[p].keys[i]), AtEnd(L.kids, c))
             Y == WithKids(R, Tail(R.keys), Tail(R.kids))
             Z == [nodes[c] EXCEPT !.parent = l]
  <2>1. g = [nodes EXCEPT ![p] = P, ![l] = X, ![r] = Y, ![c] = Z]
    BY <1>10 DEF ShiftLeft, WithKids, Adjacent, AtEnd
  <2>1a. P.keys = [nodes[p].keys EXCEPT ![i] = k] /\ P.kids = nodes[p].kids
    BY <1>1, KeySet
  <2>2. /\ X.keys = AtEnd(L.keys, nodes[p].keys[i]) /\ X.kids = AtEnd(L.kids, c)
        /\ X.next = L.next
    BY <1>1, KidsSet
  <2>3. Y.keys = Tail(R.keys) /\ Y.kids = Tail(R.kids) /\ Y.next = R.next
    BY <1>1, KidsSet
  <2>4. c \in Kids(nodes, r)
    <3>1. R.kids \in Seq(NodeId) /\ Len(R.kids) = Len(R.keys) + 1 /\ Len(R.keys) \in Nat
      BY <1>1, <1>10, NodeFields, LenProperties DEF WellFormed
    <3>2. R.kids # << >> /\ 1 \in 1 .. Len(R.kids)
      BY <3>1
    <3>3. c = R.kids[1]
      BY <3>1, <3>2, HeadTailProperties
    <3> QED BY <3>1, <3>2, <3>3, Positions DEF Kids
  <2>5. c \in DOMAIN nodes /\ c # p /\ c # l /\ c # r /\ WellFormed(nodes[c])
    BY <1>1, <1>2, <2>4
  <2>6. /\ Z.keys = nodes[c].keys /\ Z.vals = nodes[c].vals /\ Z.kids = nodes[c].kids
        /\ Z.next = nodes[c].next
    BY <2>5, ParentSet
  <2> HIDE DEF P, X, Y, Z, c
  <2>7. /\ g[p] = P /\ g[l] = X /\ g[r] = Y /\ g[c] = Z
        /\ \A n \in DOMAIN nodes \ {p, l, r, c} : g[n] = nodes[n]
    BY <1>1, <2>1, <2>5
  <2>8. \A n \in V.ids \ {p, l, r} : Same(V, T, n)
    <3> TAKE n \in V.ids \ {p, l, r}
    <3>1. n \in DOMAIN nodes
      BY <1>5
    <3>2. /\ g[n].keys = nodes[n].keys /\ g[n].vals = nodes[n].vals
          /\ g[n].kids = nodes[n].kids /\ g[n].next = nodes[n].next
      BY <3>1, <2>6, <2>7
    <3> QED BY <3>1, <3>2, <1>5, <1>6 DEF Same
  <2>9. l \notin V.leaves
    BY <1>1, <1>5, <1>10
  <2>10. T.kids[p] = V.kids[p] /\ T.keys[p] = [V.keys[p] EXCEPT ![i] = Head(V.keys[r])]
    BY <1>1, <1>5, <1>6, <2>1a, <2>7
  <2>11. /\ T.keys[r] = Tail(V.keys[r]) /\ T.next[l] = V.next[l] /\ T.next[r] = V.next[r]
         /\ T.keys[l] = AtEnd(V.keys[l], V.keys[p][i])
         /\ T.kids[r] = Tail(V.kids[r]) /\ T.kids[l] = AtEnd(V.kids[l], Head(V.kids[r]))
    BY <1>1, <1>5, <1>6, <2>2, <2>3, <2>7 DEF c
  <2> QED BY <1>4, <1>5, <1>6, <1>8, <2>8, <2>9, <2>10, <2>11 DEF PassedLeft
<1> QED BY <1>9, <1>10

\* Two neighbours have their keys shared out anew and what lookups find does
\* not change.
LEMMA ShiftRightOrdered ==
  ASSUME Tree(nodes, root), NEW p, NEW i, NEW l, NEW r, Adjacent(p, i, l, r),
         nodes[l].keys # << >>, nodes[l].leaf => Len(nodes[l].keys) >= 2,
         NEW V, Shows(V, nodes, root), NEW T, NEW g, g = ShiftRight(p, i), Shows(T, g, root),
         Ordered(V)
  PROVE  Ordered(T) /\ SameHeld(V, T)
<1> DEFINE W == View(Merged(p, i), root)
           d == IF l \in V.leaves THEN 0 ELSE 1
<1>1. PassedRight(T, V, p, i, l, r) /\ Plain(T)
  BY ShiftRightShown
<1>2. Shows(W, Merged(p, i), root) /\ Kind(V, l, d)
  BY ViewShows DEF Kind
<1> HIDE DEF W, d
<1>3. Mergeable(W, V, p, i, l, r, d)
  BY <1>2, MergedMergeable
<1>4. l \in DOMAIN nodes
  BY Neighbours
<1>5. V.keys[l] = nodes[l].keys /\ (l \in V.leaves <=> nodes[l].leaf)
  BY <1>4 DEF Shows
<1>6. Reshares(T, W, V, p, i, l, r, d) /\ (l \in V.leaves => CutsLeaf(T, p, i, l, r, d))
  BY <1>1, <1>3, <1>5, PassedRightShares
<1>7. d = 0 <=> l \in V.leaves
  BY <1>2 DEF Kind
<1>8. CutsLeaf(T, p, i, l, r, d)
  BY <1>6, <1>7 DEF CutsLeaf
<1>9. SameHeld(W, V) /\ (d = 0 => T.next[l] = r)
  <2>1. T.next[l] = V.next[l]
    BY <1>1 DEF PassedRight
  <2> QED BY <2>1, <1>3, MergeOrdered
<1>10. Ordered(T) /\ SameHeld(W, T)
  BY <1>1, <1>3, <1>6, <1>8, <1>9, ReshareOrdered
<1> QED BY <1>9, <1>10, SameHeldBoth

\* Passing a key to the left keeps a tree ordered, and what lookups find.
LEMMA ShiftLeftOrdered ==
  ASSUME Tree(nodes, root), NEW p, NEW i, NEW l, NEW r, Adjacent(p, i, l, r),
         nodes[r].keys # << >>, nodes[r].leaf => Len(nodes[r].keys) >= 2,
         NEW V, Shows(V, nodes, root), NEW T, NEW g, g = ShiftLeft(p, i), Shows(T, g, root),
         Ordered(V)
  PROVE  Ordered(T) /\ SameHeld(V, T)
<1> DEFINE W == View(Merged(p, i), root)
           d == IF l \in V.leaves THEN 0 ELSE 1
<1>1. PassedLeft(T, V, p, i, l, r) /\ Plain(T)
  BY ShiftLeftShown
<1>2. Shows(W, Merged(p, i), root) /\ Kind(V, l, d)
  BY ViewShows DEF Kind
<1> HIDE DEF W, d
<1>3. Mergeable(W, V, p, i, l, r, d)
  BY <1>2, MergedMergeable
<1>4. l \in DOMAIN nodes /\ r \in DOMAIN nodes /\ nodes[l].leaf = nodes[r].leaf
  BY Neighbours
<1>5. V.keys[r] = nodes[r].keys /\ (l \in V.leaves <=> nodes[r].leaf)
  BY <1>4 DEF Shows
<1>6. Reshares(T, W, V, p, i, l, r, d) /\ (l \in V.leaves => CutsLeaf(T, p, i, l, r, d))
  BY <1>1, <1>3, <1>5, PassedLeftShares
<1>7. d = 0 <=> l \in V.leaves
  BY <1>2 DEF Kind
<1>8. CutsLeaf(T, p, i, l, r, d)
  BY <1>6, <1>7 DEF CutsLeaf
<1>9. SameHeld(W, V) /\ (d = 0 => T.next[l] = r)
  <2>1. T.next[l] = V.next[l]
    BY <1>1 DEF PassedLeft
  <2> QED BY <2>1, <1>3, MergeOrdered
<1>10. Ordered(T) /\ SameHeld(W, T)
  BY <1>1, <1>3, <1>6, <1>8, <1>9, ReshareOrdered
<1> QED BY <1>9, <1>10, SameHeldBoth

\* f is the store, but for parents.
SameFields(f) ==
  /\ DOMAIN f = DOMAIN nodes
  /\ \A n \in DOMAIN nodes : /\ f[n].leaf = nodes[n].leaf
                             /\ f[n].keys = nodes[n].keys /\ f[n].vals = nodes[n].vals
                             /\ f[n].kids = nodes[n].kids /\ f[n].next = nodes[n].next

\* n shows the node N.
Seen(T, n, N) ==
  T.keys[n] = N.keys /\ T.vals[n] = N.vals /\ T.kids[n] = N.kids /\ T.next[n] = N.next

\* The store with a new node m between l and r.
SplitSeen(T, V, p, i, l, m, r, a, b, A, B, C) ==
  /\ m \notin V.ids /\ T.ids = V.ids \cup {m} /\ T.root = V.root
  /\ T.leaves = IF l \in V.leaves THEN V.leaves \cup {m} ELSE V.leaves
  /\ \A n \in V.ids \ {p, l, r} : Same(V, T, n)
  /\ T.keys[p] = InsertAt([V.keys[p] EXCEPT ![i] = b], i, a)
  /\ T.kids[p] = InsertAt(V.kids[p], i + 1, m)
  /\ Seen(T, l, A) /\ Seen(T, m, B) /\ Seen(T, r, C)

\* What a split does, told of the trees shown.
LEMMA SplitShown ==
  ASSUME Tree(nodes, root), NEW p, NEW i, NEW l, NEW r, Adjacent(p, i, l, r),
         NEW m, m \in Unused, NEW f, SameFields(f), NEW a, NEW b, NEW A, NEW B, NEW C,
         NEW place, place = i + 1,
         NEW g, g = Split(f, p, i, place, a, b, l, r, m, A, B, C),
         \A n \in DOMAIN nodes : g[n].leaf = nodes[n].leaf, g[m].leaf = nodes[l].leaf,
         NEW V, Shows(V, nodes, root), NEW T, Shows(T, g, root)
  PROVE  SplitSeen(T, V, p, i, l, m, r, a, b, A, B, C)
<1> DEFINE N == nodes[p]
           ks == InsertAt([N.keys EXCEPT ![i] = b], i, a)
           cs == InsertAt(N.kids, place, m)
           P == WithKids(N, ks, cs)
<1>1. /\ p \in DOMAIN nodes /\ l \in DOMAIN nodes /\ r \in DOMAIN nodes
      /\ l # r /\ p # l /\ p # r /\ WellFormed(N)
  BY Neighbours
<1>2. m \notin DOMAIN nodes /\ DOMAIN f = DOMAIN nodes
  BY DEF Unused, SameFields
<1>3. g = Put([f EXCEPT ![p] = P, ![l] = A, ![r] = C], m, B)
  BY DEF Split, SplitParent, WithKids
<1> HIDE DEF ks, cs
<1>4. P.keys = ks /\ P.kids = cs
  BY <1>1, KidsSet
<1> HIDE DEF P
<1>5. /\ DOMAIN g = DOMAIN nodes \cup {m} /\ g[p] = P /\ g[l] = A /\ g[m] = B /\ g[r] = C
      /\ \A n \in DOMAIN nodes \ {p, l, r} : g[n] = f[n]
  BY <1>1, <1>2, <1>3 DEF Put
<1>6. /\ V.ids = DOMAIN nodes /\ V.root = root /\ V.leaves \subseteq V.ids
      /\ \A n \in DOMAIN nodes : n \in V.leaves <=> nodes[n].leaf
      /\ \A n \in DOMAIN nodes : /\ V.keys[n] = nodes[n].keys /\ V.vals[n] = nodes[n].vals
                                 /\ V.kids[n] = nodes[n].kids /\ V.next[n] = nodes[n].next
  BY DEF Shows
<1>7. /\ T.ids = DOMAIN g /\ T.root = root /\ T.leaves \subseteq T.ids
      /\ \A n \in DOMAIN g : n \in T.leaves <=> g[n].leaf
      /\ \A n \in DOMAIN g : /\ T.keys[n] = g[n].keys /\ T.vals[n] = g[n].vals
                             /\ T.kids[n] = g[n].kids /\ T.next[n] = g[n].next
  BY DEF Shows
<1>8. T.leaves = IF l \in V.leaves THEN V.leaves \cup {m} ELSE V.leaves
  <2>1. \A n \in DOMAIN nodes : n \in T.leaves <=> n \in V.leaves
    BY <1>5, <1>6, <1>7
  <2>2. m \in T.leaves <=> l \in V.leaves
    BY <1>1, <1>5, <1>6, <1>7
  <2>3. T.leaves \subseteq DOMAIN nodes \cup {m} /\ V.leaves \subseteq DOMAIN nodes
    BY <1>5, <1>6, <1>7
  <2>4. CASE l \in V.leaves
    <3>1. T.leaves = V.leaves \cup {m}
      BY <2>1, <2>2, <2>3, <2>4
    <3> QED BY <3>1, <2>4
  <2>5. CASE l \notin V.leaves
    <3>1. T.leaves = V.leaves
      BY <2>1, <2>2, <2>3, <2>5
    <3> QED BY <3>1, <2>5
  <2> QED BY <2>4, <2>5
<1>9. \A n \in V.ids \ {p, l, r} : Same(V, T, n)
  <2> TAKE n \in V.ids \ {p, l, r}
  <2>1. n \in DOMAIN g /\ n \in DOMAIN nodes /\ g[n] = f[n]
    BY <1>5, <1>6
  <2>2. /\ f[n].keys = nodes[n].keys /\ f[n].vals = nodes[n].vals
        /\ f[n].kids = nodes[n].kids /\ f[n].next = nodes[n].next
    BY <2>1 DEF SameFields
  <2> QED BY <2>1, <2>2, <1>6, <1>7 DEF Same
<1>10. Seen(T, l, A) /\ Seen(T, m, B) /\ Seen(T, r, C)
  BY <1>1, <1>5, <1>7 DEF Seen
<1>11. /\ T.keys[p] = InsertAt([V.keys[p] EXCEPT ![i] = b], i, a)
       /\ T.kids[p] = InsertAt(V.kids[p], i + 1, m)
  <2>1. V.keys[p] = N.keys /\ V.kids[p] = N.kids
    BY <1>1, <1>6
  <2>2. T.keys[p] = ks /\ T.kids[p] = cs
    BY <1>1, <1>4, <1>5, <1>7
  <2> QED BY <2>1, <2>2 DEF ks, cs
<1> QED BY <1>2, <1>5, <1>6, <1>7, <1>8, <1>9, <1>10, <1>11 DEF SplitSeen

\* The middle separators and parts of a split are those of the leaves l and r.
LEMMA LeavesCutThree ==
  ASSUME NEW W, NEW V, NEW p, NEW i, NEW l, NEW r, NEW d, Mergeable(W, V, p, i, l, r, d),
         NEW T, NEW m, NEW A, NEW B, NEW C, NEW a, NEW b,
         SplitSeen(T, V, p, i, l, m, r, a, b, A, B, C),
         d = 0, NEW n1 \in Nat, NEW n2 \in Nat, n1 >= 1, n2 >= 1,
         NEW e, e = n1 + n2, e < Len(W.keys[l]),
         InThreeParts(W.keys[l], A.keys, B.keys, C.keys, n1, e, 0),
         InThreeParts(W.vals[l], A.vals, B.vals, C.vals, n1, e, 0),
         A.next = m, B.next = r, C.next = V.next[r],
         a = B.keys[1], b = C.keys[1], Len(W.keys[l]) \in Nat
  PROVE  CutThree(T, W, V, p, i, l, m, r, d, n1, e)
<1>1. /\ m \notin V.ids /\ T.ids = V.ids \cup {m} /\ T.root = V.root
      /\ T.leaves = IF l \in V.leaves THEN V.leaves \cup {m} ELSE V.leaves
      /\ \A n \in V.ids \ {p, l, r} : Same(V, T, n)
      /\ T.keys[p] = InsertAt([V.keys[p] EXCEPT ![i] = b], i, a)
      /\ T.kids[p] = InsertAt(V.kids[p], i + 1, m)
      /\ Seen(T, l, A) /\ Seen(T, m, B) /\ Seen(T, r, C)
  BY DEF SplitSeen
<1>2. a = W.keys[l][n1 + 1]
  <2>1. Piece(W.keys[l], B.keys, n1 + 0, e - n1 - 0)
    BY DEF InThreeParts
  <2>2. Len(B.keys) = e - n1 - 0
    BY <2>1 DEF Piece
  <2>3. 1 \in 1 .. Len(B.keys) /\ n1 + 0 + 1 = n1 + 1
    BY <2>2
  <2>4. B.keys[1] = W.keys[l][n1 + 0 + 1]
    BY <2>1, <2>3 DEF Piece, Part
  <2> QED BY <2>3, <2>4
<1>3. b = W.keys[l][e + 1]
  <2>1. Piece(W.keys[l], C.keys, e + 0, Len(W.keys[l]) - e - 0)
    BY DEF InThreeParts
  <2>2. Len(C.keys) = Len(W.keys[l]) - e - 0
    BY <2>1 DEF Piece
  <2>3. 1 \in 1 .. Len(C.keys) /\ e + 0 + 1 = e + 1
    BY <2>2
  <2>4. C.keys[1] = W.keys[l][e + 0 + 1]
    BY <2>1, <2>3 DEF Piece, Part
  <2> QED BY <2>3, <2>4
<1>4. T.keys[p] = InsertAt([V.keys[p] EXCEPT ![i] = W.keys[l][e + 1]], i, W.keys[l][n1 + 1])
  BY <1>1, <1>2, <1>3
<1>5. /\ T.keys[l] = A.keys /\ T.keys[m] = B.keys /\ T.keys[r] = C.keys
      /\ T.vals[l] = A.vals /\ T.vals[m] = B.vals /\ T.vals[r] = C.vals
      /\ T.next[l] = m /\ T.next[m] = r /\ T.next[r] = V.next[r]
  BY <1>1 DEF Seen
<1>6. /\ InThreeParts(W.keys[l], T.keys[l], T.keys[m], T.keys[r], n1, e, d)
      /\ InThreeParts(W.vals[l], T.vals[l], T.vals[m], T.vals[r], n1, e, 0)
      /\ n1 < e /\ d # 1
  BY <1>5
<1> QED BY <1>1, <1>4, <1>5, <1>6 DEF CutThree

\* An inner split is a cut in three, with two keys going up.
LEMMA InnersCutThree ==
  ASSUME NEW W, NEW V, NEW p, NEW i, NEW l, NEW r, NEW d, Mergeable(W, V, p, i, l, r, d),
         NEW T, NEW m, NEW A, NEW B, NEW C, NEW a, NEW b,
         SplitSeen(T, V, p, i, l, m, r, a, b, A, B, C),
         d = 1, NEW k1 \in Nat, NEW e \in Nat, e < Len(W.keys[l]),
         InThreeParts(W.keys[l], A.keys, B.keys, C.keys, k1, e, 1),
         InThreeParts(W.kids[l], A.kids, B.kids, C.kids, k1 + 1, e + 1, 0),
         a = W.keys[l][k1 + 1], b = W.keys[l][e + 1]
  PROVE  CutThree(T, W, V, p, i, l, m, r, d, k1, e)
<1>1. /\ m \notin V.ids /\ T.ids = V.ids \cup {m} /\ T.root = V.root
      /\ T.leaves = IF l \in V.leaves THEN V.leaves \cup {m} ELSE V.leaves
      /\ \A n \in V.ids \ {p, l, r} : Same(V, T, n)
      /\ T.keys[p] = InsertAt([V.keys[p] EXCEPT ![i] = b], i, a)
      /\ T.kids[p] = InsertAt(V.kids[p], i + 1, m)
      /\ Seen(T, l, A) /\ Seen(T, m, B) /\ Seen(T, r, C)
  BY DEF SplitSeen
<1>2. T.keys[p] = InsertAt([V.keys[p] EXCEPT ![i] = W.keys[l][e + 1]], i, W.keys[l][k1 + 1])
  BY <1>1
<1>3. /\ T.keys[l] = A.keys /\ T.keys[m] = B.keys /\ T.keys[r] = C.keys
      /\ T.kids[l] = A.kids /\ T.kids[m] = B.kids /\ T.kids[r] = C.kids
  BY <1>1 DEF Seen
<1>4. /\ InThreeParts(W.keys[l], T.keys[l], T.keys[m], T.keys[r], k1, e, d)
      /\ InThreeParts(W.kids[l], T.kids[l], T.kids[m], T.kids[r], k1 + 1, e + 1, 0)
      /\ d # 0
  BY <1>3
<1> QED BY <1>1, <1>2, <1>4 DEF CutThree

\* Two leaves become three and what lookups find does not change.
LEMMA LeafThirdsOrdered ==
  ASSUME Tree(nodes, root), NEW p, NEW i, NEW l, NEW r, Adjacent(p, i, l, r),
         LeafNode(nodes[l]), NewNode \in Unused,
         NEW t \in Nat, KeysInBoth(l, r, t), NEW n1, NEW n2, NEW n3, Thirds(t, n1, n2, n3),
         NEW g, g = LeafThirds(p, i, 2),
         NEW V, Shows(V, nodes, root), NEW T, Shows(T, g, root), Ordered(V)
  PROVE  Ordered(T) /\ SameHeld(V, T)
<1> DEFINE W == View(Merged(p, i), root)
           d == IF l \in V.leaves THEN 0 ELSE 1
           L == nodes[l]
           R == nodes[r]
           m == NewNode
           ks == L.keys \o R.keys
           vs == L.vals \o R.vals
           c1 == Len(ks) \div 3
           c2 == (Len(ks) - c1) \div 2
           u == Len(ks)
           q == L.parent
           s == R.parent
           x == R.next
           A == Leaf(SubSeq(ks, 1, c1), SubSeq(vs, 1, c1), q, m)
           B == Leaf(SubSeq(ks, c1 + 1, c1 + c2), SubSeq(vs, c1 + 1, c1 + c2), p, r)
           C == Leaf(SubSeq(ks, c1 + c2 + 1, u), SubSeq(vs, c1 + c2 + 1, u), s, x)
           a == B.keys[1]
           b == C.keys[1]
           place == i + 1
<1>1. /\ l \in DOMAIN nodes /\ r \in DOMAIN nodes /\ L.leaf /\ R.leaf
      /\ WellFormed(L) /\ WellFormed(R)
  BY Neighbours DEF LeafNode
<1>2. /\ L.keys \in Seq(Keys) /\ R.keys \in Seq(Keys)
      /\ L.vals \in Seq(RowIds) /\ R.vals \in Seq(RowIds)
      /\ Len(L.vals) = Len(L.keys) /\ Len(R.vals) = Len(R.keys)
      /\ Len(L.keys) \in Nat /\ Len(R.keys) \in Nat
  BY <1>1, NodeFields, LenProperties DEF WellFormed
<1>3. /\ l \in V.leaves /\ d = 0
      /\ V.keys[l] = L.keys /\ V.keys[r] = R.keys /\ V.vals[l] = L.vals /\ V.vals[r] = R.vals
      /\ V.next[r] = x
  BY <1>1 DEF Shows
<1>4. Shows(W, Merged(p, i), root) /\ Kind(V, l, d)
  BY ViewShows DEF Kind
<1> HIDE DEF W
<1>5. Mergeable(W, V, p, i, l, r, d)
  <2> HIDE DEF d
  <2> QED BY <1>4, MergedMergeable
<1>6. W.keys[l] = ks /\ W.vals[l] = vs
  BY <1>3, <1>5 DEF Mergeable, Merges
<1>7. /\ ks \in Seq(Keys) /\ vs \in Seq(RowIds) /\ Len(ks) = t /\ Len(vs) = t
  <2>1. ks \in Seq(Keys) /\ Len(ks) = Len(L.keys) + Len(R.keys)
    BY <1>2, ConcatProperties
  <2>2. vs \in Seq(RowIds) /\ Len(vs) = Len(L.vals) + Len(R.vals)
    BY <1>2, ConcatProperties
  <2> QED BY <2>1, <2>2, <1>2 DEF KeysInBoth
<1>8. c1 = n1 /\ c2 = n2 /\ u = t
  BY <1>7 DEF Thirds
<1>9. g = Split(nodes, p, i, place, a, b, l, r, m, A, B, C)
  <2>1. l = nodes[p].kids[i] /\ r = nodes[p].kids[i + 1]
    BY DEF Adjacent
  <2>2. LeafThirds(p, i, 2) = Split(nodes, p, i, place, a, b, l, r, m, A, B, C)
    <3>1. LeafThirdsSplit(p, i, l, r)
      BY <2>1, LeafThirdsIs
    <3> QED BY <3>1 DEF LeafThirdsSplit
  <2> HIDE DEF A, B, C, place, m, a, b
  <2> QED BY <2>2
<1>10. /\ A.keys = SubSeq(ks, 1, n1) /\ A.vals = SubSeq(vs, 1, n1) /\ A.next = m
       /\ B.keys = SubSeq(ks, n1 + 1, n1 + n2) /\ B.vals = SubSeq(vs, n1 + 1, n1 + n2)
       /\ B.next = r
       /\ C.keys = SubSeq(ks, n1 + n2 + 1, t) /\ C.vals = SubSeq(vs, n1 + n2 + 1, t)
       /\ C.next = x
  <2> HIDE DEF ks, vs, c1, c2, u, q, s, x, m
  <2> QED BY <1>8 DEF Leaf
<1>11. place = i + 1 /\ a = B.keys[1] /\ b = C.keys[1] /\ m = NewNode
  OBVIOUS
<1> HIDE DEF ks, vs, c1, c2, u, q, s, x, m, A, B, C, a, b, place, d, L, R
<1>12. /\ n1 \in Nat /\ n2 \in Nat /\ n1 >= 1 /\ n2 >= 1 /\ n1 + n2 < t
  BY ThirdsFacts
<1>13. MoreLeaves(g, p, l, m, r, n1, n2, n3)
  BY <1>11, LeafThirdsKeeps DEF AreThirdsOf
<1>14. /\ Tree(g, root) /\ \A n \in DOMAIN nodes : g[n].leaf = nodes[n].leaf
       /\ DOMAIN g = DOMAIN nodes \cup {m} /\ g[m].leaf
  BY <1>13 DEF MoreLeaves
<1>15. g[m].leaf = nodes[l].leaf
  <2>1. g[m].leaf \in BOOLEAN /\ nodes[l].leaf \in BOOLEAN
    BY <1>1, <1>14, NodeFields DEF Tree, WellFormed, L
  <2> QED BY <2>1, <1>1, <1>14 DEF L
<1>16. SameFields(nodes)
  BY DEF SameFields
<1>17. m \in Unused
  BY <1>11
<1>18. SplitSeen(T, V, p, i, l, m, r, a, b, A, B, C)
  BY <1>9, <1>11, <1>14, <1>15, <1>16, <1>17, SplitShown
<1>19. Plain(T)
  BY <1>14, ViewPlain
<1> DEFINE e == n1 + n2
<1>20. e \in Nat /\ n1 + 0 <= e /\ e + 0 <= t /\ n1 + 1 = n1 + 0 + 1 /\ e + 1 = e + 0 + 1 /\ e < t
  BY <1>12
<1>21. InThreeParts(W.keys[l], A.keys, B.keys, C.keys, n1, e, 0)
  <2> DEFINE f == n1 + 1
             h == e + 1
  <2>1. /\ f = n1 + 0 + 1 /\ h = e + 0 + 1
        /\ A.keys = SubSeq(ks, 1, n1) /\ B.keys = SubSeq(ks, f, e) /\ C.keys = SubSeq(ks, h, t)
    BY <1>10, <1>20
  <2> HIDE DEF f, h, e
  <2>2. InThreeParts(ks, A.keys, B.keys, C.keys, n1, e, 0)
    <3>1. n1 \in Nat /\ ks \in Seq(Keys) /\ t = Len(ks) /\ e + 0 <= Len(ks)
      BY <1>7, <1>12, <1>20
    <3> QED BY <3>1, <2>1, <1>20, CutsInThree
  <2> QED BY <2>2, <1>6
<1>22. InThreeParts(W.vals[l], A.vals, B.vals, C.vals, n1, e, 0)
  <2> DEFINE f == n1 + 1
             h == e + 1
  <2>1. /\ f = n1 + 0 + 1 /\ h = e + 0 + 1
        /\ A.vals = SubSeq(vs, 1, n1) /\ B.vals = SubSeq(vs, f, e) /\ C.vals = SubSeq(vs, h, t)
    BY <1>10, <1>20
  <2> HIDE DEF f, h, e
  <2>2. InThreeParts(vs, A.vals, B.vals, C.vals, n1, e, 0)
    <3>1. n1 \in Nat /\ vs \in Seq(RowIds) /\ t = Len(vs) /\ e + 0 <= Len(vs)
      BY <1>7, <1>12, <1>20
    <3> QED BY <3>1, <2>1, <1>20, CutsInThree
  <2> QED BY <2>2, <1>6
<1>23. e = n1 + n2 /\ e < Len(W.keys[l]) /\ Len(W.keys[l]) \in Nat
  BY <1>6, <1>7, <1>20
<1> HIDE DEF e
<1>24. CutThree(T, W, V, p, i, l, m, r, d, n1, e)
  <2>1. A.next = m /\ B.next = r /\ C.next = V.next[r] /\ d = 0
    BY <1>3, <1>10
  <2> QED BY <2>1, <1>5, <1>11, <1>12, <1>18, <1>21, <1>22, <1>23, LeavesCutThree
<1> QED BY <1>5, <1>19, <1>24, ThirdsOrdered

\* Two internal nodes become three and what lookups find does not change,
\* if the new node becomes the child between them.
LEMMA InnerThirdsOrdered ==
  ASSUME Tree(nodes, root), NEW p, NEW i, NEW l, NEW r, Adjacent(p, i, l, r),
         ~nodes[l].leaf, NewNode \in Unused,
         NEW t \in Nat, KeysInBoth(l, r, t),
         NEW k1, NEW k2, NEW k3, InnerShares(t + 1, k1, k2, k3),
         NEW place, place = i + 1, NEW g, g = InnerThirds(p, i, place),
         NEW V, Shows(V, nodes, root), NEW T, Shows(T, g, root), Ordered(V)
  PROVE  Ordered(T) /\ SameHeld(V, T)
<1> DEFINE W == View(Merged(p, i), root)
           d == IF l \in V.leaves THEN 0 ELSE 1
           L == nodes[l]
           R == nodes[r]
           m == NewNode
           k == nodes[p].keys[i]
           ks == L.keys \o <<k>> \o R.keys
           cs == L.kids \o R.kids
           c1 == (Len(ks) - 2) \div 3
           c2 == (Len(ks) - 2 - c1) \div 2
           u == Len(ks)
           q == L.parent
           s == R.parent
           y == SubSeq(cs, c1 + 2, c1 + c2 + 2)
           A == Inner(SubSeq(ks, 1, c1), SubSeq(cs, 1, c1 + 1), q)
           B == Inner(SubSeq(ks, c1 + 2, c1 + c2 + 1), y, p)
           C == Inner(SubSeq(ks, c1 + c2 + 3, u), SubSeq(cs, c1 + c2 + 3, Len(cs)), s)
           a == ks[c1 + 1]
           b == ks[c1 + c2 + 2]
           f == Reparent(nodes, Range(B.kids), m)
           v == t + 1
<1>1. /\ p \in DOMAIN nodes /\ l \in DOMAIN nodes /\ r \in DOMAIN nodes /\ ~L.leaf /\ ~R.leaf
      /\ WellFormed(L) /\ WellFormed(R) /\ WellFormed(nodes[p])
      /\ i \in 1 .. Len(nodes[p].keys) /\ Len(nodes[p].kids) = Len(nodes[p].keys) + 1
  BY Neighbours
<1>2. /\ L.keys \in Seq(Keys) /\ R.keys \in Seq(Keys) /\ nodes[p].keys \in Seq(Keys)
      /\ L.kids \in Seq(NodeId) /\ R.kids \in Seq(NodeId)
      /\ Len(L.kids) = Len(L.keys) + 1 /\ Len(R.kids) = Len(R.keys) + 1
      /\ Len(L.keys) \in Nat /\ Len(R.keys) \in Nat /\ Len(nodes[p].keys) \in Nat
  BY <1>1, NodeFields, LenProperties DEF WellFormed
<1>3. k \in Keys
  BY <1>1, <1>2, ElementOfSeq
<1>4. /\ l \notin V.leaves /\ d = 1
      /\ V.keys[l] = L.keys /\ V.keys[r] = R.keys /\ V.kids[l] = L.kids /\ V.kids[r] = R.kids
      /\ V.keys[p] = nodes[p].keys
  BY <1>1 DEF Shows
<1>5. Shows(W, Merged(p, i), root) /\ Kind(V, l, d)
  BY ViewShows DEF Kind
<1> HIDE DEF W
<1>6. Mergeable(W, V, p, i, l, r, d)
  <2> HIDE DEF d
  <2> QED BY <1>5, MergedMergeable
<1>7. W.keys[l] = ks /\ W.kids[l] = cs
  BY <1>4, <1>6 DEF Mergeable, Merges
<1>8. ks \in Seq(Keys) /\ Len(ks) = v /\ v \in Nat
  <2> DEFINE sep == <<k>>
             lk == L.keys \o sep
             rk == R.keys
  <2>1. sep \in Seq(Keys) /\ Len(sep) = 1
    BY <1>3
  <2> HIDE DEF sep
  <2>2. lk \in Seq(Keys) /\ Len(lk) = Len(L.keys) + Len(sep)
    BY <1>2, <2>1, ConcatProperties
  <2> HIDE DEF lk
  <2>3. rk \in Seq(Keys)
    BY <1>2
  <2>4. Len(L.keys) \in Nat /\ Len(rk) \in Nat /\ t = Len(L.keys) + Len(rk)
    BY <1>2 DEF KeysInBoth
  <2> HIDE DEF rk
  <2>5. lk \o rk \in Seq(Keys) /\ Len(lk \o rk) = Len(lk) + Len(rk)
    BY <2>2, <2>3, ConcatProperties
  <2>6. ks = lk \o rk
    BY DEF lk, rk, sep
  <2> HIDE DEF ks
  <2> QED BY <2>1, <2>2, <2>4, <2>5, <2>6
<1>9. cs \in Seq(NodeId) /\ Len(cs) = v + 1
  <2>1. cs \in Seq(NodeId) /\ Len(cs) = Len(L.kids) + Len(R.kids)
    BY <1>2, ConcatProperties
  <2> DEFINE e == Len(L.keys)
             h == Len(R.keys)
  <2>2. e \in Nat /\ h \in Nat /\ Len(L.kids) = e + 1 /\ Len(R.kids) = h + 1 /\ t = e + h
    BY <1>2 DEF KeysInBoth
  <2> HIDE DEF e, h, cs
  <2>3. Len(cs) = (e + 1) + (h + 1)
    BY <2>1, <2>2
  <2>4. Len(cs) = v + 1
    BY <2>2, <2>3
  <2> QED BY <2>1, <2>4
<1>10. InnerShares(v, k1, k2, k3) /\ c1 = k1 /\ c2 = k2 /\ u = v
  <2>1. InnerShares(v, k1, k2, k3)
    OBVIOUS
  <2> HIDE DEF v
  <2> QED BY <2>1, <1>8 DEF InnerShares
<1>11. g = Split(f, p, i, place, a, b, l, r, m, A, B, C)
  <2>1. l = nodes[p].kids[i] /\ r = nodes[p].kids[i + 1]
    BY DEF Adjacent
  <2>2. InnerThirdsSplit(p, i, place, l, r)
    BY <2>1, InnerThirdsIs
  <2>3. InnerThirds(p, i, place) = Split(f, p, i, place, a, b, l, r, m, A, B, C)
    BY <2>2 DEF InnerThirdsSplit
  <2> HIDE DEF A, B, C, a, b, m, f
  <2> QED BY <2>3
<1>12. /\ A.keys = SubSeq(ks, 1, k1) /\ A.kids = SubSeq(cs, 1, k1 + 1)
       /\ B.keys = SubSeq(ks, k1 + 2, k1 + k2 + 1) /\ B.kids = SubSeq(cs, k1 + 2, k1 + k2 + 2)
       /\ C.keys = SubSeq(ks, k1 + k2 + 3, v)
       /\ C.kids = SubSeq(cs, k1 + k2 + 3, v + 1)
       /\ a = ks[k1 + 1] /\ b = ks[k1 + k2 + 2]
  <2> HIDE DEF ks, cs, c1, c2, u, q, s, m, v
  <2> QED BY <1>9, <1>10 DEF Inner
<1>13. m = NewNode /\ m \in NodeId
  BY DEF Unused
<1>14. SameFields(f)
  <2>1. \A n \in DOMAIN nodes : WellFormed(nodes[n])
    BY DEF Tree
  <2>2. f = Reparent(nodes, Range(B.kids), m)
    OBVIOUS
  <2> HIDE DEF f, m, B
  <2> QED BY <2>1, <2>2, <1>13, ReparentFacts DEF SameFields
<1>14a. v = t + 1
  OBVIOUS
<1> HIDE DEF ks, cs, c1, c2, u, q, s, m, y, A, B, C, a, b, d, f, k, v
<1>15. /\ k1 \in Nat /\ k2 \in Nat /\ k3 \in Nat /\ k1 + k2 + k3 + 2 = v
  BY <1>8, <1>10, InnerSharesFacts
<1>16. MoreInners(g, p, i, m)
  <2>1. place \in 1 .. Len(nodes[p].kids) + 1
    BY <1>1, <1>2
  <2> QED BY <2>1, <1>13, InnerThirdsKeeps
<1>17. /\ Tree(g, root) /\ \A n \in DOMAIN nodes : g[n].leaf = nodes[n].leaf
       /\ DOMAIN g = DOMAIN nodes \cup {m} /\ ~g[m].leaf
  BY <1>16 DEF MoreInners
<1>18. g[m].leaf = nodes[l].leaf
  <2>1. g[m].leaf \in BOOLEAN /\ nodes[l].leaf \in BOOLEAN
    BY <1>1, <1>17, NodeFields DEF Tree, WellFormed
  <2> QED BY <2>1, <1>17
<1>19. m \in Unused
  BY <1>13
<1>20. SplitSeen(T, V, p, i, l, m, r, a, b, A, B, C)
  BY <1>11, <1>14, <1>17, <1>18, <1>19, SplitShown
<1>21. Plain(T)
  BY <1>17, ViewPlain
<1> DEFINE e == k1 + k2 + 1
<1>22. e \in Nat /\ k1 + 1 <= e /\ e + 1 <= v /\ e < v /\ e + 1 = k1 + k2 + 2
  BY <1>8, <1>15
<1>23. InThreeParts(W.keys[l], A.keys, B.keys, C.keys, k1, e, 1)
  <2> DEFINE h == k1 + 2
             j == k1 + k2 + 3
  <2>1. /\ h = k1 + 1 + 1 /\ j = e + 1 + 1
        /\ A.keys = SubSeq(ks, 1, k1) /\ B.keys = SubSeq(ks, h, e) /\ C.keys = SubSeq(ks, j, v)
    BY <1>12, <1>15
  <2> HIDE DEF h, j, e
  <2>2. InThreeParts(ks, A.keys, B.keys, C.keys, k1, e, 1)
    <3>1. /\ k1 \in Nat /\ ks \in Seq(Keys) /\ v = Len(ks) /\ e + 1 <= Len(ks)
          /\ e \in Nat /\ k1 + 1 <= e /\ 1 \in {0, 1}
      BY <1>8, <1>15, <1>22
    <3> QED BY <3>1, <2>1, CutsInThree
  <2> QED BY <2>2, <1>7
<1>24. InThreeParts(W.kids[l], A.kids, B.kids, C.kids, k1 + 1, e + 1, 0)
  <2> DEFINE x == k1 + 1
             y1 == e + 1
             h == k1 + 2
             j == k1 + k2 + 3
             w == v + 1
  <2>1. /\ h = x + 0 + 1 /\ j = y1 + 0 + 1
        /\ A.kids = SubSeq(cs, 1, x) /\ B.kids = SubSeq(cs, h, y1) /\ C.kids = SubSeq(cs, j, w)
    BY <1>12, <1>15, <1>22
  <2>1a. x \in Nat /\ y1 \in Nat /\ x + 0 <= y1 /\ y1 + 0 <= w
    BY <1>8, <1>15, <1>22
  <2>1b. w = Len(cs)
    BY <1>9
  <2> HIDE DEF h, j, e, x, y1, w
  <2>2. InThreeParts(cs, A.kids, B.kids, C.kids, x, y1, 0)
    <3>1. /\ cs \in Seq(NodeId) /\ y1 + 0 <= Len(cs) /\ 0 \in {0, 1}
      BY <1>9, <2>1a, <2>1b
    <3> QED BY <3>1, <2>1, <2>1a, <2>1b, CutsInThree
  <2> QED BY <2>2, <1>7 DEF x, y1
<1>25. CutThree(T, W, V, p, i, l, m, r, d, k1, e)
  <2>1. a = W.keys[l][k1 + 1] /\ b = W.keys[l][e + 1]
    BY <1>7, <1>12, <1>22
  <2>2. e < Len(W.keys[l])
    BY <1>7, <1>8, <1>22
  <2> HIDE DEF e
  <2> QED BY <2>1, <2>2, <1>4, <1>6, <1>15, <1>20, <1>22, <1>23, <1>24, InnersCutThree
<1> HIDE DEF e
<1> QED BY <1>6, <1>21, <1>25, ThirdsOrdered

-----------------------------------------------------------------------------
(* The root cut in two *)

\* T is V with its root cut in two, under a new root t.
CutTop(T, V, m, t, d, key) ==
  /\ m \notin V.ids /\ t \notin V.ids /\ m # t
  /\ T.ids = V.ids \cup {m, t} /\ T.root = t
  /\ T.leaves = IF V.root \in V.leaves THEN V.leaves \cup {m} ELSE V.leaves
  /\ d = (IF V.root \in V.leaves THEN 0 ELSE 1)
  /\ \A n \in V.ids \ {V.root} : Same(V, T, n)
  /\ T.keys[t] = <<key>> /\ T.kids[t] = <<V.root, m>>
  /\ InParts(V.keys[V.root], T.keys[V.root], T.keys[m], d, key)
  /\ InParts(V.kids[V.root], T.kids[V.root], T.kids[m], 0, 0)
  /\ d = 0 =>
       /\ Len(T.keys[V.root]) >= 1 /\ Len(T.keys[m]) >= 1 /\ key = T.keys[m][1]
       /\ T.next[V.root] = m /\ T.next[m] = V.next[V.root]
       /\ Part(V.vals[V.root], T.vals[V.root], 0)
       /\ Part(V.vals[V.root], T.vals[m], Len(T.keys[V.root]))

\* No node has the root as a child.
RootIsNoKid(V) == \A n \in V.ids : \A j \in 1 .. Len(V.kids[n]) : V.kids[n][j] # V.root

\* V under a root without keys.
Under(V, t) ==
  [ids |-> V.ids \cup {t}, root |-> t, leaves |-> V.leaves,
   keys |-> [n \in V.ids \cup {t} |-> IF n = t THEN << >> ELSE V.keys[n]],
   vals |-> [n \in V.ids \cup {t} |-> IF n = t THEN << >> ELSE V.vals[n]],
   kids |-> [n \in V.ids \cup {t} |-> IF n = t THEN <<V.root>> ELSE V.kids[n]],
   next |-> [n \in V.ids \cup {t} |-> IF n = t THEN NullPage ELSE V.next[n]]]

\* The tree under a root without keys is a plain one.
LEMMA UnderTopped ==
  ASSUME NEW V, Plain(V), NEW t, t \notin V.ids, t # NullPage, NEW H, H = Under(V, t)
  PROVE  /\ Topped(V, H, t) /\ Plain(H)
         /\ H.keys[t] = << >> /\ H.kids[t] = <<V.root>>
<1>1. /\ H.ids = V.ids \cup {t} /\ H.root = t /\ H.leaves = V.leaves
      /\ \A n \in V.ids : /\ H.keys[n] = V.keys[n] /\ H.vals[n] = V.vals[n]
                          /\ H.kids[n] = V.kids[n] /\ H.next[n] = V.next[n]
      /\ H.keys[t] = << >> /\ H.kids[t] = <<V.root>>
  BY DEF Under
<1>2. /\ V.root \in V.ids /\ NullPage \notin V.ids /\ V.leaves \subseteq V.ids
      /\ \A n \in V.ids : V.keys[n] \in Seq(Int) /\ V.kids[n] \in Seq(V.ids)
      /\ \A n \in V.leaves : Len(V.kids[n]) = 0 /\ Len(V.vals[n]) = Len(V.keys[n])
      /\ \A n \in V.ids \ V.leaves : Len(V.kids[n]) = Len(V.keys[n]) + 1
  BY DEF Plain
<1>3. /\ Len(H.keys[t]) = 0 /\ Len(H.kids[t]) = 1 /\ H.kids[t][1] = V.root
  BY <1>1
<1>4. Topped(V, H, t)
  BY <1>1, <1>3 DEF Topped, Same
<1>5. \A n \in H.ids : H.keys[n] \in Seq(Int) /\ H.kids[n] \in Seq(H.ids)
  <2> TAKE n \in H.ids
  <2>1. CASE n = t
    <3>1. << >> \in Seq(Int) /\ <<V.root>> \in Seq(H.ids)
      BY <1>1, <1>2, EmptySeq
    <3> QED BY <2>1, <3>1, <1>1
  <2>2. CASE n \in V.ids
    <3>1. V.kids[n] \in Seq(V.ids)
      BY <2>2, <1>2
    <3>2. \A j \in 1 .. Len(V.kids[n]) : V.kids[n][j] \in H.ids
      BY <3>1, <1>1, ElementOfSeq
    <3>3. V.kids[n] \in Seq(H.ids)
      BY <3>1, <3>2, SeqInto
    <3> QED BY <2>2, <3>3, <1>1, <1>2
  <2> QED BY <2>1, <2>2, <1>1
<1>6. Plain(H)
  <2>1. H.root \in H.ids /\ NullPage \notin H.ids /\ H.leaves \subseteq H.ids
    BY <1>1, <1>2
  <2>2. \A n \in H.leaves : Len(H.kids[n]) = 0 /\ Len(H.vals[n]) = Len(H.keys[n])
    BY <1>1, <1>2
  <2>3. \A n \in H.ids \ H.leaves : Len(H.kids[n]) = Len(H.keys[n]) + 1
    <3> TAKE n \in H.ids \ H.leaves
    <3>1. CASE n = t
      BY <3>1, <1>3
    <3>2. CASE n # t
      BY <3>2, <1>1, <1>2
    <3> QED BY <3>1, <3>2
  <2> QED BY <2>1, <2>2, <2>3, <1>5 DEF Plain
<1> QED BY <1>1, <1>4, <1>6

\* A root cut in two keeps a tree ordered, and what lookups find.
LEMMA RootCutOrdered ==
  ASSUME NEW V, Plain(V), RootIsNoKid(V), NEW T, Plain(T), NEW m, NEW t, NEW d, NEW key,
         CutTop(T, V, m, t, d, key), Ordered(V)
  PROVE  Ordered(T) /\ SameHeld(V, T)
<1> DEFINE x == V.root
           H == Under(V, t)
<1>1. /\ m \notin V.ids /\ t \notin V.ids /\ m # t
      /\ T.ids = V.ids \cup {m, t} /\ T.root = t
      /\ T.leaves = IF x \in V.leaves THEN V.leaves \cup {m} ELSE V.leaves
      /\ d = (IF x \in V.leaves THEN 0 ELSE 1)
      /\ \A n \in V.ids \ {x} : Same(V, T, n)
      /\ T.keys[t] = <<key>> /\ T.kids[t] = <<x, m>>
      /\ InParts(V.keys[x], T.keys[x], T.keys[m], d, key)
      /\ InParts(V.kids[x], T.kids[x], T.kids[m], 0, 0)
      /\ d = 0 =>
           /\ Len(T.keys[x]) >= 1 /\ Len(T.keys[m]) >= 1 /\ key = T.keys[m][1]
           /\ T.next[x] = m /\ T.next[m] = V.next[x]
           /\ Part(V.vals[x], T.vals[x], 0) /\ Part(V.vals[x], T.vals[m], Len(T.keys[x]))
  BY DEF CutTop
<1>2. t # NullPage /\ x \in V.ids /\ V.leaves \subseteq V.ids
  BY <1>1 DEF Plain
<1>3. Topped(V, H, t) /\ Plain(H) /\ H.keys[t] = << >> /\ H.kids[t] = <<x>>
  <2> HIDE DEF H
  <2>1. H = Under(V, t)
    BY DEF H
  <2> QED BY <2>1, <1>1, <1>2, UnderTopped
<1> HIDE DEF H
<1>4. Ordered(H) /\ SameHeld(V, H)
  BY <1>3, TopOrdered
<1>5. /\ H.ids = V.ids \cup {t} /\ H.root = t /\ H.leaves = V.leaves
      /\ \A n \in V.ids : /\ H.keys[n] = V.keys[n] /\ H.vals[n] = V.vals[n]
                          /\ H.kids[n] = V.kids[n] /\ H.next[n] = V.next[n]
  BY <1>3 DEF Topped, Same
<1>6. Once(H, t, 1, x)
  <2>1. ASSUME NEW n \in H.ids, NEW j \in 1 .. Len(H.kids[n]), H.kids[n][j] = x
        PROVE  n = t /\ j = 1
    <3>1. CASE n = t
      BY <3>1, <2>1, <1>3
    <3>2. CASE n # t
      BY <3>2, <2>1, <1>5 DEF RootIsNoKid
    <3> QED BY <3>1, <3>2
  <2>2. x # H.root
    BY <1>1, <1>2, <1>5
  <2> QED BY <2>1, <2>2 DEF Once
<1>7. PutIn(H.keys[t], T.keys[t], 1, key)
  BY <1>1, <1>3 DEF PutIn
<1>8. PutIn(H.kids[t], T.kids[t], 1 + 1, m)
  <2>1. Len(H.kids[t]) = 1 /\ H.kids[t][1] = x /\ Len(T.kids[t]) = 2
        /\ T.kids[t][1] = x /\ T.kids[t][2] = m
    BY <1>1, <1>3
  <2> QED BY <2>1 DEF PutIn
<1>9. /\ Len(H.keys[x]) = Len(T.keys[x]) + d + Len(T.keys[m])
      /\ Part(H.keys[x], T.keys[x], 0) /\ Part(H.keys[x], T.keys[m], Len(T.keys[x]) + d)
      /\ d = 1 => H.keys[x][Len(T.keys[x]) + 1] = T.keys[t][1]
  <2>1. T.keys[t][1] = key /\ H.keys[x] = V.keys[x]
    BY <1>1, <1>2, <1>5
  <2> QED BY <2>1, <1>1 DEF InParts
<1>10. /\ Len(H.kids[x]) = Len(T.kids[x]) + Len(T.kids[m])
       /\ Part(H.kids[x], T.kids[x], 0) /\ Part(H.kids[x], T.kids[m], Len(T.kids[x]))
  <2>1. /\ Len(V.kids[x]) = Len(T.kids[x]) + 0 + Len(T.kids[m])
        /\ Part(V.kids[x], T.kids[x], 0) /\ Part(V.kids[x], T.kids[m], Len(T.kids[x]) + 0)
    BY <1>1 DEF InParts
  <2>2. x \in T.ids
    BY <1>1, <1>2
  <2>3. Len(T.kids[x]) \in Nat
    BY <2>2, PlainFacts
  <2>4. Len(T.kids[x]) + 0 = Len(T.kids[x])
    BY <2>3
  <2> QED BY <2>1, <2>4, <1>2, <1>5
<1>11. d = 0 => /\ T.next[m] = H.next[x]
                /\ Part(H.vals[x], T.vals[x], 0) /\ Part(H.vals[x], T.vals[m], Len(T.keys[x]))
  BY <1>1, <1>2, <1>5
<1>12. \A n \in H.ids \ {t, x} : Same(H, T, n)
  BY <1>1, <1>5 DEF Same
<1>13. /\ t \in H.ids \ H.leaves /\ 1 \in 1 .. Len(H.kids[t]) /\ H.kids[t][1] = x /\ x # t
       /\ m \notin H.ids /\ T.ids = H.ids \cup {m} /\ T.root = H.root
  BY <1>1, <1>2, <1>3, <1>5
<1>14. /\ d = (IF x \in H.leaves THEN 0 ELSE 1)
       /\ T.leaves = (IF x \in H.leaves THEN H.leaves \cup {m} ELSE H.leaves)
  BY <1>1, <1>5
<1>15. Parted(H, T, t, 1, x, m, d)
  <2>1. \E e : PutIn(H.keys[t], T.keys[t], 1, e)
    BY <1>7
  <2> HIDE DEF x
  <2> QED BY <2>1, <1>8, <1>9, <1>10, <1>11, <1>12, <1>13, <1>14 DEF Parted
<1>16. CutInto(H, T, t, 1, x, m, d)
  BY <1>3, <1>6, <1>15 DEF CutInto
<1>17. CutsLeaf(T, t, 1, x, m, d) /\ (d = 0 => T.next[x] = m)
  <2>1. T.keys[t][1] = key
    BY <1>1
  <2> QED BY <2>1, <1>1 DEF CutsLeaf
<1> HIDE DEF x
<1>18. Ordered(T)
  BY <1>4, <1>16, <1>17, SplitOrdered
<1>19. SameHeld(H, T)
  BY <1>3, <1>15, PartedHolds
<1>20. SameHeld(V, T)
  BY <1>4, <1>19 DEF SameHeld
<1> QED BY <1>18, <1>20

\* A and B share what the root holds, with key between them.
ShareRoot(A, B, m, d, key) ==
  /\ d = (IF nodes[root].leaf THEN 0 ELSE 1)
  /\ InParts(nodes[root].keys, A.keys, B.keys, d, key)
  /\ InParts(nodes[root].kids, A.kids, B.kids, 0, 0)
  /\ d = 0 => /\ Len(A.keys) >= 1 /\ Len(B.keys) >= 1 /\ key = B.keys[1]
              /\ A.next = m /\ B.next = nodes[root].next
              /\ Part(nodes[root].vals, A.vals, 0)
              /\ Part(nodes[root].vals, B.vals, Len(A.keys))

\* The store f with its root cut into A and the new node m.
Doubled(f, A, m, B, t, key) ==
  Put(Put([f EXCEPT ![root] = A], m, B), t, Inner(<<key>>, <<root, m>>, NullPage))

\* What a root split does, told of the trees shown.
LEMMA RootCutShown ==
  ASSUME Tree(nodes, root), NEW m, NEW t, m \in Unused, t \in Unused, m # t,
         NEW key, NEW A, NEW B, NEW d, ShareRoot(A, B, m, d, key),
         NEW f, SameFields(f), NEW g, g = Doubled(f, A, m, B, t, key), TallerTree(g, m, t),
         NEW V, Shows(V, nodes, root), NEW T, Shows(T, g, t)
  PROVE  CutTop(T, V, m, t, d, key)
<1>1. root \in DOMAIN nodes /\ m \notin DOMAIN nodes /\ t \notin DOMAIN nodes /\ root # m /\ root # t
  BY TreeFacts DEF Unused
<1>2. /\ DOMAIN f = DOMAIN nodes
      /\ \A n \in DOMAIN nodes : /\ f[n].keys = nodes[n].keys /\ f[n].vals = nodes[n].vals
                                 /\ f[n].kids = nodes[n].kids /\ f[n].next = nodes[n].next
  BY DEF SameFields
<1>3. /\ DOMAIN g = DOMAIN nodes \cup {m, t}
      /\ g[root] = A /\ g[m] = B /\ g[t] = Inner(<<key>>, <<root, m>>, NullPage)
      /\ \A n \in DOMAIN nodes \ {root} : g[n] = f[n]
  BY <1>1, <1>2 DEF Put, Doubled
<1>4. g[t].keys = <<key>> /\ g[t].kids = <<root, m>>
  BY <1>3 DEF Inner
<1>5. /\ \A n \in DOMAIN nodes : g[n].leaf = nodes[n].leaf
      /\ g[m].leaf = nodes[root].leaf /\ ~g[t].leaf
  BY DEF TallerTree
<1>6. /\ V.ids = DOMAIN nodes /\ V.root = root
      /\ V.leaves \subseteq V.ids /\ \A n \in DOMAIN nodes : n \in V.leaves <=> nodes[n].leaf
      /\ \A n \in DOMAIN nodes : /\ V.keys[n] = nodes[n].keys /\ V.vals[n] = nodes[n].vals
                                 /\ V.kids[n] = nodes[n].kids /\ V.next[n] = nodes[n].next
  BY DEF Shows
<1>7. /\ T.ids = DOMAIN g /\ T.root = t
      /\ T.leaves \subseteq T.ids /\ \A n \in DOMAIN g : n \in T.leaves <=> g[n].leaf
      /\ \A n \in DOMAIN g : /\ T.keys[n] = g[n].keys /\ T.vals[n] = g[n].vals
                             /\ T.kids[n] = g[n].kids /\ T.next[n] = g[n].next
  BY DEF Shows
<1>8. T.leaves = IF V.root \in V.leaves THEN V.leaves \cup {m} ELSE V.leaves
  <2>1. \A n \in DOMAIN nodes : n \in T.leaves <=> n \in V.leaves
    BY <1>3, <1>5, <1>6, <1>7
  <2>2. m \in T.leaves <=> V.root \in V.leaves
    BY <1>1, <1>3, <1>5, <1>6, <1>7
  <2>3. t \notin T.leaves
    BY <1>3, <1>5, <1>7
  <2>4. T.leaves \subseteq DOMAIN nodes \cup {m, t} /\ V.leaves \subseteq DOMAIN nodes
    BY <1>3, <1>6, <1>7
  <2>5. CASE V.root \in V.leaves
    BY <2>1, <2>2, <2>3, <2>4, <2>5
  <2>6. CASE V.root \notin V.leaves
    BY <2>1, <2>2, <2>3, <2>4, <2>6
  <2> QED BY <2>5, <2>6
<1>9. \A n \in V.ids \ {V.root} : Same(V, T, n)
  <2> TAKE n \in V.ids \ {V.root}
  <2>1. n \in DOMAIN nodes \ {root} /\ n \in DOMAIN g
    BY <1>3, <1>6
  <2>2. g[n].keys = nodes[n].keys /\ g[n].vals = nodes[n].vals
        /\ g[n].kids = nodes[n].kids /\ g[n].next = nodes[n].next
    BY <2>1, <1>2, <1>3
  <2> QED BY <2>1, <2>2, <1>6, <1>7 DEF Same
<1>10. T.keys[t] = <<key>> /\ T.kids[t] = <<V.root, m>>
  BY <1>3, <1>4, <1>6, <1>7
<1>11. /\ T.keys[root] = A.keys /\ T.kids[root] = A.kids /\ T.vals[root] = A.vals
       /\ T.next[root] = A.next /\ T.keys[m] = B.keys /\ T.kids[m] = B.kids
       /\ T.vals[m] = B.vals /\ T.next[m] = B.next
  BY <1>1, <1>3, <1>7
<1>12. /\ V.keys[root] = nodes[root].keys /\ V.kids[root] = nodes[root].kids
       /\ V.vals[root] = nodes[root].vals /\ V.next[root] = nodes[root].next
       /\ V.root = root /\ (root \in V.leaves <=> nodes[root].leaf)
  BY <1>1, <1>6
<1>13. /\ d = (IF V.root \in V.leaves THEN 0 ELSE 1)
       /\ InParts(V.keys[V.root], T.keys[V.root], T.keys[m], d, key)
       /\ InParts(V.kids[V.root], T.kids[V.root], T.kids[m], 0, 0)
  BY <1>11, <1>12 DEF ShareRoot
<1>14. d = 0 =>
       /\ Len(T.keys[V.root]) >= 1 /\ Len(T.keys[m]) >= 1 /\ key = T.keys[m][1]
       /\ T.next[V.root] = m /\ T.next[m] = V.next[V.root]
       /\ Part(V.vals[V.root], T.vals[V.root], 0)
       /\ Part(V.vals[V.root], T.vals[m], Len(T.keys[V.root]))
  BY <1>11, <1>12 DEF ShareRoot
<1> QED BY <1>1, <1>3, <1>6, <1>7, <1>8, <1>9, <1>10, <1>13, <1>14 DEF CutTop

\* A root split keeps a tree ordered, and what lookups find.
LEMMA RootCutKeepsOrder ==
  ASSUME Tree(nodes, root), NEW m, NEW t, m \in Unused, t \in Unused, m # t,
         NEW key, NEW A, NEW B, NEW d, ShareRoot(A, B, m, d, key),
         NEW f, SameFields(f), NEW g, g = Doubled(f, A, m, B, t, key), TallerTree(g, m, t),
         NEW V, Shows(V, nodes, root), NEW T, Shows(T, g, t), Ordered(V)
  PROVE  Ordered(T) /\ SameHeld(V, T)
<1>1. CutTop(T, V, m, t, d, key)
  BY RootCutShown
<1>2. Tree(g, t)
  BY DEF TallerTree
<1>3. Plain(V) /\ Plain(T)
  BY <1>2, ViewPlain
<1>4. RootIsNoKid(V)
  <2> SUFFICES ASSUME NEW n \in V.ids, NEW j \in 1 .. Len(V.kids[n])
               PROVE  V.kids[n][j] # V.root
    BY DEF RootIsNoKid
  <2>1. /\ V.ids = DOMAIN nodes /\ V.root = root /\ n \in DOMAIN nodes /\ V.kids[n] = nodes[n].kids
    BY DEF Shows
  <2>2. Kids(nodes, n) \subseteq DOMAIN nodes \ {root} /\ nodes[n].kids \in Seq(NodeId)
    BY <2>1, TreeFacts, NodeFields DEF WellFormed
  <2>3. nodes[n].kids[j] \in Kids(nodes, n)
    BY <2>1, <2>2, Positions DEF Kids
  <2> QED BY <2>1, <2>2, <2>3
<1> QED BY <1>1, <1>3, <1>4, RootCutOrdered

\* The root that is a leaf splits and the tree stays ordered,
LEMMA LeafRootSplitsOrdered ==
  ASSUME Shape, NEW n, LeafRootSplits(n),
         NEW V, Shows(V, nodes, root), NEW T, Shows(T, nodes', root'), Ordered(V)
  PROVE  Ordered(T) /\ SameHeld(V, T)
<1> DEFINE ks == nodes[root].keys
           vs == nodes[root].vals
           x == nodes[root].next
           c == Count(nodes[root])
           half == c \div 2
           a == half + 1
           m == NewNode
           t == NewRoot
           key == ks[half + 1]
           A == Leaf(SubSeq(ks, 1, half), SubSeq(vs, 1, half), t, m)
           B == Leaf(SubSeq(ks, a, c), SubSeq(vs, a, c), t, x)
<1>1. /\ Overflows(n) /\ IsRoot(n) /\ LeafNode(nodes[n]) /\ NumbersFor(2)
      /\ root' = t
  BY TreeFacts, Overflowing DEF LeafRootSplits, LeafNode, Shape
<1>2. n = root /\ Tree(nodes, root)
  BY <1>1, RootOverflows DEF Shape
<1>3. /\ ks \in Seq(Keys) /\ Len(ks) = c /\ c \in Nat
      /\ half \in Nat /\ half >= 2 /\ half + 2 <= c /\ c - half >= 2
      /\ key \in Keys
  BY <1>1, HalfPositions
<1>4. Len(vs) = c /\ vs \in Seq(RowIds) /\ nodes[root].kids = << >> /\ nodes[root].leaf
  BY <1>1, <1>2, NodeFields DEF LeafNode, WellFormed, Count
<1>5. m \in Unused /\ t \in Unused /\ m # t
  BY <1>1, NewNodes
<1>6. nodes' = Put(Put([nodes EXCEPT ![root] = A], m, B), t, Inner(<<key>>, <<root, m>>, NullPage))
  <2>1. nodes' = Put(Put([nodes EXCEPT ![root] =
                            Leaf(SubSeq(ks, 1, Len(ks) \div 2), SubSeq(vs, 1, Len(ks) \div 2), t, m)],
                         m, Leaf(SubSeq(ks, Len(ks) \div 2 + 1, Len(ks)),
                                 SubSeq(vs, Len(ks) \div 2 + 1, Len(vs)), t, x)),
                     t, Inner(<<ks[Len(ks) \div 2 + 1]>>, <<root, m>>, NullPage))
    BY <1>2 DEF LeafRootSplits, Top
  <2> HIDE DEF ks, vs, x, m, t
  <2> QED BY <2>1, <1>3, <1>4
<1>7. Within(ks, 1, half) /\ Within(ks, a, c)
  <2> HIDE DEF ks, c, half
  <2>1. 1 <= half /\ half <= c /\ a \in Nat /\ 1 <= a /\ a <= c
    BY <1>3
  <2> HIDE DEF a
  <2> QED BY <2>1, <1>3 DEF Within
<1>8. LeafHalves(nodes', ks, vs, x, half, a, c, A, m, B, t, key)
  BY <1>3, <1>6, <1>7 DEF LeafHalves
<1>9. /\ A.keys = SubSeq(ks, 1, half) /\ A.vals = SubSeq(vs, 1, half) /\ A.kids = << >> /\ A.next = m
      /\ B.keys = SubSeq(ks, a, c) /\ B.vals = SubSeq(vs, a, c) /\ B.kids = << >> /\ B.next = x
  BY DEF Leaf
<1> HIDE DEF A, B, c, half
<1>10. a = half + 0 + 1 /\ half + 0 <= c /\ a \in Nat
  BY <1>3
<1> HIDE DEF a
<1>11. /\ InParts(ks, A.keys, B.keys, 0, key)
       /\ Len(A.keys) = half /\ Len(B.keys) = c - half
  <2>1. /\ InParts(ks, SubSeq(ks, 1, half), SubSeq(ks, a, c), 0, key)
        /\ Len(SubSeq(ks, 1, half)) = half /\ Len(SubSeq(ks, a, c)) = c - half - 0
    <3>1. key = ks[half + 1]
      OBVIOUS
    <3> HIDE DEF ks, key
    <3> QED BY <3>1, <1>3, <1>10, SubParts
  <2>2. c - half - 0 = c - half
    BY <1>3
  <2> QED BY <2>1, <2>2, <1>9
<1>12. InParts(vs, A.vals, B.vals, 0, vs[half + 1]) /\ Len(A.vals) = half
  <2> HIDE DEF vs
  <2>1. /\ InParts(vs, SubSeq(vs, 1, half), SubSeq(vs, a, c), 0, vs[half + 1])
        /\ Len(SubSeq(vs, 1, half)) = half
    BY <1>3, <1>4, <1>10, SubParts
  <2> QED BY <2>1, <1>9
<1> HIDE DEF ks, vs, key, x
<1>13. key = B.keys[1]
  <2>1. Part(ks, B.keys, Len(A.keys) + 0)
    BY <1>11 DEF InParts
  <2>2. Len(A.keys) + 0 = half /\ 1 \in 1 .. Len(B.keys)
    BY <1>3, <1>11
  <2>3. B.keys[1] = ks[half + 1]
    BY <2>1, <2>2 DEF Part
  <2> QED BY <2>3 DEF key
<1>14. Part(vs, A.vals, 0) /\ Part(vs, B.vals, Len(A.keys))
  <2>1. Part(vs, A.vals, 0) /\ Part(vs, B.vals, Len(A.vals) + 0)
    BY <1>12 DEF InParts
  <2>2. Len(A.vals) + 0 = half /\ Len(A.keys) = half
    BY <1>3, <1>11, <1>12
  <2> QED BY <2>1, <2>2
<1>15. InParts(nodes[root].kids, A.kids, B.kids, 0, 0)
  <2> DEFINE e == << >>
  <2>1. Len(e) = 0
    OBVIOUS
  <2>2. nodes[root].kids = e /\ A.kids = e /\ B.kids = e
    BY <1>4, <1>9
  <2> HIDE DEF e
  <2>3. InParts(e, e, e, 0, 0)
    BY <2>1 DEF InParts, Part
  <2> QED BY <2>2, <2>3
<1>16. ShareRoot(A, B, m, 0, key)
  <2>1. Len(A.keys) >= 1 /\ Len(B.keys) >= 1
    BY <1>3, <1>11
  <2>2. nodes[root].keys = ks /\ nodes[root].vals = vs /\ nodes[root].next = x
    BY DEF ks, vs, x
  <2> QED BY <2>1, <2>2, <1>4, <1>9, <1>11, <1>13, <1>14, <1>15 DEF ShareRoot
<1> HIDE DEF m, t
<1>17. TallerTree(nodes', m, t)
  BY <1>2, <1>4, <1>5, <1>8, LeafHalvesKeep
<1>18. nodes' = Doubled(nodes, A, m, B, t, key)
  BY <1>6 DEF Doubled
<1>19. SameFields(nodes)
  BY DEF SameFields
<1>20. Shows(T, nodes', t)
  BY <1>1
<1> QED BY <1>2, <1>5, <1>16, <1>17, <1>18, <1>19, <1>20, RootCutKeepsOrder

\* and so does the root that is an internal node.
LEMMA InnerRootSplitsOrdered ==
  ASSUME Shape, NEW n, InnerRootSplits(n),
         NEW V, Shows(V, nodes, root), NEW T, Shows(T, nodes', root'), Ordered(V)
  PROVE  Ordered(T) /\ SameHeld(V, T)
<1> DEFINE ks == nodes[root].keys
           cs == nodes[root].kids
           c == Count(nodes[root])
           half == c \div 2
           a == half + 2
           e == half + 1
           m == NewNode
           t == NewRoot
           key == ks[half + 1]
           y == SubSeq(cs, a, Len(cs))
           x == SubSeq(cs, 1, e)
           A == Inner(SubSeq(ks, 1, half), x, t)
           B == Inner(SubSeq(ks, a, c), y, t)
<1>1. /\ Overflows(n) /\ IsRoot(n) /\ InnerNode(nodes[n]) /\ NumbersFor(2)
      /\ root' = t
  BY TreeFacts, Overflowing DEF InnerRootSplits, InnerNode, Shape
<1>2. n = root /\ Tree(nodes, root)
  BY <1>1, RootOverflows DEF Shape
<1>3. /\ ks \in Seq(Keys) /\ Len(ks) = c /\ c \in Nat
      /\ half \in Nat /\ half >= 2 /\ half + 2 <= c
      /\ key \in Keys
  BY <1>1, HalfPositions
<1>4. cs \in Seq(NodeId) /\ Len(cs) = c + 1 /\ IsInjective(cs)
  BY <1>1, <1>2, NodeFields DEF InnerNode, WellFormed, Count
<1>5. m \in Unused /\ t \in Unused /\ m # t
  BY <1>1, NewNodes
<1>6. nodes' = Put(Put([Reparent(nodes, Range(y), m) EXCEPT ![root] = A], m, B), t,
                   Inner(<<key>>, <<root, m>>, NullPage))
  <2>1. nodes' = Put(Put([Reparent(nodes, Range(SubSeq(cs, Len(ks) \div 2 + 2, Len(cs))), m)
                           EXCEPT ![root] = Inner(SubSeq(ks, 1, Len(ks) \div 2),
                                                  SubSeq(cs, 1, Len(ks) \div 2 + 1), t)],
                         m, Inner(SubSeq(ks, Len(ks) \div 2 + 2, Len(ks)),
                                  SubSeq(cs, Len(ks) \div 2 + 2, Len(cs)), t)),
                     t, Inner(<<ks[Len(ks) \div 2 + 1]>>, <<root, m>>, NullPage))
    BY <1>2 DEF InnerRootSplits, Top
  <2> HIDE DEF ks, cs, m, t
  <2> QED BY <2>1, <1>3
<1>7. a = e + 1 /\ e \in Nat /\ a \in Nat /\ e <= c + 1
  BY <1>3
<1>8. CutInTwo(cs, e, x, y)
  BY <1>4, <1>7 DEF CutInTwo
<1>9. KidsOf(NodeId, x, e) /\ KidsOf(NodeId, y, Len(cs) - e)
  BY <1>4, <1>8, TwoParts
<1>10. t \in NodeId \cup {NullPage}
  BY <1>5 DEF Unused
<1>11. AnInner(A, x, t)
  <2>1. 1 \in Nat /\ half \in Nat /\ 1 <= half + 1 /\ half <= Len(ks) /\ e = half - 1 + 2
    BY <1>3
  <2>2. x \in Seq(NodeId) /\ Len(x) = half - 1 + 2 /\ IsInjective(x)
    BY <2>1, <1>9 DEF KidsOf
  <2> HIDE DEF ks, x, t, c, half
  <2> QED BY <2>1, <2>2, <1>3, <1>10, InnerPart
<1>12. AnInner(B, y, t)
  <2>1. /\ a \in Nat /\ c \in Nat /\ 1 <= a /\ a <= c + 1 /\ c <= Len(ks)
        /\ Len(cs) - e = c - a + 2
    BY <1>3, <1>4, <1>7
  <2>2. y \in Seq(NodeId) /\ Len(y) = c - a + 2 /\ IsInjective(y)
    BY <2>1, <1>9 DEF KidsOf
  <2> HIDE DEF ks, y, t, c, half, a
  <2> QED BY <2>1, <2>2, <1>3, <1>10, InnerPart
<1>13. InnerHalves(nodes', cs, e, x, y, A, m, B, t, key)
  BY <1>3, <1>6, <1>8, <1>11, <1>12 DEF InnerHalves
<1>14. /\ A.keys = SubSeq(ks, 1, half) /\ A.kids = x
       /\ B.keys = SubSeq(ks, a, c) /\ B.kids = y
  BY DEF Inner
<1>15. /\ ~nodes[root].leaf /\ \A k \in DOMAIN nodes : WellFormed(nodes[k])
       /\ m \in NodeId
  BY <1>1, <1>2, <1>5, TreeFacts DEF InnerNode, Unused
<1> HIDE DEF A, B, c, half
<1>16. /\ a = half + 1 + 1 /\ half + 1 <= c /\ a \in Nat
       /\ a = e + 0 + 1 /\ e + 0 <= Len(cs) /\ e \in Nat
  BY <1>3, <1>4
<1> HIDE DEF a, e
<1>17. InParts(ks, A.keys, B.keys, 1, key)
  <2>1. InParts(ks, SubSeq(ks, 1, half), SubSeq(ks, a, c), 1, key)
    <3>1. key = ks[half + 1]
      OBVIOUS
    <3> HIDE DEF ks, key
    <3> QED BY <3>1, <1>3, <1>16, SubParts
  <2> QED BY <2>1, <1>14
<1>18. InParts(cs, A.kids, B.kids, 0, 0)
  <2>1. InParts(cs, x, y, 0, cs[e + 1])
    <3> HIDE DEF cs
    <3> QED BY <1>4, <1>16, SubParts DEF x, y
  <2>2. InParts(cs, x, y, 0, 0)
    <3> HIDE DEF cs, x, y
    <3> QED BY <2>1 DEF InParts
  <2> QED BY <2>2, <1>14
<1> HIDE DEF ks, cs, key, x, y
<1>19. ShareRoot(A, B, m, 1, key)
  BY <1>15, <1>17, <1>18 DEF ShareRoot, ks, cs
<1> DEFINE f == Reparent(nodes, Range(y), m)
<1>20. SameFields(f)
  <2>1. f = Reparent(nodes, Range(y), m)
    OBVIOUS
  <2> HIDE DEF f, m
  <2> QED BY <2>1, <1>15, ReparentFacts DEF SameFields
<1> HIDE DEF m, t
<1>21. TallerTree(nodes', m, t)
  BY <1>2, <1>5, <1>13, <1>15, InnerHalvesKeep
<1>22. nodes' = Doubled(f, A, m, B, t, key)
  BY <1>6 DEF Doubled
<1>23. Shows(T, nodes', t)
  BY <1>1
<1> HIDE DEF f
<1> QED BY <1>2, <1>5, <1>19, <1>20, <1>21, <1>22, <1>23, RootCutKeepsOrder

-----------------------------------------------------------------------------
(* The steps of rebalancing *)

\* T is as ordered as V and holds the same.
Keeps(V, T) == Ordered(T) /\ SameHeld(V, T)

\* A step of the tree from what V shows to what T shows.
StepsTo(V, T) == Shows(V, nodes, root) /\ Ordered(V) /\ Shows(T, nodes', root')

\* A step that passes a key to the right,
LEMMA RightPassKeepsOrder ==
  ASSUME Tree(nodes, root), NEW p, NEW i, NEW l, NEW r, Adjacent(p, i, l, r),
         Count(nodes[l]) >= 1, nodes[l].leaf => Count(nodes[l]) >= 2,
         nodes' = ShiftRight(p, i), root' = root,
         NEW V, NEW T, StepsTo(V, T)
  PROVE  Keeps(V, T)
<1>1. Shows(V, nodes, root) /\ Ordered(V) /\ Shows(T, nodes', root)
  BY DEF StepsTo
<1>2. nodes[l].keys # << >>
  <2>1. Len(<< >>) = 0
    OBVIOUS
  <2> QED BY <2>1 DEF Count
<1>3. nodes[l].leaf => Len(nodes[l].keys) >= 2
  BY DEF Count
<1> DEFINE g == nodes'
<1>4. g = ShiftRight(p, i) /\ Shows(T, g, root)
  BY <1>1
<1> HIDE DEF g
<1>5. Ordered(T) /\ SameHeld(V, T)
  BY <1>1, <1>2, <1>3, <1>4, ShiftRightOrdered
<1> QED BY <1>5 DEF Keeps

\* and one that passes a key to the left, keep the order.
LEMMA LeftPassKeepsOrder ==
  ASSUME Tree(nodes, root), NEW p, NEW i, NEW l, NEW r, Adjacent(p, i, l, r),
         Count(nodes[r]) >= 1, nodes[r].leaf => Count(nodes[r]) >= 2,
         nodes' = ShiftLeft(p, i), root' = root,
         NEW V, NEW T, StepsTo(V, T)
  PROVE  Keeps(V, T)
<1>1. Shows(V, nodes, root) /\ Ordered(V) /\ Shows(T, nodes', root)
  BY DEF StepsTo
<1>2. nodes[r].keys # << >>
  <2>1. Len(<< >>) = 0
    OBVIOUS
  <2> QED BY <2>1 DEF Count
<1>3. nodes[r].leaf => Len(nodes[r].keys) >= 2
  BY DEF Count
<1> DEFINE g == nodes'
<1>4. g = ShiftLeft(p, i) /\ Shows(T, g, root)
  BY <1>1
<1> HIDE DEF g
<1>5. Ordered(T) /\ SameHeld(V, T)
  BY <1>1, <1>2, <1>3, <1>4, ShiftLeftOrdered
<1> QED BY <1>5 DEF Keeps

\* A node that passes a key on has two or more.
LEMMA PassesOrder ==
  ASSUME Shape, NEW n, Known(n), NEW V, NEW T, StepsTo(V, T), root' = root
  PROVE  /\ HasLeft(n) /\ nodes' = ShiftLeft(nodes[n].parent, Index(n) - 1)
              /\ Count(nodes[n]) >= 1 /\ (nodes[n].leaf => Count(nodes[n]) >= 2) => Keeps(V, T)
         /\ HasRight(n) /\ nodes' = ShiftRight(nodes[n].parent, Index(n))
              /\ Count(nodes[n]) >= 1 /\ (nodes[n].leaf => Count(nodes[n]) >= 2) => Keeps(V, T)
         /\ HasLeft(n) /\ nodes' = ShiftRight(nodes[n].parent, Index(n) - 1)
              /\ Count(nodes[Left(n)]) >= 1
              /\ (nodes[Left(n)].leaf => Count(nodes[Left(n)]) >= 2) => Keeps(V, T)
         /\ HasRight(n) /\ nodes' = ShiftLeft(nodes[n].parent, Index(n))
              /\ Count(nodes[Right(n)]) >= 1
              /\ (nodes[Right(n)].leaf => Count(nodes[Right(n)]) >= 2) => Keeps(V, T)
<1> DEFINE p == nodes[n].parent
<1>1. Tree(nodes, root)
  BY DEF Shape
<1>2. ChildOf(n, p)
  BY <1>1, KnownIndex
<1>3. HasLeft(n) => Adjacent(p, Index(n) - 1, Left(n), n)
  BY <1>2, LeftOf
<1>4. HasRight(n) => Adjacent(p, Index(n), n, Right(n))
  BY <1>2, RightOf
<1> QED BY <1>1, <1>3, <1>4, LeftPassKeepsOrder, RightPassKeepsOrder

\* redistributeOrSplitLeaf hands a key to a sibling and keeps the order.
LEMMA LeafGivesOrdered ==
  ASSUME Shape, NEW n, LeafGivesLeft(n) \/ LeafGivesRight(n), NEW V, NEW T, StepsTo(V, T)
  PROVE  Keeps(V, T)
<1>1. Overflows(n) /\ Known(n) /\ root' = root
  BY DEF LeafGivesLeft, LeafGivesRight
<1>2. Count(nodes[n]) >= 1 /\ Count(nodes[n]) >= 2
  BY <1>1, Overflowing, Limits
<1>3. CASE LeafGivesLeft(n)
  <2>1. HasLeft(n) /\ nodes' = ShiftLeft(nodes[n].parent, Index(n) - 1)
    BY <1>3 DEF LeafGivesLeft
  <2> QED BY <2>1, <1>1, <1>2, PassesOrder
<1>4. CASE LeafGivesRight(n)
  <2>1. HasRight(n) /\ nodes' = ShiftRight(nodes[n].parent, Index(n))
    BY <1>4 DEF LeafGivesRight
  <2> QED BY <2>1, <1>1, <1>2, PassesOrder
<1> QED BY <1>3, <1>4

\* tryBorrowLeft and tryBorrowRight keep the order.
LEMMA BorrowOrdered ==
  ASSUME Shape, NEW n, tryBorrowLeft(n) \/ tryBorrowRight(n), NEW V, NEW T, StepsTo(V, T)
  PROVE  Keeps(V, T)
<1> DEFINE p == nodes[n].parent
<1>1. Underflows(n) /\ Known(n) /\ root' = root
  BY DEF tryBorrowLeft, tryBorrowRight
<1>2. Tree(nodes, root) /\ ChildOf(n, p)
  BY <1>1, KnownIndex DEF Shape
<1>3. CASE tryBorrowLeft(n)
  <2>1. /\ HasLeft(n) /\ Spares(Left(n))
        /\ nodes' = ShiftRight(p, Index(n) - 1)
    BY <1>3 DEF tryBorrowLeft
  <2>2. Left(n) \in DOMAIN nodes \ {root} /\ Left(n) # n /\ nodes[Left(n)].leaf = nodes[n].leaf
    BY <2>1, <1>2, LeftOf, Neighbours
  <2>3. Count(nodes[Left(n)]) >= 2 /\ Count(nodes[Left(n)]) >= 1
    BY <2>1, <2>2, <1>1, UnderflowTakes
  <2> QED BY <2>1, <2>3, <1>1, PassesOrder
<1>4. CASE tryBorrowRight(n)
  <2>1. /\ HasRight(n) /\ Spares(Right(n))
        /\ nodes' = ShiftLeft(p, Index(n))
    BY <1>4 DEF tryBorrowRight
  <2>2. Right(n) \in DOMAIN nodes \ {root} /\ Right(n) # n /\ nodes[Right(n)].leaf = nodes[n].leaf
    BY <2>1, <1>2, RightOf, Neighbours
  <2>3. Count(nodes[Right(n)]) >= 2 /\ Count(nodes[Right(n)]) >= 1
    BY <2>1, <2>2, <1>1, UnderflowTakes
  <2> QED BY <2>1, <2>3, <1>1, PassesOrder
<1> QED BY <1>3, <1>4

\* Two records that show the same tree.
LEMMA SameShown ==
  ASSUME NEW V, NEW T, NEW f, NEW r, Shows(V, f, r), Shows(T, f, r), Tree(f, r), Ordered(V)
  PROVE  Keeps(V, T)
<1>1. /\ T.ids = V.ids /\ T.root = V.root
      /\ V.leaves \subseteq V.ids /\ T.leaves \subseteq V.ids
      /\ \A n \in V.ids : n \in T.leaves <=> n \in V.leaves
      /\ \A n \in V.ids : Same(V, T, n)
  BY DEF Shows, Same
<1>2. T.leaves = V.leaves
  BY <1>1
<1>3. Plain(T) /\ Plain(V)
  BY ViewPlain
<1>4. \A n \in V.ids : T.keys[n] = V.keys[n] /\ T.vals[n] = V.vals[n]
                       /\ T.kids[n] = V.kids[n] /\ T.next[n] = V.next[n]
  BY <1>1 DEF Same
<1>5. Ordered(T)
  <2>1. PICK span : Spans(V, span) /\ Linking(V, span)
    BY DEF Ordered
  <2>2. Spans(T, span)
    BY <2>1, <1>1, <1>2, <1>4 DEF Spans
  <2>3. Linking(T, span)
    <3>1. \A n \in V.leaves : T.next[n] = V.next[n]
      BY <1>1, <1>4
    <3> QED BY <2>1, <3>1, <1>2 DEF Linking
  <2> QED BY <2>2, <2>3, <1>3 DEF Ordered
<1>6. SameHeld(V, T)
  <2>1. \A n \in V.leaves : T.keys[n] = V.keys[n] /\ T.vals[n] = V.vals[n]
    BY <1>1, <1>4
  <2> QED BY <2>1, <1>2 DEF SameHeld, Holds
<1> QED BY <1>5, <1>6 DEF Keeps

\* A step that leaves the store alone keeps the order.
LEMMA StillOrdered ==
  ASSUME Shape, nodes' = nodes, root' = root, NEW V, NEW T, StepsTo(V, T)
  PROVE  Keeps(V, T)
<1>1. Shows(V, nodes, root) /\ Ordered(V) /\ Shows(T, nodes, root)
  BY DEF StepsTo
<1> QED BY <1>1, SameShown DEF Shape

\* redistributeOrSplitInternal takes a key from a sibling and keeps the order.
LEMMA InnerTakesOrdered ==
  ASSUME Shape, NEW n, InnerTakesLeft(n) \/ InnerTakesRight(n), NEW V, NEW T, StepsTo(V, T)
  PROVE  Keeps(V, T)
<1> DEFINE p == nodes[n].parent
<1>1. Overflows(n) /\ ~nodes[n].leaf /\ Known(n) /\ root' = root
  BY DEF InnerTakesLeft, InnerTakesRight
<1>2. Tree(nodes, root) /\ ChildOf(n, p)
  BY <1>1, KnownIndex DEF Shape
<1>3. ASSUME NEW o, WellFormed(nodes[o]), nodes[o].keys # << >>
      PROVE  Count(nodes[o]) >= 1
  <2>1. nodes[o].keys \in Seq(Keys)
    BY <1>3, NodeFields DEF WellFormed
  <2> QED BY <2>1, <1>3, EmptySeq, LenProperties DEF Count
<1>4. CASE InnerTakesLeft(n)
  <2>1. /\ HasLeft(n)
        /\ IF nodes[Left(n)].keys = << >> THEN nodes' = nodes
           ELSE nodes' = ShiftRight(p, Index(n) - 1)
    BY <1>4 DEF InnerTakesLeft
  <2>2. nodes[Left(n)].leaf = nodes[n].leaf /\ WellFormed(nodes[Left(n)])
    BY <2>1, <1>2, LeftOf, Neighbours
  <2>3. CASE nodes[Left(n)].keys = << >>
    BY <2>1, <2>3, <1>1, StillOrdered
  <2>4. CASE nodes[Left(n)].keys # << >>
    <3>1. Count(nodes[Left(n)]) >= 1
      BY <2>2, <2>4, <1>3
    <3> QED BY <2>1, <2>2, <2>4, <3>1, <1>1, PassesOrder
  <2> QED BY <2>3, <2>4
<1>5. CASE InnerTakesRight(n)
  <2>1. /\ HasRight(n)
        /\ IF nodes[Right(n)].keys = << >> THEN nodes' = nodes
           ELSE nodes' = ShiftLeft(p, Index(n))
    BY <1>5 DEF InnerTakesRight
  <2>2. nodes[Right(n)].leaf = nodes[n].leaf /\ WellFormed(nodes[Right(n)])
    BY <2>1, <1>2, RightOf, Neighbours
  <2>3. CASE nodes[Right(n)].keys = << >>
    BY <2>1, <2>3, <1>1, StillOrdered
  <2>4. CASE nodes[Right(n)].keys # << >>
    <3>1. Count(nodes[Right(n)]) >= 1
      BY <2>2, <2>4, <1>3
    <3> QED BY <2>1, <2>2, <2>4, <3>1, <1>1, PassesOrder
  <2> QED BY <2>3, <2>4
<1> QED BY <1>4, <1>5

\* A leaf that splits with its right sibling keeps the order,
LEMMA LeafSplitsOrdered ==
  ASSUME Shape, NEW n, LeafSplitsRight(n), NEW V, NEW T, StepsTo(V, T)
  PROVE  Keeps(V, T)
<1> DEFINE p == nodes[n].parent
           i == Index(n)
           o == Right(n)
<1>1. /\ Overflows(n) /\ nodes[n].leaf /\ Known(n) /\ HasRight(n) /\ Full(o)
      /\ NumbersFor(1)
      /\ nodes' = LeafThirds(p, i, 2) /\ root' = root
  BY DEF LeafSplitsRight, NoRoom
<1>2. Tree(nodes, root)
  BY DEF Shape
<1>3. Adjacent(p, i, n, o)
  BY <1>1, <1>2, KnownIndex, RightOf
<1>4. LeafNode(nodes[n]) /\ WellFormed(nodes[o])
  BY <1>2, <1>3, <1>1, Neighbours DEF LeafNode
<1>5. NewNode \in Unused
  BY <1>1, NewNodes
<1>6. Count(nodes[n]) \in Nat /\ Count(nodes[n]) > MaxKeys
  BY <1>1, Overflowing
<1>7. Count(nodes[o]) \in Nat /\ Count(nodes[o]) >= MaxKeys
  BY <1>1, <1>4, NodeFields, LenProperties DEF WellFormed, Count, Full
<1>8. PICK t \in Nat, n1 \in Nat, n2 \in Nat, n3 \in Nat :
        t = Count(nodes[n]) + Count(nodes[o]) /\ Thirds(t, n1, n2, n3)
  BY <1>6, <1>7, ThirdsFit
<1>9. KeysInBoth(n, o, t)
  BY <1>8 DEF KeysInBoth, Count
<1> DEFINE g == nodes'
<1>10. g = LeafThirds(p, i, 2) /\ Shows(T, g, root) /\ Shows(V, nodes, root) /\ Ordered(V)
  BY <1>1 DEF StepsTo
<1> HIDE DEF g, p, i, o
<1>11. Ordered(T) /\ SameHeld(V, T)
  BY <1>2, <1>3, <1>4, <1>5, <1>8, <1>9, <1>10, LeafThirdsOrdered
<1> QED BY <1>11 DEF Keeps

\* and so does an internal node.
LEMMA InnerSplitsOrdered ==
  ASSUME Shape, NEW n, InnerSplitsRight(n), NEW V, NEW T, StepsTo(V, T)
  PROVE  Keeps(V, T)
<1> DEFINE p == nodes[n].parent
           i == Index(n)
           o == Right(n)
           place == i + 1
<1>1. /\ Overflows(n) /\ ~nodes[n].leaf /\ Known(n) /\ HasRight(n)
      /\ NumbersFor(1)
      /\ nodes' = InnerThirds(p, i, place) /\ root' = root
  BY DEF InnerSplitsRight, NoRoom
<1>2. Tree(nodes, root)
  BY DEF Shape
<1>3. Adjacent(p, i, n, o)
  BY <1>1, <1>2, KnownIndex, RightOf
<1>4. WellFormed(nodes[o])
  BY <1>2, <1>3, Neighbours
<1>5. NewNode \in Unused
  BY <1>1, NewNodes
<1>6. Count(nodes[n]) \in Nat /\ Count(nodes[n]) > MaxKeys
  BY <1>1, Overflowing
<1>7. Count(nodes[o]) \in Nat
  BY <1>4, NodeFields, LenProperties DEF WellFormed, Count
<1>8. PICK t \in Nat :
        /\ t = Count(nodes[n]) + Count(nodes[o])
        /\ \E k1, k2, k3 : InnerShares(t + 1, k1, k2, k3)
  BY <1>6, <1>7, SharesExist
<1>9. KeysInBoth(n, o, t)
  BY <1>8 DEF KeysInBoth, Count
<1>10. PICK k1, k2, k3 : InnerShares(t + 1, k1, k2, k3)
  BY <1>8
<1> DEFINE g == nodes'
<1>11. g = InnerThirds(p, i, place) /\ Shows(T, g, root) /\ Shows(V, nodes, root) /\ Ordered(V)
  BY <1>1 DEF StepsTo
<1>12. place = i + 1
  OBVIOUS
<1> HIDE DEF g, p, i, o, place
<1>13. Ordered(T) /\ SameHeld(V, T)
  BY <1>1, <1>2, <1>3, <1>5, <1>9, <1>10, <1>11, <1>12, InnerThirdsOrdered
<1> QED BY <1>13 DEF Keeps

\* The root p left with the child l alone gives way to it.
LEMMA CollapsedOrdered ==
  ASSUME NEW f, NEW r, Tree(f, r), Emptied(f[r]), NEW l \in Kids(f, r),
         NEW g, g = Collapsed(f, r, l),
         NEW V, Shows(V, f, r), Ordered(V), NEW T, Shows(T, g, l)
  PROVE  Keeps(V, T)
<1>1. ShorterTree(g, f, r, l)
  BY CollapseKeeps
<1>2. /\ Tree(g, l) /\ DOMAIN g = DOMAIN f \ {r} /\ l \in DOMAIN g
      /\ \A n \in DOMAIN g : g[n].leaf = f[n].leaf
  BY <1>1 DEF ShorterTree
<1>3. ~f[r].leaf /\ f[r].keys = << >> /\ r \in DOMAIN f /\ WellFormed(f[r])
      /\ \A n \in DOMAIN f : WellFormed(f[n])
  BY TreeFacts DEF Emptied
<1>4. Len(f[r].keys) = 0 /\ Len(f[r].kids) = 1 /\ f[r].kids[1] = l
  <2>1. Len(f[r].keys) = 0
    BY <1>3
  <2>2. f[r].kids \in Seq(NodeId) /\ Len(f[r].kids) = 1
    BY <1>3, <2>1, NodeFields DEF WellFormed
  <2>3. Kids(f, r) = {f[r].kids[j] : j \in 1 .. Len(f[r].kids)}
    BY <2>2, Positions DEF Kids
  <2>4. Kids(f, r) = {f[r].kids[1]}
    BY <2>2, <2>3
  <2> QED BY <2>1, <2>2, <2>4
<1>5. \A n \in DOMAIN g : /\ g[n].keys = f[n].keys /\ g[n].vals = f[n].vals
                          /\ g[n].kids = f[n].kids /\ g[n].next = f[n].next
  <2>1. l \in DOMAIN f \ {r}
    BY <1>2
  <2>2. g[l] = [f[l] EXCEPT !.parent = NullPage] /\ \A n \in DOMAIN g \ {l} : g[n] = f[n]
    BY <2>1, <1>2 DEF Collapsed, Without
  <2>3. WellFormed(f[l])
    BY <2>1, <1>3
  <2>4. g[l].keys = f[l].keys /\ g[l].vals = f[l].vals /\ g[l].kids = f[l].kids /\ g[l].next = f[l].next
    <3> DEFINE N == f[l]
    <3>1. WellFormed(N) /\ g[l] = [N EXCEPT !.parent = NullPage]
      BY <2>2, <2>3
    <3> HIDE DEF N
    <3>2. LET M == [N EXCEPT !.parent = NullPage]
          IN  M.keys = N.keys /\ M.vals = N.vals /\ M.kids = N.kids /\ M.next = N.next
      BY <3>1, ParentSet
    <3> QED BY <3>1, <3>2 DEF N
  <2> QED BY <2>2, <2>4
<1>6. Topped(T, V, r)
  <2>1. /\ T.ids = DOMAIN g /\ T.root = l /\ V.ids = DOMAIN f /\ V.root = r
        /\ T.leaves \subseteq T.ids /\ V.leaves \subseteq V.ids
    BY DEF Shows
  <2>2. r \notin T.ids /\ V.ids = T.ids \cup {r}
    BY <2>1, <1>2, <1>3
  <2>3. \A n \in DOMAIN g : n \in V.leaves <=> n \in T.leaves
    BY <1>2 DEF Shows
  <2>4. r \notin V.leaves
    BY <1>3 DEF Shows
  <2>5. V.leaves = T.leaves
    BY <2>1, <2>2, <2>3, <2>4
  <2>6. \A n \in T.ids : Same(T, V, n)
    BY <2>1, <1>2, <1>5 DEF Shows, Same
  <2>7. Len(V.keys[r]) = 0 /\ Len(V.kids[r]) = 1 /\ V.kids[r][1] = T.root
    BY <2>1, <1>3, <1>4 DEF Shows
  <2> QED BY <2>1, <2>2, <2>5, <2>6, <2>7 DEF Topped
<1>7. Plain(T) /\ Plain(V)
  BY <1>2, ViewPlain
<1>8. Ordered(T) /\ SameHeld(T, V)
  BY <1>6, <1>7, TopOrdered
<1> QED BY <1>8 DEF Keeps, SameHeld

\* A merge keeps the order, also where it replaces the root:
LEMMA MergeKeepsOrder ==
  ASSUME Shape, NEW p, NEW i, NEW l, NEW r, Adjacent(p, i, l, r), Merge(p, i),
         NEW V, NEW T, StepsTo(V, T)
  PROVE  Keeps(V, T)
<1> DEFINE g == Merged(p, i)
<1>1. /\ Tree(nodes, root) /\ g = Merged(p, i) /\ l = nodes[p].kids[i] /\ p \in DOMAIN nodes
      /\ Shows(V, nodes, root) /\ Ordered(V) /\ Shows(T, nodes', root')
  BY DEF Shape, Adjacent, StepsTo
<1>2. \/ nodes' = g /\ root' = root
      \/ IsRoot(p) /\ g[p].keys = << >> /\ nodes' = Collapsed(g, p, l) /\ root' = l
  BY <1>1 DEF Merge, Collapsed
<1> HIDE DEF g
<1>3. MergedInto(g, p, l, r)
  BY <1>1, MergedKeeps
<1>4. Tree(g, root) /\ p \in DOMAIN g /\ l \in Kids(g, p) /\ ~g[p].leaf
  BY <1>3 DEF MergedInto
<1> DEFINE W == View(g, root)
           d == IF l \in V.leaves THEN 0 ELSE 1
<1>5. Shows(W, g, root)
  BY ViewShows
<1>6. Kind(V, l, d)
  BY DEF Kind
<1> HIDE DEF W, d
<1>7. Mergeable(W, V, p, i, l, r, d)
  BY <1>1, <1>5, <1>6, MergedMergeable
<1>8. Ordered(W) /\ SameHeld(W, V)
  BY <1>1, <1>7, MergeOrdered
<1>9. CASE nodes' = g /\ root' = root
  <2>1. Shows(T, g, root)
    BY <1>1, <1>9
  <2>2. Keeps(W, T)
    BY <2>1, <1>4, <1>5, <1>8, SameShown
  <2> QED BY <2>2, <1>8 DEF Keeps, SameHeld
<1>10. CASE IsRoot(p) /\ g[p].keys = << >> /\ nodes' = Collapsed(g, p, l) /\ root' = l
  <2>1. p = root
    BY <1>1, <1>10 DEF IsRoot, Tree, Rooted
  <2>2. Tree(g, p) /\ Emptied(g[p]) /\ Shows(W, g, p)
    BY <2>1, <1>4, <1>5, <1>10 DEF Emptied
  <2> DEFINE c == nodes'
  <2>3. c = Collapsed(g, p, l) /\ Shows(T, c, l)
    BY <1>1, <1>10
  <2> HIDE DEF c
  <2>4. Keeps(W, T)
    BY <2>2, <2>3, <1>4, <1>8, CollapsedOrdered
  <2> QED BY <2>4, <1>8 DEF Keeps, SameHeld
<1> QED BY <1>2, <1>9, <1>10

\* mergeWithLeft and mergeWithRight.
LEMMA MergesOrdered ==
  ASSUME Shape, NEW n, mergeWithLeft(n) \/ mergeWithRight(n), NEW V, NEW T, StepsTo(V, T)
  PROVE  Keeps(V, T)
<1> DEFINE p == nodes[n].parent
<1>1. Known(n) /\ Tree(nodes, root)
  BY DEF Shape, mergeWithLeft, mergeWithRight
<1>2. ChildOf(n, p)
  BY <1>1, KnownIndex
<1>3. CASE mergeWithLeft(n)
  <2>1. HasLeft(n) /\ Merge(p, Index(n) - 1)
    BY <1>3 DEF mergeWithLeft
  <2>2. Adjacent(p, Index(n) - 1, Left(n), n)
    BY <2>1, <1>2, LeftOf
  <2> QED BY <2>1, <2>2, MergeKeepsOrder
<1>4. CASE mergeWithRight(n)
  <2>1. HasRight(n) /\ Merge(p, Index(n))
    BY <1>4 DEF mergeWithRight
  <2>2. Adjacent(p, Index(n), n, Right(n))
    BY <2>1, <1>2, RightOf
  <2> QED BY <2>1, <2>2, MergeKeepsOrder
<1> QED BY <1>3, <1>4

\* Both kinds of root splits keep the order.
LEMMA RootSplitsOrdered ==
  ASSUME Shape, NEW n, LeafRootSplits(n) \/ InnerRootSplits(n), NEW V, NEW T, StepsTo(V, T)
  PROVE  Keeps(V, T)
<1>1. Shows(V, nodes, root) /\ Ordered(V) /\ Shows(T, nodes', root')
  BY DEF StepsTo
<1> QED BY <1>1, LeafRootSplitsOrdered, InnerRootSplitsOrdered DEF Keeps

\* A step that rebalances a tree and misplaces nothing keeps it ordered, and
\* what it holds.
LEMMA RebalanceOrdered ==
  ASSUME Shape, Rebalance, sound', NEW V, NEW T, StepsTo(V, T)
  PROVE  Keeps(V, T)
<1>1. PICK n \in DOMAIN nodes :
        \/ LeafRootSplits(n) \/ InnerRootSplits(n)
        \/ LeafGivesLeft(n) \/ LeafGivesRight(n)
        \/ LeafSplitsRight(n) \/ LeafSplitsLeft(n)
        \/ InnerTakesLeft(n) \/ InnerTakesRight(n)
        \/ InnerSplitsRight(n) \/ InnerSplitsLeft(n)
        \/ SplitsWithNobody(n) \/ ParentUnaware(n)
        \/ tryBorrowLeft(n) \/ tryBorrowRight(n)
        \/ mergeWithLeft(n) \/ mergeWithRight(n) \/ mergeWithNobody(n)
  BY DEF Rebalance
<1>2. CASE LeafRootSplits(n) \/ InnerRootSplits(n)
  BY <1>2, RootSplitsOrdered
<1>3. CASE LeafGivesLeft(n) \/ LeafGivesRight(n)
  BY <1>3, LeafGivesOrdered
<1>4. CASE LeafSplitsRight(n)
  BY <1>4, LeafSplitsOrdered
<1>5. CASE LeafSplitsLeft(n) \/ InnerSplitsLeft(n)
  <2>1. "misplaced" \in harm'
    BY <1>5 DEF LeafSplitsLeft, InnerSplitsLeft
  <2> QED BY <2>1 DEF sound
<1>6. CASE InnerTakesLeft(n) \/ InnerTakesRight(n)
  BY <1>6, InnerTakesOrdered
<1>7. CASE InnerSplitsRight(n)
  BY <1>7, InnerSplitsOrdered
<1>8. CASE SplitsWithNobody(n) \/ ParentUnaware(n) \/ mergeWithNobody(n)
  <2>1. nodes' = nodes /\ root' = root
    BY <1>8 DEF SplitsWithNobody, ParentUnaware, mergeWithNobody
  <2> QED BY <2>1, StillOrdered
<1>9. CASE tryBorrowLeft(n) \/ tryBorrowRight(n)
  BY <1>9, BorrowOrdered
<1>10. CASE mergeWithLeft(n) \/ mergeWithRight(n)
  BY <1>10, MergesOrdered
<1> QED BY <1>1, <1>2, <1>3, <1>4, <1>5, <1>6, <1>7, <1>8, <1>9, <1>10

-----------------------------------------------------------------------------
(* What lookups find *)

\* A lookup goes down to the child whose separators lie around the key.
LEMMA ChildCovers ==
  ASSUME Tree(nodes, root), NEW n \in DOMAIN nodes, ~nodes[n].leaf, NEW k \in Int
  PROVE  \E j \in 1 .. Len(nodes[n].kids) :
           Child(n, k) = nodes[n].kids[j] /\ Covers(nodes[n].keys, j, k)
<1> DEFINE ks == nodes[n].keys
           cs == nodes[n].kids
           above == {i \in DOMAIN ks : k < ks[i]}
<1>1. ks \in Seq(Keys) /\ cs \in Seq(NodeId) /\ Len(cs) = Len(ks) + 1
  BY TreeFacts, NodeFields DEF WellFormed
<1>2. DOMAIN ks = 1 .. Len(ks) /\ Len(ks) \in Nat
  BY <1>1, LenProperties
<1>3. ks \in Seq(Int)
  BY <1>1, KeysAreInts
<1>4. \A i \in 1 .. Len(ks) : ks[i] \in Int
  BY <1>3, ElementOfSeq
<1>5. CASE above = {}
  <2>1. Child(n, k) = Last(cs)
    BY <1>5 DEF Child
  <2>2. Last(cs) = cs[Len(cs)]
    BY DEF Last
  <2>3. \A i \in 1 .. Len(ks) : ks[i] <= k
    BY <1>2, <1>4, <1>5
  <2> DEFINE m == Len(cs)
  <2>4. m \in 1 .. m /\ m \in Nat /\ Len(ks) = m - 1
    BY <1>1, <1>2
  <2> HIDE DEF m, ks, cs, above
  <2>5. Covers(ks, m, k)
    BY <2>3, <2>4 DEF Covers
  <2> QED BY <2>1, <2>2, <2>4, <2>5 DEF ks, cs, m
<1>6. CASE above # {}
  <2>1. above \in SUBSET Nat
    BY <1>2
  <2>2. PICK a \in above : \A j \in above : a <= j
    BY <2>1, <1>6, LeastOf
  <2> DEFINE c == CHOOSE i \in above : \A j \in above : i <= j
  <2>3. c \in above /\ \A j \in above : c <= j
    BY <2>2
  <2>4. Child(n, k) = cs[c]
    BY <1>6 DEF Child
  <2> HIDE DEF c
  <2>5. c \in 1 .. Len(ks) /\ k < ks[c]
    BY <2>3, <1>2
  <2>6. c > 1 => ks[c - 1] <= k
    <3> SUFFICES ASSUME c > 1 PROVE ks[c - 1] <= k
      OBVIOUS
    <3>1. c - 1 \in 1 .. Len(ks) /\ ~(c <= c - 1)
      BY <2>5, <1>2
    <3>2. c - 1 \notin above
      BY <2>3, <3>1
    <3> QED BY <3>1, <3>2, <1>2, <1>4
  <2>7. c \in 1 .. Len(cs)
    BY <2>5, <1>1, <1>2
  <2> QED BY <2>4, <2>5, <2>6, <2>7 DEF Covers
<1> QED BY <1>5, <1>6

\* A lookup ends in the leaf whose span holds the key.
LEMMA LookupArrives ==
  ASSUME Tree(nodes, root), NEW V, Shows(V, nodes, root), NEW span, Spans(V, span),
         NEW k \in Int
  PROVE  findLeaf(k) \in Leaves /\ findLeaf(k) \in V.leaves /\ k \in span[findLeaf(k)]
<1> DEFINE D == DOMAIN nodes
           v == [n \in D |-> n]
           E == {n \in D : k \in span[n]}
           P == {n \in Leaves : k \in span[n]}
<1>1. PICK h, b : Downward(D, Leaves, Steps(k), h, b)
  BY LookupDescends
<1>2. PICK f : Descends(f, D, Leaves, Steps(k), v) /\ findLeaf(k) = f[root]
  BY LookupDescends
<1>3. \A n \in E \cap Leaves : v[n] \in P
  OBVIOUS
<1>4. ASSUME NEW n \in E \ Leaves
      PROVE  Steps(k)[n] \in E
  <2>1. n \in D /\ ~nodes[n].leaf /\ k \in span[n]
    BY <1>4 DEF Leaves
  <2>2. Steps(k)[n] = Child(n, k)
    BY <2>1 DEF Steps
  <2>3. PICK j \in 1 .. Len(nodes[n].kids) :
           Child(n, k) = nodes[n].kids[j] /\ Covers(nodes[n].keys, j, k)
    BY <2>1, ChildCovers
  <2>4. n \in V.ids /\ V.keys[n] = nodes[n].keys /\ V.kids[n] = nodes[n].kids
    BY <2>1 DEF Shows
  <2>5. k \in span[V.kids[n][j]]
    BY <2>1, <2>3, <2>4 DEF Spans
  <2>6. Child(n, k) \in D
    BY <2>1, ChildIsKid, TreeFacts
  <2> QED BY <2>2, <2>3, <2>4, <2>5, <2>6
<1>5. E \subseteq D
  OBVIOUS
<1>6. root \in E
  <2>1. root \in D
    BY TreeFacts
  <2>2. span[root] = Int
    BY DEF Spans, Shows
  <2> QED BY <2>1, <2>2
<1> HIDE DEF D, v, E, P
<1>7. \A n \in E : f[n] \in P
  BY <1>1, <1>2, <1>3, <1>4, <1>5, DescentStays
<1>8. findLeaf(k) \in Leaves /\ k \in span[findLeaf(k)]
  BY <1>2, <1>6, <1>7 DEF P
<1>9. \A n \in Leaves : n \in V.leaves
  BY DEF Leaves, Shows
<1> QED BY <1>8, <1>9

\* The place of k lies between lo and hi.
PlaceIn(keys, lo, hi, k) ==
  /\ lo <= hi
  /\ \A j \in 1 .. Len(keys) : (j < lo => keys[j] < k) /\ (j >= hi => keys[j] >= k)

\* The half binary search goes on with is the one the place lies in.
LEMMA HalfWithin ==
  ASSUME NEW keys \in Seq(Int), Rising(keys), NEW k \in Int,
         NEW lo \in Places(keys), NEW hi \in Places(keys), lo < hi, PlaceIn(keys, lo, hi, k)
  PROVE  \E a, b : /\ Half(keys, k, lo, hi) = <<a, b>>
                   /\ a \in Places(keys) /\ b \in Places(keys) /\ PlaceIn(keys, a, b, k)
<1> DEFINE len == Len(keys)
           m == Mid(lo, hi)
<1>1. len \in Nat /\ Places(keys) = 1 .. len + 1
  BY LenProperties DEF Places
<1>2. \A j \in 1 .. len : keys[j] \in Int
  BY ElementOfSeq
<1>3. /\ \A j \in 1 .. len : (j < lo => keys[j] < k) /\ (j >= hi => keys[j] >= k)
      /\ \A i, j \in 1 .. len : i < j => keys[i] < keys[j]
  BY DEF PlaceIn, Rising
<1> HIDE DEF len
<1>4. lo \in Nat /\ hi \in Nat /\ lo >= 1 /\ hi <= len + 1
  BY <1>1
<1>5. m \in Nat /\ lo <= m /\ m < hi
  BY <1>4, MidFacts
<1> HIDE DEF m
<1>6. m \in 1 .. len /\ m + 1 \in Places(keys) /\ m \in Places(keys) /\ m + 1 <= hi
  BY <1>1, <1>4, <1>5
<1>7. Half(keys, k, lo, hi) = IF keys[m] < k THEN <<m + 1, hi>> ELSE <<lo, m>>
  BY DEF Half, m
<1>8. CASE keys[m] < k
  <2>1. ASSUME NEW j \in 1 .. len, j < m + 1
        PROVE  keys[j] < k
    <3>1. j < m \/ j = m
      BY <2>1, <1>6
    <3> QED BY <3>1, <1>2, <1>3, <1>6, <1>8
  <2>2. PlaceIn(keys, m + 1, hi, k)
    BY <2>1, <1>3, <1>6 DEF PlaceIn, len
  <2> QED BY <2>2, <1>6, <1>7, <1>8
<1>9. CASE ~(keys[m] < k)
  <2>1. ASSUME NEW j \in 1 .. len, j >= m
        PROVE  keys[j] >= k
    <3>1. m < j \/ j = m
      BY <2>1, <1>6
    <3> QED BY <3>1, <1>2, <1>3, <1>6, <1>9
  <2>2. PlaceIn(keys, lo, m, k)
    BY <2>1, <1>3, <1>5 DEF PlaceIn, len
  <2> QED BY <2>2, <1>6, <1>7, <1>9
<1> QED BY <1>8, <1>9

\* In rising keys binary search finds the place of the key.
LEMMA PlaceCuts ==
  ASSUME NEW keys \in Seq(Int), Rising(keys), NEW k \in Int
  PROVE  lowerBound(keys, k) \in 1 .. Len(keys) + 1 /\ Cut(keys, lowerBound(keys, k), k)
<1> DEFINE P == Places(keys)
           D == P \X P
           B == Empty(keys)
           nx == Halving(keys, k)
           v == [x \in D |-> x[1]]
           E == {x \in D : PlaceIn(keys, x[1], x[2], k)}
           Q == {i \in P : Cut(keys, i, k)}
<1>1. Len(keys) \in Nat /\ P = 1 .. Len(keys) + 1
  BY LenProperties DEF Places
<1>2. Downward(D, B, nx, Width(keys), Len(keys))
  BY SearchDescends
<1>3. PICK f : Descends(f, D, B, nx, v) /\ lowerBound(keys, k) = f[<<1, Len(keys) + 1>>]
  BY SearchDescends
<1>4. ASSUME NEW x \in E \cap B
      PROVE  v[x] \in Q
  <2>1. x[1] \in P /\ x[2] \in P /\ x[1] >= x[2] /\ PlaceIn(keys, x[1], x[2], k) /\ x \in D
    BY <1>4 DEF Empty
  <2>2. x[1] = x[2]
    BY <2>1, <1>1 DEF PlaceIn
  <2>3. Cut(keys, x[1], k)
    BY <2>1, <2>2 DEF PlaceIn, Cut
  <2> QED BY <2>1, <2>3
<1>5. ASSUME NEW x \in E \ B
      PROVE  nx[x] \in E
  <2>1. x \in D /\ x[1] \in P /\ x[2] \in P /\ ~(x[1] >= x[2]) /\ PlaceIn(keys, x[1], x[2], k)
    BY <1>5 DEF Empty
  <2>2. x[1] < x[2]
    BY <2>1, <1>1
  <2>3. PICK a, b : /\ Half(keys, k, x[1], x[2]) = <<a, b>>
                    /\ a \in P /\ b \in P /\ PlaceIn(keys, a, b, k)
    BY <2>1, <2>2, HalfWithin
  <2>4. nx[x] = <<a, b>>
    BY <2>1, <2>3 DEF Halving
  <2>5. <<a, b>>[1] = a /\ <<a, b>>[2] = b /\ <<a, b>> \in D
    BY <2>3
  <2> QED BY <2>3, <2>4, <2>5
<1>6. <<1, Len(keys) + 1>> \in E
  <2> DEFINE l == Len(keys) + 1
  <2>1. 1 \in P /\ l \in P /\ 1 <= l
    BY <1>1
  <2>2. PlaceIn(keys, 1, l, k)
    BY <1>1 DEF PlaceIn
  <2> HIDE DEF l
  <2>3. <<1, l>> \in E
    BY <2>1, <2>2
  <2> QED BY <2>3 DEF l
<1>7. E \subseteq D
  OBVIOUS
<1> HIDE DEF D, B, nx, v, E, Q
<1>8. \A x \in E : f[x] \in Q
  BY <1>2, <1>3, <1>4, <1>5, <1>7, DescentStays
<1> QED BY <1>1, <1>3, <1>6, <1>8 DEF Q

\* What a lookup returns is what the leaf it reaches keeps of the key.
LEMMA FindInLeaf ==
  ASSUME Shape, NEW k \in Int, NEW n, n = findLeaf(k), Rising(nodes[n].keys)
  PROVE  /\ \A i \in 1 .. Len(nodes[n].keys) : nodes[n].keys[i] = k =>
              Find(k) = nodes[n].vals[i] /\ nodes[n].vals[i] # NoRid
         /\ Find(k) # NoRid => \E i \in 1 .. Len(nodes[n].keys) : nodes[n].keys[i] = k
<1> DEFINE ks == nodes[n].keys
           vs == nodes[n].vals
           hits == {i \in DOMAIN ks : ks[i] = k /\ \A j \in 1 .. i - 1 : ks[j] < k}
<1>1. n \in Leaves
  BY FindsALeaf DEF Shape
<1>2. ks \in Seq(Keys) /\ vs \in Seq(RowIds) /\ Len(vs) = Len(ks) /\ Len(ks) \in Nat
  BY <1>1, LeafFields
<1>3. DOMAIN ks = 1 .. Len(ks)
  BY <1>2, LenProperties
<1>4. \A i \in 1 .. Len(ks) : ks[i] \in Int
  BY <1>2, KeysAreInts, ElementOfSeq
<1>5. Find(k) = IF hits = {} THEN NoRid ELSE vs[CHOOSE i \in hits : TRUE]
  BY DEF Find
<1>6. \A i, j \in 1 .. Len(ks) : i < j => ks[i] < ks[j]
  BY DEF Rising
<1> HIDE DEF ks, vs
<1>7. \A i \in 1 .. Len(ks) : i \in hits <=> ks[i] = k
  <2> TAKE i \in 1 .. Len(ks)
  <2>1. \A j \in 1 .. i - 1 : j \in 1 .. Len(ks) /\ j < i
    BY <1>2
  <2> QED BY <2>1, <1>3, <1>6
<1>8. \A i, j \in 1 .. Len(ks) : ks[i] = k /\ ks[j] = k => i = j
  <2> TAKE i, j \in 1 .. Len(ks)
  <2>1. i < j \/ j < i \/ i = j
    BY <1>2
  <2> QED BY <2>1, <1>4, <1>6
<1>9. hits \subseteq 1 .. Len(ks)
  BY <1>3
<1> HIDE DEF hits
<1>10. ASSUME NEW i \in 1 .. Len(ks), ks[i] = k
       PROVE  Find(k) = vs[i] /\ vs[i] # NoRid
  <2>1. i \in hits
    BY <1>7, <1>10
  <2> DEFINE c == CHOOSE x \in hits : TRUE
  <2>2. c \in hits
    BY <2>1
  <2>3. Find(k) = vs[c]
    BY <1>5, <2>1
  <2> HIDE DEF c
  <2>4. c = i
    BY <2>2, <1>7, <1>8, <1>9, <1>10
  <2>5. vs[i] \in RowIds
    BY <1>2, ElementOfSeq
  <2>6. vs[i] # NoRid
    BY <2>5, BTreeAssumption DEF RowIds
  <2> QED BY <2>3, <2>4, <2>6
<1>11. Find(k) # NoRid => \E i \in 1 .. Len(ks) : ks[i] = k
  BY <1>5, <1>7, <1>9
<1> QED BY <1>10, <1>11 DEF ks, vs

\* The leaf a lookup of a key reaches is the only one that can hold it.
LEMMA LeafOfKey ==
  ASSUME Tree(nodes, root), NEW V, Shows(V, nodes, root), NEW span, Spans(V, span),
         Linking(V, span), NEW m \in V.leaves, NEW j \in 1 .. Len(V.keys[m])
  PROVE  m = findLeaf(V.keys[m][j])
<1> DEFINE k == V.keys[m][j]
<1>1. Plain(V)
  BY ViewPlain
<1>2. m \in V.ids /\ k \in Int
  BY <1>1, PlainFacts
<1>3. k \in span[m]
  BY <1>2 DEF Spans
<1> HIDE DEF k
<1>4. findLeaf(k) \in V.leaves /\ k \in span[findLeaf(k)]
  BY <1>2, LookupArrives
<1>5. m = findLeaf(k)
  BY <1>3, <1>4 DEF Linking
<1> QED BY <1>5 DEF k

\* Lookups find what the leaves of an ordered tree hold.
LEMMA FindIsHeld ==
  ASSUME Shape, NEW V, Shows(V, nodes, root), Ordered(V), NEW k \in Int
  PROVE  \A v : Holds(V, k, v) <=> Find(k) = v /\ v # NoRid
<1>1. PICK span : Spans(V, span) /\ Linking(V, span)
  BY DEF Ordered
<1>2. PICK n : n = findLeaf(k)
  OBVIOUS
<1>3. Tree(nodes, root)
  BY DEF Shape
<1>4. n \in V.leaves /\ n \in Leaves
  BY <1>1, <1>2, <1>3, LookupArrives
<1>5. n \in DOMAIN nodes /\ V.keys[n] = nodes[n].keys /\ V.vals[n] = nodes[n].vals /\ n \in V.ids
  BY <1>4 DEF Shows
<1>6. Rising(nodes[n].keys)
  BY <1>1, <1>5 DEF Spans
<1>7. /\ \A i \in 1 .. Len(nodes[n].keys) : nodes[n].keys[i] = k =>
           Find(k) = nodes[n].vals[i] /\ nodes[n].vals[i] # NoRid
      /\ Find(k) # NoRid => \E i \in 1 .. Len(nodes[n].keys) : nodes[n].keys[i] = k
  BY <1>2, <1>6, FindInLeaf
<1>8. ASSUME NEW v, Holds(V, k, v)
      PROVE  Find(k) = v /\ v # NoRid
  <2>1. PICK m \in V.leaves : \E i \in 1 .. Len(V.keys[m]) : V.keys[m][i] = k /\ V.vals[m][i] = v
    BY <1>8 DEF Holds
  <2>2. PICK i \in 1 .. Len(V.keys[m]) : V.keys[m][i] = k /\ V.vals[m][i] = v
    BY <2>1
  <2>3. m = findLeaf(V.keys[m][i])
    BY <1>1, <1>3, LeafOfKey
  <2>4. m = n
    BY <1>2, <2>2, <2>3
  <2> QED BY <2>2, <2>4, <1>5, <1>7
<1>9. ASSUME NEW v, Find(k) = v, v # NoRid
      PROVE  Holds(V, k, v)
  <2>1. PICK i \in 1 .. Len(V.keys[n]) : V.keys[n][i] = k
    BY <1>5, <1>7, <1>9
  <2>2. V.vals[n][i] = v
    BY <2>1, <1>5, <1>7, <1>9
  <2> QED BY <2>1, <2>2, <1>4 DEF Holds
<1> QED BY <1>8, <1>9

-----------------------------------------------------------------------------
(* insert and erase *)

\* T is V, its leaf n with the keys ks and the row ids vs.
LEMMA LeafRefilled ==
  ASSUME Tree(nodes, root), NEW n \in Leaves, NEW ks, NEW vs, NEW g, Filled(g, n, ks, vs),
         NEW V, NEW T, Shows(V, nodes, root), Shows(T, g, root)
  PROVE  Refilled(V, T, n) /\ T.keys[n] = ks /\ T.vals[n] = vs
<1>1. /\ n \in DOMAIN nodes /\ nodes[n].leaf /\ DOMAIN g = DOMAIN nodes
      /\ g = [nodes EXCEPT ![n] = WithVals(nodes[n], ks, vs)]
  BY DEF Leaves, Filled
<1>2. /\ g[n].keys = ks /\ g[n].vals = vs /\ g[n].kids = nodes[n].kids
      /\ g[n].next = nodes[n].next /\ g[n].leaf = nodes[n].leaf
  <2>1. WellFormed(nodes[n])
    BY <1>1, TreeFacts
  <2>2. g[n] = WithVals(nodes[n], ks, vs)
    BY <1>1
  <2>3. WithVals(nodes[n], ks, vs).leaf = nodes[n].leaf
    BY <2>1 DEF WellFormed, Node, WithVals
  <2> QED BY <2>1, <2>2, <2>3, ValsSet
<1>3. \A m \in DOMAIN nodes \ {n} : g[m] = nodes[m]
  BY <1>1
<1>4. \A m \in DOMAIN nodes : g[m].leaf <=> nodes[m].leaf
  BY <1>2, <1>3
<1>5. T.ids = V.ids /\ T.root = V.root /\ V.ids = DOMAIN nodes
  BY <1>1 DEF Shows
<1>6. T.leaves = V.leaves
  <2>1. T.leaves \subseteq DOMAIN nodes /\ V.leaves \subseteq DOMAIN nodes
    BY <1>5 DEF Shows
  <2>2. \A m \in DOMAIN nodes : m \in T.leaves <=> m \in V.leaves
    BY <1>1, <1>4 DEF Shows
  <2> QED BY <2>1, <2>2
<1>7. /\ \A m \in V.ids : T.kids[m] = V.kids[m] /\ T.next[m] = V.next[m]
      /\ \A m \in V.ids \ {n} : T.keys[m] = V.keys[m] /\ T.vals[m] = V.vals[m]
  BY <1>1, <1>2, <1>3, <1>5 DEF Shows
<1>8. T.keys[n] = ks /\ T.vals[n] = vs /\ n \in V.leaves
  BY <1>1, <1>2 DEF Shows
<1> QED BY <1>5, <1>6, <1>7, <1>8 DEF Refilled

\* The tree V shows, after an insert and after an erase.
AddsOne(V, T, k, r) ==
  \A x, v : Holds(T, x, v) <=> (x = k /\ v = r) \/ (x # k /\ Holds(V, x, v))
DropsOne(V, T, k) ==
  \A x, v : Holds(T, x, v) <=> x # k /\ Holds(V, x, v)

\* What the leaves other than the refilled one hold does not change.
LEMMA RefilledHolds ==
  ASSUME NEW V, NEW T, NEW n, Refilled(V, T, n), Plain(V), NEW x, NEW v
  PROVE  \E rest : rest \in BOOLEAN
                   /\ (Holds(V, x, v) <=> rest \/ HoldsAt(V, n, x, v))
                   /\ (Holds(T, x, v) <=> rest \/ HoldsAt(T, n, x, v))
<1> DEFINE rest == \E m \in V.leaves \ {n} : HoldsAt(V, m, x, v)
<1>1. n \in V.leaves /\ T.leaves = V.leaves /\ V.leaves \subseteq V.ids
  BY PlainFacts DEF Refilled
<1>2. \A m \in V.leaves \ {n} : HoldsAt(V, m, x, v) <=> HoldsAt(T, m, x, v)
  BY <1>1 DEF Refilled, HoldsAt
<1>3. Holds(V, x, v) <=> rest \/ HoldsAt(V, n, x, v)
  BY <1>1 DEF Holds, HoldsAt
<1>4. Holds(T, x, v) <=> (\E m \in T.leaves : HoldsAt(T, m, x, v))
  BY DEF Holds, HoldsAt
<1>5. Holds(T, x, v) <=> rest \/ HoldsAt(T, n, x, v)
  BY <1>1, <1>2, <1>4
<1>6. rest \in BOOLEAN
  OBVIOUS
<1> HIDE DEF rest
<1> QED BY <1>3, <1>5, <1>6

\* A leaf with one entry put in holds that entry and what it held.
LEMMA RefilledGains ==
  ASSUME NEW V, NEW T, NEW n, Refilled(V, T, n), Plain(V), NEW i, NEW k, NEW r,
         Len(V.vals[n]) = Len(V.keys[n]), i \in 1 .. Len(V.keys[n]) + 1,
         PutIn(V.keys[n], T.keys[n], i, k), PutIn(V.vals[n], T.vals[n], i, r)
  PROVE  \A x, v : Holds(T, x, v) <=> (x = k /\ v = r) \/ Holds(V, x, v)
<1> SUFFICES ASSUME NEW x, NEW v
             PROVE  Holds(T, x, v) <=> (x = k /\ v = r) \/ Holds(V, x, v)
  OBVIOUS
<1> DEFINE ks == V.keys[n]
           vs == V.vals[n]
           len == Len(ks)
           f(j) == IF j < i THEN j ELSE j + 1
<1>1. n \in V.ids
  BY PlainFacts DEF Refilled
<1>2. len \in Nat
  BY <1>1, PlainFacts
<1>3. /\ Len(T.keys[n]) = len + 1 /\ T.keys[n][i] = k /\ T.vals[n][i] = r
      /\ \A j \in 1 .. len : T.keys[n][f(j)] = ks[j] /\ T.vals[n][f(j)] = vs[j]
  BY DEF PutIn
<1>4. i \in 1 .. len + 1
  OBVIOUS
<1> HIDE DEF ks, vs, len
<1>5. \A j \in 1 .. len : f(j) \in 1 .. len + 1
  BY <1>2, <1>4
<1>6. \A q \in 1 .. len + 1 : q = i \/ \E j \in 1 .. len : f(j) = q
  <2> TAKE q \in 1 .. len + 1
  <2>1. CASE q < i
    <3>1. q \in 1 .. len /\ f(q) = q
      BY <2>1, <1>2, <1>4
    <3> QED BY <3>1
  <2>2. CASE q > i
    <3>1. q - 1 \in 1 .. len /\ f(q - 1) = q
      BY <2>2, <1>2, <1>4
    <3> QED BY <3>1
  <2> QED BY <2>1, <2>2, <1>2, <1>4
<1>7. HoldsAt(V, n, x, v) <=> \E j \in 1 .. len : ks[j] = x /\ vs[j] = v
  BY DEF HoldsAt, ks, vs, len
<1>8. HoldsAt(T, n, x, v) <=> \E q \in 1 .. len + 1 : T.keys[n][q] = x /\ T.vals[n][q] = v
  BY <1>3 DEF HoldsAt
<1> HIDE DEF f
<1>9. HoldsAt(T, n, x, v) <=> (x = k /\ v = r) \/ HoldsAt(V, n, x, v)
  <2>1. HoldsAt(T, n, x, v) => (x = k /\ v = r) \/ HoldsAt(V, n, x, v)
    BY <1>3, <1>6, <1>7, <1>8
  <2>2. x = k /\ v = r => HoldsAt(T, n, x, v)
    BY <1>3, <1>4, <1>8
  <2>3. HoldsAt(V, n, x, v) => HoldsAt(T, n, x, v)
    BY <1>3, <1>5, <1>7, <1>8
  <2> QED BY <2>1, <2>2, <2>3
<1>10. PICK rest : /\ Holds(V, x, v) <=> rest \/ HoldsAt(V, n, x, v)
                   /\ Holds(T, x, v) <=> rest \/ HoldsAt(T, n, x, v)
  BY RefilledHolds
<1> QED BY <1>9, <1>10

\* insert puts a key that is not there into its leaf, in its place.
LEMMA InsertOrdered ==
  ASSUME Shape, Shape', NEW e \in Entries, Insert(e[1], e[2]), NEW V, NEW T, StepsTo(V, T)
  PROVE  Ordered(T) /\ AddsOne(V, T, e[1], e[2]) /\ \A v : ~Holds(V, e[1], v)
<1> DEFINE k == e[1]
           r == e[2]
           n == findLeaf(k)
           i == lowerBound(nodes[n].keys, k)
           ks == InsertAt(nodes[n].keys, i, k)
           vs == InsertAt(nodes[n].vals, i, r)
           g == nodes'
<1>1. /\ root' = root /\ Find(k) = NoRid
      /\ g = [nodes EXCEPT ![n].keys = InsertAt(@, i, k), ![n].vals = InsertAt(@, i, r)]
  BY DEF Insert
<1>2. n \in Leaves /\ Tree(nodes, root)
  BY FindsALeaf DEF Shape
<1>3. k \in Keys /\ r \in RowIds /\ k \in Int
  BY BTreeAssumption DEF Keys, RowIds
<1>4. Tree(g, root)
  BY <1>1 DEF Shape
<1>5. Shows(V, nodes, root) /\ Ordered(V) /\ Shows(T, g, root)
  BY <1>1 DEF StepsTo
<1> HIDE DEF n, g
<1>6. /\ n \in DOMAIN nodes /\ nodes[n].keys \in Seq(Keys) /\ nodes[n].vals \in Seq(RowIds)
      /\ Len(nodes[n].vals) = Len(nodes[n].keys) /\ Len(nodes[n].keys) \in Nat
  BY <1>2, LeafFields
<1>7. Filled(g, n, ks, vs)
  <2> HIDE DEF i, k, r
  <2>2. ks = InsertAt(nodes[n].keys, i, k) /\ vs = InsertAt(nodes[n].vals, i, r)
    OBVIOUS
  <2> HIDE DEF ks, vs
  <2>3. g = [nodes EXCEPT ![n].keys = ks, ![n].vals = vs]
    BY <1>1, <2>2
  <2> QED BY <2>3, <1>6 DEF WithVals, Filled
<1> DEFINE s == nodes[n].keys
           t == nodes[n].vals
<1>8. PICK span : Spans(V, span) /\ Linking(V, span)
  BY <1>5 DEF Ordered
<1>9. n \in V.ids /\ n \in V.leaves /\ V.keys[n] = s /\ V.vals[n] = t
  BY <1>2, <1>5, <1>6 DEF Shows, Leaves
<1>10. Rising(s) /\ s \in Seq(Int)
  BY <1>6, <1>8, <1>9, KeysAreInts DEF Spans
<1>11. i \in 1 .. Len(s) + 1 /\ Cut(s, i, k)
  BY <1>3, <1>10, PlaceCuts
<1>12. n = findLeaf(k)
  BY DEF n
<1> HIDE DEF k, r, i
<1>13. \A j \in 1 .. Len(s) : s[j] # k
  BY <1>1, <1>3, <1>10, <1>12, FindInLeaf
<1>14. ks = InsertAt(s, i, k) /\ vs = InsertAt(t, i, r)
  OBVIOUS
<1>15. s \in Seq(Keys) /\ t \in Seq(RowIds) /\ Len(t) = Len(s) /\ Len(s) \in Nat
       /\ i \in 1 .. Len(t) + 1
  BY <1>6, <1>11
<1> HIDE DEF s, t, ks, vs
<1>16. PutIn(s, ks, i, k) /\ ks \in Seq(Keys)
  BY <1>3, <1>11, <1>14, <1>15, InsertPuts, InsertAtFacts
<1>17. PutIn(t, vs, i, r)
  BY <1>3, <1>14, <1>15, InsertPuts
<1>18. ks \in Seq(Int)
  BY <1>16, KeysAreInts
<1>19. \A j \in 1 .. Len(s) : s[j] \in Int
  BY <1>10, ElementOfSeq
<1>20. Between(s, i, k)
  <2>1. i > 1 => s[i - 1] < k
    BY <1>11, <1>15 DEF Cut
  <2>2. i <= Len(s) => k < s[i]
    BY <1>3, <1>11, <1>13, <1>15, <1>19 DEF Cut
  <2> QED BY <2>1, <2>2 DEF Between
<1>21. Rising(ks)
  BY <1>10, <1>11, <1>16, <1>18, <1>20, RisesWith
<1>22. Refilled(V, T, n) /\ T.keys[n] = ks /\ T.vals[n] = vs
  BY <1>2, <1>5, <1>7, LeafRefilled
<1>23. InReach(V, T, n)
  <2> SUFFICES ASSUME NEW sp, Spans(V, sp), NEW j \in 1 .. Len(ks)
               PROVE  ks[j] \in sp[n]
    BY <1>22 DEF InReach
  <2>1. k \in sp[n]
    BY <1>2, <1>3, <1>5, <1>12, LookupArrives
  <2>2. \A q \in 1 .. Len(s) : s[q] \in sp[n]
    BY <1>9 DEF Spans
  <2>3. ks[j] = k \/ \E q \in 1 .. Len(s) : ks[j] = s[q]
    <3>1. /\ Len(ks) = Len(s) + 1 /\ ks[i] = k
          /\ \A q \in 1 .. i - 1 : ks[q] = s[q]
          /\ \A q \in i .. Len(s) : ks[q + 1] = s[q]
      BY <1>10, <1>11, <1>16, <1>18, PutInPlaces
    <3>2. CASE j < i
      BY <3>1, <3>2, <1>11, <1>15
    <3>3. CASE j > i
      <4>1. j - 1 \in i .. Len(s) /\ j - 1 \in 1 .. Len(s) /\ j - 1 + 1 = j
        BY <3>1, <3>3, <1>11, <1>15
      <4> QED BY <4>1, <3>1
    <3> QED BY <3>1, <3>2, <3>3, <1>11, <1>15
  <2> QED BY <2>1, <2>2, <2>3
<1>24. Plain(V) /\ Plain(T)
  BY <1>2, <1>4, <1>5, ViewPlain
<1>25. Ordered(T)
  BY <1>5, <1>21, <1>22, <1>23, <1>24, LeafOrdered
<1>26. \A v : ~Holds(V, k, v)
  BY <1>1, <1>3, <1>5, FindIsHeld
<1>27. \A x, v : Holds(T, x, v) <=> (x = k /\ v = r) \/ Holds(V, x, v)
  BY <1>9, <1>11, <1>15, <1>16, <1>17, <1>22, <1>24, RefilledGains
<1>28. AddsOne(V, T, k, r)
  BY <1>26, <1>27 DEF AddsOne
<1> QED BY <1>25, <1>26, <1>28 DEF k, r

\* Where the key of a refilled leaf was, and nowhere else.
LEMMA TakenIsGone ==
  ASSUME Tree(nodes, root), NEW V, Shows(V, nodes, root), Ordered(V), NEW T, NEW n,
         Refilled(V, T, n), NEW i \in 1 .. Len(T.keys[n]) + 1, NEW k \in Int, n = findLeaf(k),
         T.keys[n] \in Seq(Int), PutIn(T.keys[n], V.keys[n], i, k)
  PROVE  \A v : ~Holds(T, k, v)
<1> SUFFICES ASSUME NEW v, Holds(T, k, v) PROVE FALSE
  OBVIOUS
<1>1. PICK span : Spans(V, span) /\ Linking(V, span)
  BY DEF Ordered
<1>2. Plain(V)
  BY ViewPlain
<1>3. n \in V.ids /\ n \in V.leaves /\ T.leaves = V.leaves
      /\ \A m \in V.leaves \ {n} : T.keys[m] = V.keys[m]
  BY <1>2, PlainFacts DEF Refilled
<1>4. PICK m \in V.leaves : \E j \in 1 .. Len(T.keys[m]) : T.keys[m][j] = k
  BY <1>3 DEF Holds
<1>5. PICK j \in 1 .. Len(T.keys[m]) : T.keys[m][j] = k
  BY <1>4
<1>6. CASE m # n
  <2>1. V.keys[m] = T.keys[m]
    BY <1>3, <1>6
  <2>2. m = findLeaf(V.keys[m][j])
    BY <2>1, <1>1, LeafOfKey
  <2> QED BY <2>1, <2>2, <1>5, <1>6
<1>7. CASE m = n
  <2> DEFINE s == V.keys[n]
             t == T.keys[n]
             len == Len(t)
  <2>1. s \in Seq(Int) /\ Rising(s)
    BY <1>1, <1>2, <1>3 DEF Plain, Spans
  <2>2. t \in Seq(Int) /\ PutIn(t, s, i, k) /\ i \in 1 .. Len(t) + 1 /\ t[j] = k /\ j \in 1 .. Len(t)
    BY <1>5, <1>7
  <2> HIDE DEF s, t
  <2>3. /\ Len(s) = Len(t) + 1 /\ s[i] = k
        /\ \A q \in 1 .. i - 1 : s[q] = t[q]
        /\ \A q \in i .. Len(t) : s[q + 1] = t[q]
    BY <2>1, <2>2, PutInPlaces
  <2>4. len \in Nat /\ Len(t) = len
    BY <2>2, LenProperties
  <2> HIDE DEF len
  <2>5. \A q \in 1 .. len + 1 : \A u \in 1 .. len + 1 : q < u => s[q] < s[u]
    BY <2>1, <2>3, <2>4 DEF Rising
  <2>6. i \in 1 .. len + 1 /\ j \in 1 .. len
    BY <2>2, <2>4
  <2>7. CASE j < i
    <3>1. j \in 1 .. i - 1 /\ j \in 1 .. len + 1
      BY <2>4, <2>6, <2>7
    <3>2. s[j] = k
      BY <3>1, <2>2, <2>3
    <3>3. s[j] < s[i]
      BY <3>1, <2>5, <2>6, <2>7
    <3> QED BY <3>2, <3>3, <2>3
  <2>8. CASE j >= i
    <3>1. j \in i .. len /\ j + 1 \in 1 .. len + 1 /\ i < j + 1
      BY <2>4, <2>6, <2>8
    <3>2. s[j + 1] = k
      BY <3>1, <2>2, <2>3, <2>4
    <3>3. s[i] < s[j + 1]
      BY <3>1, <2>5, <2>6
    <3> QED BY <3>2, <3>3, <2>3
  <2> QED BY <2>6, <2>7, <2>8
<1> QED BY <1>6, <1>7

\* erase takes a key out of its leaf.
LEMMA EraseOrdered ==
  ASSUME Shape, Shape', NEW k \in Keys, Erase(k), NEW V, NEW T, StepsTo(V, T)
  PROVE  Ordered(T) /\ DropsOne(V, T, k) /\ \E v : Holds(V, k, v)
<1> DEFINE n == findLeaf(k)
           hits == {i \in DOMAIN nodes[n].keys : nodes[n].keys[i] = k}
           i == CHOOSE h \in hits : \A j \in hits : h <= j
           ks == RemoveAt(nodes[n].keys, i)
           vs == RemoveAt(nodes[n].vals, i)
           g == nodes'
<1>1. /\ root' = root /\ hits # {}
      /\ g = [nodes EXCEPT ![n].keys = RemoveAt(@, i), ![n].vals = RemoveAt(@, i)]
  BY DEF Erase
<1>2. n \in Leaves /\ Tree(nodes, root)
  BY FindsALeaf DEF Shape
<1>3. k \in Int
  BY BTreeAssumption DEF Keys
<1>4. Tree(g, root)
  BY <1>1 DEF Shape
<1>5. Shows(V, nodes, root) /\ Ordered(V) /\ Shows(T, g, root)
  BY <1>1 DEF StepsTo
<1>6. n = findLeaf(k)
  OBVIOUS
<1> HIDE DEF n, g
<1>7. /\ n \in DOMAIN nodes /\ nodes[n].keys \in Seq(Keys) /\ nodes[n].vals \in Seq(RowIds)
      /\ Len(nodes[n].vals) = Len(nodes[n].keys) /\ Len(nodes[n].keys) \in Nat
  BY <1>2, LeafFields
<1>8. Filled(g, n, ks, vs)
  <2> HIDE DEF i
  <2>2. ks = RemoveAt(nodes[n].keys, i) /\ vs = RemoveAt(nodes[n].vals, i)
    OBVIOUS
  <2> HIDE DEF ks, vs
  <2>3. g = [nodes EXCEPT ![n].keys = ks, ![n].vals = vs]
    BY <1>1, <2>2
  <2> QED BY <2>3, <1>7 DEF WithVals, Filled
<1> DEFINE s == nodes[n].keys
           t == nodes[n].vals
<1>9. i \in 1 .. Len(s) /\ s[i] = k
  <2>1. hits \in SUBSET Nat /\ hits \subseteq 1 .. Len(s) /\ \A h \in hits : s[h] = k
    BY <1>7, LenProperties
  <2> HIDE DEF hits
  <2>2. \E h \in hits : \A j \in hits : h <= j
    BY <1>1, <2>1, LeastOf
  <2>3. i \in hits
    BY <2>2
  <2> QED BY <2>1, <2>3
<1>10. PICK span : Spans(V, span) /\ Linking(V, span)
  BY <1>5 DEF Ordered
<1>11. n \in V.ids /\ n \in V.leaves /\ V.keys[n] = s /\ V.vals[n] = t
  BY <1>2, <1>5, <1>7 DEF Shows, Leaves
<1>12. Rising(s) /\ s \in Seq(Int)
  BY <1>7, <1>10, <1>11, KeysAreInts DEF Spans
<1> HIDE DEF i, s, t
<1>13. ks = RemoveAt(s, i) /\ vs = RemoveAt(t, i)
  BY DEF s, t
<1>14. s \in Seq(Keys) /\ t \in Seq(RowIds) /\ Len(t) = Len(s) /\ Len(s) \in Nat
       /\ i \in 1 .. Len(s) /\ i \in 1 .. Len(t)
  BY <1>7, <1>9 DEF s, t
<1> HIDE DEF ks, vs
<1>15. ButAt(s, s, i) /\ ButAt(t, t, i)
  BY DEF ButAt
<1>16. PutIn(ks, s, i, k)
  BY <1>9, <1>13, <1>14, <1>15, PutBack
<1>17. PutIn(vs, t, i, t[i])
  BY <1>13, <1>14, <1>15, PutBack
<1>18. ks \in Seq(Keys) /\ Len(ks) = Len(s) - 1 /\ Len(vs) = Len(t) - 1
  BY <1>13, <1>14, RemoveAtFacts
<1>19. ks \in Seq(Int) /\ i \in 1 .. Len(ks) + 1 /\ Len(vs) = Len(ks)
  BY <1>14, <1>18, KeysAreInts
<1>20. Rising(ks)
  BY <1>12, <1>16, <1>19, RisesWithout
<1>21. Refilled(V, T, n) /\ T.keys[n] = ks /\ T.vals[n] = vs
  BY <1>2, <1>5, <1>8, LeafRefilled
<1>22. InReach(V, T, n)
  <2> SUFFICES ASSUME NEW sp, Spans(V, sp), NEW j \in 1 .. Len(ks)
               PROVE  ks[j] \in sp[n]
    BY <1>21 DEF InReach
  <2>1. \A q \in 1 .. Len(s) : s[q] \in sp[n]
    BY <1>11 DEF Spans
  <2>2. \E q \in 1 .. Len(s) : ks[j] = s[q]
    <3>1. /\ Len(s) = Len(ks) + 1
          /\ \A q \in 1 .. i - 1 : s[q] = ks[q]
          /\ \A q \in i .. Len(ks) : s[q + 1] = ks[q]
      BY <1>12, <1>16, <1>19, PutInPlaces
    <3>2. CASE j < i
      BY <3>1, <3>2, <1>14
    <3>3. CASE j >= i
      <4>1. j \in i .. Len(ks) /\ j + 1 \in 1 .. Len(s)
        BY <3>1, <3>3, <1>14
      <4> QED BY <4>1, <3>1
    <3> QED BY <3>2, <3>3, <1>14
  <2> QED BY <2>1, <2>2
<1>23. Plain(V) /\ Plain(T)
  BY <1>2, <1>4, <1>5, ViewPlain
<1>24. Ordered(T)
  BY <1>5, <1>20, <1>21, <1>22, <1>23, LeafOrdered
<1>25. \A v : ~Holds(T, k, v)
  BY <1>2, <1>3, <1>5, <1>6, <1>11, <1>16, <1>19, <1>21, TakenIsGone
<1>26. Refilled(T, V, n)
  BY <1>21 DEF Refilled
<1>27. \A x, v : Holds(V, x, v) <=> (x = k /\ v = t[i]) \/ Holds(T, x, v)
  <2>1. Len(T.vals[n]) = Len(T.keys[n]) /\ i \in 1 .. Len(T.keys[n]) + 1
        /\ PutIn(T.keys[n], V.keys[n], i, k) /\ PutIn(T.vals[n], V.vals[n], i, t[i])
    BY <1>11, <1>16, <1>17, <1>19, <1>21
  <2>2. PICK r : r = t[i]
    OBVIOUS
  <2>3. \A x, v : Holds(V, x, v) <=> (x = k /\ v = r) \/ Holds(T, x, v)
    <3>1. PutIn(T.vals[n], V.vals[n], i, r)
      BY <2>1, <2>2
    <3> QED BY <2>1, <3>1, <1>23, <1>26, RefilledGains
  <2> QED BY <2>2, <2>3
<1>28. Holds(V, k, t[i])
  BY <1>27
<1>29. DropsOne(V, T, k)
  BY <1>25, <1>27 DEF DropsOne
<1> QED BY <1>24, <1>28, <1>29

-----------------------------------------------------------------------------
(* The tree stays in order *)

\* The tree is in order, until a split misplaces a subtree.
InOrder == sound => Ordered(View(nodes, root))

\* The empty leaf of the constructor is in order.
LEMMA InitInOrder ==
  ASSUME Init
  PROVE  Ordered(View(nodes, root)) /\ sound
<1> DEFINE V == View(nodes, root)
           span == [n \in {0} |-> Int]
<1>1. /\ DOMAIN nodes = {0} /\ root = 0 /\ harm = {}
      /\ nodes[0] = Leaf(<< >>, << >>, NullPage, NullPage)
  BY DEF Init
<1>2. Shape
  BY InitShape
<1>3. Shows(V, nodes, root) /\ Tree(nodes, root)
  BY <1>2, ViewShows DEF Shape
<1> HIDE DEF V
<1>4. Plain(V)
  BY <1>3, ViewPlain
<1>5. /\ V.ids = {0} /\ V.root = 0 /\ V.leaves = {0}
      /\ V.keys[0] = << >> /\ V.kids[0] = << >> /\ V.next[0] = NullPage
  BY <1>1, <1>3 DEF Shows, Leaf
<1>6. Len(<< >>) = 0
  OBVIOUS
<1>7. /\ span \in [V.ids -> SUBSET Int] /\ span[V.root] = Int
      /\ \A n \in V.ids : span[n] = Int /\ Len(V.keys[n]) = 0 /\ Len(V.kids[n]) = 0
  BY <1>5, <1>6
<1> HIDE DEF span
<1>8. Spans(V, span)
  BY <1>7 DEF Spans, Convex, Rising
<1>9. Linking(V, span)
  <2>1. \A k \in Int : k + 1 \in Int
    OBVIOUS
  <2>2. \A m, n \in V.leaves : m = n
    BY <1>5
  <2>3. \A n \in V.leaves : span[n] = Int /\ V.next[n] = NullPage
    BY <1>5, <1>7
  <2> QED BY <2>1, <2>2, <2>3 DEF Linking
<1>10. sound
  BY <1>1 DEF sound
<1> QED BY <1>4, <1>8, <1>9, <1>10 DEF Ordered, V

\* What has gone wrong stays so.
LEMMA HarmStays ==
  ASSUME Next
  PROVE  harm \subseteq harm'
<1>1. CASE Client
  BY <1>1 DEF Client, Insert, Erase
<1>2. CASE Rebalance
  BY <1>2 DEF Rebalance, LeafRootSplits, InnerRootSplits, LeafGivesLeft, LeafGivesRight,
              LeafSplitsRight, LeafSplitsLeft, InnerTakesLeft, InnerTakesRight,
              InnerSplitsRight, InnerSplitsLeft, SplitsWithNobody, ParentUnaware,
              tryBorrowLeft, tryBorrowRight, mergeWithLeft, mergeWithRight, mergeWithNobody
<1> QED BY <1>1, <1>2 DEF Next

\* No step of a sound tree changes the order.
LEMMA NextInOrder ==
  ASSUME Shape, Shape', InOrder, Next, sound', NEW V, NEW T,
         Shows(V, nodes, root), Ordered(V), Shows(T, nodes', root')
  PROVE  /\ Ordered(T)
         /\ \/ SameHeld(V, T)
            \/ \E e \in Entries : AddsOne(V, T, e[1], e[2]) /\ \A v : ~Holds(V, e[1], v)
            \/ \E k \in Keys : DropsOne(V, T, k) /\ \E v : Holds(V, k, v)
<1>1. StepsTo(V, T)
  BY DEF StepsTo
<1>2. CASE \E e \in Entries : Insert(e[1], e[2])
  BY <1>1, <1>2, InsertOrdered
<1>3. CASE \E k \in Keys : Erase(k)
  BY <1>1, <1>3, EraseOrdered
<1>4. CASE Rebalance
  <2>1. Keeps(V, T)
    BY <1>1, <1>4, RebalanceOrdered
  <2> QED BY <2>1 DEF Keeps
<1> QED BY <1>2, <1>3, <1>4 DEF Next, Client

\* The tree stays in order.
THEOREM OrderInvariant == Spec => [](Shape /\ InOrder)
<1>1. Init => Shape /\ InOrder
  BY InitShape, InitInOrder DEF InOrder
<1>2. ASSUME Shape, Shape', InOrder, [Next]_vars
      PROVE  InOrder'
  <2> SUFFICES ASSUME sound' PROVE Ordered(View(nodes', root'))
    BY DEF InOrder
  <2>1. CASE UNCHANGED vars
    BY <2>1, <1>2 DEF vars, InOrder, sound
  <2>2. CASE Next
    <3>1. sound
      BY <2>2, HarmStays DEF sound
    <3> DEFINE V == View(nodes, root)
               g == nodes'
               r == root'
               T == View(g, r)
    <3>2. Shows(V, nodes, root) /\ Ordered(V)
      BY <1>2, <3>1, ViewShows DEF InOrder
    <3> HIDE DEF g, r
    <3>3. Shows(T, g, r)
      BY ViewShows
    <3> HIDE DEF V, T
    <3>4. Shows(T, nodes', root')
      BY <3>3 DEF g, r
    <3>5. Ordered(T)
      BY <1>2, <2>2, <3>2, <3>4, NextInOrder
    <3> QED BY <3>5 DEF T, g, r
  <2> QED BY <1>2, <2>1, <2>2
<1>3. Spec => []Shape
  BY ShapeInvariant
<1> QED BY <1>1, <1>2, <1>3, PTL DEF Spec

\* A lookup of a stored key reaches the leaf that holds it, whatever splits,
\* redistributions and merges the tree went through: findLeaf and the
\* separators agree until a split of the last child misplaces one.
THEOREM KeysAreFindable == Spec => []KeysFindable
<1>1. Shape /\ InOrder => KeysFindable
  <2> SUFFICES ASSUME Shape, InOrder, sound, NEW n \in Leaves
               PROVE  /\ \A i, j \in DOMAIN nodes[n].keys :
                           i < j => nodes[n].keys[i] < nodes[n].keys[j]
                      /\ \A k \in KeysOf(n) : findLeaf(k) = n
    BY DEF KeysFindable
  <2> DEFINE V == View(nodes, root)
  <2>1. Shows(V, nodes, root) /\ Ordered(V)
    BY ViewShows DEF InOrder
  <2> HIDE DEF V
  <2>2. PICK span : Spans(V, span) /\ Linking(V, span)
    BY <2>1 DEF Ordered
  <2>3. n \in V.ids /\ n \in V.leaves /\ V.keys[n] = nodes[n].keys
    BY <2>1 DEF Shows, Leaves
  <2>4. nodes[n].keys \in Seq(Keys) /\ Tree(nodes, root)
    BY LeafFields DEF Shape
  <2>5. Rising(nodes[n].keys)
    BY <2>2, <2>3 DEF Spans
  <2>6. DOMAIN nodes[n].keys = 1 .. Len(nodes[n].keys)
    BY <2>4, LenProperties
  <2>7. ASSUME NEW k \in KeysOf(n)
        PROVE  findLeaf(k) = n
    <3>1. PICK j \in 1 .. Len(V.keys[n]) : V.keys[n][j] = k
      BY <2>3, <2>6 DEF KeysOf, Range
    <3>2. n = findLeaf(V.keys[n][j])
      BY <2>1, <2>2, <2>3, <2>4, LeafOfKey
    <3> QED BY <3>1, <3>2
  <2> QED BY <2>5, <2>6, <2>7 DEF Rising
<1> QED BY <1>1, OrderInvariant, PTL

\* In an ordered tree the chain of leaves leads to leaves.
LEMMA NextIsLeaf ==
  ASSUME NEW V, Ordered(V), NEW n \in V.leaves
  PROVE  V.next[n] \in V.leaves \cup {NullPage}
<1>1. PICK span : Spans(V, span) /\ Linking(V, span)
  BY DEF Ordered
<1>2. CASE \A k \in span[n] : k + 1 \in span[n]
  BY <1>1, <1>2 DEF Linking
<1>3. CASE \E k \in span[n] : k + 1 \notin span[n]
  BY <1>1, <1>3 DEF Linking
<1> QED BY <1>2, <1>3

\* Parent and child pointers name each other, a node has one parent, counts
\* agree and the chain of leaves stays among the leaves: no step leaves a
\* reference to a node that was freed.
THEOREM PointersAlwaysAgree == Spec => []PointersAgree
<1>1. Shape /\ InOrder => PointersAgree
  <2> SUFFICES ASSUME Shape, InOrder PROVE PointersAgree
    OBVIOUS
  <2>1. Tree(nodes, root)
    BY DEF Shape
  <2>2. /\ root \in DOMAIN nodes
        /\ \A n \in DOMAIN nodes : WellFormed(nodes[n]) /\ Kids(nodes, n) \subseteq DOMAIN nodes
    BY <2>1, TreeFacts
  <2>3. IsRoot(root)
    BY <2>1, <2>2 DEF IsRoot, Tree, Rooted
  <2>4. Listers(root) = {}
    BY <2>1, <2>2, OneLister
  <2>5. \A n \in DOMAIN nodes \ {root} : \E p \in DOMAIN nodes : Listers(n) = {p}
    BY <2>1, OneLister
  <2>6. ASSUME NEW n \in Leaves
        PROVE  /\ Len(nodes[n].vals) = Len(nodes[n].keys)
               /\ nodes[n].kids = << >>
               /\ sound => nodes[n].next \in Leaves \cup {NullPage}
    <3>1. n \in DOMAIN nodes /\ nodes[n].leaf
      BY DEF Leaves
    <3>2. Len(nodes[n].vals) = Len(nodes[n].keys) /\ nodes[n].kids = << >>
      BY <2>2, <3>1 DEF WellFormed
    <3>3. ASSUME sound
          PROVE  nodes[n].next \in Leaves \cup {NullPage}
      <4> DEFINE V == View(nodes, root)
      <4>1. Shows(V, nodes, root) /\ Ordered(V)
        BY <3>3, ViewShows DEF InOrder
      <4> HIDE DEF V
      <4>2. n \in V.leaves /\ V.next[n] = nodes[n].next
        BY <3>1, <4>1 DEF Shows
      <4>3. V.next[n] \in V.leaves \cup {NullPage}
        BY <4>1, <4>2, NextIsLeaf
      <4>4. V.leaves \subseteq Leaves
        BY <4>1 DEF Shows, Leaves
      <4> QED BY <4>2, <4>3, <4>4
    <3> QED BY <3>2, <3>3
  <2>7. ASSUME NEW n \in DOMAIN nodes \ Leaves
        PROVE  /\ Len(nodes[n].kids) = Len(nodes[n].keys) + 1
               /\ IsInjective(nodes[n].kids)
               /\ \A c \in Range(nodes[n].kids) :
                    /\ c \in DOMAIN nodes
                    /\ "orphaned" \notin harm => nodes[c].parent = n
    <3>1. n \in DOMAIN nodes /\ ~nodes[n].leaf
      BY DEF Leaves
    <3>2. Len(nodes[n].kids) = Len(nodes[n].keys) + 1 /\ IsInjective(nodes[n].kids)
      BY <2>2, <3>1 DEF WellFormed
    <3>3. Range(nodes[n].kids) = Kids(nodes, n)
      BY DEF Kids
    <3>4. "orphaned" \notin harm => \A c \in Kids(nodes, n) : nodes[c].parent = n
      BY <3>1 DEF Shape, Adopted
    <3> QED BY <2>2, <3>1, <3>2, <3>3, <3>4
  <2> QED BY <2>2, <2>3, <2>4, <2>5, <2>6, <2>7 DEF PointersAgree
<1> QED BY <1>1, OrderInvariant, PTL

\* Contents maps the keys the leaves hold to their row ids.
LEMMA ContentsHold ==
  ASSUME Shape, NEW V, Shows(V, nodes, root), Ordered(V)
  PROVE  /\ \A x : x \in DOMAIN Contents <=> x \in Keys /\ \E v : Holds(V, x, v)
         /\ \A x \in DOMAIN Contents : \A v : Holds(V, x, v) <=> v = Contents[x]
<1>1. Keys \subseteq Int
  BY BTreeAssumption DEF Keys
<1>2. \A x \in Keys : \A v : Holds(V, x, v) <=> Find(x) = v /\ v # NoRid
  BY <1>1, FindIsHeld
<1>3. /\ \A x : x \in DOMAIN Contents <=> x \in Keys /\ Find(x) # NoRid
      /\ \A x \in DOMAIN Contents : Contents[x] = Find(x)
  BY DEF Contents
<1> QED BY <1>2, <1>3

\* M is the map of the keys and row ids the tree V holds.
Mirrors(M, V) ==
  /\ M = [x \in DOMAIN M |-> M[x]]
  /\ \A x : x \in DOMAIN M <=> x \in Keys /\ \E v : Holds(V, x, v)
  /\ \A x \in DOMAIN M : \A v : Holds(V, x, v) <=> v = M[x]

\* What one call does to the map.
Inserted(M, N, k) ==
  N[k] \in RowIds /\ N = [x \in DOMAIN M \cup {k} |-> IF x = k THEN N[k] ELSE M[x]]
Erased(M, N, k) == N = [x \in DOMAIN M \ {k} |-> M[x]]

\* Trees that hold the same have the same map.
LEMMA SameMap ==
  ASSUME NEW V, NEW T, NEW M, NEW N, Mirrors(M, V), Mirrors(N, T), SameHeld(V, T)
  PROVE  M = N
<1>1. \A x : x \in DOMAIN M <=> x \in DOMAIN N
  BY DEF Mirrors, SameHeld
<1>2. \A x \in DOMAIN M : M[x] = N[x]
  BY <1>1 DEF Mirrors, SameHeld
<1>3. M = [x \in DOMAIN M |-> M[x]] /\ N = [x \in DOMAIN N |-> N[x]] /\ DOMAIN M = DOMAIN N
  BY <1>1 DEF Mirrors
<1> QED BY <1>2, <1>3

\* A tree that holds one entry more has a map with one key more.
LEMMA MapGains ==
  ASSUME NEW V, NEW T, NEW M, NEW N, Mirrors(M, V), Mirrors(N, T), NEW k \in Keys, NEW r \in RowIds,
         AddsOne(V, T, k, r), \A v : ~Holds(V, k, v)
  PROVE  k \in DOMAIN N \ DOMAIN M /\ Inserted(M, N, k)
<1>1. \A x, v : Holds(T, x, v) <=> (x = k /\ v = r) \/ (x # k /\ Holds(V, x, v))
  BY DEF AddsOne
<1>2. Holds(T, k, r)
  BY <1>1
<1>3. k \in DOMAIN N /\ k \notin DOMAIN M
  BY <1>2 DEF Mirrors
<1>4. N[k] = r
  BY <1>2, <1>3 DEF Mirrors
<1>5. \A x : x \in DOMAIN N <=> x \in DOMAIN M \/ x = k
  <2> TAKE x
  <2>1. CASE x = k
    BY <2>1, <1>3
  <2>2. CASE x # k
    <3>1. \A v : Holds(T, x, v) <=> Holds(V, x, v)
      BY <1>1, <2>2
    <3> QED BY <3>1, <2>2 DEF Mirrors
  <2> QED BY <2>1, <2>2
<1>6. ASSUME NEW x \in DOMAIN M
      PROVE  x # k /\ N[x] = M[x]
  <2>1. x # k /\ x \in DOMAIN N
    BY <1>3, <1>5
  <2>2. Holds(V, x, M[x])
    BY DEF Mirrors
  <2>3. Holds(T, x, M[x])
    BY <1>1, <2>1, <2>2
  <2> QED BY <2>1, <2>3 DEF Mirrors
<1>7. N = [x \in DOMAIN N |-> N[x]] /\ DOMAIN N = DOMAIN M \cup {k}
  BY <1>5 DEF Mirrors
<1>8. N = [x \in DOMAIN M \cup {k} |-> IF x = k THEN N[k] ELSE M[x]]
  <2>1. \A x \in DOMAIN M \cup {k} : N[x] = IF x = k THEN N[k] ELSE M[x]
    BY <1>6
  <2> QED BY <2>1, <1>7
<1> QED BY <1>3, <1>4, <1>8 DEF Inserted

\* A tree that holds one key less has a map with one key less.
LEMMA MapLoses ==
  ASSUME NEW V, NEW T, NEW M, NEW N, Mirrors(M, V), Mirrors(N, T), NEW k \in Keys,
         DropsOne(V, T, k), \E v : Holds(V, k, v)
  PROVE  k \in DOMAIN M \ DOMAIN N /\ Erased(M, N, k)
<1>1. \A x, v : Holds(T, x, v) <=> x # k /\ Holds(V, x, v)
  BY DEF DropsOne
<1>2. k \in DOMAIN M /\ k \notin DOMAIN N
  BY <1>1 DEF Mirrors
<1>3. \A x : x \in DOMAIN N <=> x \in DOMAIN M /\ x # k
  <2> TAKE x
  <2>1. CASE x = k
    BY <2>1, <1>2
  <2>2. CASE x # k
    <3>1. \A v : Holds(T, x, v) <=> Holds(V, x, v)
      BY <1>1, <2>2
    <3> QED BY <3>1, <2>2 DEF Mirrors
  <2> QED BY <2>1, <2>2
<1>4. ASSUME NEW x \in DOMAIN N
      PROVE  N[x] = M[x]
  <2>1. x # k /\ x \in DOMAIN M
    BY <1>3
  <2>2. Holds(V, x, M[x])
    BY <2>1 DEF Mirrors
  <2>3. Holds(T, x, M[x])
    BY <1>1, <2>1, <2>2
  <2> QED BY <2>3 DEF Mirrors
<1>5. N = [x \in DOMAIN N |-> N[x]] /\ DOMAIN N = DOMAIN M \ {k}
  <2>1. DOMAIN N = DOMAIN M \ {k}
    BY <1>3
  <2> QED BY <2>1 DEF Mirrors
<1>6. N = [x \in DOMAIN M \ {k} |-> M[x]]
  BY <1>4, <1>5
<1> QED BY <1>2, <1>6 DEF Erased

\* What lookups find is what the leaves hold.
MapHeld == sound => Mirrors(Contents, View(nodes, root))

\* In an ordered tree Contents maps the keys the leaves hold.
LEMMA ContentsMirror ==
  ASSUME Shape, InOrder
  PROVE  MapHeld
<1> SUFFICES ASSUME sound PROVE Mirrors(Contents, View(nodes, root))
  BY DEF MapHeld
<1> DEFINE V == View(nodes, root)
           M == Contents
<1>1. Shows(V, nodes, root) /\ Ordered(V)
  BY ViewShows DEF InOrder
<1>2. M = [x \in DOMAIN M |-> M[x]]
  BY DEF Contents
<1> HIDE DEF V
<1>3. /\ \A x : x \in DOMAIN Contents <=> x \in Keys /\ \E v : Holds(V, x, v)
      /\ \A x \in DOMAIN Contents : \A v : Holds(V, x, v) <=> v = Contents[x]
  BY <1>1, ContentsHold
<1>4. Mirrors(M, V)
  BY <1>2, <1>3 DEF Mirrors
<1> QED BY <1>4 DEF V

\* The tree implements a map from keys to row ids: a rebalancing step
\* changes no lookup, insert adds its key alone and erase takes its key away
\* alone, until a split misplaces a subtree or a call reads outside a vector.
THEOREM TreeIsAMap == Spec => ImplementsMap
<1>1. Init => Map!Init
  <2> SUFFICES ASSUME Init PROVE Map!Init
    OBVIOUS
  <2>1. Shape /\ InOrder /\ sound /\ ~ub
    BY InitShape, InitInOrder DEF InOrder, ub, Init
  <2> DEFINE V == View(nodes, root)
             M == Contents
  <2>2. Mirrors(M, V)
    BY <2>1, ContentsMirror DEF MapHeld
  <2>3. Shows(V, nodes, root)
    BY ViewShows
  <2>4. DOMAIN nodes = {0} /\ nodes[0].keys = << >>
    BY DEF Init, Leaf
  <2> HIDE DEF V, M
  <2>5. V.leaves \subseteq {0} /\ V.keys[0] = << >>
    BY <2>3, <2>4 DEF Shows
  <2>6. Len(<< >>) = 0
    OBVIOUS
  <2>7. \A x, v : ~Holds(V, x, v)
    BY <2>5, <2>6 DEF Holds
  <2>8. DOMAIN M = {} /\ M = [x \in DOMAIN M |-> M[x]]
    BY <2>2, <2>7 DEF Mirrors
  <2>9. M = << >>
    BY <2>8
  <2>10. Contents = << >> /\ (sound /\ ~ub) = TRUE
    BY <2>1, <2>9 DEF M
  <2> QED BY <2>10 DEF Map!Init
<1>2. ASSUME Shape, Shape', InOrder, MapHeld, MapHeld', [Next]_vars
      PROVE  [Map!Next]_(Map!vars)
  <2>1. CASE UNCHANGED vars
    BY <2>1 DEF vars, Map!vars, Contents, Find, findLeaf, Child, sound, ub
  <2>2. CASE Next
    <3>1. harm \subseteq harm'
      BY <2>2, HarmStays
    <3>2. ((sound /\ ~ub)') \in BOOLEAN
      BY DEF sound, ub
    <3>3. ASSUME (sound /\ ~ub)'
          PROVE  sound /\ ~ub /\ (Map!Change \/ UNCHANGED Contents)
      <4>1. sound /\ ~ub /\ sound'
        BY <3>1, <3>3 DEF sound, ub
      <4> DEFINE V == View(nodes, root)
                 M == Contents
                 g == nodes'
                 r == root'
                 T == View(g, r)
                 N == Contents'
      <4>2. Shows(V, nodes, root) /\ Ordered(V)
        BY <1>2, <4>1, ViewShows DEF InOrder
      <4>3. Mirrors(M, V) /\ Mirrors(N, T)
        BY <1>2, <4>1 DEF MapHeld
      <4> HIDE DEF g, r
      <4>4. Shows(T, g, r)
        BY ViewShows
      <4> HIDE DEF V, T, M, N
      <4>5. Shows(T, nodes', root')
        BY <4>4 DEF g, r
      <4>6. \/ SameHeld(V, T)
            \/ \E e \in Entries : AddsOne(V, T, e[1], e[2]) /\ \A v : ~Holds(V, e[1], v)
            \/ \E k \in Keys : DropsOne(V, T, k) /\ \E v : Holds(V, k, v)
        BY <1>2, <2>2, <4>1, <4>2, <4>5, NextInOrder
      <4>7. CASE SameHeld(V, T)
        <5>1. M = N
          BY <4>3, <4>7, SameMap
        <5> QED BY <5>1, <4>1 DEF M, N
      <4>8. CASE \E e \in Entries : AddsOne(V, T, e[1], e[2]) /\ \A v : ~Holds(V, e[1], v)
        <5>1. PICK e \in Entries : AddsOne(V, T, e[1], e[2]) /\ \A v : ~Holds(V, e[1], v)
          BY <4>8
        <5>2. PICK k, q : k = e[1] /\ q = e[2]
          OBVIOUS
        <5>3. k \in Keys /\ q \in RowIds
          BY <5>2 DEF Keys, RowIds
        <5>4. AddsOne(V, T, k, q) /\ \A v : ~Holds(V, k, v)
          BY <5>1, <5>2
        <5>5. k \in DOMAIN N \ DOMAIN M /\ Inserted(M, N, k)
          BY <4>3, <5>3, <5>4, MapGains
        <5>6. Map!Change
          BY <5>3, <5>5 DEF Map!Change, Map!Insert, Inserted, M, N
        <5> QED BY <5>6, <4>1
      <4>9. CASE \E k \in Keys : DropsOne(V, T, k) /\ \E v : Holds(V, k, v)
        <5>1. PICK k \in Keys : DropsOne(V, T, k) /\ \E v : Holds(V, k, v)
          BY <4>9
        <5>2. k \in DOMAIN M \ DOMAIN N /\ Erased(M, N, k)
          BY <4>3, <5>1, MapLoses
        <5>3. Map!Change
          BY <5>2 DEF Map!Change, Map!Erase, Erased, M, N
        <5> QED BY <5>3, <4>1
      <4> QED BY <4>6, <4>7, <4>8, <4>9
    <3>4. Map!Next
      BY <3>2, <3>3 DEF Map!Next
    <3> QED BY <3>4
  <2> QED BY <1>2, <2>1, <2>2
<1>3. Shape /\ InOrder => MapHeld
  BY ContentsMirror
<1> QED BY <1>1, <1>2, <1>3, OrderInvariant, PTL DEF Spec, ImplementsMap, Map!Spec

-----------------------------------------------------------------------------
(* Range scans *)

\* The places of a leaf a scan reads before it is past hi.
EndOf(keys, hi, e) ==
  e \in 0 .. Len(keys) /\ \A j \in 1 .. Len(keys) : keys[j] < hi <=> j <= e

\* Reads stops in front of the first key that is not below hi.
LEMMA ReadsEnd ==
  ASSUME NEW n, nodes[n].keys \in Seq(Int), Rising(nodes[n].keys),
         NEW S, nodes[n].vals \in Seq(S), Len(nodes[n].vals) = Len(nodes[n].keys),
         NEW lo \in Int, NEW hi \in Int
  PROVE  \E e : /\ EndOf(nodes[n].keys, hi, e) /\ (PastHi(n, hi) = {} <=> e = Len(nodes[n].keys))
                /\ Reads(n, lo, hi) = (CHOOSE f : Reading(f, nodes[n].keys, nodes[n].vals, lo, e))[e]
<1> DEFINE keys == nodes[n].keys
           past == PastHi(n, hi)
           e == IF past = {} THEN Len(keys) ELSE (CHOOSE i \in past : \A j \in past : i <= j) - 1
<1>1. Len(keys) \in Nat /\ DOMAIN keys = 1 .. Len(keys) /\ \A i \in 1 .. Len(keys) : keys[i] \in Int
  BY LenProperties, ElementOfSeq
<1>2. past = {i \in 1 .. Len(keys) : keys[i] >= hi}
  BY <1>1 DEF PastHi
<1>3. Reads(n, lo, hi) = (CHOOSE f : Reading(f, nodes[n].keys, nodes[n].vals, lo, e))[e]
  BY DEF Reads, Reading
<1>4. CASE past = {}
  <2>1. e = Len(keys)
    BY <1>4
  <2>2. \A j \in 1 .. Len(keys) : keys[j] < hi /\ j <= Len(keys)
    BY <1>1, <1>2, <1>4
  <2>3. EndOf(keys, hi, e)
    <3>1. Len(keys) \in 0 .. Len(keys)
      BY <1>1
    <3>2. EndOf(keys, hi, Len(keys))
      BY <2>2, <3>1 DEF EndOf
    <3> QED BY <2>1, <3>2
  <2> QED BY <1>3, <1>4, <2>1, <2>3
<1>5. CASE past # {}
  <2>1. past \in SUBSET Nat
    BY <1>2
  <2>2. \E i \in past : \A j \in past : i <= j
    BY <2>1, <1>5, LeastOf
  <2>3. PICK i : i = CHOOSE m \in past : \A j \in past : m <= j
    OBVIOUS
  <2>4. i \in past /\ \A j \in past : i <= j
    BY <2>2, <2>3
  <2>5. e = i - 1
    BY <1>5, <2>3
  <2>6. i \in 1 .. Len(keys) /\ keys[i] >= hi /\ keys[i] \in Int
    BY <1>1, <1>2, <2>4
  <2>7. i - 1 \in 0 .. Len(keys) /\ i - 1 # Len(keys)
    BY <1>1, <2>6
  <2>8. ASSUME NEW j \in 1 .. Len(keys)
        PROVE  keys[j] < hi <=> j <= i - 1
    <3>1. j \in Nat /\ i \in Nat /\ keys[j] \in Int
      BY <1>1, <2>6
    <3>2. CASE j < i
      <4>1. j \notin past
        BY <2>4, <3>1, <3>2
      <4>2. ~(keys[j] >= hi)
        BY <4>1, <1>2
      <4> QED BY <3>1, <3>2, <4>2
    <3>3. CASE j = i
      BY <2>6, <3>1, <3>3
    <3>4. CASE j > i
      <4>1. keys[i] < keys[j]
        BY <2>6, <3>4 DEF Rising
      <4> QED BY <2>6, <3>1, <3>4, <4>1
    <3> QED BY <3>1, <3>2, <3>3, <3>4
  <2>9. EndOf(keys, hi, e)
    BY <2>5, <2>7, <2>8 DEF EndOf
  <2> HIDE DEF keys
  <2>10. e # Len(keys)
    BY <2>5, <2>7
  <2> QED BY <1>3, <1>5, <2>9, <2>10 DEF keys
<1> QED BY <1>4, <1>5

\* What is read in a leaf are the keys of its span that are asked for; hi
\* is not in reach if the leaf has been read to its end.
LEMMA LeafLists ==
  ASSUME Shape, NEW V, Shows(V, nodes, root), NEW span, Spans(V, span), Linking(V, span),
         NEW n \in V.leaves, NEW lo \in Int, NEW hi \in Int
  PROVE  /\ \E ks : Lists(V, ks, Reads(n, lo, hi), Window(span[n], lo, hi))
         /\ PastHi(n, hi) # {} => \E k \in span[n] : k >= hi
         /\ PastHi(n, hi) = {} => \A i \in 1 .. Len(V.keys[n]) : V.keys[n][i] < hi
<1> DEFINE keys == nodes[n].keys
           vals == nodes[n].vals
<1>1. n \in Leaves /\ n \in V.ids /\ V.keys[n] = keys /\ V.vals[n] = vals
  BY DEF Shows, Leaves
<1>2. keys \in Seq(Int) /\ vals \in Seq(RowIds) /\ Len(vals) = Len(keys) /\ Len(keys) \in Nat
  <2>1. keys \in Seq(Keys) /\ vals \in Seq(RowIds) /\ Len(vals) = Len(keys) /\ Len(keys) \in Nat
    BY <1>1, LeafFields
  <2> QED BY <2>1, KeysAreInts
<1>3. Rising(keys)
  BY <1>1 DEF Spans
<1>4. span[n] \subseteq Int
  BY <1>1 DEF Spans
<1>5. \A i \in 1 .. Len(keys) : keys[i] \in span[n] /\ keys[i] \in Int
  BY <1>1, <1>2, ElementOfSeq DEF Spans
<1>6. PICK e : /\ EndOf(keys, hi, e) /\ (PastHi(n, hi) = {} <=> e = Len(keys))
               /\ Reads(n, lo, hi) = (CHOOSE f : Reading(f, keys, vals, lo, e))[e]
  BY <1>2, <1>3, ReadsEnd
<1>7. PICK a : a = lowerBound(keys, lo)
  OBVIOUS
<1>8. a \in 1 .. Len(keys) + 1 /\ Cut(keys, a, lo)
  BY <1>2, <1>3, <1>7, PlaceCuts
<1>9. e \in 0 .. Len(keys) /\ \A j \in 1 .. Len(keys) : keys[j] < hi <=> j <= e
  BY <1>6 DEF EndOf
<1>10. a \in Nat \ {0} /\ e \in Nat /\ e <= Len(keys) /\ e \in 0 .. Len(vals)
  BY <1>2, <1>8, <1>9
<1> HIDE DEF keys, vals
<1> DEFINE ks == Excerpt(keys, a, e)
           s == Excerpt(vals, a, e)
<1>11. Reads(n, lo, hi) = s
  <2>1. /\ \E f : Reading(f, keys, vals, lo, e)
        /\ \A f : Reading(f, keys, vals, lo, e) => f[e] = Excerpt(vals, a, e)
    BY <1>2, <1>8, <1>9, ReadingIsExcerpt
  <2> QED BY <1>6, <2>1
<1>12. /\ ks \in Seq(Int) /\ Len(ks) = IF e + 1 >= a THEN e + 1 - a ELSE 0
       /\ \A j \in 1 .. Len(ks) : a - 1 + j \in a .. e /\ ks[j] = keys[a - 1 + j]
       /\ \A i \in a .. e : i + 1 - a \in 1 .. Len(ks) /\ ks[i + 1 - a] = keys[i]
  <2>1. PICK S : S = Int
    OBVIOUS
  <2>2. keys \in Seq(S)
    BY <2>1, <1>2
  <2>3. a \in Nat \ {0} /\ e \in 0 .. Len(keys)
    BY <1>9, <1>10
  <2>4. /\ ks \in Seq(S) /\ Len(ks) = IF e + 1 >= a THEN e + 1 - a ELSE 0
        /\ \A j \in 1 .. Len(ks) : a - 1 + j \in a .. e /\ ks[j] = keys[a - 1 + j]
        /\ \A i \in a .. e : i + 1 - a \in 1 .. Len(ks) /\ ks[i + 1 - a] = keys[i]
    BY <2>2, <2>3, ExcerptFacts
  <2> HIDE DEF ks
  <2> QED BY <2>1, <2>4
<1>13. /\ s \in Seq(RowIds) /\ Len(s) = IF e + 1 >= a THEN e + 1 - a ELSE 0
       /\ \A j \in 1 .. Len(s) : s[j] = vals[a - 1 + j]
  <2>1. vals \in Seq(RowIds) /\ a \in Nat \ {0} /\ e \in 0 .. Len(vals)
    BY <1>2, <1>10
  <2>2. /\ s \in Seq(RowIds) /\ Len(s) = IF e + 1 >= a THEN e + 1 - a ELSE 0
        /\ \A j \in 1 .. Len(s) : a - 1 + j \in a .. e /\ s[j] = vals[a - 1 + j]
    BY <2>1, ExcerptFacts
  <2> HIDE DEF s
  <2> QED BY <2>2
<1> HIDE DEF ks, s
<1>14. \A i \in a .. e : i \in 1 .. Len(keys) /\ i >= a /\ i <= e /\ i \in Nat
  BY <1>2, <1>10
<1>15. Len(s) = Len(ks)
  BY <1>12, <1>13
<1>16. Rising(ks)
  <2> SUFFICES ASSUME NEW i \in 1 .. Len(ks), NEW j \in 1 .. Len(ks), i < j PROVE ks[i] < ks[j]
    BY DEF Rising
  <2>1. PICK p, q : p = a - 1 + i /\ q = a - 1 + j
    OBVIOUS
  <2>2. p \in 1 .. Len(keys) /\ q \in 1 .. Len(keys) /\ ks[i] = keys[p] /\ ks[j] = keys[q]
    BY <2>1, <1>12, <1>14
  <2>3. p < q
    BY <2>1, <1>10
  <2> QED BY <2>2, <2>3, <1>3 DEF Rising
<1>17. ASSUME NEW i \in 1 .. Len(ks)
       PROVE  ks[i] \in Window(span[n], lo, hi) /\ Holds(V, ks[i], s[i])
  <2>1. PICK p : p = a - 1 + i
    OBVIOUS
  <2>2. /\ p \in a .. e /\ p \in 1 .. Len(keys) /\ p >= a /\ p <= e
        /\ ks[i] = keys[p] /\ s[i] = vals[p]
    BY <2>1, <1>12, <1>13, <1>14, <1>15
  <2>3. keys[p] \in span[n] /\ keys[p] < hi /\ keys[p] >= lo /\ keys[p] \in Int
    BY <2>2, <1>5, <1>8, <1>9 DEF Cut
  <2>4. lo <= keys[p]
    BY <2>3
  <2>5. Holds(V, keys[p], vals[p])
    BY <2>2, <1>1 DEF Holds
  <2> QED BY <2>2, <2>3, <2>4, <2>5 DEF Window
<1>18. ASSUME NEW k \in Window(span[n], lo, hi), NEW v, Holds(V, k, v)
       PROVE  \E i \in 1 .. Len(ks) : ks[i] = k
  <2>1. k \in span[n] /\ lo <= k /\ k < hi /\ k \in Int
    BY <1>4 DEF Window
  <2>2. PICK m \in V.leaves : \E i \in 1 .. Len(V.keys[m]) : V.keys[m][i] = k /\ V.vals[m][i] = v
    BY <1>18 DEF Holds
  <2>3. PICK i \in 1 .. Len(V.keys[m]) : V.keys[m][i] = k
    BY <2>2
  <2>4. m \in V.ids
    BY DEF Shows
  <2>5. k \in span[m]
    BY <2>3, <2>4 DEF Spans
  <2>6. m = n
    BY <2>1, <2>5 DEF Linking
  <2>7. i \in 1 .. Len(keys) /\ keys[i] = k
    BY <2>3, <2>6, <1>1
  <2>8. i <= e
    BY <2>1, <2>7, <1>9
  <2>9. i >= a
    <3>1. i < a => keys[i] < lo
      BY <2>7, <1>8 DEF Cut
    <3>2. i \in Nat
      BY <2>7
    <3> QED BY <3>1, <3>2, <2>1, <2>7, <1>10
  <2>10. i \in a .. e
    BY <2>7, <2>8, <2>9, <1>10
  <2> QED BY <2>7, <2>10, <1>12
<1>19. Lists(V, ks, Reads(n, lo, hi), Window(span[n], lo, hi))
  BY <1>11, <1>12, <1>13, <1>15, <1>16, <1>17, <1>18 DEF Lists
<1>20. ASSUME PastHi(n, hi) # {}
       PROVE  \E k \in span[n] : k >= hi
  <2>1. PICK i \in DOMAIN nodes[n].keys : nodes[n].keys[i] >= hi
    BY <1>20 DEF PastHi
  <2>2. i \in 1 .. Len(keys) /\ keys[i] >= hi
    BY <2>1, <1>2, LenProperties DEF keys
  <2> QED BY <2>2, <1>5
<1>21. ASSUME PastHi(n, hi) = {}
       PROVE  \A i \in 1 .. Len(V.keys[n]) : V.keys[n][i] < hi
  <2>1. e = Len(keys)
    BY <1>21, <1>6
  <2> QED BY <2>1, <1>1, <1>2, <1>9
<1> QED BY <1>19, <1>20, <1>21

\* Where a scan ends, and what it reads at each leaf.
Stops(V, hi) == {NullPage} \cup {n \in V.leaves : PastHi(n, hi) # {}}
LeafReads(V, lo, hi) ==
  [n \in V.leaves \cup {NullPage} |-> IF n = NullPage THEN << >> ELSE Reads(n, lo, hi)]

\* scanRange collects what it reads along the chain.
LEMMA ScanCollects ==
  ASSUME Shape, NEW V, Shows(V, nodes, root), Plain(V), NEW span, Spans(V, span), Linking(V, span),
         NEW lo, NEW hi
  PROVE  /\ Downward(V.leaves \cup {NullPage}, Stops(V, hi), Onward(V), Ahead(V, span),
                     Cardinality(V.leaves) + 1)
         /\ \E f : /\ Collects(f, V.leaves \cup {NullPage}, Stops(V, hi), Onward(V),
                               LeafReads(V, lo, hi))
                   /\ scanRange(lo, hi) = f[findLeaf(lo)]
<1> DEFINE D == V.leaves \cup {NullPage}
           B == Stops(V, hi)
           v == LeafReads(V, lo, hi)
           From(g) == g = [n \in Leaves \cup {NullPage} |->
                             IF n = NullPage THEN << >>
                             ELSE IF PastHi(n, hi) = {} THEN Reads(n, lo, hi) \o g[nodes[n].next]
                             ELSE Reads(n, lo, hi)]
<1>1. V.leaves = Leaves /\ \A n \in Leaves : V.next[n] = nodes[n].next
  BY DEF Shows, Leaves
<1>2. IsFiniteSet(V.leaves)
  <2>1. DOMAIN nodes \subseteq NodeId
    BY TreeFacts DEF Shape
  <2>2. V.leaves \in SUBSET (0 .. MaxNodes - 1)
    BY <2>1, <1>1 DEF Leaves, NodeId
  <2>3. IsFiniteSet(0 .. MaxNodes - 1)
    BY BTreeAssumption, FS_Interval
  <2> QED BY <2>2, <2>3, FS_Subset
<1>3. Downward(D, {NullPage}, Onward(V), Ahead(V, span), Cardinality(V.leaves) + 1)
  BY <1>2, ChainDescends
<1>4. Downward(D, B, Onward(V), Ahead(V, span), Cardinality(V.leaves) + 1)
  BY <1>3 DEF Downward, Stops
<1>5. PICK f : Collects(f, D, B, Onward(V), v)
  BY <1>4, CollectsExists
<1>6. \A g : From(g) <=> Collects(g, D, B, Onward(V), v)
  <2> TAKE g
  <2>1. ASSUME NEW n \in D
        PROVE  (IF n \in B THEN v[n] ELSE v[n] \o g[Onward(V)[n]])
                 = (IF n = NullPage THEN << >>
                    ELSE IF PastHi(n, hi) = {} THEN Reads(n, lo, hi) \o g[nodes[n].next]
                    ELSE Reads(n, lo, hi))
    <3>1. CASE n = NullPage
      BY <3>1 DEF Stops, LeafReads
    <3>2. CASE n # NullPage
      <4>1. n \in V.leaves /\ v[n] = Reads(n, lo, hi) /\ Onward(V)[n] = nodes[n].next
        BY <3>2, <1>1 DEF LeafReads, Onward
      <4>2. n \in B <=> PastHi(n, hi) # {}
        BY <3>2, <4>1 DEF Stops
      <4> QED BY <3>2, <4>1, <4>2
    <3> QED BY <3>1, <3>2
  <2>2. D = Leaves \cup {NullPage}
    BY <1>1
  <2> QED BY <2>1, <2>2 DEF Collects
<1>7. scanRange(lo, hi) = (CHOOSE g : From(g))[findLeaf(lo)]
  BY DEF scanRange
<1>8. From(CHOOSE g : From(g))
  BY <1>5, <1>6
<1> QED BY <1>4, <1>6, <1>7, <1>8

\* The integers from one of S on.
UpFrom(S) == {k \in Int : \E a \in S : a <= k}

\* From a leaf on a scan reads all that is asked for of the keys from its
\* span on.
LEMMA ChainLists ==
  ASSUME Shape, NEW V, Shows(V, nodes, root), Plain(V), NEW span, Spans(V, span), Linking(V, span),
         NEW lo \in Int, NEW hi \in Int,
         NEW h, NEW c, Downward(V.leaves \cup {NullPage}, Stops(V, hi), Onward(V), h, c),
         NEW f, Collects(f, V.leaves \cup {NullPage}, Stops(V, hi), Onward(V), LeafReads(V, lo, hi))
  PROVE  \A n \in V.leaves : span[n] # {} =>
           \E ks : Lists(V, ks, f[n], Window(UpFrom(span[n]), lo, hi))
<1> DEFINE Good(n) == span[n] # {} => \E ks : Lists(V, ks, f[n], Window(UpFrom(span[n]), lo, hi))
           Bad == {h[n] : n \in {m \in V.leaves : ~Good(m)}}
<1>1. NullPage \notin V.leaves /\ V.leaves \subseteq V.ids
  BY DEF Plain
<1>2. /\ \A n \in V.leaves : span[n] \subseteq Int /\ Convex(span[n])
  BY <1>1 DEF Spans
<1>3. /\ \A n \in V.leaves : h[n] \in Nat
      /\ \A n \in V.leaves : n \notin Stops(V, hi) => h[Onward(V)[n]] < h[n]
  BY DEF Downward
<1>4. \A n \in V.leaves : Onward(V)[n] = V.next[n]
  BY <1>1 DEF Onward
<1>5. f[NullPage] = << >>
  BY DEF Collects, Stops, LeafReads
<1>6. ASSUME NEW n \in V.leaves
      PROVE  /\ PastHi(n, hi) # {} => f[n] = Reads(n, lo, hi)
             /\ PastHi(n, hi) = {} => f[n] = Reads(n, lo, hi) \o f[V.next[n]] /\ n \notin Stops(V, hi)
  <2>1. n # NullPage /\ n \in V.leaves \cup {NullPage}
    BY <1>1
  <2>2. LeafReads(V, lo, hi)[n] = Reads(n, lo, hi)
    BY <2>1 DEF LeafReads
  <2>3. n \in Stops(V, hi) <=> PastHi(n, hi) # {}
    BY <2>1 DEF Stops
  <2>4. f[n] = IF n \in Stops(V, hi) THEN LeafReads(V, lo, hi)[n]
               ELSE LeafReads(V, lo, hi)[n] \o f[Onward(V)[n]]
    BY <2>1 DEF Collects
  <2> QED BY <2>2, <2>3, <2>4, <1>4
<1>7. ASSUME NEW n \in V.leaves, span[n] # {},
             V.next[n] \in V.leaves /\ PastHi(n, hi) = {} => Good(V.next[n])
      PROVE  \E ks : Lists(V, ks, f[n], Window(UpFrom(span[n]), lo, hi))
  <2> DEFINE R == Reads(n, lo, hi)
             A == Window(UpFrom(span[n]), lo, hi)
             A1 == Window(span[n], lo, hi)
  <2>1. PICK k1 : Lists(V, k1, R, A1)
    BY LeafLists
  <2>2. span[n] \subseteq Int /\ Convex(span[n])
    BY <1>2
  <2>3. A1 \subseteq A
    BY <2>2 DEF Window, UpFrom
  <2>4. CASE PastHi(n, hi) # {}
    <3>1. PICK z \in span[n] : z >= hi
      BY <2>4, LeafLists
    <3>2. ASSUME NEW k \in A
          PROVE  k \in A1
      <4>1. k \in Int /\ lo <= k /\ k < hi /\ \E a \in span[n] : a <= k
        BY DEF Window, UpFrom
      <4>2. PICK a \in span[n] : a <= k
        BY <4>1
      <4>3. z \in Int /\ k <= z
        BY <2>2, <3>1, <4>1
      <4>4. k \in span[n]
        BY <2>2, <4>1, <4>2, <4>3 DEF Convex
      <4> QED BY <4>1, <4>4 DEF Window
    <3>3. A = A1
      BY <2>3, <3>2
    <3>4. f[n] = R
      BY <2>4, <1>6
    <3> QED BY <2>1, <3>3, <3>4
  <2>5. CASE PastHi(n, hi) = {} /\ V.next[n] = NullPage /\ \A k \in span[n] : k + 1 \in span[n]
    <3>1. ASSUME NEW k \in A
          PROVE  k \in A1
      <4>1. k \in Int /\ lo <= k /\ k < hi /\ \E a \in span[n] : a <= k
        BY DEF Window, UpFrom
      <4>2. PICK a \in span[n] : a <= k
        BY <4>1
      <4>3. k \in span[n]
        BY <2>2, <2>5, <4>1, <4>2, ClosedUp
      <4> QED BY <4>1, <4>3 DEF Window
    <3>2. A = A1
      BY <2>3, <3>1
    <3>3. f[n] = R \o << >>
      BY <2>5, <1>5, <1>6
    <3>4. R \in Seq(RowIds)
      BY <2>1 DEF Lists
    <3>5. R \o << >> = R
      BY <3>4, ConcatEmptySeq
    <3> QED BY <2>1, <3>2, <3>3, <3>5
  <2>6. CASE /\ PastHi(n, hi) = {} /\ V.next[n] \in V.leaves
             /\ \E b \in Int : /\ b \in span[n] /\ b + 1 \in span[V.next[n]]
                               /\ \A k \in span[n] : k <= b
                               /\ \A k \in span[V.next[n]] : b + 1 <= k
    <3>1. PICK m : m = V.next[n]
      OBVIOUS
    <3>2. m \in V.leaves /\ span[m] \subseteq Int
      BY <2>6, <3>1, <1>2
    <3>3. PICK b \in Int : /\ b \in span[n] /\ b + 1 \in span[m]
                           /\ \A k \in span[n] : k <= b /\ \A x \in span[m] : b + 1 <= x
      BY <2>6, <3>1
    <3> DEFINE A2 == Window(UpFrom(span[m]), lo, hi)
    <3>4. PICK k2 : Lists(V, k2, f[m], A2)
      BY <2>6, <3>1, <3>2, <3>3, <1>7
    <3>5. ASSUME NEW x \in A1, NEW y \in A2
          PROVE  x < y
      <4>1. x \in span[n] /\ y \in Int /\ \E a \in span[m] : a <= y
        BY DEF Window, UpFrom
      <4>2. PICK a \in span[m] : a <= y
        BY <4>1
      <4>3. x \in Int /\ a \in Int /\ x <= b /\ b + 1 <= a
        BY <2>2, <3>2, <3>3, <4>1, <4>2
      <4> QED BY <4>1, <4>2, <4>3
    <3>6. ASSUME NEW k \in A
          PROVE  k \in A1 \cup A2
      <4>1. k \in Int /\ lo <= k /\ k < hi /\ \E a \in span[n] : a <= k
        BY DEF Window, UpFrom
      <4>2. PICK a \in span[n] : a <= k
        BY <4>1
      <4>3. CASE k <= b
        <5>1. k \in span[n]
          BY <2>2, <3>3, <4>1, <4>2, <4>3 DEF Convex
        <5> QED BY <4>1, <5>1 DEF Window
      <4>4. CASE b + 1 <= k
        <5>1. k \in UpFrom(span[m])
          BY <3>3, <4>1, <4>4 DEF UpFrom
        <5> QED BY <4>1, <5>1 DEF Window
      <4>5. k <= b \/ b + 1 <= k
        BY <4>1
      <4> QED BY <4>3, <4>4, <4>5
    <3>7. ASSUME NEW k \in A2
          PROVE  k \in A
      <4>1. k \in Int /\ lo <= k /\ k < hi /\ \E a \in span[m] : a <= k
        BY DEF Window, UpFrom
      <4>2. PICK a \in span[m] : a <= k
        BY <4>1
      <4>3. a \in Int /\ b + 1 <= a
        BY <3>2, <3>3, <4>2
      <4>4. b <= k
        BY <4>1, <4>2, <4>3
      <4>5. k \in UpFrom(span[n])
        BY <3>3, <4>1, <4>4 DEF UpFrom
      <4> QED BY <4>1, <4>5 DEF Window
    <3>8. A = A1 \cup A2
      BY <2>3, <3>6, <3>7
    <3>9. f[n] = R \o f[m]
      BY <2>6, <3>1, <1>6
    <3> HIDE DEF R, A, A1, A2
    <3>10. Lists(V, k1 \o k2, R \o f[m], A1 \cup A2)
      BY <2>1, <3>4, <3>5, ListsCat
    <3>11. Lists(V, k1 \o k2, f[n], A)
      BY <3>8, <3>9, <3>10
    <3> QED BY <3>11 DEF A
  <2> QED BY <2>4, <2>5, <2>6, NextSpan
<1>8. Bad = {}
  <2> SUFFICES ASSUME Bad # {} PROVE FALSE
    OBVIOUS
  <2>1. Bad \in SUBSET Nat
    BY <1>3
  <2>2. PICK k \in Bad : \A j \in Bad : k <= j
    BY <2>1, LeastOf
  <2>3. PICK n \in V.leaves : ~Good(n) /\ k = h[n]
    BY <2>2
  <2>4. ASSUME V.next[n] \in V.leaves, PastHi(n, hi) = {}
        PROVE  Good(V.next[n])
    <3>1. h[V.next[n]] < h[n] /\ h[V.next[n]] \in Nat /\ h[n] \in Nat
      BY <2>4, <1>3, <1>4, <1>6
    <3>2. ~(h[n] <= h[V.next[n]])
      BY <3>1
    <3>3. h[V.next[n]] \notin Bad
      BY <2>2, <2>3, <3>2
    <3> HIDE DEF Good
    <3> QED BY <2>4, <3>3
  <2>5. span[n] # {}
    BY <2>3
  <2>6. \E ks : Lists(V, ks, f[n], Window(UpFrom(span[n]), lo, hi))
    <3> HIDE DEF Good
    <3> QED BY <2>4, <2>5, <1>7
  <2> QED BY <2>3, <2>6
<1> QED BY <1>8

\* scanRange gives the row ids of the stored keys lo <= k < hi, in key order.
ScansExactly ==
  sound =>
    \A lo, hi \in Int :
      \E ks \in Seq(Int) :
        /\ Rising(ks)
        /\ \A k \in Int : k \in Members(ks) <=> k \in Stored /\ lo <= k /\ k < hi
        /\ scanRange(lo, hi) = [i \in 1 .. Len(ks) |-> Find(ks[i])]

\* Stored are the keys the leaves hold.
LEMMA StoredIsHeld ==
  ASSUME Shape, NEW V, Shows(V, nodes, root)
  PROVE  /\ \A k : k \in Stored <=> \E v : Holds(V, k, v)
         /\ Stored \subseteq Keys
<1>1. V.leaves = Leaves /\ \A n \in Leaves : V.keys[n] = nodes[n].keys
  BY DEF Shows, Leaves
<1>2. \A n \in Leaves : nodes[n].keys \in Seq(Keys)
  BY LeafFields
<1>3. \A n \in Leaves : KeysOf(n) = {nodes[n].keys[i] : i \in 1 .. Len(nodes[n].keys)}
  <2> TAKE n \in Leaves
  <2>1. DOMAIN nodes[n].keys = 1 .. Len(nodes[n].keys)
    BY <1>2, LenProperties
  <2> QED BY <2>1 DEF KeysOf, Range
<1>4. ASSUME NEW k
      PROVE  k \in Stored <=> \E v : Holds(V, k, v)
  <2>1. k \in Stored <=> \E n \in Leaves : k \in KeysOf(n)
    BY DEF Stored
  <2>2. (\E v : Holds(V, k, v)) <=> \E n \in Leaves : \E i \in 1 .. Len(nodes[n].keys) : nodes[n].keys[i] = k
    <3>1. ASSUME NEW v, Holds(V, k, v)
          PROVE  \E n \in Leaves : \E i \in 1 .. Len(nodes[n].keys) : nodes[n].keys[i] = k
      <4>1. PICK n \in V.leaves : \E i \in 1 .. Len(V.keys[n]) : V.keys[n][i] = k
        BY <3>1 DEF Holds
      <4> QED BY <4>1, <1>1
    <3>2. ASSUME NEW n \in Leaves, NEW i \in 1 .. Len(nodes[n].keys), nodes[n].keys[i] = k
          PROVE  \E v : Holds(V, k, v)
      <4>1. n \in V.leaves /\ i \in 1 .. Len(V.keys[n]) /\ V.keys[n][i] = k
        BY <1>1, <3>2
      <4> QED BY <4>1 DEF Holds
    <3> QED BY <3>1, <3>2
  <2> QED BY <2>1, <2>2, <1>3
<1>5. Stored \subseteq Keys
  <2> SUFFICES ASSUME NEW n \in Leaves, NEW k \in KeysOf(n) PROVE k \in Keys
    BY DEF Stored
  <2>1. PICK i \in 1 .. Len(nodes[n].keys) : k = nodes[n].keys[i]
    BY <1>3
  <2> QED BY <2>1, <1>2, ElementOfSeq
<1> QED BY <1>4, <1>5

\* A scan from the leaf its first key belongs to reads what is asked for.
LEMMA ScanIsExact ==
  ASSUME Shape, InOrder
  PROVE  ScansExactly
<1> SUFFICES ASSUME sound, NEW lo \in Int, NEW hi \in Int
             PROVE  \E ks \in Seq(Int) :
                      /\ Rising(ks)
                      /\ \A k \in Int : k \in Members(ks) <=> k \in Stored /\ lo <= k /\ k < hi
                      /\ scanRange(lo, hi) = [i \in 1 .. Len(ks) |-> Find(ks[i])]
  BY DEF ScansExactly
<1> DEFINE V == View(nodes, root)
           D == V.leaves \cup {NullPage}
<1>1. Shows(V, nodes, root) /\ Ordered(V)
  BY ViewShows DEF InOrder
<1> HIDE DEF V
<1>2. Plain(V)
  BY <1>1 DEF Ordered
<1>3. PICK span : Spans(V, span) /\ Linking(V, span)
  BY <1>1 DEF Ordered
<1>4. Downward(D, Stops(V, hi), Onward(V), Ahead(V, span), Cardinality(V.leaves) + 1)
  BY <1>1, <1>2, <1>3, ScanCollects
<1>5. PICK f : Collects(f, D, Stops(V, hi), Onward(V), LeafReads(V, lo, hi))
               /\ scanRange(lo, hi) = f[findLeaf(lo)]
  BY <1>1, <1>2, <1>3, ScanCollects
<1>6. PICK n : n = findLeaf(lo)
  OBVIOUS
<1>7. n \in V.leaves /\ lo \in span[n]
  BY <1>1, <1>3, <1>6, LookupArrives DEF Shape
<1>8. PICK h, c : h = Ahead(V, span) /\ c = Cardinality(V.leaves) + 1
  OBVIOUS
<1>9. Downward(D, Stops(V, hi), Onward(V), h, c)
  BY <1>4, <1>8
<1>10. \E ks : Lists(V, ks, f[n], Window(UpFrom(span[n]), lo, hi))
  BY <1>1, <1>2, <1>3, <1>5, <1>7, <1>9, ChainLists
<1>11. PICK ks : Lists(V, ks, scanRange(lo, hi), Window(UpFrom(span[n]), lo, hi))
  BY <1>5, <1>6, <1>10
<1>12. \A k \in Int : k \in Window(UpFrom(span[n]), lo, hi) <=> lo <= k /\ k < hi
  BY <1>7 DEF Window, UpFrom
<1>13. PICK s : s = scanRange(lo, hi)
  OBVIOUS
<1>14. /\ ks \in Seq(Int) /\ Rising(ks) /\ s \in Seq(RowIds) /\ Len(s) = Len(ks)
       /\ \A i \in 1 .. Len(ks) : ks[i] \in Window(UpFrom(span[n]), lo, hi) /\ Holds(V, ks[i], s[i])
       /\ \A k \in Window(UpFrom(span[n]), lo, hi) : \A v : Holds(V, k, v) => \E i \in 1 .. Len(ks) : ks[i] = k
  BY <1>11, <1>13 DEF Lists
<1>15. \A k : k \in Stored <=> \E v : Holds(V, k, v)
  BY <1>1, StoredIsHeld
<1>16. \A i \in 1 .. Len(ks) : ks[i] \in Int
  BY <1>14, ElementOfSeq
<1>17. ASSUME NEW k \in Int
       PROVE  k \in Members(ks) <=> k \in Stored /\ lo <= k /\ k < hi
  <2>1. ASSUME k \in Members(ks)
        PROVE  k \in Stored /\ lo <= k /\ k < hi
    <3>1. PICK i \in 1 .. Len(ks) : k = ks[i]
      BY <2>1 DEF Members
    <3> QED BY <3>1, <1>12, <1>14, <1>15
  <2>2. ASSUME k \in Stored, lo <= k, k < hi
        PROVE  k \in Members(ks)
    <3>1. PICK v : Holds(V, k, v)
      BY <2>2, <1>15
    <3> QED BY <2>2, <3>1, <1>12, <1>14 DEF Members
  <2> QED BY <2>1, <2>2
<1>18. \A i \in 1 .. Len(ks) : s[i] = Find(ks[i])
  BY <1>1, <1>14, <1>16, FindIsHeld
<1>19. s = [i \in 1 .. Len(ks) |-> Find(ks[i])]
  <2>1. s = [i \in 1 .. Len(s) |-> s[i]]
    BY <1>14, LenProperties
  <2> QED BY <2>1, <1>14, <1>18
<1> QED BY <1>13, <1>14, <1>17, <1>19

\* A range scan returns the row ids of exactly the stored keys of its
\* interval, in ascending order of the keys, for every interval and at every
\* step of a rebalancing.
THEOREM ScansAreExact == Spec => []ScansExactly
<1>1. Shape /\ InOrder => ScansExactly
  BY ScanIsExact
<1> QED BY <1>1, OrderInvariant, PTL

-----------------------------------------------------------------------------
(* Ranges between keys *)

\* A part of what the lookups of some keys give is what the lookups of that
\* part of the keys give.
LEMMA PartOfScan ==
  ASSUME NEW ks \in Seq(Int), NEW all, all = [i \in 1 .. Len(ks) |-> Find(ks[i])],
         NEW a \in Int, NEW b \in Int, 1 <= a, a <= b + 1, b <= Len(ks),
         NEW t, t = SubSeq(ks, a, b)
  PROVE  SubSeq(all, a, b) = [i \in 1 .. Len(t) |-> Find(t[i])]
<1> DEFINE n == Len(ks)
           S == {Find(ks[i]) : i \in 1 .. n}
           p == SubSeq(all, a, b)
<1>1. n \in Nat
  BY LenProperties
<1>2. all \in Seq(S) /\ Len(all) = n /\ \A i \in 1 .. n : all[i] = Find(ks[i])
  <2>1. all \in [1 .. n -> S]
    OBVIOUS
  <2> QED BY <2>1, <1>1
<1>3. Len(t) = b - a + 1 /\ \A i \in 1 .. b - a + 1 : t[i] = ks[a + i - 1]
  BY SubFacts
<1> HIDE DEF n, S
<1>4. b <= Len(all)
  BY <1>2 DEF n
<1>5. p \in Seq(S) /\ Len(p) = b - a + 1 /\ \A i \in 1 .. b - a + 1 : p[i] = all[a + i - 1]
  BY <1>2, <1>4, SubFacts
<1>6. \A i \in 1 .. b - a + 1 : p[i] = Find(t[i])
  <2> TAKE i \in 1 .. b - a + 1
  <2>1. a + i - 1 \in 1 .. n
    BY <1>1 DEF n
  <2> QED BY <2>1, <1>2, <1>3, <1>5
<1> HIDE DEF p
<1>7. p = [i \in 1 .. Len(p) |-> p[i]]
  BY <1>5, LenProperties
<1>8. p = [i \in 1 .. Len(t) |-> Find(t[i])]
  BY <1>3, <1>5, <1>6, <1>7
<1> QED BY <1>8 DEF p

\* Scans from the least key on, and to the greatest, are the parts of the
\* scan of the whole range.
LEMMA ScansMakeRanges ==
  ASSUME ScansExactly, Stored \subseteq Keys, IsFiniteSet(Keys), Keys # {}
  PROVE  RangeScan
<1> DEFINE first == Least(Keys)
           end == Greatest(Keys) + 1
           all == scanRange(first, end)
           Rank(k) == Cardinality({j \in Stored : j < k})
<1> SUFFICES ASSUME sound
             PROVE  /\ Len(all) = Cardinality(Stored)
                    /\ \A k \in Stored : all[Rank(k) + 1] = Find(k)
                    /\ \A k \in Keys :
                         /\ scanRange(k, end) = SubSeq(all, Rank(k) + 1, Len(all))
                         /\ scanRange(first, k) = SubSeq(all, 1, Rank(k))
  BY DEF RangeScan
<1>1. Keys \in SUBSET Int
  BY BTreeAssumption DEF Keys
<1>2. /\ first \in Keys /\ \A j \in Keys : first <= j
      /\ Greatest(Keys) \in Keys /\ \A j \in Keys : j <= Greatest(Keys)
  BY <1>1, Extremes
<1>3. first \in Int /\ end \in Int /\ Greatest(Keys) \in Int
  <2>1. PICK g : g = Greatest(Keys)
    OBVIOUS
  <2>2. g \in Int
    BY <2>1, <1>1, <1>2
  <2>3. first \in Int
    BY <1>1, <1>2
  <2> QED BY <2>1, <2>2, <2>3
<1>4. \A j \in Keys : first <= j /\ j < end /\ j \in Int
  <2> TAKE j \in Keys
  <2>1. j \in Int /\ first <= j /\ j <= Greatest(Keys)
    BY <1>1, <1>2
  <2> QED BY <2>1, <1>3
<1>5. \A lo, hi \in Int :
        \E ks \in Seq(Int) :
          /\ Rising(ks)
          /\ \A k \in Int : k \in Members(ks) <=> k \in Stored /\ lo <= k /\ k < hi
          /\ scanRange(lo, hi) = [i \in 1 .. Len(ks) |-> Find(ks[i])]
  BY DEF ScansExactly
<1> HIDE DEF first, end, all
<1>6. PICK ks \in Seq(Int) :
          /\ Rising(ks)
          /\ \A k \in Int : k \in Members(ks) <=> k \in Stored /\ first <= k /\ k < end
          /\ scanRange(first, end) = [i \in 1 .. Len(ks) |-> Find(ks[i])]
  BY <1>3, <1>5
<1>7. all = [i \in 1 .. Len(ks) |-> Find(ks[i])]
  BY <1>6 DEF all
<1>8. Len(ks) \in Nat /\ \A i \in 1 .. Len(ks) : ks[i] \in Int
  BY LenProperties, ElementOfSeq
<1>9. Len(all) = Len(ks)
  <2>1. PICK n : n = Len(ks)
    OBVIOUS
  <2> QED BY <2>1, <1>7, <1>8
<1>10. Members(ks) = Stored
  <2>1. Members(ks) \subseteq Int
    BY <1>8 DEF Members
  <2>2. \A j \in Stored : j \in Int /\ first <= j /\ j < end
    BY <1>4
  <2> QED BY <2>1, <2>2, <1>6
<1>11. Len(all) = Cardinality(Stored)
  BY <1>6, <1>9, <1>10, RisingCount
<1>12. ASSUME NEW k \in Keys
       PROVE  /\ k \in Stored => all[Rank(k) + 1] = Find(k)
              /\ scanRange(k, end) = SubSeq(all, Rank(k) + 1, Len(all))
              /\ scanRange(first, k) = SubSeq(all, 1, Rank(k))
  <2>1. k \in Int /\ first <= k /\ k < end
    BY <1>4
  <2>2. PICK r : r \in 1 .. Len(ks) + 1 /\ Cut(ks, r, k)
    BY <2>1, <1>6, PlaceCuts
  <2>3. r \in Int /\ 1 <= r /\ r <= Len(ks) + 1
    BY <2>2, <1>8
  <2>4. Cardinality({j \in Members(ks) : j < k}) = r - 1
    BY <2>1, <2>2, <1>6, RankOfCut
  <2>5. Rank(k) = r - 1
    BY <2>4, <1>10
  <2> HIDE DEF Rank
  <2>6. Rank(k) + 1 = r
    BY <2>3, <2>5
  <2>7. PICK t, u : t = SubSeq(ks, 1, r - 1) /\ u = SubSeq(ks, r, Len(ks))
    OBVIOUS
  <2>8. /\ Rising(t) /\ Rising(u) /\ t \in Seq(Int) /\ u \in Seq(Int)
        /\ \A j : j \in Members(t) <=> j \in Members(ks) /\ j < k
        /\ \A j : j \in Members(u) <=> j \in Members(ks) /\ k <= j
        /\ k \in Members(ks) => r <= Len(ks) /\ ks[r] = k
    BY <2>1, <2>2, <2>7, <1>6, CutAtKey
  <2>9. ASSUME k \in Stored
        PROVE  all[r] = Find(k)
    <3>1. r \in 1 .. Len(ks) /\ ks[r] = k
      BY <2>3, <2>8, <2>9, <1>10
    <3> QED BY <3>1, <1>7
  <2>10. scanRange(k, end) = SubSeq(all, r, Len(all))
    <3>1. PICK ls \in Seq(Int) :
            /\ Rising(ls)
            /\ \A j \in Int : j \in Members(ls) <=> j \in Stored /\ k <= j /\ j < end
            /\ scanRange(k, end) = [i \in 1 .. Len(ls) |-> Find(ls[i])]
      BY <2>1, <1>3, <1>5
    <3>2. \A j \in Int : j \in Members(ls) <=> j \in Members(u)
      BY <3>1, <2>8, <1>4, <1>10
    <3>3. ls = u
      BY <3>1, <3>2, <2>8, RisingSame
    <3>4. SubSeq(all, r, Len(ks)) = [i \in 1 .. Len(u) |-> Find(u[i])]
      <4>1. PICK b \in Int : b = Len(ks)
        BY <1>8
      <4>2. 1 <= r /\ r <= b + 1 /\ b <= Len(ks) /\ u = SubSeq(ks, r, b)
        BY <4>1, <2>3, <2>7
      <4>3. SubSeq(all, r, b) = [i \in 1 .. Len(u) |-> Find(u[i])]
        BY <4>2, <2>3, <1>7, PartOfScan
      <4> QED BY <4>1, <4>3
    <3> QED BY <3>1, <3>3, <3>4, <1>9
  <2>11. scanRange(first, k) = SubSeq(all, 1, r - 1)
    <3>1. PICK ls \in Seq(Int) :
            /\ Rising(ls)
            /\ \A j \in Int : j \in Members(ls) <=> j \in Stored /\ first <= j /\ j < k
            /\ scanRange(first, k) = [i \in 1 .. Len(ls) |-> Find(ls[i])]
      BY <2>1, <1>3, <1>5
    <3>2. \A j \in Int : j \in Members(ls) <=> j \in Members(t)
      BY <3>1, <2>8, <1>4, <1>10
    <3>3. ls = t
      BY <3>1, <3>2, <2>8, RisingSame
    <3>4. SubSeq(all, 1, r - 1) = [i \in 1 .. Len(t) |-> Find(t[i])]
      <4>1. PICK b \in Int : b = r - 1
        BY <2>3
      <4>2. 1 <= b + 1 /\ b <= Len(ks) /\ t = SubSeq(ks, 1, b)
        BY <4>1, <2>3, <2>7, <1>8
      <4>3. SubSeq(all, 1, b) = [i \in 1 .. Len(t) |-> Find(t[i])]
        BY <4>2, <1>7, PartOfScan
      <4> QED BY <4>1, <4>3
    <3> QED BY <3>1, <3>3, <3>4
  <2> QED BY <2>5, <2>6, <2>9, <2>10, <2>11
<1> QED BY <1>11, <1>12, <1>1 DEF all

\* Where the keys a client may use are finitely many, as the values of an int
\* are, the scans whose ends are keys agree with each other and with the
\* lookups in the order of the keys.
THEOREM RangesScanned ==
  ASSUME IsFiniteSet(Keys), Keys # {}
  PROVE  Spec => []RangeScan
<1>1. Shape /\ InOrder => RangeScan
  <2> SUFFICES ASSUME Shape, InOrder PROVE RangeScan
    OBVIOUS
  <2>1. ScansExactly
    BY ScanIsExact
  <2>2. PICK V : V = View(nodes, root)
    OBVIOUS
  <2>3. Shows(V, nodes, root)
    BY <2>2, ViewShows DEF InOrder
  <2>4. Stored \subseteq Keys
    BY <2>3, StoredIsHeld
  <2> QED BY <2>1, <2>4, ScansMakeRanges
<1> QED BY <1>1, OrderInvariant, PTL

=============================================================================
