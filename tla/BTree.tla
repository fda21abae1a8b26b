------------------------------- MODULE BTree -------------------------------
(***************************************************************************)
(* The B*-tree behind every INDEXED column: nodes that split two into      *)
(* three when they and a sibling are full, leaves linked in key order.     *)
(*                                                                         *)
(* insert() and erase() change one leaf and then walk up the tree by tail  *)
(* calls (redistributeOrSplitLeaf, redistributeOrSplitInternal,            *)
(* fixUnderflow); `call' is the call still to be made, and each action is  *)
(* the body of one call.  Positions are 1-based here, 0-based in the code, *)
(* and key_count is the length of `keys'.                                  *)
(*                                                                         *)
(* NodeStore numbers nodes with a counter and never uses a number twice;   *)
(* here a new node takes the least unused number, so that the tree has     *)
(* finitely many states.  The one difference this could make is a          *)
(* reference to a node that was freed; PointersAgree rules it out until a  *)
(* subtree is misplaced or a child orphaned.                               *)
(***************************************************************************)
EXTENDS Integers, Sequences, SequencesExt, FiniteSets, TLC

CONSTANTS
  MaxKeys,    \* BTREE_MAX_KEYS
  Entries,    \* the (key, RowId) pairs a client may insert
  NoRid,      \* what a lookup returns for a key that is not there
  MaxNodes,   \* bound on the nodes of the tree
  Spare       \* an insertion starts only with so many node numbers unused

NodeId == 0 .. MaxNodes - 1
NullPage == -1
MinKeys == (MaxKeys * 2 + 2) \div 3
Keys == {e[1] : e \in Entries}
RowIds == {e[2] : e \in Entries}

ASSUME BTreeAssumption ==
  /\ MaxKeys \in Nat /\ MaxKeys >= 3
  /\ MaxNodes \in Nat \ {0} /\ Spare \in Nat
  /\ \A e \in Entries : e[1] \in Int /\ e[2] # NoRid

VARIABLES
  nodes,   \* the node store: a function from the ids in use to nodes
  root,    \* NodeStore::getRoot()
  call,    \* the pending call: what it does ("overflow", "underflow", or
           \* "none") and the node it is about
  harm     \* history: what has gone wrong so far

vars == <<nodes, root, call, harm>>

\* What can go wrong: a call put a subtree where lookups miss it; it left a
\* child naming its former parent; it ended with an exception and its node
\* too large or too small; it read outside a vector.
Harms == {"misplaced", "orphaned", "stuck", "outside"}
sound == "misplaced" \notin harm
ub == "outside" \in harm

Leaf(keys, vals, parent, next) ==
  [leaf |-> TRUE, keys |-> keys, vals |-> vals, kids |-> << >>,
   parent |-> parent, next |-> next]
Inner(keys, kids, parent) ==
  [leaf |-> FALSE, keys |-> keys, vals |-> << >>, kids |-> kids,
   parent |-> parent, next |-> NullPage]

NoCall == [fn |-> "none", node |-> NullPage]
Overflow(n) == [fn |-> "overflow", node |-> n]
Underflow(n) == [fn |-> "underflow", node |-> n]

Leaves == {n \in DOMAIN nodes : nodes[n].leaf}

-----------------------------------------------------------------------------
(* Looking up a key *)

\* The child of n a lookup of k goes down to.
Child(n, k) ==
  LET above == {i \in DOMAIN nodes[n].keys : k < nodes[n].keys[i]}
  IN  IF above = {} THEN Last(nodes[n].kids)
      ELSE nodes[n].kids[CHOOSE i \in above : \A j \in above : i <= j]

findLeaf(k) ==
  LET down[n \in DOMAIN nodes] == IF nodes[n].leaf THEN n ELSE down[Child(n, k)]
  IN  down[root]

\* The scan of the leaf stops at the first key above k.
Find(k) ==
  LET leaf == nodes[findLeaf(k)]
      hits == {i \in DOMAIN leaf.keys :
                 leaf.keys[i] = k /\ \A j \in 1 .. i - 1 : leaf.keys[j] < k}
  IN  IF hits = {} THEN NoRid ELSE leaf.vals[CHOOSE i \in hits : TRUE]

\* The position binary search gives k in a sequence of keys.
lowerBound(keys, k) ==
  LET places == 1 .. Len(keys) + 1
      bs[x \in places \X places] ==
        LET lo == x[1]
            hi == x[2]
            mid == (lo + hi - 2) \div 2 + 1
        IN  IF lo >= hi THEN lo
            ELSE IF keys[mid] < k THEN bs[<<mid + 1, hi>>]
            ELSE bs[<<lo, mid>>]
  IN  bs[<<1, Len(keys) + 1>>]

\* The positions of a leaf at which a scan of lo <= k < hi ends.
PastHi(n, hi) == {i \in DOMAIN nodes[n].keys : nodes[n].keys[i] >= hi}

\* What such a scan reads in a leaf.
Reads(n, lo, hi) ==
  LET past == PastHi(n, hi)
      end  == IF past = {} THEN Len(nodes[n].keys)
              ELSE (CHOOSE i \in past : \A j \in past : i <= j) - 1
      result[i \in 0 .. end] ==
        IF i = 0 THEN << >>
        ELSE IF nodes[n].keys[i] >= lo THEN Append(result[i - 1], nodes[n].vals[i])
        ELSE result[i - 1]
  IN  result[end]

\* Keys lo <= k < hi, read along the chain of leaves.
scanRange(lo, hi) ==
  LET from[n \in Leaves \cup {NullPage}] ==
        IF n = NullPage THEN << >>
        ELSE IF PastHi(n, hi) = {} THEN Reads(n, lo, hi) \o from[nodes[n].next]
        ELSE Reads(n, lo, hi)
  IN  from[findLeaf(lo)]

-----------------------------------------------------------------------------
(* Relatives of a node *)

IsRoot(n) == nodes[n].parent = NullPage
Parent(n) == nodes[nodes[n].parent]

findChildIndex(p, n) == CHOOSE i \in DOMAIN nodes[p].kids : nodes[p].kids[i] = n
Index(n) == findChildIndex(nodes[n].parent, n)

\* findChildIndex finds n among the children of the parent n names.
Known(n) == nodes[n].parent \in DOMAIN nodes /\ n \in Range(Parent(n).kids)

HasLeft(n) == Index(n) > 1
HasRight(n) == Index(n) < Len(Parent(n).kids)
Left(n) == Parent(n).kids[Index(n) - 1]
Right(n) == Parent(n).kids[Index(n) + 1]
Full(n) == Len(nodes[n].keys) >= MaxKeys

\* NodeStore::alloc.
Unused == NodeId \ DOMAIN nodes
LeastUnused(S) == CHOOSE n \in Unused \ S : \A m \in Unused \ S : n <= m
NewNode == LeastUnused({})
NewRoot == LeastUnused({NewNode})

\* The bound MaxNodes: k more nodes can be numbered.
NumbersFor(k) == Cardinality(Unused) >= k

Reparent(f, kids, p) ==
  [n \in DOMAIN f |-> IF n \in kids THEN [f[n] EXCEPT !.parent = p] ELSE f[n]]
Without(f, n) == [m \in DOMAIN f \ {n} |-> f[m]]
Put(f, n, N) == [m \in DOMAIN f \cup {n} |-> IF m = n THEN N ELSE f[m]]

-----------------------------------------------------------------------------
(* What the code does to two neighbouring nodes l and r, i being the place *)
(* of l among the children of their parent: the store that results.        *)

\* Mutant of ShiftRight: the separator is read before the key moves.
ShiftRightStale(p, i) ==
  LET l == nodes[p].kids[i]
      r == nodes[p].kids[i + 1]
      L == nodes[l]
      R == nodes[r]
      moved == Last(L.kids)
  IN IF L.leaf
     THEN [nodes EXCEPT ![p] = [nodes[p] EXCEPT !.keys[i] = Head(R.keys)],
                         ![l] = [L EXCEPT !.keys = Front(@), !.vals = Front(@)],
                         ![r] = [R EXCEPT !.keys = <<Last(L.keys)>> \o @, !.vals = <<Last(L.vals)>> \o @]]
     ELSE [nodes EXCEPT ![p] = [nodes[p] EXCEPT !.keys[i] = Last(L.keys)],
                         ![l] = [L EXCEPT !.keys = Front(@), !.kids = Front(@)],
                         ![r] = [R EXCEPT !.keys = <<nodes[p].keys[i]>> \o @, !.kids = <<moved>> \o @],
                         ![moved] = [nodes[moved] EXCEPT !.parent = r]]

\* The last key of l becomes the first of r (in internal nodes by way of
\* the separator, and the last child moves with it).
ShiftRight(p, i) ==
  LET l == nodes[p].kids[i]
      r == nodes[p].kids[i + 1]
      L == nodes[l]
      R == nodes[r]
      moved == Last(L.kids)
  IN IF L.leaf
     THEN [nodes EXCEPT ![p] = [nodes[p] EXCEPT !.keys[i] = Last(L.keys)],
                         ![l] = [L EXCEPT !.keys = Front(@), !.vals = Front(@)],
                         ![r] = [R EXCEPT !.keys = <<Last(L.keys)>> \o @, !.vals = <<Last(L.vals)>> \o @]]
     ELSE [nodes EXCEPT ![p] = [nodes[p] EXCEPT !.keys[i] = Last(L.keys)],
                         ![l] = [L EXCEPT !.keys = Front(@), !.kids = Front(@)],
                         ![r] = [R EXCEPT !.keys = <<nodes[p].keys[i]>> \o @, !.kids = <<moved>> \o @],
                         ![moved] = [nodes[moved] EXCEPT !.parent = r]]

\* The first key of r becomes the last of l.
ShiftLeft(p, i) ==
  LET l == nodes[p].kids[i]
      r == nodes[p].kids[i + 1]
      L == nodes[l]
      R == nodes[r]
      moved == Head(R.kids)
  IN IF L.leaf
     THEN [nodes EXCEPT ![p] = [nodes[p] EXCEPT !.keys[i] = R.keys[2]],
                         ![l] = [L EXCEPT !.keys = Append(@, Head(R.keys)), !.vals = Append(@, Head(R.vals))],
                         ![r] = [R EXCEPT !.keys = Tail(@), !.vals = Tail(@)]]
     ELSE [nodes EXCEPT ![p] = [nodes[p] EXCEPT !.keys[i] = Head(R.keys)],
                         ![l] = [L EXCEPT !.keys = Append(@, nodes[p].keys[i]), !.kids = Append(@, moved)],
                         ![r] = [R EXCEPT !.keys = Tail(@), !.kids = Tail(@)],
                         ![moved] = [nodes[moved] EXCEPT !.parent = l]]

\* Mutant of LeafThirds: the left leaf keeps its link to the right one.
LeafThirdsUnlinked(p, i, j) ==
  LET l == nodes[p].kids[i]
      r == nodes[p].kids[i + 1]
      keys == nodes[l].keys \o nodes[r].keys
      vals == nodes[l].vals \o nodes[r].vals
      n1 == Len(keys) \div 3
      n2 == (Len(keys) - n1) \div 2
      m == NewNode
      third(from, to, parent, next) ==
        Leaf(SubSeq(keys, from, to), SubSeq(vals, from, to), parent, next)
      thirds == <<third(1, n1, nodes[l].parent, r),
                  third(n1 + 1, n1 + n2, p, r),
                  third(n1 + n2 + 1, Len(keys), nodes[r].parent, nodes[r].next)>>
      parent == [nodes[p] EXCEPT
                   !.keys = InsertAt([@ EXCEPT ![i] = thirds[j + 1].keys[1]], i, thirds[j].keys[1]),
                   !.kids = InsertAt(@, i + 1, m)]
  IN Put([nodes EXCEPT ![p] = parent, ![l] = thirds[1], ![r] = thirds[3]], m, thirds[2])

\* The keys of leaves l and r, shared out over l, a new node and r.  The
\* separators are the first keys of thirds j and j + 1.
LeafThirds(p, i, j) ==
  LET l == nodes[p].kids[i]
      r == nodes[p].kids[i + 1]
      keys == nodes[l].keys \o nodes[r].keys
      vals == nodes[l].vals \o nodes[r].vals
      n1 == Len(keys) \div 3
      n2 == (Len(keys) - n1) \div 2
      m == NewNode
      third(from, to, parent, next) ==
        Leaf(SubSeq(keys, from, to), SubSeq(vals, from, to), parent, next)
      thirds == <<third(1, n1, nodes[l].parent, m),
                  third(n1 + 1, n1 + n2, p, r),
                  third(n1 + n2 + 1, Len(keys), nodes[r].parent, nodes[r].next)>>
      parent == [nodes[p] EXCEPT
                   !.keys = InsertAt([@ EXCEPT ![i] = thirds[j + 1].keys[1]], i, thirds[j].keys[1]),
                   !.kids = InsertAt(@, i + 1, m)]
  IN Put([nodes EXCEPT ![p] = parent, ![l] = thirds[1], ![r] = thirds[3]], m, thirds[2])

\* Mutant of InnerThirds: the children of the new node keep their parent.
InnerThirdsOrphans(p, i, place) ==
  LET l == nodes[p].kids[i]
      r == nodes[p].kids[i + 1]
      keys == nodes[l].keys \o <<nodes[p].keys[i]>> \o nodes[r].keys
      kids == nodes[l].kids \o nodes[r].kids
      k1 == (Len(keys) - 2) \div 3
      k2 == (Len(keys) - 2 - k1) \div 2
      m == NewNode
      B == Inner(SubSeq(keys, k1 + 2, k1 + k2 + 1), SubSeq(kids, k1 + 2, k1 + k2 + 2), p)
      A == Inner(SubSeq(keys, 1, k1), SubSeq(kids, 1, k1 + 1), nodes[l].parent)
      C == Inner(SubSeq(keys, k1 + k2 + 3, Len(keys)), SubSeq(kids, k1 + k2 + 3, Len(kids)),
                 nodes[r].parent)
      parent == [nodes[p] EXCEPT
                   !.keys = InsertAt([@ EXCEPT ![i] = keys[k1 + k2 + 2]], i, keys[k1 + 1]),
                   !.kids = InsertAt(@, place, m)]
  IN Put([nodes EXCEPT ![p] = parent, ![l] = A, ![r] = C], m, B)

\* Mutant of InnerThirds: the lower median is taken one key too far.
InnerThirdsOffByOne(p, i, place) ==
  LET l == nodes[p].kids[i]
      r == nodes[p].kids[i + 1]
      keys == nodes[l].keys \o <<nodes[p].keys[i]>> \o nodes[r].keys
      kids == nodes[l].kids \o nodes[r].kids
      k1 == (Len(keys) - 2) \div 3
      k2 == (Len(keys) - 2 - k1) \div 2
      m == NewNode
      B == Inner(SubSeq(keys, k1 + 2, k1 + k2 + 1), SubSeq(kids, k1 + 2, k1 + k2 + 2), p)
      A == Inner(SubSeq(keys, 1, k1), SubSeq(kids, 1, k1 + 1), nodes[l].parent)
      C == Inner(SubSeq(keys, k1 + k2 + 3, Len(keys)), SubSeq(kids, k1 + k2 + 3, Len(kids)),
                 nodes[r].parent)
      parent == [nodes[p] EXCEPT
                   !.keys = InsertAt([@ EXCEPT ![i] = keys[k1 + k2 + 2]], i, keys[k1 + 2]),
                   !.kids = InsertAt(@, place, m)]
  IN Put([Reparent(nodes, Range(B.kids), m) EXCEPT ![p] = parent, ![l] = A, ![r] = C], m, B)

\* Internal nodes l and r over three; the new node becomes child number
\* `place' of the parent.
InnerThirds(p, i, place) ==
  LET l == nodes[p].kids[i]
      r == nodes[p].kids[i + 1]
      keys == nodes[l].keys \o <<nodes[p].keys[i]>> \o nodes[r].keys
      kids == nodes[l].kids \o nodes[r].kids
      k1 == (Len(keys) - 2) \div 3
      k2 == (Len(keys) - 2 - k1) \div 2
      m == NewNode
      B == Inner(SubSeq(keys, k1 + 2, k1 + k2 + 1), SubSeq(kids, k1 + 2, k1 + k2 + 2), p)
      A == Inner(SubSeq(keys, 1, k1), SubSeq(kids, 1, k1 + 1), nodes[l].parent)
      C == Inner(SubSeq(keys, k1 + k2 + 3, Len(keys)), SubSeq(kids, k1 + k2 + 3, Len(kids)),
                 nodes[r].parent)
      parent == [nodes[p] EXCEPT
                   !.keys = InsertAt([@ EXCEPT ![i] = keys[k1 + k2 + 2]], i, keys[k1 + 1]),
                   !.kids = InsertAt(@, place, m)]
  IN Put([Reparent(nodes, Range(B.kids), m) EXCEPT ![p] = parent, ![l] = A, ![r] = C], m, B)

\* r is emptied into l and freed, and its separator removed.
Merged(p, i) ==
  LET l == nodes[p].kids[i]
      r == nodes[p].kids[i + 1]
      L == nodes[l]
      R == nodes[r]
      one == IF L.leaf
             THEN [L EXCEPT !.keys = @ \o R.keys, !.vals = @ \o R.vals, !.next = R.next]
             ELSE [L EXCEPT !.keys = @ \o <<nodes[p].keys[i]>> \o R.keys, !.kids = @ \o R.kids]
      parent == [nodes[p] EXCEPT !.keys = RemoveAt(@, i), !.kids = RemoveAt(@, i + 1)]
  IN Without([Reparent(nodes, Range(R.kids), l) EXCEPT ![p] = parent, ![l] = one], r)

-----------------------------------------------------------------------------
(* The constructor of BTree makes an empty leaf the root. *)
Init ==
  /\ nodes = [n \in {0} |-> Leaf(<< >>, << >>, NullPage, NullPage)]
  /\ root = 0
  /\ call = NoCall
  /\ harm = {}

-----------------------------------------------------------------------------
(* insert.  A key that a lookup finds is refused; else it goes to its leaf. *)

\* Mutant of Insert: the key is put where its row belongs.
InsertNoRow(k, r) ==
  /\ call = NoCall /\ ~ub
  /\ NumbersFor(Spare)
  /\ Find(k) = NoRid
  /\ LET n == findLeaf(k)
         i == lowerBound(nodes[n].keys, k)
     IN  /\ nodes' = [nodes EXCEPT ![n].keys = InsertAt(@, i, k), ![n].vals = InsertAt(@, i, k)]
         /\ call' = IF Len(nodes[n].keys) + 1 > MaxKeys THEN Overflow(n) ELSE NoCall
  /\ UNCHANGED <<root, harm>>

Insert(k, r) ==
  /\ call = NoCall /\ ~ub
  /\ NumbersFor(Spare)
  /\ Find(k) = NoRid
  /\ LET n == findLeaf(k)
         i == lowerBound(nodes[n].keys, k)
     IN  /\ nodes' = [nodes EXCEPT ![n].keys = InsertAt(@, i, k), ![n].vals = InsertAt(@, i, r)]
         /\ call' = IF Len(nodes[n].keys) + 1 > MaxKeys THEN Overflow(n) ELSE NoCall
  /\ UNCHANGED <<root, harm>>

\* The node an overflow call is about, at any level.
Overflows(n) == call = Overflow(n) /\ ~ub

\* redistributeOrSplitLeaf and redistributeOrSplitInternal begin alike: the
\* root splits in two under a new root.
Top(n, key) == Inner(<<key>>, <<n, NewNode>>, NullPage)

LeafRootSplits(n) ==
  /\ Overflows(n) /\ IsRoot(n) /\ nodes[n].leaf /\ NumbersFor(2)
  /\ LET N == nodes[n]
         half == Len(N.keys) \div 2
         A == Leaf(SubSeq(N.keys, 1, half), SubSeq(N.vals, 1, half), NewRoot, NewNode)
         B == Leaf(SubSeq(N.keys, half + 1, Len(N.keys)),
                   SubSeq(N.vals, half + 1, Len(N.vals)), NewRoot, N.next)
     IN nodes' = Put(Put([nodes EXCEPT ![n] = A], NewNode, B), NewRoot, Top(n, N.keys[half + 1]))
  /\ root' = NewRoot
  /\ call' = NoCall
  /\ UNCHANGED harm

\* The median goes up to the new root and stays in neither half.
InnerRootSplits(n) ==
  /\ Overflows(n) /\ IsRoot(n) /\ ~nodes[n].leaf /\ NumbersFor(2)
  /\ LET N == nodes[n]
         half == Len(N.keys) \div 2
         kids == SubSeq(N.kids, half + 2, Len(N.kids))
         A == Inner(SubSeq(N.keys, 1, half), SubSeq(N.kids, 1, half + 1), NewRoot)
         B == Inner(SubSeq(N.keys, half + 2, Len(N.keys)), kids, NewRoot)
     IN nodes' = Put(Put([Reparent(nodes, Range(kids), NewNode) EXCEPT ![n] = A], NewNode, B),
                     NewRoot, Top(n, N.keys[half + 1]))
  /\ root' = NewRoot
  /\ call' = NoCall
  /\ UNCHANGED harm

\* A leaf gives a key to a sibling that has room, the left one first.
LeafGivesLeft(n) ==
  /\ Overflows(n) /\ nodes[n].leaf /\ Known(n)
  /\ HasLeft(n) /\ ~Full(Left(n))
  /\ nodes' = ShiftLeft(nodes[n].parent, Index(n) - 1)
  /\ call' = NoCall
  /\ UNCHANGED <<root, harm>>

LeafGivesRight(n) ==
  /\ Overflows(n) /\ nodes[n].leaf /\ Known(n)
  /\ HasLeft(n) => Full(Left(n))
  /\ HasRight(n) /\ ~Full(Right(n))
  /\ nodes' = ShiftRight(nodes[n].parent, Index(n))
  /\ call' = NoCall
  /\ UNCHANGED <<root, harm>>

\* After a split the parent has one key more and may overflow in turn.
ParentCall(p) == IF Full(p) THEN Overflow(p) ELSE NoCall

NoRoom(n) == /\ Known(n)
             /\ HasLeft(n) => Full(Left(n))
             /\ HasRight(n) => Full(Right(n))

LeafSplitsRight(n) ==
  /\ Overflows(n) /\ nodes[n].leaf /\ NoRoom(n) /\ HasRight(n) /\ NumbersFor(1)
  /\ nodes' = LeafThirds(nodes[n].parent, Index(n), 2)
  /\ call' = ParentCall(nodes[n].parent)
  /\ UNCHANGED <<root, harm>>

\* The last child splits with its left sibling; the separators put into the
\* parent are the first keys of the left and the middle leaf.
LeafSplitsLeft(n) ==
  /\ Overflows(n) /\ nodes[n].leaf /\ NoRoom(n) /\ HasLeft(n) /\ ~HasRight(n)
  /\ NumbersFor(1)
  /\ nodes' = LeafThirds(nodes[n].parent, Index(n) - 1, 1)
  /\ call' = ParentCall(nodes[n].parent)
  /\ harm' = harm \cup {"misplaced"}
  /\ UNCHANGED root

\* An internal node that overflows takes a key and a child from a sibling
\* with room.  A sibling left without keys has none to give: the code then
\* reads outside its vectors.
InnerTakesLeft(n) ==
  /\ Overflows(n) /\ ~nodes[n].leaf /\ Known(n)
  /\ HasLeft(n) /\ ~Full(Left(n))
  /\ IF nodes[Left(n)].keys = << >>
       THEN harm' = harm \cup {"outside"} /\ UNCHANGED nodes
       ELSE nodes' = ShiftRight(nodes[n].parent, Index(n) - 1) /\ UNCHANGED harm
  /\ call' = NoCall
  /\ UNCHANGED root

InnerTakesRight(n) ==
  /\ Overflows(n) /\ ~nodes[n].leaf /\ Known(n)
  /\ HasLeft(n) => Full(Left(n))
  /\ HasRight(n) /\ ~Full(Right(n))
  /\ IF nodes[Right(n)].keys = << >>
       THEN harm' = harm \cup {"outside"} /\ UNCHANGED nodes
       ELSE nodes' = ShiftLeft(nodes[n].parent, Index(n)) /\ UNCHANGED harm
  /\ call' = NoCall
  /\ UNCHANGED root

\* Only the children of the middle node are told of their new parent; of two
\* nodes that differ enough in size, one also hands children to the other.
Uneven(left, right) ==
  LET k1 == (left + right - 3) \div 3
      k2 == (left + right - 3 - k1) \div 2
  IN  k1 + 1 > left \/ k1 + k2 + 2 < left
HandsOver(p, i) ==
  Uneven(Len(nodes[nodes[p].kids[i]].kids), Len(nodes[nodes[p].kids[i + 1]].kids))
Orphaned(p, i) == IF HandsOver(p, i) THEN {"orphaned"} ELSE {}

InnerSplitsRight(n) ==
  /\ Overflows(n) /\ ~nodes[n].leaf /\ NoRoom(n) /\ HasRight(n) /\ NumbersFor(1)
  /\ nodes' = InnerThirds(nodes[n].parent, Index(n), Index(n) + 1)
  /\ call' = ParentCall(nodes[n].parent)
  /\ harm' = harm \cup Orphaned(nodes[n].parent, Index(n))
  /\ UNCHANGED root

\* The new node is inserted after the two it was split from.
InnerSplitsLeft(n) ==
  /\ Overflows(n) /\ ~nodes[n].leaf /\ NoRoom(n) /\ HasLeft(n) /\ ~HasRight(n)
  /\ NumbersFor(1)
  /\ nodes' = InnerThirds(nodes[n].parent, Index(n) - 1, Index(n) + 1)
  /\ call' = ParentCall(nodes[n].parent)
  /\ harm' = harm \cup {"misplaced"} \cup Orphaned(nodes[n].parent, Index(n) - 1)
  /\ UNCHANGED root

\* A node that InnerTakesLeft or InnerTakesRight left with a single child:
\* that child, at any level, has nobody to split with.  The code loads the
\* node number NULL_PAGE and insert() ends with an exception.
SplitsWithNobody(n) ==
  /\ Overflows(n) /\ Known(n) /\ ~HasLeft(n) /\ ~HasRight(n)
  /\ call' = NoCall
  /\ harm' = harm \cup {"stuck"}
  /\ UNCHANGED <<nodes, root>>

-----------------------------------------------------------------------------
(* erase.  The first occurrence of the key in its leaf goes. *)

\* Mutant of Erase: leaves that underflow stay as they are.
EraseOnly(k) ==
  /\ call = NoCall /\ ~ub
  /\ LET n == findLeaf(k)
         hits == {i \in DOMAIN nodes[n].keys : nodes[n].keys[i] = k}
         i == CHOOSE h \in hits : \A j \in hits : h <= j
     IN  /\ hits # {}
         /\ nodes' = [nodes EXCEPT ![n].keys = RemoveAt(@, i), ![n].vals = RemoveAt(@, i)]
         /\ call' = NoCall
  /\ UNCHANGED <<root, harm>>

Erase(k) ==
  /\ call = NoCall /\ ~ub
  /\ LET n == findLeaf(k)
         hits == {i \in DOMAIN nodes[n].keys : nodes[n].keys[i] = k}
         i == CHOOSE h \in hits : \A j \in hits : h <= j
     IN  /\ hits # {}
         /\ nodes' = [nodes EXCEPT ![n].keys = RemoveAt(@, i), ![n].vals = RemoveAt(@, i)]
         /\ call' = IF n # root /\ Len(nodes[n].keys) - 1 < MinKeys THEN Underflow(n) ELSE NoCall
  /\ UNCHANGED <<root, harm>>

Underflows(n) == call = Underflow(n) /\ ~ub

\* An orphan: findChildIndex throws, or the load of the parent does, and
\* insert() or erase() ends with an exception.
ParentUnaware(n) ==
  /\ Overflows(n) \/ Underflows(n)
  /\ ~IsRoot(n) /\ ~Known(n)
  /\ call' = NoCall
  /\ harm' = harm \cup {"stuck"}
  /\ UNCHANGED <<nodes, root>>

Spares(n) == Len(nodes[n].keys) > MinKeys

tryBorrowLeft(n) ==
  /\ Underflows(n) /\ Known(n)
  /\ HasLeft(n) /\ Spares(Left(n))
  /\ nodes' = ShiftRight(nodes[n].parent, Index(n) - 1)
  /\ call' = NoCall
  /\ UNCHANGED <<root, harm>>

tryBorrowRight(n) ==
  /\ Underflows(n) /\ Known(n)
  /\ HasLeft(n) => ~Spares(Left(n))
  /\ HasRight(n) /\ Spares(Right(n))
  /\ nodes' = ShiftLeft(nodes[n].parent, Index(n))
  /\ call' = NoCall
  /\ UNCHANGED <<root, harm>>

\* Mutant of Merge: any parent left with one child gives way to it.
MergeAnyParent(p, i) ==
  LET l == nodes[p].kids[i]
      after == Merged(p, i)
  IN IF IsRoot(p) \/ after[p].keys = << >>
     THEN /\ IF after[p].keys = << >>
               THEN /\ nodes' = [Without(after, p) EXCEPT ![l].parent = NullPage]
                    /\ root' = l
               ELSE nodes' = after /\ UNCHANGED root
          /\ call' = NoCall
     ELSE /\ nodes' = after
          /\ call' = IF Len(after[p].keys) < MinKeys THEN Underflow(p) ELSE NoCall
          /\ UNCHANGED root

\* Mutant of Merge: the node freed is the one fixed next.
MergeAgain(p, i) ==
  LET l == nodes[p].kids[i]
      after == Merged(p, i)
  IN IF IsRoot(p)
     THEN /\ IF after[p].keys = << >>
               THEN /\ nodes' = [Without(after, p) EXCEPT ![l].parent = NullPage]
                    /\ root' = l
               ELSE nodes' = after /\ UNCHANGED root
          /\ call' = NoCall
     ELSE /\ nodes' = after
          /\ call' = IF Len(after[p].keys) < MinKeys THEN Underflow(nodes[p].kids[i + 1]) ELSE NoCall
          /\ UNCHANGED root

\* mergeWithLeft and mergeWithRight: the right one of two nodes goes.  A
\* root left with one child is replaced by it.
Merge(p, i) ==
  LET l == nodes[p].kids[i]
      after == Merged(p, i)
  IN IF IsRoot(p)
     THEN /\ IF after[p].keys = << >>
               THEN /\ nodes' = [Without(after, p) EXCEPT ![l].parent = NullPage]
                    /\ root' = l
               ELSE nodes' = after /\ UNCHANGED root
          /\ call' = NoCall
     ELSE /\ nodes' = after
          /\ call' = IF Len(after[p].keys) < MinKeys THEN Underflow(p) ELSE NoCall
          /\ UNCHANGED root

mergeWithLeft(n) ==
  /\ Underflows(n) /\ Known(n)
  /\ HasLeft(n) /\ ~Spares(Left(n))
  /\ HasRight(n) => ~Spares(Right(n))
  /\ Merge(nodes[n].parent, Index(n) - 1)
  /\ UNCHANGED harm

mergeWithRight(n) ==
  /\ Underflows(n) /\ Known(n) /\ ~HasLeft(n)
  /\ HasRight(n) /\ ~Spares(Right(n))
  /\ Merge(nodes[n].parent, Index(n))
  /\ UNCHANGED harm

\* The only child of an internal node without keys has no sibling, and
\* mergeWithRight reads one.
mergeWithNobody(n) ==
  /\ Underflows(n) /\ Known(n) /\ ~HasLeft(n) /\ ~HasRight(n)
  /\ harm' = harm \cup {"outside"}
  /\ call' = NoCall
  /\ UNCHANGED <<nodes, root>>

-----------------------------------------------------------------------------
\* A call of insert or erase, and the calls it goes on to make.
Client == \/ \E e \in Entries : Insert(e[1], e[2])
          \/ \E k \in Keys : Erase(k)

Rebalance ==
  \E n \in DOMAIN nodes :
    \/ LeafRootSplits(n) \/ InnerRootSplits(n)
    \/ LeafGivesLeft(n) \/ LeafGivesRight(n)
    \/ LeafSplitsRight(n) \/ LeafSplitsLeft(n)
    \/ InnerTakesLeft(n) \/ InnerTakesRight(n)
    \/ InnerSplitsRight(n) \/ InnerSplitsLeft(n)
    \/ SplitsWithNobody(n) \/ ParentUnaware(n)
    \/ tryBorrowLeft(n) \/ tryBorrowRight(n)
    \/ mergeWithLeft(n) \/ mergeWithRight(n) \/ mergeWithNobody(n)

Next == Client \/ Rebalance

Spec == Init /\ [][Next]_vars

\* The calls are nested in one another: nothing comes between them.
FairSpec == Spec /\ WF_vars(Rebalance)

-----------------------------------------------------------------------------
(* Properties *)

KeysOf(n) == Range(nodes[n].keys)
Stored == UNION {KeysOf(n) : n \in Leaves}

\* Every variable has the type the code's declarations give it.
TypeOK ==
  /\ DOMAIN nodes \subseteq NodeId /\ root \in NodeId
  /\ \A n \in DOMAIN nodes :
       /\ nodes[n].leaf \in BOOLEAN
       /\ nodes[n].keys \in Seq(Keys) /\ nodes[n].vals \in Seq(RowIds)
       /\ nodes[n].kids \in Seq(NodeId)
       /\ nodes[n].parent \in NodeId \cup {NullPage}
       /\ nodes[n].next \in NodeId \cup {NullPage}
  /\ call.fn \in {"none", "overflow", "underflow"}
  /\ call.node \in NodeId \cup {NullPage}
  /\ harm \subseteq Harms

Listers(n) == {p \in DOMAIN nodes : n \in Range(nodes[p].kids)}

\* Every node in use but the root is the child of exactly one, and all
\* children are in use; key, value and child counts agree.  Children name
\* their parent until a split of overgrown nodes, and the chain of leaves
\* leads to leaves while the tree is sound.
PointersAgree ==
  /\ root \in DOMAIN nodes /\ IsRoot(root) /\ Listers(root) = {}
  /\ \A n \in DOMAIN nodes \ {root} : \E p \in DOMAIN nodes : Listers(n) = {p}
  /\ \A n \in Leaves :
       /\ Len(nodes[n].vals) = Len(nodes[n].keys)
       /\ nodes[n].kids = << >>
       /\ sound => nodes[n].next \in Leaves \cup {NullPage}
  /\ \A n \in DOMAIN nodes \ Leaves :
       /\ Len(nodes[n].kids) = Len(nodes[n].keys) + 1
       /\ IsInjective(nodes[n].kids)
       /\ \A c \in Range(nodes[n].kids) :
            /\ c \in DOMAIN nodes
            /\ "orphaned" \notin harm => nodes[c].parent = n

\* All leaves lie equally deep.
Depth(n) ==
  LET d[m \in DOMAIN nodes] ==
        IF Listers(m) = {} THEN 0 ELSE d[CHOOSE p \in Listers(m) : TRUE] + 1
  IN  d[n]
EvenDepth == \E d \in {Depth(n) : n \in Leaves} : \A n \in Leaves : Depth(n) = d

\* While no call ended with an exception, only the root can be an empty leaf,
\* and between calls no leaf holds more than the larger of MaxKeys and two
\* merged siblings.
LeafSizes ==
  "stuck" \notin harm =>
    \A n \in Leaves :
      /\ n # root => nodes[n].keys # << >>
      /\ call = NoCall => Len(nodes[n].keys) <= IF 2 * MinKeys - 1 > MaxKeys
                                                THEN 2 * MinKeys - 1 ELSE MaxKeys

\* Each key is stored once, in the leaf a lookup of it reaches, and leaves
\* are sorted.
KeysFindable ==
  sound =>
    \A n \in Leaves :
      /\ \A i, j \in DOMAIN nodes[n].keys : i < j => nodes[n].keys[i] < nodes[n].keys[j]
      /\ \A k \in KeysOf(n) : findLeaf(k) = n

Least(S) == CHOOSE k \in S : \A j \in S : k <= j
Greatest(S) == CHOOSE k \in S : \A j \in S : j <= k

\* A range scan returns the rids of the stored keys of the interval, in key
\* order, whatever splits and merges the chain of leaves went through: the
\* whole range gives them all, and an interval its part of them, whichever
\* key it begins or ends at.
RangeScan ==
  sound /\ ~ub /\ call = NoCall =>
    LET first == Least(Keys)
        end == Greatest(Keys) + 1
        all == scanRange(first, end)
        Rank(k) == Cardinality({j \in Stored : j < k})
    IN  /\ Len(all) = Cardinality(Stored)
        /\ \A k \in Stored : all[Rank(k) + 1] = Find(k)
        /\ \A k \in Keys :
             /\ scanRange(k, end) = SubSeq(all, Rank(k) + 1, Len(all))
             /\ scanRange(first, k) = SubSeq(all, 1, Rank(k))

\* Every cascade of calls comes to its end.
CallsEnd == call # NoCall ~> call = NoCall

\* What lookups find.
Contents == [k \in {x \in Keys : Find(x) # NoRid} |-> Find(k)]

Map == INSTANCE IndexMap WITH sound <- sound /\ ~ub, map <- Contents

\* The tree implements the map: a rebalancing step changes no lookup, and
\* insert and erase change that of their key alone.
ImplementsMap == Map!Spec

\* What the comment on BTreeNode::children says: child i holds keys below
\* separator i, and the last child those from the last separator on.
Below(n) ==
  LET under[m \in DOMAIN nodes] ==
        IF nodes[m].leaf THEN KeysOf(m) ELSE UNION {under[c] : c \in Range(nodes[m].kids)}
  IN  under[n]
ChildrenOrdered ==
  \A n \in DOMAIN nodes \ Leaves :
    \A i \in DOMAIN nodes[n].keys :
      /\ \A k \in Below(nodes[n].kids[i]) : k < nodes[n].keys[i]
      /\ i = Len(nodes[n].keys) =>
           \A k \in Below(nodes[n].kids[i + 1]) : k >= nodes[n].keys[i]

\* What the name BTREE_MAX_KEYS says of an internal node, between calls.
InnersFit == call = NoCall => \A n \in DOMAIN nodes \ Leaves : Len(nodes[n].keys) <= MaxKeys

-----------------------------------------------------------------------------
(* What makes TypeOK, PointersAgree, EvenDepth and LeafSizes hold after     *)
(* every step: the nodes of a store form a tree whose leaves lie at height 0. *)

Node == [leaf : BOOLEAN, keys : Seq(Keys), vals : Seq(RowIds), kids : Seq(NodeId),
         parent : NodeId \cup {NullPage}, next : NodeId \cup {NullPage}]

Kids(f, n) == Range(f[n].kids)

WellFormed(N) ==
  /\ N \in Node
  /\ N.leaf => Len(N.vals) = Len(N.keys) /\ N.kids = << >>
  /\ ~N.leaf => Len(N.kids) = Len(N.keys) + 1 /\ IsInjective(N.kids)

\* Every node but the root r is the child of exactly one.
Linked(f, r) ==
  /\ r \in DOMAIN f
  /\ \A n \in DOMAIN f : Kids(f, n) \subseteq DOMAIN f \ {r}
  /\ \A n \in DOMAIN f \ {r} : \E p \in DOMAIN f : n \in Kids(f, p)
  /\ \A p, q \in DOMAIN f : p # q => Kids(f, p) \cap Kids(f, q) = {}

Rooted(f, r) == \A n \in DOMAIN f : f[n].parent = NullPage <=> n = r

Level(f, h) ==
  /\ h \in [DOMAIN f -> Nat]
  /\ \A n \in DOMAIN f : f[n].leaf <=> h[n] = 0
  /\ \A n \in DOMAIN f : \A c \in Kids(f, n) : h[n] = h[c] + 1

Adopted(f) == \A p \in DOMAIN f : \A c \in Kids(f, p) : f[c].parent = p

Tree(f, r) ==
  /\ DOMAIN f \subseteq NodeId
  /\ \A n \in DOMAIN f : WellFormed(f[n])
  /\ Linked(f, r) /\ Rooted(f, r)
  /\ \E h : Level(f, h)

\* What the pending call is about.
CallFits ==
  \/ call = NoCall
  \/ \E n \in DOMAIN nodes : call = Overflow(n) /\ Len(nodes[n].keys) > MaxKeys
  \/ \E n \in DOMAIN nodes : call = Underflow(n) /\ n # root

LeafLimit == IF 2 * MinKeys - 1 > MaxKeys THEN 2 * MinKeys - 1 ELSE MaxKeys

\* A leaf is at most one key over the limit while it overflows, and has two
\* keys but while it underflows.
LeavesFit ==
  "stuck" \notin harm =>
    \A n \in Leaves :
      /\ Len(nodes[n].keys) <= IF call = Overflow(n) THEN LeafLimit + 1 ELSE LeafLimit
      /\ n # root => Len(nodes[n].keys) >= IF call = Underflow(n) \/ ub THEN 1 ELSE 2
      /\ call = Underflow(n) => Len(nodes[n].keys) < MinKeys

Shape ==
  /\ Tree(nodes, root)
  /\ CallFits
  /\ harm \subseteq Harms
  /\ "orphaned" \notin harm => Adopted(nodes)
  /\ LeavesFit

=============================================================================
