---------------------------- MODULE SearchTrees ----------------------------
(***************************************************************************)
(* What the proofs about the order of BTree need to know of search trees,  *)
(* apart from nodes, parents and calls: T is a record of functions that    *)
(* tell of each node its keys, its values, its children and the leaf it is *)
(* linked to.                                                              *)
(*                                                                         *)
(* Ordered(T) says that each node has a span, the integers a lookup can    *)
(* bring there, that the children of a node divide its span at its keys,   *)
(* and that a leaf is linked to the one whose span follows.  A node can be *)
(* cut in two (Parted) and the two put together again: each keeps a tree   *)
(* ordered and lets it hold what it held.                                  *)
(***************************************************************************)
EXTENDS BTree, SequenceLemmas

-----------------------------------------------------------------------------
(* Search trees, apart from how the store keeps them *)

-----------------------------------------------------------------------------
(* The order of a tree: T tells of each node its keys, its children and, for *)
(* a leaf, what it names as the next one.                                    *)

\* k belongs to child number i of a node with the keys ks.
Covers(ks, i, k) ==
  /\ i > 1 => ks[i - 1] <= k
  /\ i <= Len(ks) => k < ks[i]

\* The keys of a node, in ascending order.
Rising(s) == \A i, j \in 1 .. Len(s) : i < j => s[i] < s[j]
\* A set of integers without gaps.
Convex(S) == \A a, b \in S : \A k \in Int : a <= k /\ k <= b => k \in S

\* The members of a tree record fit together: counts agree, ids are in use.
Plain(T) ==
  /\ T.root \in T.ids /\ NullPage \notin T.ids /\ T.leaves \subseteq T.ids
  /\ \A n \in T.ids : T.keys[n] \in Seq(Int) /\ T.kids[n] \in Seq(T.ids)
  /\ \A n \in T.leaves : Len(T.kids[n]) = 0 /\ Len(T.vals[n]) = Len(T.keys[n])
  /\ \A n \in T.ids \ T.leaves : Len(T.kids[n]) = Len(T.keys[n]) + 1

\* x is child number i of p, and no other child is x.
Once(T, p, i, x) ==
  /\ x # T.root
  /\ \A n \in T.ids : \A j \in 1 .. Len(T.kids[n]) : T.kids[n][j] = x => n = p /\ j = i

\* span[n] is the set of keys that a lookup comes to n with.
Spans(T, span) ==
  /\ span \in [T.ids -> SUBSET Int] /\ span[T.root] = Int
  /\ \A n \in T.ids : Convex(span[n]) /\ Rising(T.keys[n])
  /\ \A n \in T.ids : \A j \in 1 .. Len(T.kids[n]) : \A k \in Int :
       k \in span[T.kids[n][j]] <=> k \in span[n] /\ Covers(T.keys[n], j, k)
  /\ \A n \in T.ids : \A j \in 1 .. Len(T.keys[n]) :
       /\ T.keys[n][j] \in span[n]
       /\ n \notin T.leaves => T.keys[n][j] - 1 \in span[n]

\* No key has two leaves, and the leaves are linked in the order of their keys.
Linking(T, span) ==
  /\ \A m, n \in T.leaves : \A k \in span[m] : k \in span[n] => m = n
  /\ \A n \in T.leaves : \A k \in span[n] :
       k + 1 \notin span[n] => T.next[n] \in T.leaves /\ k + 1 \in span[T.next[n]]
  /\ \A n \in T.leaves : (\A k \in span[n] : k + 1 \in span[n]) => T.next[n] = NullPage

\* T is a search tree whose leaves are chained in key order.
Ordered(T) == Plain(T) /\ \E span : Spans(T, span) /\ Linking(T, span)

\* The tree holds the key k with the value v.
Holds(T, k, v) ==
  \E n \in T.leaves : \E i \in 1 .. Len(T.keys[n]) : T.keys[n][i] = k /\ T.vals[n][i] = v

-----------------------------------------------------------------------------
(* Cutting a node in two, and putting two neighbours together *)

\* t is the part of s behind the first o members.
Part(s, t, o) == \A j \in 1 .. Len(t) : t[j] = s[o + j]

\* t is s with e put in at position i.
PutIn(s, t, i, e) ==
  /\ Len(t) = Len(s) + 1 /\ t[i] = e
  /\ \A j \in 1 .. Len(s) : t[IF j < i THEN j ELSE j + 1] = s[j]

\* Nothing of n differs in the two trees.
Same(W, T, n) ==
  /\ T.keys[n] = W.keys[n] /\ T.vals[n] = W.vals[n]
  /\ T.kids[n] = W.kids[n] /\ T.next[n] = W.next[n]

\* T is W with the child number i of p, x, cut in two, x and y.  Between the
\* parts of an internal node (d = 1) a key is left out, which goes to p.
Parted(W, T, p, i, x, y, d) ==
  /\ p \in W.ids \ W.leaves /\ i \in 1 .. Len(W.kids[p]) /\ W.kids[p][i] = x /\ x # p
  /\ y \notin W.ids /\ T.ids = W.ids \cup {y} /\ T.root = W.root
  /\ d = (IF x \in W.leaves THEN 0 ELSE 1)
  /\ T.leaves = (IF x \in W.leaves THEN W.leaves \cup {y} ELSE W.leaves)
  /\ \A n \in W.ids \ {p, x} : Same(W, T, n)
  /\ \E e : PutIn(W.keys[p], T.keys[p], i, e)
  /\ PutIn(W.kids[p], T.kids[p], i + 1, y)
  /\ Len(W.keys[x]) = Len(T.keys[x]) + d + Len(T.keys[y])
  /\ Part(W.keys[x], T.keys[x], 0) /\ Part(W.keys[x], T.keys[y], Len(T.keys[x]) + d)
  /\ d = 1 => W.keys[x][Len(T.keys[x]) + 1] = T.keys[p][i]
  /\ Len(W.kids[x]) = Len(T.kids[x]) + Len(T.kids[y])
  /\ Part(W.kids[x], T.kids[x], 0) /\ Part(W.kids[x], T.kids[y], Len(T.kids[x]))
  /\ d = 0 => /\ T.next[y] = W.next[x]
              /\ Part(W.vals[x], T.vals[x], 0) /\ Part(W.vals[x], T.vals[y], Len(T.keys[x]))

\* The facts about sequences that a plain tree gives.
LEMMA PlainFacts ==
  ASSUME NEW T, Plain(T)
  PROVE  /\ T.root \in T.ids /\ NullPage \notin T.ids /\ T.leaves \subseteq T.ids
         /\ \A n \in T.ids : Len(T.keys[n]) \in Nat /\ Len(T.kids[n]) \in Nat
         /\ \A n \in T.ids : \A j \in 1 .. Len(T.keys[n]) : T.keys[n][j] \in Int
         /\ \A n \in T.ids : \A j \in 1 .. Len(T.kids[n]) : T.kids[n][j] \in T.ids
         /\ \A n \in T.leaves : Len(T.kids[n]) = 0
         /\ \A n \in T.ids \ T.leaves : Len(T.kids[n]) = Len(T.keys[n]) + 1
<1>1. \A n \in T.ids : T.keys[n] \in Seq(Int) /\ T.kids[n] \in Seq(T.ids)
  BY DEF Plain
<1>2. \A n \in T.ids : \A j \in 1 .. Len(T.keys[n]) : T.keys[n][j] \in Int
  BY <1>1, ElementOfSeq
<1>3. \A n \in T.ids : \A j \in 1 .. Len(T.kids[n]) : T.kids[n][j] \in T.ids
  BY <1>1, ElementOfSeq
<1>4. \A n \in T.ids : Len(T.keys[n]) \in Nat /\ Len(T.kids[n]) \in Nat
  BY <1>1, LenProperties
<1> QED BY <1>2, <1>3, <1>4 DEF Plain

\* The children of p, x and y after the cut, told by position.
KidsParted(W, T, p, i, x, y) ==
  /\ Len(T.kids[p]) = Len(W.kids[p]) + 1 /\ T.kids[p][i + 1] = y
  /\ \A j \in 1 .. i : T.kids[p][j] = W.kids[p][j]
  /\ \A j \in i + 2 .. Len(W.kids[p]) + 1 : T.kids[p][j] = W.kids[p][j - 1]
  /\ T.kids[p][i] = x
  /\ Len(W.kids[x]) = Len(T.kids[x]) + Len(T.kids[y])
  /\ \A j \in 1 .. Len(T.kids[x]) : T.kids[x][j] = W.kids[x][j]
  /\ \A j \in 1 .. Len(T.kids[y]) : T.kids[y][j] = W.kids[x][Len(T.kids[x]) + j]
  /\ \A n \in W.ids \ {p, x} : T.kids[n] = W.kids[n]

\* The keys of p, x and y after the cut, told by position.
KeysParted(W, T, p, i, x, y, d) ==
  /\ Len(T.keys[p]) = Len(W.keys[p]) + 1 /\ i \in 1 .. Len(T.keys[p])
  /\ \A j \in 1 .. i - 1 : T.keys[p][j] = W.keys[p][j]
  /\ \A j \in i + 1 .. Len(W.keys[p]) + 1 : T.keys[p][j] = W.keys[p][j - 1]
  /\ Len(W.keys[x]) = Len(T.keys[x]) + d + Len(T.keys[y])
  /\ \A j \in 1 .. Len(T.keys[x]) : T.keys[x][j] = W.keys[x][j]
  /\ \A j \in 1 .. Len(T.keys[y]) : T.keys[y][j] = W.keys[x][Len(T.keys[x]) + d + j]
  /\ d = 1 => W.keys[x][Len(T.keys[x]) + 1] = T.keys[p][i]
  /\ \A n \in W.ids \ {p, x} : T.keys[n] = W.keys[n]
  /\ d \in {0, 1} /\ (d = 0 <=> x \in W.leaves)

\* Which nodes there are, and which of them are leaves, after the cut.
IdsParted(W, T, p, i, x, y) ==
  /\ p \in W.ids /\ p \notin W.leaves /\ x \in W.ids /\ x # p
  /\ y \notin W.ids /\ y # p /\ y # x /\ T.ids = W.ids \cup {y} /\ T.root = W.root
  /\ i \in 1 .. Len(W.kids[p])
  /\ \A n \in W.ids : n \in T.leaves <=> n \in W.leaves
  /\ y \in T.leaves <=> x \in W.leaves
  /\ \A n \in W.ids \ {p, x} : T.next[n] = W.next[n]
  /\ x \in W.leaves => T.next[y] = W.next[x]

\* Where the children of T are among those of W.
LEMMA PartedKids ==
  ASSUME NEW W, NEW T, Plain(W), Plain(T),
         NEW p, NEW i, NEW x, NEW y, NEW d, Parted(W, T, p, i, x, y, d)
  PROVE  KidsParted(W, T, p, i, x, y)
<1>1. /\ p \in W.ids /\ i \in 1 .. Len(W.kids[p]) /\ W.kids[p][i] = x
      /\ x \in W.ids /\ Len(W.kids[p]) \in Nat
  BY PlainFacts DEF Parted
<1>2. /\ Len(T.kids[p]) = Len(W.kids[p]) + 1 /\ T.kids[p][i + 1] = y
      /\ \A j \in 1 .. Len(W.kids[p]) : T.kids[p][IF j < i + 1 THEN j ELSE j + 1] = W.kids[p][j]
  BY DEF Parted, PutIn
<1>3. \A j \in 1 .. i : T.kids[p][j] = W.kids[p][j]
  <2> TAKE j \in 1 .. i
  <2>1. j \in 1 .. Len(W.kids[p]) /\ j < i + 1
    BY <1>1
  <2> QED BY <2>1, <1>2
<1>4. \A j \in i + 2 .. Len(W.kids[p]) + 1 : T.kids[p][j] = W.kids[p][j - 1]
  <2> TAKE j \in i + 2 .. Len(W.kids[p]) + 1
  <2>1. j - 1 \in 1 .. Len(W.kids[p]) /\ ~(j - 1 < i + 1) /\ j - 1 + 1 = j
    BY <1>1
  <2> QED BY <2>1, <1>2
<1>5. T.kids[p][i] = x
  <2>1. i \in 1 .. i
    BY <1>1
  <2> QED BY <2>1, <1>1, <1>3
<1>6. /\ Len(W.kids[x]) = Len(T.kids[x]) + Len(T.kids[y])
      /\ \A j \in 1 .. Len(T.kids[x]) : T.kids[x][j] = W.kids[x][0 + j]
      /\ \A j \in 1 .. Len(T.kids[y]) : T.kids[y][j] = W.kids[x][Len(T.kids[x]) + j]
      /\ \A n \in W.ids \ {p, x} : T.kids[n] = W.kids[n]
  BY DEF Parted, Part, Same
<1>7. \A j \in 1 .. Len(T.kids[x]) : T.kids[x][j] = W.kids[x][j]
  BY <1>6
<1> QED BY <1>2, <1>3, <1>4, <1>5, <1>6, <1>7 DEF KidsParted

\* Where the keys of T are among those of W.
LEMMA PartedKeys ==
  ASSUME NEW W, NEW T, Plain(W), Plain(T),
         NEW p, NEW i, NEW x, NEW y, NEW d, Parted(W, T, p, i, x, y, d)
  PROVE  KeysParted(W, T, p, i, x, y, d)
<1>1. /\ p \in W.ids /\ i \in 1 .. Len(W.kids[p]) /\ Len(W.kids[p]) = Len(W.keys[p]) + 1
      /\ Len(W.keys[p]) \in Nat
  BY PlainFacts DEF Parted
<1>2. /\ Len(T.keys[p]) = Len(W.keys[p]) + 1
      /\ \A j \in 1 .. Len(W.keys[p]) : T.keys[p][IF j < i THEN j ELSE j + 1] = W.keys[p][j]
  BY DEF Parted, PutIn
<1>3. \A j \in 1 .. i - 1 : T.keys[p][j] = W.keys[p][j]
  <2> TAKE j \in 1 .. i - 1
  <2>1. j \in 1 .. Len(W.keys[p]) /\ j < i
    BY <1>1
  <2> QED BY <2>1, <1>2
<1>4. \A j \in i + 1 .. Len(W.keys[p]) + 1 : T.keys[p][j] = W.keys[p][j - 1]
  <2> TAKE j \in i + 1 .. Len(W.keys[p]) + 1
  <2>1. j - 1 \in 1 .. Len(W.keys[p]) /\ ~(j - 1 < i) /\ j - 1 + 1 = j
    BY <1>1
  <2> QED BY <2>1, <1>2
<1>5. i \in 1 .. Len(T.keys[p])
  BY <1>1, <1>2
<1>6. /\ Len(W.keys[x]) = Len(T.keys[x]) + d + Len(T.keys[y])
      /\ \A j \in 1 .. Len(T.keys[x]) : T.keys[x][j] = W.keys[x][0 + j]
      /\ \A j \in 1 .. Len(T.keys[y]) : T.keys[y][j] = W.keys[x][Len(T.keys[x]) + d + j]
      /\ d = 1 => W.keys[x][Len(T.keys[x]) + 1] = T.keys[p][i]
      /\ \A n \in W.ids \ {p, x} : T.keys[n] = W.keys[n]
  BY DEF Parted, Part, Same
<1>7. \A j \in 1 .. Len(T.keys[x]) : T.keys[x][j] = W.keys[x][j]
  BY <1>6
<1>8. d \in {0, 1} /\ (d = 0 <=> x \in W.leaves)
  BY DEF Parted
<1> QED BY <1>2, <1>3, <1>4, <1>5, <1>6, <1>7, <1>8 DEF KeysParted

\* A cut makes one node, of the kind of the one it is cut from.
LEMMA PartedIds ==
  ASSUME NEW W, NEW T, Plain(W), Plain(T),
         NEW p, NEW i, NEW x, NEW y, NEW d, Parted(W, T, p, i, x, y, d)
  PROVE  IdsParted(W, T, p, i, x, y)
<1>1. x \in W.ids
  BY PlainFacts DEF Parted
<1>2. /\ p \in W.ids /\ p \notin W.leaves /\ x # p
      /\ y \notin W.ids /\ T.ids = W.ids \cup {y} /\ T.root = W.root
      /\ i \in 1 .. Len(W.kids[p])
      /\ T.leaves = (IF x \in W.leaves THEN W.leaves \cup {y} ELSE W.leaves)
      /\ x \in W.leaves => T.next[y] = W.next[x]
      /\ \A n \in W.ids \ {p, x} : T.next[n] = W.next[n]
  BY DEF Parted, Same
<1>3. W.leaves \subseteq W.ids
  BY DEF Plain
<1> QED BY <1>1, <1>2, <1>3 DEF IdsParted

\* A separator that is put between two keys of a node, or taken away there.
Between(K, i, sep) ==
  /\ i > 1 => K[i - 1] < sep
  /\ i <= Len(K) => sep < K[i]

\* Where the keys of K are when sep has been put in.
LEMMA PutInPlaces ==
  ASSUME NEW K \in Seq(Int), NEW t \in Seq(Int), NEW i \in 1 .. Len(K) + 1, NEW sep,
         PutIn(K, t, i, sep)
  PROVE  /\ Len(t) = Len(K) + 1 /\ t[i] = sep /\ sep \in Int
         /\ \A j \in 1 .. i - 1 : t[j] = K[j] /\ K[j] \in Int
         /\ \A j \in i .. Len(K) : t[j + 1] = K[j] /\ K[j] \in Int
<1>1. /\ Len(K) \in Nat /\ Len(t) \in Nat /\ Len(t) = Len(K) + 1 /\ t[i] = sep
      /\ \A j \in 1 .. Len(K) : t[IF j < i THEN j ELSE j + 1] = K[j]
      /\ \A j \in 1 .. Len(K) : K[j] \in Int
      /\ \A j \in 1 .. Len(t) : t[j] \in Int
  BY LenProperties, ElementOfSeq DEF PutIn
<1>2. sep \in Int
  BY <1>1
<1>3. \A j \in 1 .. i - 1 : j \in 1 .. Len(K) /\ j < i
  BY <1>1
<1>4. \A j \in i .. Len(K) : j \in 1 .. Len(K) /\ ~(j < i)
  BY <1>1
<1> QED BY <1>1, <1>2, <1>3, <1>4

\* Keys rise with a separator put between two of them,
LEMMA RisesWith ==
  ASSUME NEW K \in Seq(Int), NEW t \in Seq(Int), NEW i \in 1 .. Len(K) + 1, NEW sep,
         PutIn(K, t, i, sep), Rising(K), Between(K, i, sep)
  PROVE  Rising(t)
<1> DEFINE n == Len(K)
<1>1. /\ n \in Nat /\ Len(t) = n + 1 /\ t[i] = sep /\ sep \in Int /\ i \in 1 .. n + 1
      /\ \A j \in 1 .. i - 1 : t[j] = K[j] /\ K[j] \in Int
      /\ \A j \in i .. n : t[j + 1] = K[j] /\ K[j] \in Int
  BY PutInPlaces, LenProperties
<1>2. \A a, b \in 1 .. n : a < b => K[a] < K[b]
  BY DEF Rising
<1>3. (i > 1 => K[i - 1] < sep) /\ (i <= n => sep < K[i])
  BY DEF Between
<1> HIDE DEF n
<1>4. \A a \in 1 .. i - 1 : t[a] < sep
  <2> TAKE a \in 1 .. i - 1
  <2>1. i - 1 \in 1 .. i - 1 /\ a \in 1 .. n /\ i - 1 \in 1 .. n /\ a <= i - 1 /\ i > 1
    BY <1>1
  <2>2. K[a] <= K[i - 1] /\ K[a] \in Int /\ K[i - 1] \in Int
    <3>1. a = i - 1 \/ a < i - 1
      BY <2>1, <1>1
    <3> QED BY <2>1, <3>1, <1>1, <1>2
  <2> QED BY <2>1, <2>2, <1>1, <1>3
<1>5. \A b \in i + 1 .. n + 1 : sep < t[b]
  <2> TAKE b \in i + 1 .. n + 1
  <2> DEFINE c == b - 1
  <2>1. c \in i .. n /\ c + 1 = b /\ c \in 1 .. n /\ i \in i .. n /\ i \in 1 .. n /\ i <= n
    BY <1>1
  <2> HIDE DEF c
  <2>2. t[b] = K[c] /\ K[c] \in Int /\ K[i] \in Int
    BY <2>1, <1>1
  <2>3. K[i] <= K[c]
    <3>1. i = c \/ i < c
      BY <2>1, <1>1
    <3> QED BY <2>1, <2>2, <3>1, <1>2
  <2>4. sep < K[i]
    BY <2>1, <1>3
  <2>5. sep < K[c]
    BY <2>2, <2>3, <2>4, <1>1
  <2> QED BY <2>2, <2>5
<1>6. ASSUME NEW a \in 1 .. n + 1, NEW b \in 1 .. n + 1, a < b
      PROVE  t[a] < t[b]
  <2>1. CASE b <= i - 1
    <3>1. a \in 1 .. i - 1 /\ b \in 1 .. i - 1 /\ a \in 1 .. n /\ b \in 1 .. n
      BY <2>1, <1>1, <1>6
    <3> QED BY <3>1, <1>1, <1>2, <1>6
  <2>2. CASE a >= i + 1
    <3> DEFINE c == a - 1
               e == b - 1
    <3>1. c \in i .. n /\ e \in i .. n /\ c + 1 = a /\ e + 1 = b /\ c < e /\ c \in 1 .. n /\ e \in 1 .. n
      BY <2>2, <1>1, <1>6
    <3> HIDE DEF c, e
    <3>2. t[a] = K[c] /\ t[b] = K[e] /\ K[c] < K[e]
      BY <3>1, <1>1, <1>2
    <3> QED BY <3>2
  <2>3. CASE a <= i /\ b >= i
    <3>1. a = i \/ a \in 1 .. i - 1
      BY <2>3, <1>1
    <3>2. b = i \/ b \in i + 1 .. n + 1
      BY <2>3, <1>1
    <3>3. t[a] \in Int /\ t[b] \in Int
      <4>1. \A j \in 1 .. Len(t) : t[j] \in Int
        BY ElementOfSeq
      <4> QED BY <4>1, <1>1
    <3>4. t[a] <= sep /\ (a # i => t[a] < sep)
      BY <3>1, <3>3, <1>1, <1>4
    <3>5. sep <= t[b] /\ (b # i => sep < t[b])
      BY <3>2, <3>3, <1>1, <1>5
    <3> QED BY <3>3, <3>4, <3>5, <1>1, <1>6
  <2> QED BY <2>1, <2>2, <2>3, <1>1, <1>6
<1> QED BY <1>1, <1>6 DEF Rising

\* and rise when it is taken away.
LEMMA RisesWithout ==
  ASSUME NEW K \in Seq(Int), NEW t \in Seq(Int), NEW i \in 1 .. Len(K) + 1, NEW sep,
         PutIn(K, t, i, sep), Rising(t)
  PROVE  Rising(K) /\ Between(K, i, sep)
<1> DEFINE n == Len(K)
<1>1. /\ n \in Nat /\ Len(t) = n + 1 /\ t[i] = sep /\ sep \in Int /\ i \in 1 .. n + 1
      /\ \A j \in 1 .. i - 1 : t[j] = K[j] /\ K[j] \in Int
      /\ \A j \in i .. n : t[j + 1] = K[j] /\ K[j] \in Int
  BY PutInPlaces, LenProperties
<1>2. \A a, b \in 1 .. n + 1 : a < b => t[a] < t[b]
  BY <1>1 DEF Rising
<1> HIDE DEF n
<1>3. \A j \in 1 .. n : \E a \in 1 .. n + 1 : t[a] = K[j] /\ a = IF j < i THEN j ELSE j + 1
  <2> TAKE j \in 1 .. n
  <2>1. CASE j < i
    <3>1. j \in 1 .. i - 1 /\ j \in 1 .. n + 1
      BY <2>1, <1>1
    <3> QED BY <3>1, <2>1, <1>1
  <2>2. CASE ~(j < i)
    <3>1. j \in i .. n /\ j + 1 \in 1 .. n + 1
      BY <2>2, <1>1
    <3> QED BY <3>1, <2>2, <1>1
  <2> QED BY <2>1, <2>2
<1>4. ASSUME NEW a \in 1 .. n, NEW b \in 1 .. n, a < b
      PROVE  K[a] < K[b]
  <2>1. PICK c \in 1 .. n + 1 : t[c] = K[a] /\ c = IF a < i THEN a ELSE a + 1
    BY <1>3
  <2>2. PICK e \in 1 .. n + 1 : t[e] = K[b] /\ e = IF b < i THEN b ELSE b + 1
    BY <1>3
  <2>3. c < e
    <3>1. a \in Int /\ b \in Int /\ i \in Int /\ a < b
      BY <1>1, <1>4
    <3>2. (IF a < i THEN a ELSE a + 1) < (IF b < i THEN b ELSE b + 1)
      BY <3>1
    <3> QED BY <3>2, <2>1, <2>2
  <2> QED BY <2>1, <2>2, <2>3, <1>2
<1>5. i > 1 => K[i - 1] < sep
  <2>1. i > 1 => i - 1 \in 1 .. i - 1 /\ i - 1 \in 1 .. n + 1 /\ i - 1 < i
    BY <1>1
  <2> QED BY <2>1, <1>1, <1>2
<1>6. i <= n => sep < K[i]
  <2>1. i <= n => i \in i .. n /\ i + 1 \in 1 .. n + 1 /\ i < i + 1
    BY <1>1
  <2> QED BY <2>1, <1>1, <1>2
<1>7. Rising(K)
  BY <1>4 DEF Rising, n
<1> QED BY <1>5, <1>6, <1>7 DEF Between, n

\* The children of a node before and after a separator is put in.
SameCovers(K, t, i, sep) ==
  \A k \in Int :
    /\ \A j \in 1 .. i - 1 : Covers(t, j, k) <=> Covers(K, j, k)
    /\ Covers(t, i, k) <=> k < sep /\ Covers(K, i, k)
    /\ Covers(t, i + 1, k) <=> k >= sep /\ Covers(K, i, k)
    /\ \A j \in i + 1 .. Len(K) + 1 : Covers(t, j + 1, k) <=> Covers(K, j, k)

\* The keys beside child number j.
Beside(s, j, lo, hi) == (j > 1 => s[j - 1] = lo) /\ (j <= Len(s) => s[j] = hi)

\* What a child covers depends on the two keys beside it alone.
LEMMA CoversIs ==
  ASSUME NEW s, NEW j, NEW k, NEW lo, NEW hi, Beside(s, j, lo, hi)
  PROVE  Covers(s, j, k) <=> (j > 1 => lo <= k) /\ (j <= Len(s) => k < hi)
  BY DEF Covers, Beside

\* A new separator divides what one child covered and leaves the rest.
LEMMA CoversCut ==
  ASSUME NEW K \in Seq(Int), NEW t \in Seq(Int), NEW i \in 1 .. Len(K) + 1, NEW sep,
         PutIn(K, t, i, sep), Between(K, i, sep)
  PROVE  SameCovers(K, t, i, sep)
<1> DEFINE n == Len(K)
<1>1. /\ n \in Nat /\ Len(t) = n + 1 /\ t[i] = sep /\ sep \in Int /\ i \in 1 .. n + 1
      /\ \A j \in 1 .. i - 1 : t[j] = K[j] /\ K[j] \in Int
      /\ \A j \in i .. n : t[j + 1] = K[j] /\ K[j] \in Int
  BY PutInPlaces, LenProperties
<1>2. (i > 1 => K[i - 1] < sep) /\ (i <= n => sep < K[i])
  BY DEF Between
<1>3. n = Len(K)
  OBVIOUS
<1> HIDE DEF n
<1> SUFFICES ASSUME NEW k \in Int
             PROVE  /\ \A j \in 1 .. i - 1 : Covers(t, j, k) <=> Covers(K, j, k)
                    /\ Covers(t, i, k) <=> k < sep /\ Covers(K, i, k)
                    /\ Covers(t, i + 1, k) <=> k >= sep /\ Covers(K, i, k)
                    /\ \A j \in i + 1 .. n + 1 : Covers(t, j + 1, k) <=> Covers(K, j, k)
  BY <1>3 DEF SameCovers
<1> DEFINE lo == K[i - 1]
           hi == K[i]
<1>4. /\ i > 1 => t[i - 1] = lo /\ lo \in Int /\ lo < sep
      /\ i <= n => t[i + 1] = hi /\ hi \in Int /\ sep < hi
  <2>1. i > 1 => i - 1 \in 1 .. i - 1
    BY <1>1
  <2>2. i <= n => i \in i .. n
    BY <1>1
  <2> QED BY <2>1, <2>2, <1>1, <1>2
<1>5. lo = K[i - 1] /\ hi = K[i]
  OBVIOUS
<1> HIDE DEF lo, hi
<1>6. Covers(K, i, k) <=> (i > 1 => lo <= k) /\ (i <= n => k < hi)
  <2>1. Beside(K, i, lo, hi)
    BY <1>5 DEF Beside
  <2> QED BY <2>1, <1>3, CoversIs
<1>7. Covers(t, i, k) <=> (i > 1 => lo <= k) /\ k < sep
  <2>1. Covers(t, i, k) <=> (i > 1 => lo <= k) /\ (i <= Len(t) => k < sep)
    <3>1. Beside(t, i, lo, sep)
      BY <1>1, <1>4 DEF Beside
    <3> QED BY <3>1, CoversIs
  <2> QED BY <2>1, <1>1
<1>8. Covers(t, i + 1, k) <=> sep <= k /\ (i <= n => k < hi)
  <2> DEFINE j == i + 1
  <2>1. j \in Int /\ j > 1 /\ j - 1 = i /\ (j <= Len(t) <=> i <= n)
    BY <1>1
  <2>2. i <= n => t[j] = hi
    BY <1>4
  <2> HIDE DEF j
  <2>3. Covers(t, j, k) <=> (j > 1 => sep <= k) /\ (j <= Len(t) => k < hi)
    <3>1. Beside(t, j, sep, hi)
      BY <2>1, <2>2, <1>1 DEF Beside
    <3> QED BY <3>1, CoversIs
  <2> QED BY <2>1, <2>3 DEF j
<1>9. ASSUME NEW j \in 1 .. i - 1
      PROVE  Covers(t, j, k) <=> Covers(K, j, k)
  <2>1. j \in 1 .. i - 1 /\ (j > 1 => j - 1 \in 1 .. i - 1) /\ j <= n /\ j <= Len(t) /\ j \in Int
    BY <1>1
  <2> QED BY <2>1, <1>1, <1>3 DEF Covers
<1>10. ASSUME NEW j \in i + 1 .. n + 1
       PROVE  Covers(t, j + 1, k) <=> Covers(K, j, k)
  <2> DEFINE a == j + 1
             b == j - 1
  <2>1. /\ a \in Int /\ a > 1 /\ a - 1 = j /\ b + 1 = j /\ b \in i .. n /\ j > 1 /\ j \in Int
        /\ (a <= Len(t) <=> j <= n) /\ (j <= n => j \in i .. n)
    BY <1>1
  <2>2. t[j] = K[b] /\ (j <= n => t[a] = K[j])
    BY <2>1, <1>1
  <2>3. b = j - 1 /\ a = j + 1
    OBVIOUS
  <2> HIDE DEF a, b
  <2>4. Covers(t, a, k) <=> (a > 1 => K[b] <= k) /\ (a <= Len(t) => k < K[j])
    <3>1. Beside(t, a, K[b], K[j])
      BY <2>1, <2>2 DEF Beside
    <3> QED BY <3>1, CoversIs
  <2>5. Covers(K, j, k) <=> (j > 1 => K[b] <= k) /\ (j <= Len(K) => k < K[j])
    <3>1. Beside(K, j, K[b], K[j])
      BY <2>1, <2>3 DEF Beside
    <3> QED BY <3>1, CoversIs
  <2> QED BY <2>1, <2>3, <2>4, <2>5, <1>3
<1>11. Covers(t, i, k) <=> k < sep /\ Covers(K, i, k)
  BY <1>1, <1>4, <1>6, <1>7
<1>12. Covers(t, i + 1, k) <=> k >= sep /\ Covers(K, i, k)
  BY <1>1, <1>4, <1>6, <1>8
<1> QED BY <1>9, <1>10, <1>11, <1>12

-----------------------------------------------------------------------------
(* A node of a tree cut in two, and two put together *)

\* T is W with child number i of p, x, cut into x and y.
CutInto(W, T, p, i, x, y, d) ==
  /\ Plain(W) /\ Plain(T)
  /\ Parted(W, T, p, i, x, y, d) /\ Once(W, p, i, x)

\* The separator and the keys of p around it.
LEMMA CutParent ==
  ASSUME NEW W, NEW T, NEW p, NEW i, NEW x, NEW y, NEW d, CutInto(W, T, p, i, x, y, d)
  PROVE  /\ IdsParted(W, T, p, i, x, y) /\ KidsParted(W, T, p, i, x, y)
         /\ KeysParted(W, T, p, i, x, y, d)
         /\ W.keys[p] \in Seq(Int) /\ T.keys[p] \in Seq(Int) /\ i \in 1 .. Len(W.keys[p]) + 1
         /\ PutIn(W.keys[p], T.keys[p], i, T.keys[p][i])
         /\ W.keys[x] \in Seq(Int) /\ T.keys[x] \in Seq(Int) /\ T.keys[y] \in Seq(Int)
         /\ x \in W.ids /\ p \in W.ids /\ W.kids[p][i] = x /\ i \in 1 .. Len(W.kids[p])
<1>1. Plain(W) /\ Plain(T) /\ Parted(W, T, p, i, x, y, d)
  BY DEF CutInto
<1>2. /\ IdsParted(W, T, p, i, x, y) /\ KidsParted(W, T, p, i, x, y)
      /\ KeysParted(W, T, p, i, x, y, d)
  BY <1>1, PartedIds, PartedKids, PartedKeys
<1>3. /\ p \in W.ids /\ p \notin W.leaves /\ x \in W.ids /\ T.ids = W.ids \cup {y}
      /\ i \in 1 .. Len(W.kids[p])
  BY <1>2 DEF IdsParted
<1>4. Len(W.kids[p]) = Len(W.keys[p]) + 1
  BY <1>1, <1>3 DEF Plain
<1>5. /\ W.keys[p] \in Seq(Int) /\ T.keys[p] \in Seq(Int)
      /\ W.keys[x] \in Seq(Int) /\ T.keys[x] \in Seq(Int) /\ T.keys[y] \in Seq(Int)
  BY <1>1, <1>3 DEF Plain
<1>6. PutIn(W.keys[p], T.keys[p], i, T.keys[p][i])
  BY <1>1 DEF Parted, PutIn
<1>7. W.kids[p][i] = x
  BY <1>1 DEF Parted
<1> QED BY <1>2, <1>3, <1>4, <1>5, <1>6, <1>7

\* A leaf is cut before the first key of y, and neither part is empty.
CutsLeaf(T, p, i, x, y, d) ==
  d = 0 => Len(T.keys[x]) >= 1 /\ Len(T.keys[y]) >= 1 /\ T.keys[p][i] = T.keys[y][1]

\* Where the keys and the separator lie in the span S of the node that is cut.
SepFits(T, x, y, d, sep, S) ==
  /\ sep \in Int /\ sep \in S /\ sep - 1 \in S
  /\ \A j \in 1 .. Len(T.keys[x]) :
       /\ T.keys[x][j] \in S /\ T.keys[x][j] < sep
       /\ d = 1 => T.keys[x][j] - 1 \in S
  /\ \A j \in 1 .. Len(T.keys[y]) :
       /\ T.keys[y][j] \in S /\ T.keys[y][j] >= sep
       /\ d = 1 => T.keys[y][j] - 1 \in S /\ T.keys[y][j] > sep
  /\ Rising(T.keys[x]) /\ Rising(T.keys[y])

\* The same for sequences: ks is cut into xs and ys, at the key sep.
AreCut(ks, xs, ys, d, sep) ==
  /\ ks \in Seq(Int) /\ xs \in Seq(Int) /\ ys \in Seq(Int) /\ d \in {0, 1}
  /\ Len(ks) = Len(xs) + d + Len(ys)
  /\ \A j \in 1 .. Len(xs) : xs[j] = ks[j]
  /\ \A j \in 1 .. Len(ys) : ys[j] = ks[Len(xs) + d + j]
  /\ d = 1 => ks[Len(xs) + 1] = sep
  /\ d = 0 => Len(ys) >= 1 /\ sep = ys[1]

\* The keys of the two parts rise, on either side of the separator.
LEMMA CutKeys ==
  ASSUME NEW ks, NEW xs, NEW ys, NEW d, NEW sep, AreCut(ks, xs, ys, d, sep), Rising(ks)
  PROVE  /\ Len(xs) + 1 \in 1 .. Len(ks) /\ sep = ks[Len(xs) + 1] /\ sep \in Int
         /\ \A j \in 1 .. Len(xs) : xs[j] < sep /\ j \in 1 .. Len(ks)
         /\ \A j \in 1 .. Len(ys) : /\ ys[j] >= sep /\ (d = 1 => ys[j] > sep)
                                    /\ Len(xs) + d + j \in 1 .. Len(ks)
         /\ Rising(xs) /\ Rising(ys)
<1> DEFINE a == Len(xs)
           b == Len(ys)
           n == Len(ks)
<1>1. a \in Nat /\ b \in Nat /\ n \in Nat /\ n = a + d + b /\ (d = 0 \/ d = 1)
  BY LenProperties DEF AreCut
<1>2. \A j \in 1 .. n : ks[j] \in Int
  BY ElementOfSeq DEF AreCut
<1>3. \A j, m \in 1 .. n : j < m => ks[j] < ks[m]
  BY DEF Rising
<1>4. \A j \in 1 .. a : xs[j] = ks[j]
  BY DEF AreCut
<1>5. \A j \in 1 .. b : ys[j] = ks[a + d + j]
  BY DEF AreCut
<1>6. (d = 1 => ks[a + 1] = sep) /\ (d = 0 => b >= 1 /\ sep = ys[1])
  BY DEF AreCut
<1> HIDE DEF a, b, n
<1>7. a + 1 \in 1 .. n /\ sep = ks[a + 1]
  <2>1. CASE d = 1
    BY <2>1, <1>1, <1>6
  <2>2. CASE d = 0
    <3>1. 1 \in 1 .. b /\ a + d + 1 = a + 1
      BY <2>2, <1>1, <1>6
    <3>2. ys[1] = ks[a + d + 1]
      BY <3>1, <1>5
    <3>3. ys[1] = ks[a + 1]
      BY <3>1, <3>2
    <3> QED BY <3>1, <3>3, <2>2, <1>1, <1>6
  <2> QED BY <2>1, <2>2, <1>1
<1>8. sep \in Int
  BY <1>2, <1>7
<1>9. \A j \in 1 .. a : xs[j] < sep /\ j \in 1 .. n
  <2> TAKE j \in 1 .. a
  <2>1. j \in 1 .. n /\ j < a + 1
    BY <1>1
  <2> QED BY <2>1, <1>3, <1>4, <1>7
<1>10. \A j \in 1 .. b : /\ ys[j] >= sep /\ (d = 1 => ys[j] > sep)
                         /\ a + d + j \in 1 .. n
  <2> TAKE j \in 1 .. b
  <2> DEFINE c == a + d + j
             e == a + 1
  <2>1. c \in 1 .. n /\ e \in 1 .. n /\ (c = e \/ e < c) /\ (d = 1 => e < c)
    BY <1>1, <1>7
  <2>2. ys[j] = ks[c] /\ sep = ks[e]
    BY <1>5, <1>7
  <2> HIDE DEF c, e
  <2>3. ks[c] \in Int /\ ks[e] \in Int /\ (e < c => ks[e] < ks[c])
    BY <2>1, <1>2, <1>3
  <2>4. ys[j] >= sep /\ (d = 1 => ys[j] > sep)
    BY <2>1, <2>2, <2>3
  <2> QED BY <2>1, <2>4 DEF c
<1>11. Rising(xs)
  <2>1. ASSUME NEW j \in 1 .. a, NEW m \in 1 .. a, j < m
        PROVE  xs[j] < xs[m]
    <3>1. j \in 1 .. n /\ m \in 1 .. n
      BY <1>1
    <3> QED BY <3>1, <2>1, <1>3, <1>4
  <2> QED BY <2>1 DEF Rising, a
<1>12. Rising(ys)
  <2>1. ASSUME NEW j \in 1 .. b, NEW m \in 1 .. b, j < m
        PROVE  ys[j] < ys[m]
    <3> DEFINE c == a + d + j
               e == a + d + m
    <3>1. c \in 1 .. n /\ e \in 1 .. n /\ c < e
      BY <2>1, <1>1
    <3>2. ys[j] = ks[c] /\ ys[m] = ks[e]
      BY <1>5
    <3> HIDE DEF c, e
    <3> QED BY <3>1, <3>2, <1>3
  <2> QED BY <2>1 DEF Rising, b
<1> QED BY <1>7, <1>8, <1>9, <1>10, <1>11, <1>12 DEF a, b, n

\* The separator of a cut lies inside the span of what was cut.
LEMMA SplitAt ==
  ASSUME NEW W, NEW T, NEW p, NEW i, NEW x, NEW y, NEW d, CutInto(W, T, p, i, x, y, d),
         CutsLeaf(T, p, i, x, y, d), NEW span, Spans(W, span)
  PROVE  SepFits(T, x, y, d, T.keys[p][i], span[x])
<1> DEFINE ks == W.keys[x]
           xs == T.keys[x]
           ys == T.keys[y]
           sep == T.keys[p][i]
           S == span[x]
<1>1. KeysParted(W, T, p, i, x, y, d) /\ ks \in Seq(Int) /\ xs \in Seq(Int) /\ ys \in Seq(Int) /\ x \in W.ids
  BY CutParent
<1>2. /\ Len(ks) = Len(xs) + d + Len(ys) /\ d \in {0, 1} /\ (d = 0 <=> x \in W.leaves)
      /\ \A j \in 1 .. Len(xs) : xs[j] = ks[j]
      /\ \A j \in 1 .. Len(ys) : ys[j] = ks[Len(xs) + d + j]
      /\ d = 1 => ks[Len(xs) + 1] = sep
  BY <1>1 DEF KeysParted
<1>3. d = 0 => Len(xs) >= 1 /\ Len(ys) >= 1 /\ sep = ys[1]
  BY DEF CutsLeaf
<1>4. /\ Rising(ks) /\ Convex(S) /\ S \subseteq Int
      /\ \A j \in 1 .. Len(ks) : ks[j] \in S /\ (x \notin W.leaves => ks[j] - 1 \in S)
  BY <1>1 DEF Spans
<1> HIDE DEF ks, xs, ys, sep, S
<1>5. /\ Len(xs) + 1 \in 1 .. Len(ks) /\ sep = ks[Len(xs) + 1] /\ sep \in Int
      /\ \A j \in 1 .. Len(xs) : xs[j] < sep /\ j \in 1 .. Len(ks)
      /\ \A j \in 1 .. Len(ys) : /\ ys[j] >= sep /\ (d = 1 => ys[j] > sep)
                                 /\ Len(xs) + d + j \in 1 .. Len(ks)
      /\ Rising(xs) /\ Rising(ys)
  <2>1. AreCut(ks, xs, ys, d, sep)
    BY <1>1, <1>2, <1>3 DEF AreCut
  <2> QED BY <2>1, <1>4, CutKeys
<1>6. sep \in S
  BY <1>4, <1>5
<1>7. \A j \in 1 .. Len(xs) : xs[j] \in S /\ (d = 1 => xs[j] - 1 \in S)
  BY <1>2, <1>4, <1>5
<1>8. \A j \in 1 .. Len(ys) : ys[j] \in S /\ (d = 1 => ys[j] - 1 \in S)
  <2> TAKE j \in 1 .. Len(ys)
  <2>1. Len(xs) + d + j \in 1 .. Len(ks) /\ ys[j] = ks[Len(xs) + d + j]
    BY <1>2, <1>5
  <2> QED BY <2>1, <1>2, <1>4
<1>9. sep - 1 \in S
  <2>1. CASE d = 1
    BY <2>1, <1>2, <1>4, <1>5
  <2>2. CASE d = 0
    <3>1. 1 \in 1 .. Len(xs)
      BY <2>2, <1>1, <1>3, LenProperties
    <3>2. xs[1] \in S /\ xs[1] < sep
      BY <3>1, <1>5, <1>7
    <3>3. xs[1] \in Int /\ xs[1] <= sep - 1 /\ sep - 1 <= sep /\ sep - 1 \in Int
      <4>1. xs[1] \in Int
        BY <3>2, <1>4
      <4> QED BY <3>2, <4>1, <1>5
    <3> QED BY <3>2, <3>3, <1>4, <1>6 DEF Convex
  <2> QED BY <2>1, <2>2, <1>2
<1>10. SepFits(T, x, y, d, sep, S)
  <2>1. xs = T.keys[x] /\ ys = T.keys[y]
    BY DEF xs, ys
  <2> QED BY <2>1, <1>5, <1>6, <1>7, <1>8, <1>9 DEF SepFits
<1> QED BY <1>10 DEF sep, S

\* What the children of an internal node cover, and those of its parts.
LEMMA CutCovers ==
  ASSUME NEW ks, NEW xs, NEW ys, NEW sep, AreCut(ks, xs, ys, 1, sep), Rising(ks), NEW k \in Int
  PROVE  /\ \A j \in 1 .. Len(xs) + 1 : Covers(ks, j, k) <=> k < sep /\ Covers(xs, j, k)
         /\ \A j \in 1 .. Len(ys) + 1 :
              Covers(ks, Len(xs) + 1 + j, k) <=> k >= sep /\ Covers(ys, j, k)
<1> DEFINE a == Len(xs)
           b == Len(ys)
           n == Len(ks)
<1>1. /\ a \in Nat /\ b \in Nat /\ n \in Nat /\ n = a + 1 + b
      /\ \A j \in 1 .. a : xs[j] = ks[j] /\ xs[j] \in Int
      /\ \A j \in 1 .. b : ys[j] = ks[a + 1 + j] /\ ys[j] \in Int
      /\ ks[a + 1] = sep
  BY LenProperties, ElementOfSeq DEF AreCut
<1>2. /\ sep \in Int
      /\ \A j \in 1 .. a : xs[j] < sep
      /\ \A j \in 1 .. b : ys[j] >= sep
  <2>1. /\ sep \in Int
        /\ \A j \in 1 .. Len(xs) : xs[j] < sep /\ j \in 1 .. Len(ks)
        /\ \A j \in 1 .. Len(ys) : /\ ys[j] >= sep /\ (1 = 1 => ys[j] > sep)
                                   /\ Len(xs) + 1 + j \in 1 .. Len(ks)
    BY CutKeys
  <2> QED BY <2>1
<1>3. a = Len(xs) /\ b = Len(ys) /\ n = Len(ks)
  OBVIOUS
<1> HIDE DEF a, b, n
<1>4. ASSUME NEW j \in 1 .. a + 1
      PROVE  Covers(ks, j, k) <=> k < sep /\ Covers(xs, j, k)
  <2>1. j > 1 => ks[j - 1] = xs[j - 1]
    <3>1. j > 1 => j - 1 \in 1 .. a
      BY <1>1
    <3> QED BY <3>1, <1>1
  <2> DEFINE lo == xs[j - 1]
             hi == ks[j]
  <2>2. Beside(ks, j, lo, hi) /\ Beside(xs, j, lo, hi)
    <3>1. j <= a => xs[j] = ks[j]
      BY <1>1
    <3> QED BY <2>1, <3>1, <1>3 DEF Beside
  <2>3. hi \in Int /\ hi <= sep /\ (~(j <= a) => hi = sep) /\ j <= n
    <3>1. j = a + 1 \/ j \in 1 .. a
      BY <1>1
    <3>2. j \in 1 .. a => hi \in Int /\ hi <= sep
      BY <1>1, <1>2
    <3>3. j = a + 1 => hi = sep
      BY <1>1
    <3>4. j <= n /\ (~(j <= a) => j = a + 1)
      BY <1>1
    <3> HIDE DEF hi
    <3> QED BY <3>1, <3>2, <3>3, <3>4, <1>2
  <2> HIDE DEF lo, hi
  <2>4. Covers(ks, j, k) <=> (j > 1 => lo <= k) /\ k < hi
    BY <2>2, <2>3, <1>3, CoversIs
  <2>5. Covers(xs, j, k) <=> (j > 1 => lo <= k) /\ (j <= a => k < hi)
    BY <2>2, <1>3, CoversIs
  <2> QED BY <2>3, <2>4, <2>5, <1>2
<1>5. ASSUME NEW j \in 1 .. b + 1
      PROVE  Covers(ks, a + 1 + j, k) <=> k >= sep /\ Covers(ys, j, k)
  <2> DEFINE c == a + 1 + j
             lo == ks[c - 1]
             hi == ks[c]
  <2>1. c \in Int /\ c > 1 /\ c - 1 = a + j /\ (c <= n <=> j <= b)
    BY <1>1
  <2>2. j <= b => ys[j] = hi /\ hi \in Int
    <3>1. j <= b => j \in 1 .. b
      BY <1>1
    <3> QED BY <3>1, <1>1
  <2>3. j > 1 => ys[j - 1] = lo
    <3>1. j > 1 => j - 1 \in 1 .. b /\ a + 1 + (j - 1) = c - 1
      BY <1>1
    <3> QED BY <3>1, <1>1
  <2>4. lo \in Int /\ lo >= sep /\ (j = 1 => lo = sep)
    <3>1. j = 1 => c - 1 = a + 1
      BY <2>1, <1>1
    <3>2. j > 1 => lo \in Int /\ lo >= sep
      <4>1. j > 1 => j - 1 \in 1 .. b
        BY <1>1
      <4>2. j > 1 => ys[j - 1] \in Int /\ ys[j - 1] >= sep
        BY <4>1, <1>1, <1>2
      <4> QED BY <4>2, <2>3
    <3>3. j = 1 => lo = sep
      BY <3>1, <1>1
    <3> HIDE DEF lo
    <3> QED BY <3>2, <3>3, <1>2
  <2>5. Beside(ks, c, lo, hi) /\ Beside(ys, j, lo, hi)
    BY <2>2, <2>3, <1>3 DEF Beside
  <2> HIDE DEF c, lo, hi
  <2>6. Covers(ks, c, k) <=> lo <= k /\ (j <= b => k < hi)
    BY <2>1, <2>5, <1>3, CoversIs
  <2>7. Covers(ys, j, k) <=> (j > 1 => lo <= k) /\ (j <= b => k < hi)
    BY <2>5, <1>3, CoversIs
  <2>8. Covers(ks, c, k) <=> k >= sep /\ Covers(ys, j, k)
    <3>1. j = 1 \/ j > 1
      BY <1>1
    <3> QED BY <3>1, <2>4, <2>6, <2>7, <1>2
  <2> QED BY <2>8 DEF c
<1> QED BY <1>4, <1>5 DEF a, b

\* The separator fits between the keys of the parent.
LEMMA SplitBetween ==
  ASSUME NEW W, NEW T, NEW p, NEW i, NEW x, NEW y, NEW d, CutInto(W, T, p, i, x, y, d),
         NEW span, Spans(W, span), NEW sep \in Int, sep \in span[x], sep - 1 \in span[x]
  PROVE  /\ Between(W.keys[p], i, sep)
         /\ sep \in span[p] /\ sep - 1 \in span[p]
         /\ \A k \in Int : k \in span[x] <=> k \in span[p] /\ Covers(W.keys[p], i, k)
<1> DEFINE K == W.keys[p]
<1>1. /\ K \in Seq(Int) /\ p \in W.ids /\ W.kids[p][i] = x /\ i \in 1 .. Len(W.kids[p])
      /\ i \in 1 .. Len(K) + 1
  BY CutParent
<1>2. \A k \in Int : k \in span[x] <=> k \in span[p] /\ Covers(K, i, k)
  BY <1>1 DEF Spans
<1>3. Covers(K, i, sep) /\ Covers(K, i, sep - 1) /\ sep \in span[p] /\ sep - 1 \in span[p]
  BY <1>2
<1>4. \A j \in 1 .. Len(K) : K[j] \in Int
  BY <1>1, ElementOfSeq
<1>5. i > 1 => i - 1 \in 1 .. Len(K)
  BY <1>1, LenProperties
<1>6. i > 1 => K[i - 1] <= sep - 1
  BY <1>3 DEF Covers
<1>7. i <= Len(K) => sep < K[i]
  BY <1>3 DEF Covers
<1>8. i > 1 => K[i - 1] < sep
  BY <1>4, <1>5, <1>6
<1> QED BY <1>2, <1>3, <1>7, <1>8 DEF Between

\* The spans after x was cut at sep.
SpanCut(T, span, x, y, sep) ==
  [n \in T.ids |-> IF n = x THEN {k \in span[x] : k < sep}
                   ELSE IF n = y THEN {k \in span[x] : k >= sep} ELSE span[n]]

\* The tree after a cut has spans if the tree before it has.
LEMMA SplitSpans ==
  ASSUME NEW W, NEW T, NEW p, NEW i, NEW x, NEW y, NEW d, CutInto(W, T, p, i, x, y, d),
         CutsLeaf(T, p, i, x, y, d), NEW span, Spans(W, span)
  PROVE  Spans(T, SpanCut(T, span, x, y, T.keys[p][i]))
<1> DEFINE sep == T.keys[p][i]
           new == SpanCut(T, span, x, y, sep)
           K == W.keys[p]
           t == T.keys[p]
           ks == W.keys[x]
           xs == T.keys[x]
           ys == T.keys[y]
<1>1. /\ IdsParted(W, T, p, i, x, y) /\ KidsParted(W, T, p, i, x, y)
      /\ KeysParted(W, T, p, i, x, y, d)
      /\ K \in Seq(Int) /\ t \in Seq(Int) /\ i \in 1 .. Len(K) + 1
      /\ PutIn(K, t, i, sep)
      /\ ks \in Seq(Int) /\ xs \in Seq(Int) /\ ys \in Seq(Int)
      /\ W.kids[p][i] = x /\ i \in 1 .. Len(W.kids[p])
  BY CutParent
<1>2. /\ p \in W.ids /\ p \notin W.leaves /\ x \in W.ids /\ x # p
      /\ y \notin W.ids /\ y # p /\ y # x /\ T.ids = W.ids \cup {y} /\ T.root = W.root
      /\ \A n \in W.ids : n \in T.leaves <=> n \in W.leaves
      /\ y \in T.leaves <=> x \in W.leaves
  BY <1>1 DEF IdsParted
<1>3. /\ Len(T.kids[p]) = Len(W.kids[p]) + 1 /\ T.kids[p][i + 1] = y /\ T.kids[p][i] = x
      /\ \A j \in 1 .. i : T.kids[p][j] = W.kids[p][j]
      /\ \A j \in i + 2 .. Len(W.kids[p]) + 1 : T.kids[p][j] = W.kids[p][j - 1]
      /\ Len(W.kids[x]) = Len(T.kids[x]) + Len(T.kids[y])
      /\ \A j \in 1 .. Len(T.kids[x]) : T.kids[x][j] = W.kids[x][j]
      /\ \A j \in 1 .. Len(T.kids[y]) : T.kids[y][j] = W.kids[x][Len(T.kids[x]) + j]
      /\ \A n \in W.ids \ {p, x} : T.kids[n] = W.kids[n]
  BY <1>1 DEF KidsParted
<1>4. /\ d \in {0, 1} /\ (d = 0 <=> x \in W.leaves)
      /\ \A n \in W.ids \ {p, x} : T.keys[n] = W.keys[n]
  BY <1>1 DEF KeysParted
<1>5. /\ \A n \in W.ids : W.kids[n] \in Seq(W.ids)
      /\ \A n \in T.ids : T.kids[n] \in Seq(T.ids)
      /\ W.root \in W.ids /\ x # W.root
      /\ \A n \in W.ids : \A j \in 1 .. Len(W.kids[n]) : W.kids[n][j] = x => n = p /\ j = i
      /\ Len(W.kids[p]) = Len(K) + 1
      /\ \A n \in T.leaves : Len(T.kids[n]) = 0
      /\ \A n \in T.ids \ T.leaves : Len(T.kids[n]) = Len(T.keys[n]) + 1
  BY <1>2 DEF CutInto, Plain, Once
<1>6. /\ \A n \in W.ids : Len(W.kids[n]) \in Nat
      /\ \A n \in T.ids : Len(T.kids[n]) \in Nat /\ \A j \in 1 .. Len(T.kids[n]) : T.kids[n][j] \in T.ids
      /\ \A n \in W.ids : \A j \in 1 .. Len(W.kids[n]) : W.kids[n][j] \in W.ids
  BY <1>5, LenProperties, ElementOfSeq
<1>7. SepFits(T, x, y, d, sep, span[x])
  BY SplitAt
<1>8. /\ sep \in Int /\ sep \in span[x] /\ sep - 1 \in span[x]
      /\ \A j \in 1 .. Len(xs) : /\ xs[j] \in span[x] /\ xs[j] < sep
                                 /\ d = 1 => xs[j] - 1 \in span[x]
      /\ \A j \in 1 .. Len(ys) : /\ ys[j] \in span[x] /\ ys[j] >= sep
                                 /\ d = 1 => ys[j] - 1 \in span[x] /\ ys[j] > sep
      /\ Rising(xs) /\ Rising(ys)
  BY <1>7 DEF SepFits
<1>9. /\ Between(K, i, sep) /\ sep \in span[p] /\ sep - 1 \in span[p]
      /\ \A k \in Int : k \in span[x] <=> k \in span[p] /\ Covers(K, i, k)
  BY <1>8, SplitBetween
<1>10. /\ span \in [W.ids -> SUBSET Int] /\ span[W.root] = Int
       /\ \A n \in W.ids : Convex(span[n]) /\ Rising(W.keys[n])
       /\ \A n \in W.ids : \A j \in 1 .. Len(W.kids[n]) : \A k \in Int :
            k \in span[W.kids[n][j]] <=> k \in span[n] /\ Covers(W.keys[n], j, k)
       /\ \A n \in W.ids : \A j \in 1 .. Len(W.keys[n]) :
            W.keys[n][j] \in span[n] /\ (n \notin W.leaves => W.keys[n][j] - 1 \in span[n])
  BY DEF Spans
<1>11. SameCovers(K, t, i, sep)
  BY <1>1, <1>9, CoversCut
<1>12. /\ \A n \in W.ids \ {x} : new[n] = span[n]
       /\ \A k \in Int : k \in new[x] <=> k \in span[x] /\ k < sep
       /\ \A k \in Int : k \in new[y] <=> k \in span[x] /\ k >= sep
       /\ new \in [T.ids -> SUBSET Int]
  <2>1. span[x] \subseteq Int /\ \A n \in W.ids : span[n] \subseteq Int
    BY <1>2, <1>10
  <2> HIDE DEF sep
  <2>2. /\ \A n \in W.ids \ {x} : new[n] = span[n]
        /\ new[x] = {k \in span[x] : k < sep} /\ new[y] = {k \in span[x] : k >= sep}
        /\ new = [n \in T.ids |-> new[n]]
    BY <1>2 DEF SpanCut
  <2>3. \A n \in T.ids : new[n] \in SUBSET Int
    BY <2>1, <2>2, <1>2
  <2> HIDE DEF new
  <2> QED BY <2>1, <2>2, <2>3
<1>13. t = T.keys[p] /\ xs = T.keys[x] /\ ys = T.keys[y] /\ K = W.keys[p]
  OBVIOUS
<1> HIDE DEF sep, new, K, t, ks, xs, ys
<1>14. \A n \in T.ids : Convex(new[n])
  <2>1. Convex(span[x])
    BY <1>2, <1>10
  <2>2. Convex(new[x]) /\ Convex(new[y])
    <3>1. span[x] \subseteq Int /\ new[x] \subseteq Int /\ new[y] \subseteq Int
      BY <1>2, <1>10, <1>12
    <3> QED BY <2>1, <3>1, <1>8, <1>12 DEF Convex
  <2>3. \A n \in W.ids \ {x} : Convex(new[n])
    BY <1>10, <1>12
  <2> QED BY <2>2, <2>3, <1>2
<1>15. \A n \in T.ids : Rising(T.keys[n])
  <2>1. Rising(t)
    BY <1>1, <1>2, <1>9, <1>10, <1>13, RisesWith
  <2> QED BY <2>1, <1>2, <1>4, <1>8, <1>10, <1>13
<1>16. ASSUME NEW j \in 1 .. Len(T.kids[p]), NEW k \in Int
       PROVE  k \in new[T.kids[p][j]] <=> k \in new[p] /\ Covers(T.keys[p], j, k)
  <2>1. new[p] = span[p]
    BY <1>2, <1>12
  <2>2. CASE j < i
    <3>1. j \in 1 .. i - 1 /\ j \in 1 .. i /\ j \in 1 .. Len(W.kids[p]) /\ j # i
      <4> DEFINE a == Len(W.kids[p])
                 b == Len(T.kids[p])
      <4>1. a \in Nat /\ b \in Nat /\ i \in 1 .. a /\ j \in 1 .. b
        BY <1>1, <1>2, <1>6
      <4> HIDE DEF a, b
      <4>2. i \in Nat /\ i <= a /\ j \in Nat /\ j >= 1
        BY <4>1
      <4>3. j \in 1 .. i - 1 /\ j \in 1 .. i /\ j \in 1 .. a /\ j # i
        BY <4>1, <4>2, <2>2
      <4> QED BY <4>3 DEF a
    <3>2. T.kids[p][j] = W.kids[p][j] /\ W.kids[p][j] \in W.ids /\ W.kids[p][j] # x
      BY <3>1, <1>2, <1>3, <1>5, <1>6
    <3>3. new[T.kids[p][j]] = span[W.kids[p][j]]
      BY <3>2, <1>12
    <3>4. Covers(t, j, k) <=> Covers(K, j, k)
      BY <3>1, <1>11 DEF SameCovers
    <3> QED BY <2>1, <3>1, <3>3, <3>4, <1>2, <1>10, <1>13
  <2>3. CASE j = i
    <3>1. Covers(t, j, k) <=> k < sep /\ Covers(K, i, k)
      BY <2>3, <1>11 DEF SameCovers
    <3> QED BY <2>1, <2>3, <3>1, <1>3, <1>9, <1>12, <1>13
  <2>4. CASE j = i + 1
    <3>1. Covers(t, j, k) <=> k >= sep /\ Covers(K, i, k)
      BY <2>4, <1>11 DEF SameCovers
    <3> QED BY <2>1, <2>4, <3>1, <1>3, <1>9, <1>12, <1>13
  <2>5. CASE j > i + 1
    <3> DEFINE c == j - 1
    <3>1. /\ c \in 1 .. Len(W.kids[p]) /\ c # i /\ c \in i + 1 .. Len(K) + 1 /\ c + 1 = j
          /\ j \in i + 2 .. Len(W.kids[p]) + 1
      BY <2>5, <1>1, <1>2, <1>3, <1>5, <1>6
    <3>2. T.kids[p][j] = W.kids[p][c]
      BY <3>1, <1>3
    <3> HIDE DEF c
    <3>3. W.kids[p][c] \in W.ids /\ W.kids[p][c] # x
      BY <3>1, <1>2, <1>5, <1>6
    <3>4. new[T.kids[p][j]] = span[W.kids[p][c]]
      BY <3>2, <3>3, <1>12
    <3>5. Covers(t, c + 1, k) <=> Covers(K, c, k)
      BY <3>1, <1>11 DEF SameCovers
    <3> QED BY <2>1, <3>1, <3>4, <3>5, <1>2, <1>10, <1>13
  <2>6. j < i \/ j = i \/ j = i + 1 \/ j > i + 1
    <3>1. Len(T.kids[p]) \in Nat /\ Len(W.kids[p]) \in Nat
      BY <1>2, <1>6
    <3>2. i \in Int /\ j \in Int
      BY <3>1, <1>1
    <3> QED BY <3>2
  <2> QED BY <2>2, <2>3, <2>4, <2>5, <2>6
<1>17. ASSUME d = 1
       PROVE  AreCut(ks, xs, ys, 1, sep) /\ Rising(ks) /\ Len(T.kids[x]) = Len(xs) + 1
              /\ Len(T.kids[y]) = Len(ys) + 1
  <2>1. x \notin T.leaves /\ y \notin T.leaves /\ x \in T.ids /\ y \in T.ids
    BY <1>17, <1>2, <1>4
  <2>2. Len(T.kids[x]) = Len(xs) + 1 /\ Len(T.kids[y]) = Len(ys) + 1
    BY <2>1, <1>5, <1>13
  <2>3. AreCut(ks, xs, ys, 1, sep)
    <3>1. KeysParted(W, T, p, i, x, y, 1)
      BY <1>1, <1>17
    <3> QED BY <3>1, <1>1 DEF AreCut, KeysParted, ks, xs, ys, sep
  <2> QED BY <2>2, <2>3, <1>2, <1>10 DEF ks
<1>18. d = 0 => Len(T.kids[x]) = 0 /\ Len(T.kids[y]) = 0
  BY <1>2, <1>4, <1>5
<1>19. ASSUME NEW j \in 1 .. Len(T.kids[x]), NEW k \in Int
       PROVE  k \in new[T.kids[x][j]] <=> k \in new[x] /\ Covers(T.keys[x], j, k)
  <2>1. d = 1
    BY <1>4, <1>18
  <2>2. j \in 1 .. Len(W.kids[x]) /\ j \in 1 .. Len(xs) + 1
    <3>1. Len(T.kids[x]) \in Nat /\ Len(T.kids[y]) \in Nat
      BY <1>2, <1>6
    <3>2. Len(W.kids[x]) = Len(T.kids[x]) + Len(T.kids[y])
      BY <1>3
    <3>3. Len(T.kids[x]) = Len(xs) + 1
      BY <2>1, <1>17
    <3>4. j \in 1 .. Len(xs) + 1
      BY <3>3
    <3>5. j \in Int /\ j >= 1 /\ j <= Len(T.kids[x])
      BY <3>1
    <3> DEFINE a == Len(T.kids[x])
               b == Len(T.kids[y])
               c == Len(W.kids[x])
    <3>6. j \in 1 .. c
      <4>1. a \in Nat /\ b \in Nat /\ c = a + b /\ j <= a
        BY <3>1, <3>2, <3>5
      <4> HIDE DEF a, b, c
      <4> QED BY <3>5, <4>1
    <3> QED BY <3>4, <3>6
  <2>3. T.kids[x][j] = W.kids[x][j] /\ W.kids[x][j] \in W.ids /\ W.kids[x][j] # x
    <3>1. T.kids[x][j] = W.kids[x][j]
      BY <1>3
    <3>2. W.kids[x][j] \in W.ids
      BY <2>2, <1>2, <1>6
    <3>3. W.kids[x][j] # x
      BY <2>2, <1>2, <1>5
    <3> QED BY <3>1, <3>2, <3>3
  <2>4. k \in new[T.kids[x][j]] <=> k \in span[x] /\ Covers(ks, j, k)
    BY <2>2, <2>3, <1>2, <1>10, <1>12 DEF ks
  <2>5. Covers(ks, j, k) <=> k < sep /\ Covers(xs, j, k)
    BY <2>1, <2>2, <1>17, CutCovers
  <2> QED BY <2>4, <2>5, <1>12, <1>13
<1>20. ASSUME NEW j \in 1 .. Len(T.kids[y]), NEW k \in Int
       PROVE  k \in new[T.kids[y][j]] <=> k \in new[y] /\ Covers(T.keys[y], j, k)
  <2>1. d = 1
    BY <1>4, <1>18
  <2> DEFINE c == Len(T.kids[x]) + j
  <2>2. c \in 1 .. Len(W.kids[x]) /\ j \in 1 .. Len(ys) + 1 /\ c = Len(xs) + 1 + j
    <3>1. Len(T.kids[x]) \in Nat /\ Len(T.kids[y]) \in Nat
      BY <1>2, <1>6
    <3>2. Len(W.kids[x]) = Len(T.kids[x]) + Len(T.kids[y])
      BY <1>3
    <3>3. Len(T.kids[x]) = Len(xs) + 1 /\ Len(T.kids[y]) = Len(ys) + 1
      BY <2>1, <1>17
    <3> QED BY <3>1, <3>2, <3>3
  <2>3. T.kids[y][j] = W.kids[x][c]
    BY <1>3
  <2>4. Covers(ks, Len(xs) + 1 + j, k) <=> k >= sep /\ Covers(ys, j, k)
    BY <2>1, <2>2, <1>17, CutCovers
  <2> HIDE DEF c
  <2>5. W.kids[x][c] \in W.ids /\ W.kids[x][c] # x
    BY <2>2, <1>2, <1>5, <1>6
  <2>6. k \in new[T.kids[y][j]] <=> k \in span[x] /\ Covers(ks, c, k)
    BY <2>2, <2>3, <2>5, <1>2, <1>10, <1>12 DEF ks
  <2> QED BY <2>2, <2>4, <2>6, <1>12, <1>13
<1>21. ASSUME NEW n \in W.ids \ {p, x}, NEW j \in 1 .. Len(T.kids[n]), NEW k \in Int
       PROVE  k \in new[T.kids[n][j]] <=> k \in new[n] /\ Covers(T.keys[n], j, k)
  <2>1. j \in 1 .. Len(W.kids[n]) /\ T.kids[n][j] = W.kids[n][j] /\ T.keys[n] = W.keys[n]
    BY <1>3, <1>4
  <2>2. W.kids[n][j] \in W.ids /\ W.kids[n][j] # x
    BY <2>1, <1>5, <1>6
  <2> QED BY <2>1, <2>2, <1>10, <1>12
<1>22. \A n \in T.ids : \A j \in 1 .. Len(T.kids[n]) : \A k \in Int :
         k \in new[T.kids[n][j]] <=> k \in new[n] /\ Covers(T.keys[n], j, k)
  BY <1>2, <1>16, <1>19, <1>20, <1>21
<1>23. ASSUME NEW j \in 1 .. Len(T.keys[p])
       PROVE  T.keys[p][j] \in new[p] /\ T.keys[p][j] - 1 \in new[p]
  <2>1. /\ Len(t) = Len(K) + 1 /\ t[i] = sep
        /\ \A m \in 1 .. i - 1 : t[m] = K[m]
        /\ \A m \in i .. Len(K) : t[m + 1] = K[m]
    BY <1>1, PutInPlaces
  <2>2. Len(K) \in Nat
    BY <1>1, LenProperties
  <2>3. \A m \in 1 .. Len(K) : K[m] \in span[p] /\ K[m] - 1 \in span[p]
    BY <1>2, <1>10, <1>13
  <2>4. CASE j < i
    <3>1. j \in 1 .. i - 1 /\ j \in 1 .. Len(K)
      BY <2>4, <2>2, <1>1
    <3> QED BY <3>1, <2>1, <2>3, <1>2, <1>12, <1>13
  <2>5. CASE j = i
    BY <2>1, <2>5, <1>2, <1>9, <1>12, <1>13
  <2>6. CASE j > i
    <3> DEFINE m == j - 1
    <3>1. m \in i .. Len(K) /\ m \in 1 .. Len(K) /\ m + 1 = j
      BY <2>1, <2>2, <2>6, <1>1, <1>13
    <3> HIDE DEF m
    <3> QED BY <3>1, <2>1, <2>3, <1>2, <1>12, <1>13
  <2> QED BY <2>4, <2>5, <2>6, <1>1
<1>24. \A j \in 1 .. Len(T.keys[x]) :
         T.keys[x][j] \in new[x] /\ (x \notin T.leaves => T.keys[x][j] - 1 \in new[x])
  <2> TAKE j \in 1 .. Len(T.keys[x])
  <2>1. xs[j] \in span[x] /\ xs[j] < sep /\ (d = 1 => xs[j] - 1 \in span[x]) /\ xs[j] \in Int
    BY <1>1, <1>8, <1>13, ElementOfSeq
  <2>2. xs[j] - 1 \in Int /\ xs[j] - 1 < sep
    BY <2>1, <1>8
  <2>3. x \notin T.leaves => d = 1
    BY <1>2, <1>4
  <2> QED BY <2>1, <2>2, <2>3, <1>12, <1>13
<1>25. \A j \in 1 .. Len(T.keys[y]) :
         T.keys[y][j] \in new[y] /\ (y \notin T.leaves => T.keys[y][j] - 1 \in new[y])
  <2> TAKE j \in 1 .. Len(T.keys[y])
  <2>1. /\ ys[j] \in span[x] /\ ys[j] >= sep /\ ys[j] \in Int
        /\ d = 1 => ys[j] - 1 \in span[x] /\ ys[j] > sep
    BY <1>1, <1>8, <1>13, ElementOfSeq
  <2>2. ys[j] - 1 \in Int /\ (d = 1 => ys[j] - 1 >= sep)
    BY <2>1, <1>8
  <2>3. y \notin T.leaves => d = 1
    BY <1>2, <1>4
  <2> QED BY <2>1, <2>2, <2>3, <1>12, <1>13
<1>26. \A n \in T.ids : \A j \in 1 .. Len(T.keys[n]) :
         T.keys[n][j] \in new[n] /\ (n \notin T.leaves => T.keys[n][j] - 1 \in new[n])
  <2>1. ASSUME NEW n \in W.ids \ {p, x}, NEW j \in 1 .. Len(T.keys[n])
        PROVE  T.keys[n][j] \in new[n] /\ (n \notin T.leaves => T.keys[n][j] - 1 \in new[n])
    BY <1>2, <1>4, <1>10, <1>12
  <2> QED BY <2>1, <1>2, <1>23, <1>24, <1>25
<1>27. new[T.root] = Int
  BY <1>2, <1>5, <1>10, <1>12
<1>28. Spans(T, new)
  BY <1>12, <1>14, <1>15, <1>22, <1>26, <1>27 DEF Spans
<1> QED BY <1>28 DEF new, sep

\* What the two parts of a span are: those below sep, and the others.
Cuts(S, A, B, sep) ==
  /\ S \subseteq Int /\ A \subseteq Int /\ B \subseteq Int /\ sep \in Int
  /\ Convex(S) /\ sep \in S /\ sep - 1 \in S
  /\ \A k \in Int : (k \in A <=> k \in S /\ k < sep) /\ (k \in B <=> k \in S /\ k >= sep)

\* Where the two parts of a span begin and end.
LEMMA CutEnds ==
  ASSUME NEW S, NEW A, NEW B, NEW sep, Cuts(S, A, B, sep)
  PROVE  /\ \A k \in S : k \in A \/ k \in B
         /\ \A k \in Int : ~(k \in A /\ k \in B)
         /\ \A k \in A : k \in S /\ (k + 1 \notin A => k + 1 = sep)
         /\ \A k \in B : k \in S /\ (k + 1 \notin B => k + 1 \notin S)
         /\ \A k \in Int : k \notin S /\ k + 1 \in S => k + 1 \in A
         /\ sep - 1 \in A /\ sep \notin A /\ sep \in B
         /\ (\A k \in B : k + 1 \in B) => \A k \in S : k + 1 \in S
<1>1. /\ \A k \in S : k \in A \/ k \in B
      /\ \A k \in Int : ~(k \in A /\ k \in B)
      /\ sep - 1 \in A /\ sep \notin A /\ sep \in B
      /\ \A k \in A : k \in S
      /\ \A k \in B : k \in S
  BY DEF Cuts
<1>2. ASSUME NEW k \in A, k + 1 \notin A
      PROVE  k + 1 = sep
  <2>1. k \in S /\ k < sep /\ k \in Int /\ sep - 1 \in S
    BY DEF Cuts
  <2>2. SUFFICES ASSUME k + 1 < sep
                 PROVE  FALSE
    BY <2>1 DEF Cuts
  <2>3. k + 1 \in Int /\ k <= k + 1 /\ k + 1 <= sep - 1
    BY <2>1, <2>2 DEF Cuts
  <2>4. k + 1 \in S
    BY <2>1, <2>3 DEF Cuts, Convex
  <2> QED BY <2>2, <2>3, <2>4, <1>2 DEF Cuts
<1>3. ASSUME NEW k \in B, k + 1 \in S
      PROVE  k + 1 \in B
  <2>1. k \in Int /\ k >= sep /\ k + 1 \in Int /\ k + 1 >= sep
    BY DEF Cuts
  <2> QED BY <2>1, <1>3 DEF Cuts
<1>4. ASSUME NEW k \in Int, k \notin S, k + 1 \in S
      PROVE  k + 1 \in A
  <2>1. SUFFICES ASSUME k + 1 >= sep
                 PROVE  FALSE
    BY <1>4 DEF Cuts
  <2>2. sep - 1 <= k /\ k <= k + 1
    BY <2>1, <1>4 DEF Cuts
  <2> QED BY <2>2, <1>4 DEF Cuts, Convex
<1>5. ASSUME \A k \in B : k + 1 \in B, NEW k \in S
      PROVE  k + 1 \in S
  <2>1. CASE k \in B
    BY <2>1, <1>1, <1>5
  <2>2. CASE k \in A
    <3>1. k + 1 \in A \/ k + 1 = sep
      BY <2>2, <1>2
    <3> QED BY <3>1, <1>1
  <2> QED BY <2>1, <2>2, <1>1
<1> QED BY <1>1, <1>2, <1>3, <1>4, <1>5

\* The leaf x of W, cut in two: the new leaf comes right after what is left of x.
LEMMA SplitLinking ==
  ASSUME NEW W, NEW T, NEW p, NEW i, NEW x, NEW y, NEW d, CutInto(W, T, p, i, x, y, d),
         CutsLeaf(T, p, i, x, y, d), d = 0 => T.next[x] = y,
         NEW span, Spans(W, span), Linking(W, span)
  PROVE  Linking(T, SpanCut(T, span, x, y, T.keys[p][i]))
<1> DEFINE sep == T.keys[p][i]
           new == SpanCut(T, span, x, y, sep)
           S == span[x]
<1>1. /\ IdsParted(W, T, p, i, x, y) /\ KeysParted(W, T, p, i, x, y, d)
  BY CutParent
<1>2. /\ p \in W.ids /\ p \notin W.leaves /\ x \in W.ids /\ x # p
      /\ y \notin W.ids /\ y # p /\ y # x /\ T.ids = W.ids \cup {y}
      /\ \A n \in W.ids : n \in T.leaves <=> n \in W.leaves
      /\ y \in T.leaves <=> x \in W.leaves
      /\ \A n \in W.ids \ {p, x} : T.next[n] = W.next[n]
      /\ x \in W.leaves => T.next[y] = W.next[x]
      /\ W.leaves \subseteq W.ids /\ T.leaves \subseteq T.ids
      /\ NullPage \notin W.ids
  BY <1>1 DEF IdsParted, CutInto, Plain
<1>3. d = 0 <=> x \in W.leaves
  BY <1>1 DEF KeysParted
<1>4. SepFits(T, x, y, d, sep, S)
  BY SplitAt
<1>5. Cuts(S, new[x], new[y], sep)
  <2>1. sep \in Int /\ sep \in S /\ sep - 1 \in S
    BY <1>4 DEF SepFits
  <2>2. S \subseteq Int /\ Convex(S)
    BY <1>2 DEF Spans
  <2>3. new[x] = {k \in S : k < sep} /\ new[y] = {k \in S : k >= sep}
    <3> HIDE DEF sep
    <3> QED BY <1>2 DEF SpanCut
  <2> HIDE DEF sep, new, S
  <2>4. new[x] \subseteq Int /\ new[y] \subseteq Int
    BY <2>2, <2>3
  <2> QED BY <2>1, <2>2, <2>3, <2>4 DEF Cuts
<1>6. \A n \in W.ids \ {x} : new[n] = span[n]
  BY <1>2 DEF SpanCut
<1>7. /\ \A m, n \in W.leaves : \A k \in span[m] : k \in span[n] => m = n
      /\ \A n \in W.leaves : \A k \in span[n] :
           k + 1 \notin span[n] => W.next[n] \in W.leaves /\ k + 1 \in span[W.next[n]]
      /\ \A n \in W.leaves : (\A k \in span[n] : k + 1 \in span[n]) => W.next[n] = NullPage
      /\ \A n \in W.ids : span[n] \subseteq Int
  BY DEF Linking, Spans
<1> HIDE DEF sep, new, S
<1>8. S = span[x]
  BY DEF S
<1>9. /\ \A k \in S : k \in new[x] \/ k \in new[y]
      /\ \A k \in Int : ~(k \in new[x] /\ k \in new[y])
      /\ \A k \in new[x] : k \in S /\ (k + 1 \notin new[x] => k + 1 = sep)
      /\ \A k \in new[y] : k \in S /\ (k + 1 \notin new[y] => k + 1 \notin S)
      /\ \A k \in Int : k \notin S /\ k + 1 \in S => k + 1 \in new[x]
      /\ sep - 1 \in new[x] /\ sep \notin new[x] /\ sep \in new[y] /\ sep \in Int
      /\ (\A k \in new[y] : k + 1 \in new[y]) => \A k \in S : k + 1 \in S
      /\ new[x] \subseteq Int /\ new[y] \subseteq Int
  <2>1. sep \in Int /\ new[x] \subseteq Int /\ new[y] \subseteq Int
    BY <1>5 DEF Cuts
  <2> QED BY <2>1, <1>5, CutEnds
\* Every key of a leaf of T comes from one of W.
<1> DEFINE from(n) == IF n = y THEN x ELSE n
<1>10. \A n \in T.leaves : from(n) \in W.leaves /\ \A k \in new[n] : k \in span[from(n)] /\ k \in Int
  <2> TAKE n \in T.leaves
  <2>1. CASE n = y
    BY <2>1, <1>2, <1>8, <1>9
  <2>2. CASE n # y
    <3>1. n \in W.leaves /\ n \in W.ids
      BY <2>2, <1>2
    <3>2. CASE n = x
      BY <3>1, <3>2, <2>2, <1>8, <1>9
    <3>3. CASE n # x
      BY <3>1, <3>3, <2>2, <1>6, <1>7
    <3> QED BY <3>2, <3>3
  <2> QED BY <2>1, <2>2
<1>11. ASSUME NEW m \in T.leaves, NEW n \in T.leaves, NEW k \in new[m], k \in new[n]
       PROVE  m = n
  <2>1. from(m) = from(n) /\ k \in Int
    BY <1>7, <1>10, <1>11
  <2>2. CASE m = n
    BY <2>2
  <2>3. CASE m # n
    <3>1. (m = x /\ n = y) \/ (m = y /\ n = x)
      BY <2>1, <2>3
    <3> QED BY <3>1, <2>1, <1>9, <1>11
  <2> QED BY <2>2, <2>3
\* Where a key of a leaf of W is the least above one of another leaf.
<1>12. ASSUME NEW a \in W.leaves, NEW k \in span[a], k + 1 \notin span[a]
       PROVE  W.next[a] \in T.leaves /\ k + 1 \in new[W.next[a]]
  <2>1. W.next[a] \in W.leaves /\ k + 1 \in span[W.next[a]] /\ k \in Int
    BY <1>2, <1>7, <1>12
  <2>2. CASE W.next[a] = x
    <3>1. k \notin S
      <4>1. CASE k \in S
        <5>1. a = x
          BY <4>1, <2>1, <2>2, <1>7, <1>8
        <5> QED BY <5>1, <2>1, <2>2, <1>12
      <4> QED BY <4>1
    <3> QED BY <3>1, <2>1, <2>2, <1>2, <1>8, <1>9
  <2>3. CASE W.next[a] # x
    BY <2>1, <2>3, <1>2, <1>6
  <2> QED BY <2>2, <2>3
<1>13. ASSUME NEW n \in T.leaves, NEW k \in new[n], k + 1 \notin new[n]
       PROVE  T.next[n] \in T.leaves /\ k + 1 \in new[T.next[n]]
  <2>1. CASE n = y
    <3>1. x \in W.leaves /\ k \in span[x] /\ k + 1 \notin span[x] /\ T.next[n] = W.next[x]
      BY <2>1, <1>2, <1>8, <1>9, <1>13
    <3> QED BY <3>1, <1>12
  <2>2. CASE n = x
    <3>1. x \in W.leaves /\ T.next[x] = y /\ y \in T.leaves
      BY <2>2, <1>2, <1>3
    <3>2. k + 1 = sep
      BY <2>2, <1>9, <1>13
    <3> QED BY <2>2, <3>1, <3>2, <1>9
  <2>3. CASE n # x /\ n # y
    <3>1. n \in W.leaves /\ new[n] = span[n] /\ T.next[n] = W.next[n]
      BY <2>3, <1>2, <1>6
    <3> QED BY <3>1, <1>12, <1>13
  <2> QED BY <2>1, <2>2, <2>3
<1>14. ASSUME NEW n \in T.leaves, \A k \in new[n] : k + 1 \in new[n]
       PROVE  T.next[n] = NullPage
  <2>1. CASE n = y
    <3>1. x \in W.leaves /\ (\A k \in span[x] : k + 1 \in span[x]) /\ T.next[n] = W.next[x]
      BY <2>1, <1>2, <1>8, <1>9, <1>14
    <3> QED BY <3>1, <1>7
  <2>2. CASE n = x
    <3>1. sep - 1 + 1 = sep
      BY <1>9
    <3> QED BY <3>1, <2>2, <1>9, <1>14
  <2>3. CASE n # x /\ n # y
    <3>1. n \in W.leaves /\ new[n] = span[n] /\ T.next[n] = W.next[n]
      BY <2>3, <1>2, <1>6
    <3> QED BY <3>1, <1>7, <1>14
  <2> QED BY <2>1, <2>2, <2>3
<1>15. Linking(T, new)
  BY <1>11, <1>13, <1>14 DEF Linking
<1> QED BY <1>15 DEF new, sep

\* W is T with the children x and y of p, i and i + 1, put together.
JoinInto(W, T, p, i, x, y, d) ==
  /\ Plain(W) /\ Plain(T) /\ Parted(W, T, p, i, x, y, d)
  /\ Once(T, p, i, x) /\ Once(T, p, i + 1, y)

\* The spans after x and y were put together.
SpanJoin(W, span, x, y) ==
  [n \in W.ids |-> IF n = x THEN span[x] \cup span[y] ELSE span[n]]

\* ks is xs and ys, with sep between them if d = 1.
AreParts(ks, xs, ys, d, sep) ==
  /\ ks \in Seq(Int) /\ xs \in Seq(Int) /\ ys \in Seq(Int) /\ d \in {0, 1}
  /\ Len(ks) = Len(xs) + d + Len(ys)
  /\ \A j \in 1 .. Len(xs) : xs[j] = ks[j]
  /\ \A j \in 1 .. Len(ys) : ys[j] = ks[Len(xs) + d + j]
  /\ d = 1 => ks[Len(xs) + 1] = sep

\* sep separates the keys xs from the keys ys.
Apart(xs, ys, d, sep) ==
  /\ sep \in Int /\ Rising(xs) /\ Rising(ys)
  /\ \A j \in 1 .. Len(xs) : xs[j] < sep
  /\ \A j \in 1 .. Len(ys) : ys[j] >= sep /\ (d = 1 => ys[j] > sep)

\* The keys of two neighbours rise when they are put together.
LEMMA JoinRises ==
  ASSUME NEW ks, NEW xs, NEW ys, NEW d, NEW sep, AreParts(ks, xs, ys, d, sep), Apart(xs, ys, d, sep)
  PROVE  Rising(ks)
<1> DEFINE a == Len(xs)
           b == Len(ys)
           n == Len(ks)
<1>1. /\ a \in Nat /\ b \in Nat /\ n \in Nat /\ n = a + d + b /\ (d = 0 \/ d = 1) /\ sep \in Int
      /\ \A j \in 1 .. a : xs[j] = ks[j] /\ xs[j] < sep /\ ks[j] \in Int
      /\ \A j \in 1 .. b : ys[j] = ks[a + d + j] /\ ys[j] >= sep /\ (d = 1 => ys[j] > sep) /\ ys[j] \in Int
      /\ d = 1 => ks[a + 1] = sep
  <2>1. \A j \in 1 .. Len(xs) : xs[j] \in Int
    BY ElementOfSeq DEF AreParts
  <2>2. \A j \in 1 .. Len(ys) : ys[j] \in Int
    BY ElementOfSeq DEF AreParts
  <2> QED BY <2>1, <2>2, LenProperties DEF AreParts, Apart
<1>2. /\ \A j, m \in 1 .. a : j < m => xs[j] < xs[m]
      /\ \A j, m \in 1 .. b : j < m => ys[j] < ys[m]
  BY DEF Apart, Rising
<1>3. n = Len(ks)
  OBVIOUS
<1> HIDE DEF a, b, n
<1>4. ASSUME NEW j \in 1 .. n, NEW m \in 1 .. n, j < m
      PROVE  ks[j] < ks[m]
  <2>1. \A e \in 1 .. n : e <= a \/ e > a + d \/ (d = 1 /\ e = a + 1)
    BY <1>1
  <2> DEFINE u == j - (a + d)
             v == m - (a + d)
  <2>2. /\ j > a + d => u \in 1 .. b /\ a + d + u = j
        /\ m > a + d => v \in 1 .. b /\ a + d + v = m
    BY <1>1
  <2>3. j > a + d /\ m > a + d => u < v
    BY <1>1, <1>4
  <2> HIDE DEF u, v
  <2>4. CASE j <= a /\ m <= a
    <3>1. j \in 1 .. a /\ m \in 1 .. a
      BY <2>4, <1>1
    <3> QED BY <3>1, <1>1, <1>2, <1>4
  <2>5. CASE j <= a /\ m > a + d
    <3>1. j \in 1 .. a
      BY <2>5, <1>1
    <3>2. ks[j] < sep /\ ks[j] \in Int
      BY <3>1, <1>1
    <3>3. ks[m] >= sep /\ ks[m] \in Int
      BY <2>2, <2>5, <1>1
    <3> QED BY <3>2, <3>3, <1>1
  <2>6. CASE j <= a /\ d = 1 /\ m = a + 1
    <3>1. j \in 1 .. a
      BY <2>6, <1>1
    <3> QED BY <2>6, <3>1, <1>1
  <2>7. CASE d = 1 /\ j = a + 1 /\ m > a + d
    <3>1. ks[m] > sep /\ ks[m] \in Int
      BY <2>2, <2>7, <1>1
    <3> QED BY <2>7, <3>1, <1>1
  <2>8. CASE j > a + d /\ m > a + d
    <3>1. ks[j] = ys[u] /\ ks[m] = ys[v]
      BY <2>2, <2>8, <1>1
    <3> QED BY <2>2, <2>3, <2>8, <3>1, <1>2
  <2>9. ~(j > a + d /\ m <= a) /\ ~(j > a + d /\ m = a + 1) /\ ~(d = 1 /\ j = a + 1 /\ (m <= a \/ m = a + 1))
    BY <1>1, <1>4
  <2> QED BY <2>1, <2>4, <2>5, <2>6, <2>7, <2>8, <2>9
<1> QED BY <1>3, <1>4 DEF Rising

\* Where the spans of x and y meet.
Meets(W, p, i, S, A, B, sep, P) ==
  /\ Cuts(S, A, B, sep) /\ Between(W.keys[p], i, sep)
  /\ sep \in P /\ sep - 1 \in P
  /\ \A k \in Int : k \in S <=> k \in P /\ Covers(W.keys[p], i, k)

\* The spans of two neighbours meet at their separator.
LEMMA JoinAt ==
  ASSUME NEW W, NEW T, NEW p, NEW i, NEW x, NEW y, NEW d, JoinInto(W, T, p, i, x, y, d),
         NEW span, Spans(T, span)
  PROVE  Meets(W, p, i, span[x] \cup span[y], span[x], span[y], T.keys[p][i], span[p])
         /\ Rising(W.keys[p])
<1> DEFINE sep == T.keys[p][i]
           K == W.keys[p]
           t == T.keys[p]
           S == span[x] \cup span[y]
           P == span[p]
<1>1. /\ IdsParted(W, T, p, i, x, y) /\ KidsParted(W, T, p, i, x, y)
      /\ KeysParted(W, T, p, i, x, y, d)
  BY PartedIds, PartedKids, PartedKeys DEF JoinInto
<1>2. /\ p \in W.ids /\ p \notin W.leaves /\ p \in T.ids /\ x \in T.ids /\ y \in T.ids
      /\ T.ids = W.ids \cup {y} /\ i \in 1 .. Len(W.kids[p]) /\ p \notin T.leaves
  BY <1>1 DEF IdsParted
<1>3. /\ K \in Seq(Int) /\ t \in Seq(Int) /\ Len(W.kids[p]) = Len(K) + 1
      /\ T.kids[p] \in Seq(T.ids)
  BY <1>2 DEF JoinInto, Plain
<1>4. PutIn(K, t, i, sep)
  BY DEF JoinInto, Parted, PutIn
<1>5. i \in 1 .. Len(K) + 1 /\ Len(K) \in Nat /\ i \in Int
  BY <1>2, <1>3, LenProperties
<1>6. Len(t) = Len(K) + 1 /\ sep \in Int /\ i \in 1 .. Len(t)
  BY <1>3, <1>4, <1>5, PutInPlaces
<1>7. /\ P \subseteq Int /\ Convex(P) /\ Rising(t) /\ sep \in P /\ sep - 1 \in P
      /\ span[x] \subseteq Int /\ span[y] \subseteq Int
  BY <1>2, <1>6 DEF Spans
<1>8. Rising(K) /\ Between(K, i, sep)
  BY <1>3, <1>4, <1>5, <1>7, RisesWithout
<1>9. SameCovers(K, t, i, sep)
  BY <1>3, <1>4, <1>5, <1>8, CoversCut
<1>10. \A k \in Int : /\ k \in span[x] <=> k \in P /\ Covers(t, i, k)
                      /\ k \in span[y] <=> k \in P /\ Covers(t, i + 1, k)
  <2>1. T.kids[p][i] = x /\ T.kids[p][i + 1] = y /\ Len(T.kids[p]) = Len(W.kids[p]) + 1
    BY <1>1 DEF KidsParted
  <2>2. i \in 1 .. Len(T.kids[p]) /\ i + 1 \in 1 .. Len(T.kids[p])
    BY <2>1, <1>3, <1>5
  <2> QED BY <2>1, <2>2, <1>2 DEF Spans
<1>11. \A k \in Int : /\ k \in span[x] <=> k \in P /\ k < sep /\ Covers(K, i, k)
                      /\ k \in span[y] <=> k \in P /\ k >= sep /\ Covers(K, i, k)
  BY <1>9, <1>10 DEF SameCovers
<1>12. \A k \in Int : k \in S <=> k \in P /\ Covers(K, i, k)
  <2>1. \A k \in Int : k < sep \/ k >= sep
    BY <1>6
  <2> QED BY <2>1, <1>11
<1>13. \A j \in 1 .. Len(K) : K[j] \in Int
  BY <1>3, ElementOfSeq
<1>14. /\ i > 1 => K[i - 1] \in Int
       /\ i <= Len(K) => K[i] \in Int
  <2>1. /\ i > 1 => i - 1 \in 1 .. Len(K)
        /\ i <= Len(K) => i \in 1 .. Len(K)
    BY <1>5
  <2> QED BY <2>1, <1>13
<1> HIDE DEF sep, K, t, S, P
<1>15. Covers(K, i, sep) /\ Covers(K, i, sep - 1)
  BY <1>6, <1>8, <1>14 DEF Between, Covers
<1>16. Convex(S)
  <2>1. ASSUME NEW a \in S, NEW b \in S, NEW k \in Int, a <= k, k <= b
        PROVE  k \in S
    <3>1. a \in Int /\ b \in Int
      BY <1>7 DEF S
    <3>2. a \in P /\ b \in P /\ Covers(K, i, a) /\ Covers(K, i, b)
      BY <3>1, <1>12
    <3>3. k \in P
      BY <2>1, <3>2, <1>7 DEF Convex
    <3>4. Covers(K, i, k)
      BY <2>1, <3>1, <3>2, <1>14 DEF Covers
    <3> QED BY <3>3, <3>4, <1>12
  <2> QED BY <2>1 DEF Convex
<1>17. Cuts(S, span[x], span[y], sep)
  <2>1. sep \in S /\ sep - 1 \in S
    BY <1>6, <1>7, <1>12, <1>15
  <2>2. S \subseteq Int
    BY <1>7 DEF S
  <2> QED BY <2>1, <2>2, <1>6, <1>7, <1>11, <1>12, <1>16 DEF Cuts
<1> QED BY <1>7, <1>8, <1>12, <1>17 DEF Meets, S, P, sep, K

\* The tree after a merge has spans if the tree before it has.
LEMMA MergeSpans ==
  ASSUME NEW W, NEW T, NEW p, NEW i, NEW x, NEW y, NEW d, JoinInto(W, T, p, i, x, y, d),
         NEW span, Spans(T, span)
  PROVE  Spans(W, SpanJoin(W, span, x, y))
<1> DEFINE sep == T.keys[p][i]
           new == SpanJoin(W, span, x, y)
           S == span[x] \cup span[y]
           K == W.keys[p]
           t == T.keys[p]
           ks == W.keys[x]
           xs == T.keys[x]
           ys == T.keys[y]
<1>1. /\ IdsParted(W, T, p, i, x, y) /\ KidsParted(W, T, p, i, x, y)
      /\ KeysParted(W, T, p, i, x, y, d)
  BY PartedIds, PartedKids, PartedKeys DEF JoinInto
<1>2. /\ p \in W.ids /\ p \notin W.leaves /\ x \in W.ids /\ x # p
      /\ y \notin W.ids /\ y # p /\ y # x /\ T.ids = W.ids \cup {y} /\ T.root = W.root
      /\ i \in 1 .. Len(W.kids[p])
      /\ \A n \in W.ids : n \in T.leaves <=> n \in W.leaves
      /\ y \in T.leaves <=> x \in W.leaves
  BY <1>1 DEF IdsParted
<1>3. /\ Len(T.kids[p]) = Len(W.kids[p]) + 1 /\ T.kids[p][i + 1] = y /\ T.kids[p][i] = x
      /\ \A j \in 1 .. i : T.kids[p][j] = W.kids[p][j]
      /\ \A j \in i + 2 .. Len(W.kids[p]) + 1 : T.kids[p][j] = W.kids[p][j - 1]
      /\ Len(W.kids[x]) = Len(T.kids[x]) + Len(T.kids[y])
      /\ \A j \in 1 .. Len(T.kids[x]) : T.kids[x][j] = W.kids[x][j]
      /\ \A j \in 1 .. Len(T.kids[y]) : T.kids[y][j] = W.kids[x][Len(T.kids[x]) + j]
      /\ \A n \in W.ids \ {p, x} : T.kids[n] = W.kids[n]
  BY <1>1 DEF KidsParted
<1>4. /\ d \in {0, 1} /\ (d = 0 <=> x \in W.leaves)
      /\ \A n \in W.ids \ {p, x} : T.keys[n] = W.keys[n]
  BY <1>1 DEF KeysParted
<1>5. /\ W.root \in W.ids /\ x # W.root /\ y # W.root
      /\ \A n \in T.ids : \A j \in 1 .. Len(T.kids[n]) : T.kids[n][j] = x => n = p /\ j = i
      /\ \A n \in T.ids : \A j \in 1 .. Len(T.kids[n]) : T.kids[n][j] = y => n = p /\ j = i + 1
      /\ Len(W.kids[p]) = Len(K) + 1
      /\ K \in Seq(Int) /\ t \in Seq(Int) /\ ks \in Seq(Int) /\ xs \in Seq(Int) /\ ys \in Seq(Int)
      /\ \A n \in T.leaves : Len(T.kids[n]) = 0
      /\ \A n \in T.ids \ T.leaves : Len(T.kids[n]) = Len(T.keys[n]) + 1
  BY <1>2 DEF JoinInto, Plain, Once
<1>6. /\ \A n \in W.ids : Len(W.kids[n]) \in Nat
      /\ \A n \in T.ids : Len(T.kids[n]) \in Nat /\ \A j \in 1 .. Len(T.kids[n]) : T.kids[n][j] \in T.ids
      /\ Len(K) \in Nat /\ Len(xs) \in Nat /\ Len(ys) \in Nat /\ i \in Int
  <2>1. Plain(W) /\ Plain(T)
    BY DEF JoinInto
  <2>2. Len(K) \in Nat /\ Len(xs) \in Nat /\ Len(ys) \in Nat
    BY <1>5, LenProperties
  <2> QED BY <1>2, <2>1, <2>2, PlainFacts
<1>7. PutIn(K, t, i, sep)
  BY DEF JoinInto, Parted, PutIn
<1>8. i \in 1 .. Len(K) + 1
  BY <1>2, <1>5
<1>9. Meets(W, p, i, S, span[x], span[y], sep, span[p]) /\ Rising(K)
  BY JoinAt
<1>10. Cuts(S, span[x], span[y], sep) /\ Between(K, i, sep)
       /\ \A k \in Int : k \in S <=> k \in span[p] /\ Covers(K, i, k)
  BY <1>9 DEF Meets
<1>11. SameCovers(K, t, i, sep)
  BY <1>5, <1>7, <1>8, <1>10, CoversCut
<1>12. /\ span \in [T.ids -> SUBSET Int] /\ span[T.root] = Int
       /\ \A n \in T.ids : Convex(span[n]) /\ Rising(T.keys[n])
       /\ \A n \in T.ids : \A j \in 1 .. Len(T.kids[n]) : \A k \in Int :
            k \in span[T.kids[n][j]] <=> k \in span[n] /\ Covers(T.keys[n], j, k)
       /\ \A n \in T.ids : \A j \in 1 .. Len(T.keys[n]) :
            T.keys[n][j] \in span[n] /\ (n \notin T.leaves => T.keys[n][j] - 1 \in span[n])
  BY DEF Spans
<1>13. /\ \A n \in W.ids \ {x} : new[n] = span[n]
       /\ new[x] = S
       /\ new \in [W.ids -> SUBSET Int]
  BY <1>2, <1>12 DEF SpanJoin
<1>14. t = T.keys[p] /\ xs = T.keys[x] /\ ys = T.keys[y] /\ K = W.keys[p] /\ ks = W.keys[x]
  OBVIOUS
<1>15. AreParts(ks, xs, ys, d, sep)
  BY <1>1, <1>5 DEF AreParts, KeysParted
<1> HIDE DEF sep, new, K, t, ks, xs, ys, S
<1>16. /\ sep \in Int /\ S \subseteq Int /\ Convex(S)
       /\ \A k \in Int : /\ k \in span[x] <=> k \in S /\ k < sep
                         /\ k \in span[y] <=> k \in S /\ k >= sep
  BY <1>10 DEF Cuts
<1>17. /\ \A j \in 1 .. Len(xs) : /\ xs[j] \in span[x] /\ xs[j] \in S /\ xs[j] < sep /\ xs[j] \in Int
                                  /\ d = 1 => xs[j] - 1 \in S
       /\ \A j \in 1 .. Len(ys) : /\ ys[j] \in span[y] /\ ys[j] \in S /\ ys[j] >= sep /\ ys[j] \in Int
                                  /\ d = 1 => ys[j] - 1 \in S /\ ys[j] > sep
  <2>1. ASSUME NEW j \in 1 .. Len(xs)
        PROVE  /\ xs[j] \in span[x] /\ xs[j] \in S /\ xs[j] < sep /\ xs[j] \in Int
               /\ d = 1 => xs[j] - 1 \in S
    <3>1. xs[j] \in Int
      BY <1>5, ElementOfSeq
    <3>2. xs[j] \in span[x] /\ (d = 1 => xs[j] - 1 \in span[x])
      BY <1>2, <1>4, <1>12, <1>14
    <3>3. xs[j] - 1 \in Int
      BY <3>1
    <3> QED BY <3>1, <3>2, <3>3, <1>16
  <2>2. ASSUME NEW j \in 1 .. Len(ys)
        PROVE  /\ ys[j] \in span[y] /\ ys[j] \in S /\ ys[j] >= sep /\ ys[j] \in Int
               /\ d = 1 => ys[j] - 1 \in S /\ ys[j] > sep
    <3>1. ys[j] \in Int
      BY <1>5, ElementOfSeq
    <3>2. ys[j] \in span[y] /\ (d = 1 => ys[j] - 1 \in span[y])
      BY <1>2, <1>4, <1>12, <1>14
    <3>3. ys[j] - 1 \in Int /\ (ys[j] - 1 >= sep => ys[j] > sep)
      BY <3>1, <1>16
    <3> QED BY <3>1, <3>2, <3>3, <1>16
  <2> QED BY <2>1, <2>2
<1>18. Apart(xs, ys, d, sep)
  BY <1>2, <1>12, <1>14, <1>16, <1>17 DEF Apart
<1>19. Rising(ks)
  BY <1>15, <1>18, JoinRises
<1>20. \A n \in W.ids : Convex(new[n]) /\ Rising(W.keys[n])
  BY <1>2, <1>4, <1>9, <1>12, <1>13, <1>14, <1>16, <1>19
<1>21. ASSUME NEW j \in 1 .. Len(W.kids[p]), NEW k \in Int
       PROVE  k \in new[W.kids[p][j]] <=> k \in new[p] /\ Covers(W.keys[p], j, k)
  <2>1. new[p] = span[p]
    BY <1>2, <1>13
  <2>2. CASE j < i
    <3>1. j \in 1 .. i - 1 /\ j \in 1 .. i /\ j \in 1 .. Len(T.kids[p]) /\ j # i /\ j # i + 1
      BY <2>2, <1>2, <1>3, <1>6
    <3>2. T.kids[p][j] = W.kids[p][j] /\ T.kids[p][j] \in T.ids
      BY <3>1, <1>2, <1>3, <1>6
    <3>3. T.kids[p][j] # x /\ T.kids[p][j] # y
      BY <3>1, <1>2, <1>5
    <3>4. new[W.kids[p][j]] = span[T.kids[p][j]]
      BY <3>2, <3>3, <1>2, <1>13
    <3>5. Covers(t, j, k) <=> Covers(K, j, k)
      BY <3>1, <1>11 DEF SameCovers
    <3> QED BY <2>1, <3>1, <3>4, <3>5, <1>2, <1>12, <1>14
  <2>3. CASE j = i
    <3>1. i \in 1 .. i
      BY <1>2, <1>6
    <3>2. W.kids[p][j] = x
      BY <2>3, <3>1, <1>3
    <3> QED BY <2>1, <2>3, <3>2, <1>10, <1>13, <1>14
  <2>4. CASE j > i
    <3> DEFINE c == j + 1
    <3>1. /\ c \in 1 .. Len(T.kids[p]) /\ c # i /\ c # i + 1 /\ c - 1 = j
          /\ c \in i + 2 .. Len(W.kids[p]) + 1
          /\ j \in i + 1 .. Len(K) + 1
      <4>1. Len(W.kids[p]) \in Nat /\ Len(T.kids[p]) = Len(W.kids[p]) + 1
        BY <1>2, <1>3, <1>6
      <4> QED BY <4>1, <2>4, <1>2, <1>5, <1>6
    <3>2. Covers(t, c, k) <=> Covers(K, j, k)
      BY <3>1, <1>11 DEF SameCovers
    <3> HIDE DEF c
    <3>3. T.kids[p][c] = W.kids[p][j] /\ T.kids[p][c] \in T.ids
      BY <3>1, <1>2, <1>3, <1>6
    <3>4. T.kids[p][c] # x /\ T.kids[p][c] # y
      BY <3>1, <1>2, <1>5
    <3>5. new[W.kids[p][j]] = span[T.kids[p][c]]
      BY <3>3, <3>4, <1>2, <1>13
    <3> QED BY <2>1, <3>1, <3>2, <3>5, <1>2, <1>12, <1>14
  <2>5. j < i \/ j = i \/ j > i
    BY <1>6
  <2> QED BY <2>2, <2>3, <2>4, <2>5
<1>22. ASSUME NEW j \in 1 .. Len(W.kids[x]), NEW k \in Int
       PROVE  k \in new[W.kids[x][j]] <=> k \in new[x] /\ Covers(W.keys[x], j, k)
  <2> DEFINE a == Len(T.kids[x])
             b == Len(T.kids[y])
  <2>1. /\ a \in Nat /\ b \in Nat /\ Len(W.kids[x]) = a + b
    BY <1>2, <1>3, <1>6
  <2>2. d = 1
    <3>1. d = 0 => a = 0 /\ b = 0
      BY <1>2, <1>4, <1>5
    <3> DEFINE c == Len(W.kids[x])
    <3>2. j \in 1 .. c /\ c = a + b
      BY <2>1
    <3> HIDE DEF a, b, c
    <3> QED BY <2>1, <3>1, <3>2, <1>4
  <2>3. a = Len(xs) + 1 /\ b = Len(ys) + 1
    BY <2>2, <1>2, <1>4, <1>5, <1>14
  <2>4. AreCut(ks, xs, ys, 1, sep)
    <3>1. AreParts(ks, xs, ys, 1, sep)
      BY <2>2, <1>15
    <3>2. /\ ks \in Seq(Int) /\ xs \in Seq(Int) /\ ys \in Seq(Int)
          /\ Len(ks) = Len(xs) + 1 + Len(ys)
          /\ \A m \in 1 .. Len(xs) : xs[m] = ks[m]
          /\ \A m \in 1 .. Len(ys) : ys[m] = ks[Len(xs) + 1 + m]
          /\ ks[Len(xs) + 1] = sep
      BY <3>1 DEF AreParts
    <3>3. 1 \in {0, 1} /\ 1 # 0
      OBVIOUS
    <3> QED BY <3>2, <3>3 DEF AreCut
  <2>5. /\ \A m \in 1 .. a : Covers(ks, m, k) <=> k < sep /\ Covers(xs, m, k)
        /\ \A m \in 1 .. b : Covers(ks, a + m, k) <=> k >= sep /\ Covers(ys, m, k)
    <3>1. /\ \A m \in 1 .. Len(xs) + 1 : Covers(ks, m, k) <=> k < sep /\ Covers(xs, m, k)
          /\ \A m \in 1 .. Len(ys) + 1 :
               Covers(ks, Len(xs) + 1 + m, k) <=> k >= sep /\ Covers(ys, m, k)
      BY <2>4, <1>19, CutCovers
    <3> QED BY <2>3, <3>1
  <2>6. \A c \in T.ids : c # x /\ c # y => new[c] = span[c]
    BY <1>2, <1>13
  <2>7. a = Len(T.kids[x]) /\ b = Len(T.kids[y])
    OBVIOUS
  <2> HIDE DEF a, b
  <2>8. CASE j <= a
    <3>1. j \in 1 .. a
      BY <2>1, <2>8
    <3>2. W.kids[x][j] = T.kids[x][j] /\ T.kids[x][j] \in T.ids
      BY <2>7, <3>1, <1>2, <1>3, <1>6
    <3>3. T.kids[x][j] # x /\ T.kids[x][j] # y
      BY <2>7, <3>1, <1>2, <1>5
    <3>4. k \in span[T.kids[x][j]] <=> k \in span[x] /\ Covers(xs, j, k)
      BY <2>7, <3>1, <1>2, <1>12, <1>14
    <3> QED BY <2>5, <2>6, <3>1, <3>2, <3>3, <3>4, <1>13, <1>14, <1>16
  <2>9. CASE j > a
    <3> DEFINE m == j - a
    <3>1. m \in 1 .. b /\ a + m = j
      BY <2>1, <2>9
    <3> HIDE DEF m
    <3>2. W.kids[x][j] = T.kids[y][m] /\ T.kids[y][m] \in T.ids
      BY <2>7, <3>1, <1>2, <1>3, <1>6
    <3>3. T.kids[y][m] # x /\ T.kids[y][m] # y
      BY <2>7, <3>1, <1>2, <1>5
    <3>4. k \in span[T.kids[y][m]] <=> k \in span[y] /\ Covers(ys, m, k)
      BY <2>7, <3>1, <1>2, <1>12, <1>14
    <3> QED BY <2>5, <2>6, <3>1, <3>2, <3>3, <3>4, <1>13, <1>14, <1>16
  <2> QED BY <2>1, <2>8, <2>9
<1>23. ASSUME NEW n \in W.ids \ {p, x}, NEW j \in 1 .. Len(W.kids[n]), NEW k \in Int
       PROVE  k \in new[W.kids[n][j]] <=> k \in new[n] /\ Covers(W.keys[n], j, k)
  <2>1. j \in 1 .. Len(T.kids[n]) /\ T.kids[n][j] = W.kids[n][j] /\ T.keys[n] = W.keys[n]
    BY <1>3, <1>4
  <2>2. T.kids[n][j] # x /\ T.kids[n][j] # y
    BY <2>1, <1>2, <1>5
  <2>3. T.kids[n][j] \in T.ids
    BY <2>1, <1>2, <1>6
  <2> QED BY <2>1, <2>2, <2>3, <1>2, <1>12, <1>13
<1>24. ASSUME NEW j \in 1 .. Len(W.keys[p])
       PROVE  W.keys[p][j] \in new[p] /\ W.keys[p][j] - 1 \in new[p]
  <2>1. /\ Len(t) = Len(K) + 1
        /\ \A m \in 1 .. i - 1 : t[m] = K[m]
        /\ \A m \in i .. Len(K) : t[m + 1] = K[m]
    BY <1>5, <1>7, <1>8, PutInPlaces
  <2>2. \A m \in 1 .. Len(t) : t[m] \in span[p] /\ t[m] - 1 \in span[p]
    BY <1>2, <1>12, <1>14
  <2>3. \E m \in 1 .. Len(t) : t[m] = K[j]
    <3>1. j \in 1 .. i - 1 \/ j \in i .. Len(K)
      BY <1>6, <1>14
    <3>2. CASE j \in 1 .. i - 1
      <4>1. j \in 1 .. Len(t)
        BY <2>1, <3>2, <1>6, <1>8
      <4> QED BY <2>1, <3>2, <4>1
    <3>3. CASE j \in i .. Len(K)
      <4>1. j + 1 \in 1 .. Len(t)
        BY <2>1, <3>3, <1>6, <1>8
      <4> QED BY <2>1, <3>3, <4>1
    <3> QED BY <3>1, <3>2, <3>3
  <2> QED BY <2>2, <2>3, <1>2, <1>13, <1>14
<1>25. ASSUME NEW j \in 1 .. Len(W.keys[x])
       PROVE  W.keys[x][j] \in new[x] /\ (x \notin W.leaves => W.keys[x][j] - 1 \in new[x])
  <2>1. /\ Len(ks) = Len(xs) + d + Len(ys) /\ d \in {0, 1}
        /\ \A m \in 1 .. Len(xs) : xs[m] = ks[m]
        /\ \A m \in 1 .. Len(ys) : ys[m] = ks[Len(xs) + d + m]
        /\ d = 1 => ks[Len(xs) + 1] = sep
    BY <1>15 DEF AreParts
  <2>2. x \notin W.leaves => d = 1
    BY <1>4
  <2> DEFINE a == Len(xs)
             b == Len(ys)
             m == j - (a + d)
  <2>3. j \in 1 .. a \/ (m \in 1 .. b /\ a + d + m = j) \/ (d = 1 /\ j = a + 1)
    <3>1. a \in Nat /\ b \in Nat /\ j \in Int /\ 1 <= j /\ j <= a + d + b /\ (d = 0 \/ d = 1)
      <4> DEFINE c == Len(ks)
      <4>1. a \in Nat /\ b \in Nat /\ c \in Nat /\ c = a + d + b /\ j \in 1 .. c
        BY <2>1, <1>5, <1>6, <1>14, LenProperties
      <4> HIDE DEF a, b, c
      <4> QED BY <2>1, <4>1
    <3> HIDE DEF a, b
    <3> QED BY <3>1
  <2>4. CASE j \in 1 .. a
    BY <2>1, <2>2, <2>4, <1>13, <1>14, <1>17
  <2>5. CASE m \in 1 .. b /\ a + d + m = j
    <3> HIDE DEF m
    <3>1. ks[j] = ys[m]
      BY <2>1, <2>5
    <3> QED BY <2>2, <2>5, <3>1, <1>13, <1>14, <1>17
  <2>6. CASE d = 1 /\ j = a + 1
    <3>1. sep \in S /\ sep - 1 \in S
      BY <1>10 DEF Cuts
    <3> QED BY <2>1, <2>6, <3>1, <1>13, <1>14
  <2> QED BY <2>3, <2>4, <2>5, <2>6
<1>26. \A n \in W.ids : \A j \in 1 .. Len(W.keys[n]) :
         W.keys[n][j] \in new[n] /\ (n \notin W.leaves => W.keys[n][j] - 1 \in new[n])
  <2>1. ASSUME NEW n \in W.ids \ {p, x}, NEW j \in 1 .. Len(W.keys[n])
        PROVE  W.keys[n][j] \in new[n] /\ (n \notin W.leaves => W.keys[n][j] - 1 \in new[n])
    BY <1>2, <1>4, <1>12, <1>13
  <2> QED BY <2>1, <1>2, <1>24, <1>25
<1>27. \A n \in W.ids : \A j \in 1 .. Len(W.kids[n]) : \A k \in Int :
         k \in new[W.kids[n][j]] <=> k \in new[n] /\ Covers(W.keys[n], j, k)
  BY <1>2, <1>21, <1>22, <1>23
<1>28. new[W.root] = Int
  BY <1>2, <1>5, <1>12, <1>13
<1>29. Spans(W, new)
  BY <1>13, <1>20, <1>26, <1>27, <1>28 DEF Spans
<1> QED BY <1>29 DEF new

\* Two leaves of T that are put together in W.
LEMMA MergeLinking ==
  ASSUME NEW W, NEW T, NEW p, NEW i, NEW x, NEW y, NEW d, JoinInto(W, T, p, i, x, y, d),
         NEW span, Spans(T, span), Linking(T, span)
  PROVE  /\ Linking(W, SpanJoin(W, span, x, y))
         /\ d = 0 => T.next[x] = y
<1> DEFINE sep == T.keys[p][i]
           new == SpanJoin(W, span, x, y)
           S == span[x] \cup span[y]
<1>1. /\ IdsParted(W, T, p, i, x, y) /\ KeysParted(W, T, p, i, x, y, d)
  BY PartedIds, PartedKeys DEF JoinInto
<1>2. /\ p \in W.ids /\ p \notin W.leaves /\ x \in W.ids /\ x # p
      /\ y \notin W.ids /\ y # p /\ y # x /\ T.ids = W.ids \cup {y}
      /\ \A n \in W.ids : n \in T.leaves <=> n \in W.leaves
      /\ y \in T.leaves <=> x \in W.leaves
      /\ \A n \in W.ids \ {p, x} : T.next[n] = W.next[n]
      /\ x \in W.leaves => T.next[y] = W.next[x]
      /\ W.leaves \subseteq W.ids /\ T.leaves \subseteq T.ids
  BY <1>1 DEF IdsParted, JoinInto, Plain
<1>3. d = 0 <=> x \in W.leaves
  BY <1>1 DEF KeysParted
<1>4. Cuts(S, span[x], span[y], sep)
  BY JoinAt DEF Meets
<1>5. \A n \in W.ids \ {x} : new[n] = span[n]
  BY <1>2 DEF SpanJoin
<1>6. new[x] = S
  BY <1>2 DEF SpanJoin
<1>7. /\ \A m, n \in T.leaves : \A k \in span[m] : k \in span[n] => m = n
      /\ \A n \in T.leaves : \A k \in span[n] :
           k + 1 \notin span[n] => T.next[n] \in T.leaves /\ k + 1 \in span[T.next[n]]
      /\ \A n \in T.leaves : (\A k \in span[n] : k + 1 \in span[n]) => T.next[n] = NullPage
      /\ \A n \in T.ids : span[n] \subseteq Int
  BY DEF Linking, Spans
<1>8. S = span[x] \cup span[y]
  OBVIOUS
<1> HIDE DEF sep, new, S
<1>9. /\ \A k \in S : k \in span[x] \/ k \in span[y]
      /\ \A k \in Int : ~(k \in span[x] /\ k \in span[y])
      /\ \A k \in span[x] : k \in S /\ (k + 1 \notin span[x] => k + 1 = sep)
      /\ \A k \in span[y] : k \in S /\ (k + 1 \notin span[y] => k + 1 \notin S)
      /\ \A k \in Int : k \notin S /\ k + 1 \in S => k + 1 \in span[x]
      /\ sep - 1 \in span[x] /\ sep \notin span[x] /\ sep \in span[y] /\ sep \in Int
      /\ (\A k \in span[y] : k + 1 \in span[y]) => \A k \in S : k + 1 \in S
      /\ S \subseteq Int
  <2>1. sep \in Int /\ S \subseteq Int
    BY <1>4 DEF Cuts
  <2> QED BY <2>1, <1>4, CutEnds
<1>10. \A k \in S : (k + 1 \in S) \/ (k \in span[y] /\ k + 1 \notin span[y])
  <2> TAKE k \in S
  <2>1. CASE k \in span[x]
    BY <2>1, <1>8, <1>9
  <2>2. CASE k \in span[y]
    BY <2>2, <1>8
  <2> QED BY <2>1, <2>2, <1>9
\* Every key of a leaf of W comes from one of T.
<1>11. \A n \in W.leaves : \A k \in new[n] :
          \E m \in T.leaves : k \in span[m] /\ n = IF m = y THEN x ELSE m
  <2> TAKE n \in W.leaves
  <2>1. CASE n = x
    <3>1. x \in T.leaves /\ y \in T.leaves
      BY <2>1, <1>2
    <3> QED BY <2>1, <3>1, <1>2, <1>6, <1>9
  <2>2. CASE n # x
    <3>1. n \in T.leaves /\ n # y /\ new[n] = span[n]
      BY <2>2, <1>2, <1>5
    <3> QED BY <3>1
  <2> QED BY <2>1, <2>2
<1>12. ASSUME NEW m \in W.leaves, NEW n \in W.leaves, NEW k \in new[m], k \in new[n]
       PROVE  m = n
  <2>1. PICK a \in T.leaves : k \in span[a] /\ m = IF a = y THEN x ELSE a
    BY <1>11
  <2>2. PICK b \in T.leaves : k \in span[b] /\ n = IF b = y THEN x ELSE b
    BY <1>11, <1>12
  <2>3. a = b
    BY <2>1, <2>2, <1>7
  <2> QED BY <2>1, <2>2, <2>3
\* Where a key of a leaf of T is the least above one of another leaf.
<1>13. ASSUME NEW n \in W.leaves, NEW a \in T.leaves, NEW k \in span[a], k + 1 \notin span[a],
              a = x => k + 1 # sep, n = (IF a = y THEN x ELSE a)
       PROVE  T.next[a] \in W.leaves /\ k + 1 \in new[T.next[a]] /\ T.next[a] = W.next[n]
  <2>1. T.next[a] \in T.leaves /\ k + 1 \in span[T.next[a]] /\ k \in Int
    BY <1>2, <1>7, <1>13
  <2>2. a # x
    BY <1>9, <1>13
  <2>3. T.next[a] = W.next[n]
    BY <2>2, <1>2, <1>13
  <2>4. CASE T.next[a] = y
    <3>1. k + 1 \in S
      BY <2>1, <2>4, <1>8
    <3>2. k \in S
      <4>1. CASE k \notin S
        <5>1. k + 1 \in span[x] /\ k + 1 \in span[y]
          BY <2>1, <2>4, <3>1, <4>1, <1>9
        <5> QED BY <5>1, <2>1, <1>9
      <4> QED BY <4>1
    <3>3. k \in span[x] \/ k \in span[y]
      BY <3>2, <1>9
    <3>4. x \in T.leaves /\ y \in T.leaves
      BY <2>1, <2>4, <1>2
    <3>5. a = y
      BY <2>2, <3>3, <3>4, <1>7
    <3> QED BY <2>1, <2>4, <3>5, <1>13
  <2>5. CASE T.next[a] = x
    <3>1. x \in W.leaves
      BY <2>1, <2>5, <1>2
    <3> QED BY <2>1, <2>3, <2>5, <3>1, <1>6, <1>8
  <2>6. CASE T.next[a] # x /\ T.next[a] # y
    <3>1. T.next[a] \in W.leaves /\ T.next[a] \in W.ids \ {x}
      BY <2>1, <2>6, <1>2
    <3> QED BY <2>1, <2>3, <3>1, <1>5
  <2> QED BY <2>4, <2>5, <2>6
<1>14. ASSUME NEW n \in W.leaves, NEW k \in new[n], k + 1 \notin new[n]
       PROVE  W.next[n] \in W.leaves /\ k + 1 \in new[W.next[n]]
  <2>1. CASE n = x
    <3>1. y \in T.leaves /\ k \in span[y] /\ k + 1 \notin span[y]
      BY <2>1, <1>2, <1>6, <1>10, <1>14
    <3>2. /\ T.next[y] \in W.leaves /\ k + 1 \in new[T.next[y]] /\ T.next[y] = W.next[n]
      BY <2>1, <3>1, <1>2, <1>13
    <3> QED BY <3>2
  <2>2. CASE n # x
    <3>1. n \in T.leaves /\ n # y /\ new[n] = span[n]
      BY <2>2, <1>2, <1>5
    <3>2. T.next[n] \in W.leaves /\ k + 1 \in new[T.next[n]] /\ T.next[n] = W.next[n]
      BY <2>2, <3>1, <1>13, <1>14
    <3> QED BY <3>2
  <2> QED BY <2>1, <2>2
<1>15. ASSUME NEW n \in W.leaves, \A k \in new[n] : k + 1 \in new[n]
       PROVE  W.next[n] = NullPage
  <2>1. CASE n = x
    <3>1. y \in T.leaves /\ W.next[n] = T.next[y]
      BY <2>1, <1>2
    <3>2. \A k \in span[y] : k + 1 \in span[y]
      <4> TAKE k \in span[y]
      <4>1. k \in S
        BY <1>8
      <4>2. k + 1 \in S
        BY <2>1, <4>1, <1>6, <1>15
      <4> QED BY <4>2, <1>9
    <3> QED BY <3>1, <3>2, <1>7
  <2>2. CASE n # x
    <3>1. n \in T.leaves /\ new[n] = span[n] /\ T.next[n] = W.next[n]
      BY <2>2, <1>2, <1>5
    <3> QED BY <3>1, <1>7, <1>15
  <2> QED BY <2>1, <2>2
<1>16. Linking(W, new)
  BY <1>12, <1>14, <1>15 DEF Linking
<1>17. d = 0 => T.next[x] = y
  <2>1. SUFFICES ASSUME d = 0
                 PROVE  T.next[x] = y
    OBVIOUS
  <2>2. x \in T.leaves /\ y \in T.leaves
    BY <2>1, <1>2, <1>3
  <2>3. sep - 1 \in span[x] /\ sep - 1 + 1 = sep
    BY <1>9
  <2>4. T.next[x] \in T.leaves /\ sep \in span[T.next[x]]
    <3>1. \A k \in span[x] :
            k + 1 \notin span[x] => T.next[x] \in T.leaves /\ k + 1 \in span[T.next[x]]
      BY <2>2, <1>7
    <3>2. sep - 1 + 1 \notin span[x]
      BY <2>3, <1>9
    <3>3. T.next[x] \in T.leaves /\ sep - 1 + 1 \in span[T.next[x]]
      BY <2>3, <3>1, <3>2
    <3> QED BY <3>3, <2>3
  <2> QED BY <2>2, <2>4, <1>7, <1>9
<1> QED BY <1>16, <1>17 DEF new

\* Cutting a node, or putting two together, keeps a tree in order.
LEMMA SplitOrdered ==
  ASSUME NEW W, NEW T, NEW p, NEW i, NEW x, NEW y, NEW d, CutInto(W, T, p, i, x, y, d),
         CutsLeaf(T, p, i, x, y, d), d = 0 => T.next[x] = y, Ordered(W)
  PROVE  Ordered(T)
<1>1. PICK span : Spans(W, span) /\ Linking(W, span)
  BY DEF Ordered
<1>2. Plain(T)
  BY DEF CutInto
<1>3. Spans(T, SpanCut(T, span, x, y, T.keys[p][i]))
  BY <1>1, SplitSpans
<1>4. Linking(T, SpanCut(T, span, x, y, T.keys[p][i]))
  BY <1>1, SplitLinking
<1> QED BY <1>2, <1>3, <1>4 DEF Ordered

\* Putting two neighbours together keeps a tree ordered, and two leaves that
\* are neighbours are linked.
LEMMA JoinOrdered ==
  ASSUME NEW W, NEW T, NEW p, NEW i, NEW x, NEW y, NEW d, JoinInto(W, T, p, i, x, y, d),
         Ordered(T)
  PROVE  Ordered(W) /\ (d = 0 => T.next[x] = y)
<1>1. PICK span : Spans(T, span) /\ Linking(T, span)
  BY DEF Ordered
<1>2. Plain(W)
  BY DEF JoinInto
<1>3. Spans(W, SpanJoin(W, span, x, y))
  BY <1>1, MergeSpans
<1>4. Linking(W, SpanJoin(W, span, x, y)) /\ (d = 0 => T.next[x] = y)
  BY <1>1, MergeLinking
<1> QED BY <1>2, <1>3, <1>4 DEF Ordered

\* The leaves of the two trees hold the same keys with the same values.
SameHeld(W, T) == \A k, v : Holds(W, k, v) <=> Holds(T, k, v)

\* One leaf n of a tree holds k with the value v.
HoldsAt(T, n, k, v) == \E j \in 1 .. Len(T.keys[n]) : T.keys[n][j] = k /\ T.vals[n][j] = v

\* What a leaf holds is what its two parts hold.
LEMMA PartsHold ==
  ASSUME NEW W, NEW T, NEW p, NEW i, NEW x, NEW y, Plain(W), Plain(T), Parted(W, T, p, i, x, y, 0),
         x \in W.leaves, NEW k, NEW v
  PROVE  HoldsAt(W, x, k, v) <=> HoldsAt(T, x, k, v) \/ HoldsAt(T, y, k, v)
<1> DEFINE a == Len(T.keys[x])
           b == Len(T.keys[y])
           n == Len(W.keys[x])
<1>1. /\ KeysParted(W, T, p, i, x, y, 0) /\ IdsParted(W, T, p, i, x, y)
  BY PartedKeys, PartedIds
<1>2. /\ a \in Nat /\ b \in Nat
  <2>1. x \in T.ids /\ y \in T.ids
    BY <1>1 DEF IdsParted
  <2> QED BY <2>1, PlainFacts
<1>3. /\ n = a + 0 + b
      /\ \A j \in 1 .. a : T.keys[x][j] = W.keys[x][j]
      /\ \A j \in 1 .. b : T.keys[y][j] = W.keys[x][a + 0 + j]
  BY <1>1 DEF KeysParted
<1>4. /\ \A j \in 1 .. a : T.vals[x][j] = W.vals[x][0 + j]
      /\ \A j \in 1 .. b : T.vals[y][j] = W.vals[x][a + j]
  <2>1. Len(T.vals[x]) = a /\ Len(T.vals[y]) = b
    BY <1>1 DEF IdsParted, Plain
  <2>2. Part(W.vals[x], T.vals[x], 0) /\ Part(W.vals[x], T.vals[y], a)
    BY DEF Parted
  <2> QED BY <2>1, <2>2 DEF Part
<1>5. a = Len(T.keys[x]) /\ b = Len(T.keys[y]) /\ n = Len(W.keys[x])
  OBVIOUS
<1> HIDE DEF a, b, n
<1>6. /\ n = a + b
      /\ \A j \in 1 .. a : 0 + j = j /\ j \in 1 .. n
      /\ \A j \in 1 .. b : a + 0 + j = a + j /\ a + j \in 1 .. n
  BY <1>2, <1>3
<1>7. ASSUME HoldsAt(W, x, k, v)
      PROVE  HoldsAt(T, x, k, v) \/ HoldsAt(T, y, k, v)
  <2>1. PICK j \in 1 .. n : W.keys[x][j] = k /\ W.vals[x][j] = v
    BY <1>5, <1>7 DEF HoldsAt
  <2>2. CASE j <= a
    <3>1. j \in 1 .. a
      BY <2>2, <1>2, <1>6
    <3> QED BY <2>1, <3>1, <1>3, <1>4, <1>5, <1>6 DEF HoldsAt
  <2>3. CASE j > a
    <3> DEFINE m == j - a
    <3>1. m \in 1 .. b /\ a + m = j
      BY <2>3, <1>2, <1>6
    <3> HIDE DEF m
    <3>2. T.keys[y][m] = k /\ T.vals[y][m] = v
      BY <2>1, <3>1, <1>3, <1>4, <1>6
    <3> QED BY <3>1, <3>2, <1>5 DEF HoldsAt
  <2> QED BY <2>2, <2>3, <1>2, <1>6
<1>8. ASSUME HoldsAt(T, x, k, v)
      PROVE  HoldsAt(W, x, k, v)
  <2>1. PICK j \in 1 .. a : T.keys[x][j] = k /\ T.vals[x][j] = v
    BY <1>5, <1>8 DEF HoldsAt
  <2> QED BY <2>1, <1>3, <1>4, <1>5, <1>6 DEF HoldsAt
<1>9. ASSUME HoldsAt(T, y, k, v)
      PROVE  HoldsAt(W, x, k, v)
  <2>1. PICK j \in 1 .. b : T.keys[y][j] = k /\ T.vals[y][j] = v
    BY <1>5, <1>9 DEF HoldsAt
  <2>2. W.keys[x][a + j] = k /\ W.vals[x][a + j] = v /\ a + j \in 1 .. n
    BY <2>1, <1>3, <1>4, <1>6
  <2> QED BY <2>2, <1>5 DEF HoldsAt
<1> QED BY <1>7, <1>8, <1>9

\* Cutting a node, or putting two together, keeps what the tree holds.
LEMMA PartedHolds ==
  ASSUME NEW W, NEW T, NEW p, NEW i, NEW x, NEW y, NEW d, Plain(W), Plain(T),
         Parted(W, T, p, i, x, y, d)
  PROVE  SameHeld(W, T)
<1> SUFFICES ASSUME NEW k, NEW v
             PROVE  Holds(W, k, v) <=> Holds(T, k, v)
  BY DEF SameHeld
<1>1. \A U : Holds(U, k, v) <=> \E n \in U.leaves : HoldsAt(U, n, k, v)
  BY DEF Holds, HoldsAt
<1>2. /\ p \notin W.leaves /\ d = (IF x \in W.leaves THEN 0 ELSE 1)
      /\ T.leaves = (IF x \in W.leaves THEN W.leaves \cup {y} ELSE W.leaves)
      /\ \A n \in W.ids \ {p, x} : T.keys[n] = W.keys[n] /\ T.vals[n] = W.vals[n]
      /\ W.leaves \subseteq W.ids
  BY DEF Parted, Same, Plain
<1>3. \A n \in W.leaves \ {x} : HoldsAt(W, n, k, v) <=> HoldsAt(T, n, k, v)
  BY <1>2 DEF HoldsAt
<1>4. CASE x \in W.leaves
  <2>1. HoldsAt(W, x, k, v) <=> HoldsAt(T, x, k, v) \/ HoldsAt(T, y, k, v)
    BY <1>2, <1>4, PartsHold
  <2>2. T.leaves = (W.leaves \ {x}) \cup {x, y} /\ W.leaves = (W.leaves \ {x}) \cup {x}
    BY <1>2, <1>4
  <2> QED BY <2>1, <2>2, <1>1, <1>3
<1>5. CASE x \notin W.leaves
  <2>1. T.leaves = W.leaves /\ W.leaves = W.leaves \ {x}
    BY <1>2, <1>5
  <2> QED BY <2>1, <1>1, <1>3
<1> QED BY <1>4, <1>5

\* T is V under a new root t without keys.
Topped(V, T, t) ==
  /\ t \notin V.ids /\ T.ids = V.ids \cup {t} /\ T.root = t /\ T.leaves = V.leaves
  /\ \A n \in V.ids : Same(V, T, n)
  /\ Len(T.keys[t]) = 0 /\ Len(T.kids[t]) = 1 /\ T.kids[t][1] = V.root

\* A tree under a root without keys is as ordered, and holds the same.
LEMMA TopOrdered ==
  ASSUME NEW V, NEW T, NEW t, Plain(V), Plain(T), Topped(V, T, t)
  PROVE  (Ordered(V) <=> Ordered(T)) /\ SameHeld(V, T)
<1>1. /\ t \notin V.ids /\ T.ids = V.ids \cup {t} /\ T.root = t /\ T.leaves = V.leaves
      /\ V.leaves \subseteq V.ids /\ V.root \in V.ids
      /\ \A n \in V.ids : /\ T.keys[n] = V.keys[n] /\ T.vals[n] = V.vals[n]
                          /\ T.kids[n] = V.kids[n] /\ T.next[n] = V.next[n]
      /\ Len(T.keys[t]) = 0 /\ Len(T.kids[t]) = 1 /\ T.kids[t][1] = V.root
  BY DEF Topped, Same, Plain
<1>2. \A n \in V.ids : \A j \in 1 .. Len(V.kids[n]) : V.kids[n][j] \in V.ids
  BY PlainFacts
<1>3. /\ \A j \in 1 .. Len(T.kids[t]) : j = 1 /\ T.kids[t][j] = V.root
      /\ \A k \in Int : Covers(T.keys[t], 1, k)
      /\ \A j \in 1 .. Len(T.keys[t]) : FALSE
  BY <1>1 DEF Covers
<1>4. SameHeld(V, T)
  BY <1>1 DEF SameHeld, Holds
<1>5. ASSUME Ordered(V)
      PROVE  Ordered(T)
  <2>1. PICK span : Spans(V, span) /\ Linking(V, span)
    BY <1>5 DEF Ordered
  <2> DEFINE new == [n \in T.ids |-> IF n = t THEN Int ELSE span[n]]
  <2>2. /\ new \in [T.ids -> SUBSET Int] /\ new[t] = Int /\ \A n \in V.ids : new[n] = span[n]
        /\ span[V.root] = Int
    BY <2>1, <1>1 DEF Spans
  <2> HIDE DEF new
  <2>3. Convex(Int) /\ Rising(T.keys[t])
    BY <1>3 DEF Convex, Rising
  <2>4. /\ \A n \in T.ids : Convex(new[n]) /\ Rising(T.keys[n])
        /\ \A n \in T.ids : \A j \in 1 .. Len(T.keys[n]) :
             /\ T.keys[n][j] \in new[n]
             /\ n \notin T.leaves => T.keys[n][j] - 1 \in new[n]
    BY <2>1, <2>2, <2>3, <1>1, <1>3 DEF Spans
  <2>5. \A n \in T.ids : \A j \in 1 .. Len(T.kids[n]) : \A k \in Int :
          k \in new[T.kids[n][j]] <=> k \in new[n] /\ Covers(T.keys[n], j, k)
    <3>1. \A j \in 1 .. Len(T.kids[t]) : \A k \in Int :
            k \in new[T.kids[t][j]] <=> k \in new[t] /\ Covers(T.keys[t], j, k)
      BY <2>2, <1>1, <1>3
    <3>2. \A n \in V.ids : \A j \in 1 .. Len(T.kids[n]) : \A k \in Int :
            k \in new[T.kids[n][j]] <=> k \in new[n] /\ Covers(T.keys[n], j, k)
      <4> TAKE n \in V.ids
      <4>1. T.kids[n] = V.kids[n] /\ T.keys[n] = V.keys[n] /\ new[n] = span[n]
        BY <2>2, <1>1
      <4>2. \A j \in 1 .. Len(V.kids[n]) : new[V.kids[n][j]] = span[V.kids[n][j]]
        BY <2>2, <1>2
      <4>3. \A j \in 1 .. Len(V.kids[n]) : \A k \in Int :
              k \in span[V.kids[n][j]] <=> k \in span[n] /\ Covers(V.keys[n], j, k)
        BY <2>1 DEF Spans
      <4> QED BY <4>1, <4>2, <4>3
    <3> QED BY <3>1, <3>2, <1>1
  <2>6. Linking(T, new)
    <3>1. \A n \in T.leaves : n \in V.leaves /\ new[n] = span[n] /\ T.next[n] = V.next[n]
      BY <2>2, <1>1
    <3> QED BY <2>1, <3>1, <1>1 DEF Linking
  <2>7. Spans(T, new)
    BY <2>2, <2>4, <2>5, <1>1 DEF Spans
  <2> QED BY <2>6, <2>7 DEF Ordered
<1>6. ASSUME Ordered(T)
      PROVE  Ordered(V)
  <2>1. PICK span : Spans(T, span) /\ Linking(T, span)
    BY <1>6 DEF Ordered
  <2> DEFINE new == [n \in V.ids |-> span[n]]
  <2>2. /\ new \in [V.ids -> SUBSET Int] /\ span[t] = Int /\ \A n \in V.ids : new[n] = span[n]
        /\ span[V.root] \subseteq Int
    BY <2>1, <1>1 DEF Spans
  <2> HIDE DEF new
  <2>3. new[V.root] = Int
    <3>1. t \in T.ids /\ 1 \in 1 .. Len(T.kids[t])
      BY <1>1
    <3>2. \A k \in Int : k \in span[V.root]
      BY <2>1, <2>2, <3>1, <1>1, <1>3 DEF Spans
    <3> QED BY <2>2, <3>2, <1>1
  <2>4. /\ \A n \in V.ids : Convex(new[n]) /\ Rising(V.keys[n])
        /\ \A n \in V.ids : \A j \in 1 .. Len(V.keys[n]) :
             /\ V.keys[n][j] \in new[n]
             /\ n \notin V.leaves => V.keys[n][j] - 1 \in new[n]
    BY <2>1, <2>2, <1>1 DEF Spans
  <2>5. \A n \in V.ids : \A j \in 1 .. Len(V.kids[n]) : \A k \in Int :
          k \in new[V.kids[n][j]] <=> k \in new[n] /\ Covers(V.keys[n], j, k)
    <3> TAKE n \in V.ids
    <3>1. T.kids[n] = V.kids[n] /\ T.keys[n] = V.keys[n] /\ new[n] = span[n] /\ n \in T.ids
      BY <2>2, <1>1
    <3>2. \A j \in 1 .. Len(V.kids[n]) : new[V.kids[n][j]] = span[V.kids[n][j]]
      BY <2>2, <1>2
    <3>3. \A j \in 1 .. Len(T.kids[n]) : \A k \in Int :
            k \in span[T.kids[n][j]] <=> k \in span[n] /\ Covers(T.keys[n], j, k)
      BY <2>1, <3>1 DEF Spans
    <3> QED BY <3>1, <3>2, <3>3
  <2>6. Linking(V, new)
    <3>1. \A n \in V.leaves : n \in T.leaves /\ new[n] = span[n] /\ T.next[n] = V.next[n]
      BY <2>2, <1>1
    <3> QED BY <2>1, <3>1, <1>1 DEF Linking
  <2>7. Spans(V, new)
    BY <2>2, <2>3, <2>4, <2>5, <1>1 DEF Spans
  <2> QED BY <2>6, <2>7 DEF Ordered
<1> QED BY <1>4, <1>5, <1>6

\* T is V with other keys and values in the leaf n.
Refilled(V, T, n) ==
  /\ n \in V.leaves /\ T.ids = V.ids /\ T.root = V.root /\ T.leaves = V.leaves
  /\ \A m \in V.ids : T.kids[m] = V.kids[m] /\ T.next[m] = V.next[m]
  /\ \A m \in V.ids \ {n} : T.keys[m] = V.keys[m] /\ T.vals[m] = V.vals[m]

\* The keys of n lie where a lookup comes to n with them.
InReach(V, T, n) ==
  \A span : Spans(V, span) => \A j \in 1 .. Len(T.keys[n]) : T.keys[n][j] \in span[n]

\* A leaf that gets other keys of its span, in order, leaves the tree ordered.
LEMMA LeafOrdered ==
  ASSUME NEW V, NEW T, NEW n, Ordered(V), Plain(T), Refilled(V, T, n), Rising(T.keys[n]),
         InReach(V, T, n)
  PROVE  Ordered(T)
<1>1. PICK span : Spans(V, span) /\ Linking(V, span)
  BY DEF Ordered
<1>2. /\ n \in V.leaves /\ n \in V.ids
      /\ T.ids = V.ids /\ T.root = V.root /\ T.leaves = V.leaves
      /\ \A m \in V.ids : T.kids[m] = V.kids[m] /\ T.next[m] = V.next[m]
      /\ \A m \in V.ids \ {n} : T.keys[m] = V.keys[m]
      /\ Len(V.kids[n]) = 0 /\ V.leaves \subseteq V.ids
  BY DEF Refilled, Ordered, Plain
<1>3. \A j \in 1 .. Len(T.kids[n]) : FALSE
  BY <1>2
<1>4. \A m \in T.ids : \A j \in 1 .. Len(T.kids[m]) : \A k \in Int :
        k \in span[T.kids[m][j]] <=> k \in span[m] /\ Covers(T.keys[m], j, k)
  <2> TAKE m \in T.ids
  <2>1. CASE m = n
    BY <2>1, <1>3
  <2>2. CASE m # n
    BY <2>2, <1>1, <1>2 DEF Spans
  <2> QED BY <2>1, <2>2
<1>5. \A m \in T.ids : \A j \in 1 .. Len(T.keys[m]) :
         /\ T.keys[m][j] \in span[m]
         /\ m \notin T.leaves => T.keys[m][j] - 1 \in span[m]
  <2> TAKE m \in T.ids
  <2>1. CASE m = n
    BY <2>1, <1>1, <1>2 DEF InReach
  <2>2. CASE m # n
    BY <2>2, <1>1, <1>2 DEF Spans
  <2> QED BY <2>1, <2>2
<1>6. Spans(T, span)
  <2>1. \A m \in T.ids : Convex(span[m]) /\ Rising(T.keys[m])
    BY <1>1, <1>2 DEF Spans
  <2> QED BY <2>1, <1>1, <1>2, <1>4, <1>5 DEF Spans
<1>7. Linking(T, span)
  BY <1>1, <1>2 DEF Linking
<1> QED BY <1>6, <1>7 DEF Ordered

-----------------------------------------------------------------------------
(* Sequences in parts *)

\* s is a and b, with e between them if d = 1.
InParts(s, a, b, d, e) ==
  /\ Len(s) = Len(a) + d + Len(b)
  /\ Part(s, a, 0) /\ Part(s, b, Len(a) + d)
  /\ d = 1 => s[Len(a) + 1] = e

\* Of a concatenation, with and without a separator between:
LEMMA CatParts ==
  ASSUME NEW S, NEW a \in Seq(S), NEW b \in Seq(S), NEW e
  PROVE  InParts(a \o b, a, b, 0, e)
<1> DEFINE la == Len(a)
           lb == Len(b)
           s == a \o b
<1>1. /\ la \in Nat /\ lb \in Nat /\ Len(s) = la + lb
      /\ \A j \in 1 .. la + lb : s[j] = IF j <= la THEN a[j] ELSE b[j - la]
  BY ConcatProperties, LenProperties
<1> HIDE DEF s
<1>2. Len(s) = la + 0 + lb
  BY <1>1
<1>3. Part(s, a, 0)
  <2>1. \A j \in 1 .. la : 0 + j = j /\ j \in 1 .. la + lb /\ j <= la
    BY <1>1
  <2> QED BY <2>1, <1>1 DEF Part
<1>4. Part(s, b, la + 0)
  <2>1. \A j \in 1 .. lb : la + 0 + j \in 1 .. la + lb /\ ~(la + 0 + j <= la) /\ la + 0 + j - la = j
    BY <1>1
  <2> QED BY <2>1, <1>1 DEF Part
<1> QED BY <1>2, <1>3, <1>4 DEF InParts, s

\* The two parts and what is between them, told by position.
Shared(s, a, e, b) ==
  /\ Len(s) = Len(a) + 1 + Len(b)
  /\ \A j \in 1 .. Len(a) : s[j] = a[j]
  /\ s[Len(a) + 1] = e
  /\ \A j \in 1 .. Len(b) : s[Len(a) + 1 + j] = b[j]

\* the same by position;
LEMMA CatShared ==
  ASSUME NEW S, NEW a \in Seq(S), NEW b \in Seq(S), NEW e \in S
  PROVE  Shared(a \o <<e>> \o b, a, e, b)
<1> DEFINE la == Len(a)
           lb == Len(b)
           c == a \o <<e>>
           s == c \o b
<1>1. <<e>> \in Seq(S) /\ Len(<<e>>) = 1 /\ <<e>>[1] = e
  OBVIOUS
<1>2. /\ la \in Nat /\ lb \in Nat /\ c \in Seq(S) /\ Len(c) = la + 1
      /\ \A j \in 1 .. la + 1 : c[j] = IF j <= la THEN a[j] ELSE <<e>>[j - la]
  BY <1>1, ConcatProperties, LenProperties
<1> HIDE DEF c
<1>3. /\ Len(s) = la + 1 + lb
      /\ \A j \in 1 .. la + 1 + lb : s[j] = IF j <= la + 1 THEN c[j] ELSE b[j - (la + 1)]
  <2>1. /\ Len(s) = Len(c) + Len(b)
        /\ \A j \in 1 .. Len(c) + Len(b) : s[j] = IF j <= Len(c) THEN c[j] ELSE b[j - Len(c)]
    <3>1. c \in Seq(S)
      BY <1>2
    <3> QED BY <3>1, ConcatProperties
  <2> HIDE DEF s, la
  <2> QED BY <2>1, <1>2
<1> HIDE DEF s
<1>4. \A j \in 1 .. la : s[j] = a[j]
  <2>1. \A j \in 1 .. la : j \in 1 .. la + 1 + lb /\ j \in 1 .. la + 1 /\ j <= la /\ j <= la + 1
    BY <1>2
  <2> QED BY <2>1, <1>2, <1>3
<1>5. s[la + 1] = e
  <2>1. la + 1 \in 1 .. la + 1 + lb /\ la + 1 \in 1 .. la + 1 /\ ~(la + 1 <= la) /\ la + 1 - la = 1
    BY <1>2
  <2> QED BY <2>1, <1>1, <1>2, <1>3
<1>6. \A j \in 1 .. lb : s[la + 1 + j] = b[j]
  <2>1. \A j \in 1 .. lb : /\ la + 1 + j \in 1 .. la + 1 + lb /\ ~(la + 1 + j <= la + 1)
                           /\ la + 1 + j - (la + 1) = j
    BY <1>2
  <2> QED BY <2>1, <1>3
<1> QED BY <1>3, <1>4, <1>5, <1>6 DEF Shared, s, c

\* the separator between the two,
LEMMA SharedParts ==
  ASSUME NEW S, NEW a \in Seq(S), NEW b \in Seq(S), NEW e, NEW s, Shared(s, a, e, b)
  PROVE  InParts(s, a, b, 1, e)
<1>1. \A j \in 1 .. Len(a) : 0 + j = j
  BY LenProperties
<1> QED BY <1>1 DEF Shared, InParts, Part

\* e goes to the front of the second part, or to the end of the first.
LEMMA SharedPush ==
  ASSUME NEW S, NEW a \in Seq(S), NEW b \in Seq(S), NEW e \in S, NEW s, Shared(s, a, e, b), NEW x
  PROVE  InParts(s, a, <<e>> \o b, 0, x)
<1> DEFINE la == Len(a)
           lb == Len(b)
           t == <<e>> \o b
<1>1. /\ la \in Nat /\ lb \in Nat /\ Len(t) = lb + 1 /\ t[1] = e
      /\ \A j \in 2 .. lb + 1 : t[j] = b[j - 1]
  BY PushFacts, LenProperties
<1>2. /\ Len(s) = la + 1 + lb /\ \A j \in 1 .. la : s[j] = a[j]
      /\ s[la + 1] = e /\ \A j \in 1 .. lb : s[la + 1 + j] = b[j]
  BY DEF Shared
<1>3. la = Len(a)
  OBVIOUS
<1> HIDE DEF t, la, lb
<1>4. Part(s, a, 0)
  <2>1. \A j \in 1 .. la : 0 + j = j
    BY <1>1
  <2> QED BY <2>1, <1>2, <1>3 DEF Part
<1>5. Part(s, t, la + 0)
  <2>1. ASSUME NEW j \in 1 .. lb + 1
        PROVE  t[j] = s[la + 0 + j]
    <3>1. CASE j = 1
      <4>1. la + 0 + j = la + 1
        BY <3>1, <1>1
      <4> QED BY <3>1, <4>1, <1>1, <1>2
    <3>2. CASE j # 1
      <4> DEFINE m == j - 1
      <4>1. m \in 1 .. lb /\ j \in 2 .. lb + 1 /\ la + 0 + j = la + 1 + m
        BY <3>2, <1>1
      <4>2. t[j] = b[m]
        BY <4>1, <1>1
      <4> HIDE DEF m
      <4> QED BY <4>1, <4>2, <1>2
    <3> QED BY <3>1, <3>2
  <2> QED BY <2>1, <1>1 DEF Part
<1>6. Len(s) = la + 0 + Len(t)
  BY <1>1, <1>2
<1> QED BY <1>3, <1>4, <1>5, <1>6 DEF InParts, t

\* at the end of the first one,
LEMMA SharedAppend ==
  ASSUME NEW S, NEW a \in Seq(S), NEW b \in Seq(S), NEW e \in S, NEW s, Shared(s, a, e, b), NEW x
  PROVE  InParts(s, AtEnd(a, e), b, 0, x)
<1> DEFINE la == Len(a)
           lb == Len(b)
           t == AtEnd(a, e)
<1>1. /\ la \in Nat /\ lb \in Nat /\ Len(t) = la + 1 /\ t[la + 1] = e
      /\ \A j \in 1 .. la : t[j] = a[j]
  BY AppendProperties, LenProperties DEF AtEnd
<1>2. /\ Len(s) = la + 1 + lb /\ \A j \in 1 .. la : s[j] = a[j]
      /\ s[la + 1] = e /\ \A j \in 1 .. lb : s[la + 1 + j] = b[j]
  BY DEF Shared
<1>3. lb = Len(b)
  OBVIOUS
<1> HIDE DEF t, la, lb
<1>4. Part(s, t, 0)
  <2>1. ASSUME NEW j \in 1 .. la + 1
        PROVE  t[j] = s[0 + j]
    <3>1. 0 + j = j /\ (j = la + 1 \/ j \in 1 .. la)
      BY <1>1
    <3> QED BY <3>1, <1>1, <1>2
  <2> QED BY <2>1, <1>1 DEF Part
<1>5. Part(s, b, la + 1 + 0)
  <2>1. \A j \in 1 .. lb : la + 1 + 0 + j = la + 1 + j
    BY <1>1
  <2> QED BY <2>1, <1>2, <1>3 DEF Part
<1>6. Len(s) = la + 1 + 0 + lb
  BY <1>1, <1>2
<1> QED BY <1>1, <1>3, <1>4, <1>5, <1>6 DEF InParts, t

\* The last member of a, or the first of b, is what is between the rest.
LEMMA LastShared ==
  ASSUME NEW S, NEW a \in Seq(S), NEW b \in Seq(S), a # << >>
  PROVE  Shared(a \o b, Front(a), Last(a), b) /\ Front(a) \in Seq(S) /\ Last(a) \in S
<1> DEFINE la == Len(a)
           lb == Len(b)
           s == a \o b
           f == Front(a)
<1>1. /\ f \in Seq(S) /\ Len(f) = la - 1 /\ \A j \in 1 .. la - 1 : f[j] = a[j]
      /\ Last(a) \in S /\ Last(a) = a[la]
  BY FrontFacts
<1>2. /\ la \in Nat /\ lb \in Nat /\ Len(s) = la + lb /\ la >= 1
      /\ \A j \in 1 .. la + lb : s[j] = IF j <= la THEN a[j] ELSE b[j - la]
  BY ConcatProperties, LenProperties, EmptySeq
<1> HIDE DEF s, f, la
<1>3. \A j \in 1 .. la - 1 : j \in 1 .. la + lb /\ j <= la
  BY <1>2
<1>4. la \in 1 .. la + lb /\ la - 1 + 1 = la /\ la <= la
  BY <1>2
<1>5. \A j \in 1 .. lb : /\ la - 1 + 1 + j \in 1 .. la + lb /\ ~(la - 1 + 1 + j <= la)
                         /\ la - 1 + 1 + j - la = j
  BY <1>2
<1>6. Len(s) = la - 1 + 1 + lb
  BY <1>2
<1>7. \A j \in 1 .. la - 1 : s[j] = f[j]
  BY <1>1, <1>2, <1>3
<1>8. s[la - 1 + 1] = Last(a)
  BY <1>1, <1>2, <1>4
<1>9. \A j \in 1 .. lb : s[la - 1 + 1 + j] = b[j]
  BY <1>2, <1>5
<1> QED BY <1>1, <1>6, <1>7, <1>8, <1>9 DEF Shared, s, f

\* and the first member of the second one as the separator.
LEMMA HeadShared ==
  ASSUME NEW S, NEW a \in Seq(S), NEW b \in Seq(S), b # << >>
  PROVE  Shared(a \o b, a, Head(b), Tail(b)) /\ Tail(b) \in Seq(S) /\ Head(b) \in S
<1> DEFINE la == Len(a)
           lb == Len(b)
           s == a \o b
           t == Tail(b)
<1>1. /\ t \in Seq(S) /\ Len(t) = lb - 1 /\ \A j \in 1 .. lb - 1 : t[j] = b[j + 1]
      /\ Head(b) \in S /\ Head(b) = b[1]
  BY HeadTailProperties
<1>2. /\ la \in Nat /\ lb \in Nat /\ Len(s) = la + lb /\ lb >= 1
      /\ \A j \in 1 .. la + lb : s[j] = IF j <= la THEN a[j] ELSE b[j - la]
  BY ConcatProperties, LenProperties, EmptySeq
<1> HIDE DEF s, t, lb
<1>3. \A j \in 1 .. la : j \in 1 .. la + lb /\ j <= la
  BY <1>2
<1>4. la + 1 \in 1 .. la + lb /\ la + 1 - la = 1 /\ ~(la + 1 <= la)
  BY <1>2
<1>5. \A j \in 1 .. lb - 1 : /\ la + 1 + j \in 1 .. la + lb /\ ~(la + 1 + j <= la)
                             /\ la + 1 + j - la = j + 1
  BY <1>2
<1>6. Len(s) = la + 1 + (lb - 1)
  BY <1>2
<1>7. s[la + 1] = Head(b)
  BY <1>1, <1>2, <1>4
<1>8. ASSUME NEW j \in 1 .. lb - 1
      PROVE  s[la + 1 + j] = t[j]
  <2>1. s[la + 1 + j] = b[la + 1 + j - la]
    BY <1>2, <1>5
  <2>2. b[la + 1 + j - la] = b[j + 1]
    BY <1>5
  <2> QED BY <2>1, <2>2, <1>1
<1>9. \A j \in 1 .. la : s[j] = a[j]
  BY <1>2, <1>3
<1> QED BY <1>1, <1>6, <1>7, <1>8, <1>9 DEF Shared, s, t

\* s is e between a and b: the last member of a, or the first of b, could
\* be between two parts as well.
LEMMA LastBetween ==
  ASSUME NEW S, NEW a \in Seq(S), NEW b \in Seq(S), NEW e \in S, a # << >>
  PROVE  InParts(a \o <<e>> \o b, Front(a), <<e>> \o b, 1, Last(a))
<1> DEFINE c == <<e>> \o b
<1>1. c \in Seq(S)
  BY PushFacts
<1>2. a \o <<e>> \o b = a \o c
  BY ConcatAssociative
<1> HIDE DEF c
<1>3. Shared(a \o c, Front(a), Last(a), c) /\ Front(a) \in Seq(S)
  BY <1>1, LastShared
<1>4. InParts(a \o c, Front(a), c, 1, Last(a))
  BY <1>1, <1>3, SharedParts
<1> QED BY <1>2, <1>4 DEF c

\* The key that comes down goes left and the first one on the right goes up.
LEMMA HeadBetween ==
  ASSUME NEW S, NEW a \in Seq(S), NEW b \in Seq(S), NEW e \in S, b # << >>
  PROVE  InParts(a \o <<e>> \o b, AtEnd(a, e), Tail(b), 1, Head(b))
<1> DEFINE c == AtEnd(a, e)
<1>1. c \in Seq(S) /\ a \o <<e>> = c
  BY AppendProperties, AppendIsConcat DEF AtEnd
<1> HIDE DEF c
<1>2. Shared(c \o b, c, Head(b), Tail(b)) /\ Tail(b) \in Seq(S)
  BY <1>1, HeadShared
<1>3. InParts(c \o b, c, Tail(b), 1, Head(b))
  BY <1>1, <1>2, SharedParts
<1> QED BY <1>1, <1>3 DEF c

\* A sequence cut behind its first n members.
LEMMA SubParts ==
  ASSUME NEW S, NEW s \in Seq(S), NEW d \in {0, 1}, NEW n \in Nat, n + d <= Len(s)
  PROVE  InParts(s, SubSeq(s, 1, n), SubSeq(s, n + d + 1, Len(s)), d, s[n + 1])
         /\ Len(SubSeq(s, 1, n)) = n /\ Len(SubSeq(s, n + d + 1, Len(s))) = Len(s) - n - d
<1> DEFINE len == Len(s)
           a == SubSeq(s, 1, n)
           b == SubSeq(s, n + d + 1, len)
<1>1. len \in Nat
  BY LenProperties
<1>2. /\ Len(a) = n - 1 + 1 /\ \A j \in 1 .. n - 1 + 1 : a[j] = s[1 + j - 1]
  <2>1. 1 \in Int /\ n \in Int /\ 1 <= 1 /\ 1 <= n + 1 /\ n <= Len(s)
    BY <1>1
  <2> QED BY <2>1, SubFacts
<1>3. /\ Len(b) = len - (n + d + 1) + 1
      /\ \A j \in 1 .. len - (n + d + 1) + 1 : b[j] = s[n + d + 1 + j - 1]
  <2> DEFINE c == n + d + 1
  <2>1. c \in Int /\ len \in Int /\ 1 <= c /\ c <= len + 1 /\ len <= Len(s)
    BY <1>1
  <2> HIDE DEF c
  <2>2. /\ Len(SubSeq(s, c, len)) = len - c + 1
        /\ \A j \in 1 .. len - c + 1 : SubSeq(s, c, len)[j] = s[c + j - 1]
    <3> HIDE DEF len
    <3> QED BY <2>1, SubFacts
  <2> QED BY <2>2 DEF c
<1> HIDE DEF a, b
<1>4. /\ n - 1 + 1 = n /\ len - (n + d + 1) + 1 = len - n - d
      /\ \A j \in 1 .. n : 1 + j - 1 = 0 + j
      /\ \A j \in 1 .. len - n - d : n + d + 1 + j - 1 = n + d + j
      /\ len = n + d + (len - n - d)
  BY <1>1
<1>5. Len(a) = n /\ Len(b) = len - n - d
  BY <1>2, <1>3, <1>4
<1>6. Part(s, a, 0)
  BY <1>2, <1>4, <1>5 DEF Part
<1>7. Part(s, b, n + d)
  BY <1>3, <1>4, <1>5 DEF Part
<1>8. len = Len(a) + d + Len(b)
  BY <1>4, <1>5
<1>9. InParts(s, a, b, d, s[n + 1])
  BY <1>5, <1>6, <1>7, <1>8 DEF InParts
<1> QED BY <1>5, <1>9 DEF a, b

\* A sequence is over any set its members are in.
LEMMA SeqInto ==
  ASSUME NEW S, NEW s \in Seq(S), NEW U, \A j \in 1 .. Len(s) : s[j] \in U
  PROVE  s \in Seq(U)
<1>1. /\ Len(s) \in Nat /\ DOMAIN s = 1 .. Len(s) /\ s = [j \in DOMAIN s |-> s[j]]
  BY LenProperties
<1>2. s \in [1 .. Len(s) -> U]
  BY <1>1
<1> QED BY <1>1, <1>2, SeqDef

-----------------------------------------------------------------------------
(* Neighbours merged, and shared out again *)

\* t is s, but for the member number i.
ButAt(s, t, i) == Len(t) = Len(s) /\ \A j \in 1 .. Len(s) : j # i => t[j] = s[j]

\* A member that is changed is one that is taken away and put back.
LEMMA PutBack ==
  ASSUME NEW S, NEW s \in Seq(S), NEW i \in 1 .. Len(s), NEW t, ButAt(s, t, i)
  PROVE  PutIn(RemoveAt(s, i), t, i, t[i])
<1> DEFINE w == RemoveAt(s, i)
           len == Len(s)
<1>1. /\ len \in Nat /\ i \in 1 .. len /\ Len(w) = len - 1
      /\ \A j \in 1 .. i - 1 : w[j] = s[j]
      /\ \A j \in i .. len - 1 : w[j] = s[j + 1]
  BY RemoveAtFacts, LenProperties
<1>2. Len(t) = len /\ \A j \in 1 .. len : j # i => t[j] = s[j]
  BY DEF ButAt
<1> HIDE DEF w, len
<1>3. ASSUME NEW j \in 1 .. Len(w)
      PROVE  t[IF j < i THEN j ELSE j + 1] = w[j]
  <2>1. CASE j < i
    <3>1. j \in 1 .. i - 1 /\ j \in 1 .. len /\ j # i
      BY <1>1, <2>1
    <3> QED BY <3>1, <1>1, <1>2, <2>1
  <2>2. CASE ~(j < i)
    <3>1. j \in i .. len - 1 /\ j + 1 \in 1 .. len /\ j + 1 # i
      BY <1>1, <2>2
    <3> QED BY <3>1, <1>1, <1>2, <2>2
  <2> QED BY <2>1, <2>2
<1>4. Len(t) = Len(w) + 1
  BY <1>1, <1>2
<1> QED BY <1>3, <1>4 DEF PutIn, w

\* W is V with the children number i and i + 1 of p, l and r, put together.
Merges(W, V, p, i, l, r) ==
  /\ W.ids = V.ids \ {r} /\ W.root = V.root /\ W.leaves = V.leaves \ {r}
  /\ \A n \in V.ids \ {p, l, r} : Same(V, W, n)
  /\ W.keys[p] = RemoveAt(V.keys[p], i) /\ W.kids[p] = RemoveAt(V.kids[p], i + 1)
  /\ W.keys[l] = IF l \in V.leaves THEN V.keys[l] \o V.keys[r]
                 ELSE V.keys[l] \o <<V.keys[p][i]>> \o V.keys[r]
  /\ W.kids[l] = V.kids[l] \o V.kids[r]
  /\ l \in V.leaves => W.vals[l] = V.vals[l] \o V.vals[r] /\ W.next[l] = V.next[r]

\* l and r are the children number i and i + 1 of p.
Siblings(V, p, i, l, r) ==
  /\ p \in V.ids \ V.leaves /\ i \in 1 .. Len(V.keys[p])
  /\ l \in V.ids /\ r \in V.ids /\ l # p /\ r # p /\ l # r
  /\ l \in V.leaves <=> r \in V.leaves
  /\ V.kids[p][i] = l /\ V.kids[p][i + 1] = r

\* d tells leaves from internal nodes: the number of keys that go up.
Kind(V, l, d) == d = IF l \in V.leaves THEN 0 ELSE 1

\* T is V with the keys of l and r shared out anew.
Reshares(T, W, V, p, i, l, r, d) ==
  /\ T.ids = V.ids /\ T.root = V.root /\ T.leaves = V.leaves
  /\ \A n \in V.ids \ {p, l, r} : Same(V, T, n)
  /\ T.kids[p] = V.kids[p] /\ ButAt(V.keys[p], T.keys[p], i)
  /\ InParts(W.keys[l], T.keys[l], T.keys[r], d, T.keys[p][i])
  /\ InParts(W.kids[l], T.kids[l], T.kids[r], 0, 0)
  /\ d = 0 => /\ T.next[r] = V.next[r]
              /\ Part(W.vals[l], T.vals[l], 0) /\ Part(W.vals[l], T.vals[r], Len(T.keys[l]))

\* Sharing out again is cutting what was merged.
LEMMA ResharedIsParted ==
  ASSUME NEW V, NEW W, NEW T, Plain(V), Plain(T), NEW p, NEW i, NEW l, NEW r, NEW d,
         Siblings(V, p, i, l, r), Merges(W, V, p, i, l, r), Kind(V, l, d),
         Reshares(T, W, V, p, i, l, r, d)
  PROVE  Parted(W, T, p, i, l, r, d)
<1>0. /\ V.leaves \subseteq V.ids
      /\ \A n \in V.ids : V.keys[n] \in Seq(Int) /\ V.kids[n] \in Seq(V.ids)
      /\ \A n \in V.ids \ V.leaves : Len(V.kids[n]) = Len(V.keys[n]) + 1
  BY DEF Plain
<1>1. /\ p \in V.ids /\ p \notin V.leaves /\ i \in 1 .. Len(V.keys[p])
      /\ l \in V.ids /\ r \in V.ids /\ l # p /\ r # p /\ l # r
      /\ l \in V.leaves <=> r \in V.leaves
      /\ V.kids[p][i] = l /\ V.kids[p][i + 1] = r
  BY DEF Siblings
<1>2. /\ W.ids = V.ids \ {r} /\ W.root = V.root /\ W.leaves = V.leaves \ {r}
      /\ \A n \in V.ids \ {p, l, r} : Same(V, W, n)
      /\ W.keys[p] = RemoveAt(V.keys[p], i) /\ W.kids[p] = RemoveAt(V.kids[p], i + 1)
      /\ l \in V.leaves => W.next[l] = V.next[r]
  BY DEF Merges
<1>3. /\ T.ids = V.ids /\ T.root = V.root /\ T.leaves = V.leaves
      /\ \A n \in V.ids \ {p, l, r} : Same(V, T, n)
      /\ T.kids[p] = V.kids[p] /\ ButAt(V.keys[p], T.keys[p], i)
      /\ InParts(W.keys[l], T.keys[l], T.keys[r], d, T.keys[p][i])
      /\ InParts(W.kids[l], T.kids[l], T.kids[r], 0, 0)
      /\ d = 0 => /\ T.next[r] = V.next[r]
                  /\ Part(W.vals[l], T.vals[l], 0) /\ Part(W.vals[l], T.vals[r], Len(T.keys[l]))
  BY DEF Reshares
<1>4. /\ V.keys[p] \in Seq(Int) /\ V.kids[p] \in Seq(V.ids)
      /\ Len(V.keys[p]) \in Nat /\ Len(V.kids[p]) = Len(V.keys[p]) + 1
  BY <1>0, <1>1, LenProperties
<1>5. i + 1 \in 1 .. Len(V.kids[p]) /\ i \in 1 .. Len(V.kids[p]) - 1 /\ i \in 1 .. i + 1 - 1
  BY <1>1, <1>4
<1>6. /\ Len(W.kids[p]) = Len(V.kids[p]) - 1
      /\ \A j \in 1 .. i + 1 - 1 : W.kids[p][j] = V.kids[p][j]
  <2>1. \A c \in 1 .. Len(V.kids[p]) : W.kids[p] = RemoveAt(V.kids[p], c) =>
           Len(W.kids[p]) = Len(V.kids[p]) - 1 /\ \A j \in 1 .. c - 1 : W.kids[p][j] = V.kids[p][j]
    BY <1>4, RemoveAtFacts
  <2> QED BY <2>1, <1>2, <1>5
<1>7. i \in 1 .. Len(W.kids[p]) /\ W.kids[p][i] = l
  BY <1>1, <1>5, <1>6
<1>8. PutIn(W.keys[p], T.keys[p], i, T.keys[p][i])
  BY <1>1, <1>2, <1>3, <1>4, PutBack
<1>9. ButAt(V.kids[p], T.kids[p], i + 1)
  BY <1>3 DEF ButAt
<1>10. PutIn(W.kids[p], T.kids[p], i + 1, r)
  <2>1. PutIn(W.kids[p], T.kids[p], i + 1, T.kids[p][i + 1])
    BY <1>2, <1>4, <1>5, <1>9, PutBack
  <2> QED BY <2>1, <1>1, <1>3
<1>11. /\ l \in W.leaves <=> l \in V.leaves
       /\ d = IF l \in W.leaves THEN 0 ELSE 1
       /\ T.leaves = IF l \in W.leaves THEN W.leaves \cup {r} ELSE W.leaves
  BY <1>1, <1>2, <1>3 DEF Kind
<1>12. \A n \in W.ids \ {p, l} : Same(W, T, n)
  BY <1>2, <1>3 DEF Same
<1>13. /\ Len(W.keys[l]) = Len(T.keys[l]) + d + Len(T.keys[r])
       /\ Part(W.keys[l], T.keys[l], 0) /\ Part(W.keys[l], T.keys[r], Len(T.keys[l]) + d)
       /\ d = 1 => W.keys[l][Len(T.keys[l]) + 1] = T.keys[p][i]
  BY <1>3 DEF InParts
<1>14. /\ Len(W.kids[l]) = Len(T.kids[l]) + 0 + Len(T.kids[r])
       /\ Part(W.kids[l], T.kids[l], 0) /\ Part(W.kids[l], T.kids[r], Len(T.kids[l]) + 0)
  BY <1>3 DEF InParts
<1>15. Len(T.kids[l]) + 0 = Len(T.kids[l])
  BY <1>1, <1>3, PlainFacts
<1>16. d = 0 => /\ T.next[r] = W.next[l]
                /\ Part(W.vals[l], T.vals[l], 0) /\ Part(W.vals[l], T.vals[r], Len(T.keys[l]))
  BY <1>2, <1>3 DEF Kind
<1> QED BY <1>1, <1>2, <1>3, <1>7, <1>8, <1>10, <1>11, <1>12, <1>13, <1>14, <1>15, <1>16
        DEF Parted

\* W is V with the neighbours l and r merged, and both are trees.
Mergeable(W, V, p, i, l, r, d) ==
  /\ Plain(V) /\ Plain(W) /\ Siblings(V, p, i, l, r) /\ Kind(V, l, d)
  /\ Once(V, p, i, l) /\ Once(V, p, i + 1, r) /\ Once(W, p, i, l)
  /\ Merges(W, V, p, i, l, r)
  /\ l \in V.leaves => V.vals[l] \in Seq(RowIds) /\ V.vals[r] \in Seq(RowIds)

\* What is merged was shared out before.
LEMMA MergeableParted ==
  ASSUME NEW W, NEW V, NEW p, NEW i, NEW l, NEW r, NEW d, Mergeable(W, V, p, i, l, r, d)
  PROVE  Parted(W, V, p, i, l, r, d)
<1>1. /\ Plain(V) /\ Plain(W) /\ Siblings(V, p, i, l, r) /\ Kind(V, l, d)
      /\ Merges(W, V, p, i, l, r)
      /\ l \in V.leaves => V.vals[l] \in Seq(RowIds) /\ V.vals[r] \in Seq(RowIds)
  BY DEF Mergeable
<1>2. /\ p \in V.ids /\ l \in V.ids /\ r \in V.ids /\ i \in 1 .. Len(V.keys[p])
  BY <1>1 DEF Siblings
<1>3. /\ V.keys[l] \in Seq(Int) /\ V.keys[r] \in Seq(Int) /\ V.keys[p] \in Seq(Int)
      /\ V.kids[l] \in Seq(V.ids) /\ V.kids[r] \in Seq(V.ids)
  BY <1>1, <1>2 DEF Plain
<1>4. V.keys[p][i] \in Int
  BY <1>2, <1>3, ElementOfSeq
<1>5. /\ W.keys[l] = IF l \in V.leaves THEN V.keys[l] \o V.keys[r]
                     ELSE V.keys[l] \o <<V.keys[p][i]>> \o V.keys[r]
      /\ W.kids[l] = V.kids[l] \o V.kids[r]
      /\ l \in V.leaves => W.vals[l] = V.vals[l] \o V.vals[r]
  BY <1>1 DEF Merges
<1>6. InParts(W.kids[l], V.kids[l], V.kids[r], 0, 0)
  BY <1>3, <1>5, CatParts
<1>7. InParts(W.keys[l], V.keys[l], V.keys[r], d, V.keys[p][i])
  <2>1. CASE l \in V.leaves
    <3>1. InParts(W.keys[l], V.keys[l], V.keys[r], 0, V.keys[p][i])
      BY <2>1, <1>3, <1>5, CatParts
    <3>2. d = 0
      BY <2>1, <1>1 DEF Kind
    <3> QED BY <3>1, <3>2
  <2>2. CASE l \notin V.leaves
    <3>1. Shared(V.keys[l] \o <<V.keys[p][i]>> \o V.keys[r], V.keys[l], V.keys[p][i], V.keys[r])
      BY <1>3, <1>4, CatShared
    <3>2. InParts(W.keys[l], V.keys[l], V.keys[r], 1, V.keys[p][i])
      BY <2>2, <3>1, <1>3, <1>5, SharedParts
    <3>3. d = 1
      BY <2>2, <1>1 DEF Kind
    <3> QED BY <3>2, <3>3
  <2> QED BY <2>1, <2>2
<1>8. d = 0 => Part(W.vals[l], V.vals[l], 0) /\ Part(W.vals[l], V.vals[r], Len(V.keys[l]))
  <2> HAVE d = 0
  <2>1. l \in V.leaves
    BY <1>1 DEF Kind
  <2>2. InParts(W.vals[l], V.vals[l], V.vals[r], 0, 0)
    BY <2>1, <1>1, <1>5, CatParts
  <2>3. Len(V.vals[l]) = Len(V.keys[l]) /\ Len(V.keys[l]) \in Nat
    BY <2>1, <1>1, <1>3, LenProperties DEF Plain
  <2>4. Part(W.vals[l], V.vals[l], 0) /\ Part(W.vals[l], V.vals[r], Len(V.vals[l]) + 0)
    BY <2>2 DEF InParts
  <2>5. Len(V.vals[l]) + 0 = Len(V.keys[l])
    BY <2>3
  <2> QED BY <2>4, <2>5
<1>9. ButAt(V.keys[p], V.keys[p], i) /\ \A n \in V.ids \ {p, l, r} : Same(V, V, n)
  BY DEF ButAt, Same
<1>10. Reshares(V, W, V, p, i, l, r, d)
  BY <1>6, <1>7, <1>8, <1>9 DEF Reshares
<1> QED BY <1>1, <1>10, ResharedIsParted

\* A merge keeps a tree ordered, and what lookups find.
LEMMA MergeOrdered ==
  ASSUME NEW W, NEW V, NEW p, NEW i, NEW l, NEW r, NEW d, Mergeable(W, V, p, i, l, r, d),
         Ordered(V)
  PROVE  Ordered(W) /\ SameHeld(W, V) /\ (d = 0 => V.next[l] = r)
<1>1. Parted(W, V, p, i, l, r, d)
  BY MergeableParted
<1>2. JoinInto(W, V, p, i, l, r, d) /\ Plain(W) /\ Plain(V)
  BY <1>1 DEF Mergeable, JoinInto
<1> QED BY <1>1, <1>2, JoinOrdered, PartedHolds

\* Sharing out what was merged keeps a tree ordered, and what lookups find.
LEMMA ReshareOrdered ==
  ASSUME NEW W, NEW V, NEW p, NEW i, NEW l, NEW r, NEW d, Mergeable(W, V, p, i, l, r, d),
         Ordered(V), NEW T, Plain(T), Reshares(T, W, V, p, i, l, r, d),
         CutsLeaf(T, p, i, l, r, d), d = 0 => T.next[l] = r
  PROVE  Ordered(T) /\ SameHeld(W, T)
<1>1. Plain(V) /\ Plain(W) /\ Siblings(V, p, i, l, r) /\ Kind(V, l, d)
      /\ Merges(W, V, p, i, l, r) /\ Once(W, p, i, l)
  BY DEF Mergeable
<1>2. Parted(W, T, p, i, l, r, d)
  BY <1>1, ResharedIsParted
<1>3. Ordered(W)
  BY MergeOrdered
<1>4. CutInto(W, T, p, i, l, r, d)
  BY <1>1, <1>2 DEF CutInto
<1> QED BY <1>1, <1>2, <1>3, <1>4, SplitOrdered, PartedHolds

-----------------------------------------------------------------------------
(* A key passed to a neighbour *)

\* Two trees that hold what a third one holds hold the same.
LEMMA SameHeldBoth ==
  ASSUME NEW W, NEW V, NEW T, SameHeld(W, V), SameHeld(W, T)
  PROVE  SameHeld(V, T) /\ SameHeld(T, V)
BY DEF SameHeld

\* T is V with what ShiftRight changes.
PassedRight(T, V, p, i, l, r) ==
  /\ T.ids = V.ids /\ T.root = V.root /\ T.leaves = V.leaves
  /\ \A n \in V.ids \ {p, l, r} : Same(V, T, n)
  /\ T.kids[p] = V.kids[p] /\ T.keys[p] = [V.keys[p] EXCEPT ![i] = Last(V.keys[l])]
  /\ T.keys[l] = Front(V.keys[l]) /\ T.next[l] = V.next[l] /\ T.next[r] = V.next[r]
  /\ l \in V.leaves =>
       /\ T.keys[r] = <<Last(V.keys[l])>> \o V.keys[r]
       /\ T.vals[l] = Front(V.vals[l]) /\ T.vals[r] = <<Last(V.vals[l])>> \o V.vals[r]
       /\ T.kids[l] = V.kids[l] /\ T.kids[r] = V.kids[r]
  /\ l \notin V.leaves =>
       /\ T.keys[r] = <<V.keys[p][i]>> \o V.keys[r]
       /\ T.kids[l] = Front(V.kids[l]) /\ T.kids[r] = <<Last(V.kids[l])>> \o V.kids[r]

\* Assigning to a place changes that place alone.
LEMMA PutAt ==
  ASSUME NEW S, NEW s \in Seq(S), NEW i \in 1 .. Len(s), NEW e
  PROVE  ButAt(s, [s EXCEPT ![i] = e], i) /\ [s EXCEPT ![i] = e][i] = e
<1> DEFINE t == [s EXCEPT ![i] = e]
<1>1. DOMAIN s = 1 .. Len(s) /\ Len(s) \in Nat
  BY LenProperties
<1>2. DOMAIN t = 1 .. Len(s)
  BY <1>1
<1>3. Len(t) = Len(s)
  BY <1>1, <1>2
<1> QED BY <1>1, <1>3 DEF ButAt

\* A key passed to the right is a way to share out what the two hold,
LEMMA PassedRightShares ==
  ASSUME NEW W, NEW V, NEW p, NEW i, NEW l, NEW r, NEW d, Mergeable(W, V, p, i, l, r, d),
         NEW T, PassedRight(T, V, p, i, l, r), V.keys[l] # << >>
  PROVE  /\ Reshares(T, W, V, p, i, l, r, d)
         /\ l \in V.leaves /\ Len(V.keys[l]) >= 2 => CutsLeaf(T, p, i, l, r, d)
<1>1. /\ Plain(V) /\ Plain(W) /\ Siblings(V, p, i, l, r) /\ Kind(V, l, d)
      /\ Merges(W, V, p, i, l, r)
      /\ l \in V.leaves => V.vals[l] \in Seq(RowIds) /\ V.vals[r] \in Seq(RowIds)
  BY DEF Mergeable
<1>2. /\ p \in V.ids /\ l \in V.ids /\ r \in V.ids /\ i \in 1 .. Len(V.keys[p])
      /\ l \in V.leaves <=> r \in V.leaves
  BY <1>1 DEF Siblings
<1>3. /\ V.keys[l] \in Seq(Int) /\ V.keys[r] \in Seq(Int) /\ V.keys[p] \in Seq(Int)
      /\ V.kids[l] \in Seq(V.ids) /\ V.kids[r] \in Seq(V.ids)
  BY <1>1, <1>2 DEF Plain
<1>4. V.keys[p][i] \in Int
  BY <1>2, <1>3, ElementOfSeq
<1>5. /\ W.keys[l] = IF l \in V.leaves THEN V.keys[l] \o V.keys[r]
                     ELSE V.keys[l] \o <<V.keys[p][i]>> \o V.keys[r]
      /\ W.kids[l] = V.kids[l] \o V.kids[r]
      /\ l \in V.leaves => W.vals[l] = V.vals[l] \o V.vals[r]
  BY <1>1 DEF Merges
<1>6. /\ T.ids = V.ids /\ T.root = V.root /\ T.leaves = V.leaves
      /\ \A n \in V.ids \ {p, l, r} : Same(V, T, n)
      /\ T.kids[p] = V.kids[p] /\ T.keys[p] = [V.keys[p] EXCEPT ![i] = Last(V.keys[l])]
      /\ T.keys[l] = Front(V.keys[l]) /\ T.next[l] = V.next[l] /\ T.next[r] = V.next[r]
  BY DEF PassedRight
<1>7. ButAt(V.keys[p], T.keys[p], i) /\ T.keys[p][i] = Last(V.keys[l])
  <2> DEFINE ks == V.keys[p]
             e == Last(V.keys[l])
  <2>1. ks \in Seq(Int) /\ i \in 1 .. Len(ks) /\ T.keys[p] = [ks EXCEPT ![i] = e]
    BY <1>2, <1>3, <1>6
  <2> HIDE DEF ks, e
  <2>2. ButAt(ks, [ks EXCEPT ![i] = e], i) /\ [ks EXCEPT ![i] = e][i] = e
    BY <2>1, PutAt
  <2>3. ButAt(ks, T.keys[p], i) /\ T.keys[p][i] = e
    BY <2>1, <2>2
  <2> QED BY <2>3 DEF ks, e
<1>8. CASE l \in V.leaves
  <2>1. d = 0
    BY <1>1, <1>8 DEF Kind
  <2>2. /\ T.keys[r] = <<Last(V.keys[l])>> \o V.keys[r]
        /\ T.vals[l] = Front(V.vals[l]) /\ T.vals[r] = <<Last(V.vals[l])>> \o V.vals[r]
        /\ T.kids[l] = V.kids[l] /\ T.kids[r] = V.kids[r]
    BY <1>8 DEF PassedRight
  <2>3. /\ Shared(V.keys[l] \o V.keys[r], Front(V.keys[l]), Last(V.keys[l]), V.keys[r])
        /\ Front(V.keys[l]) \in Seq(Int) /\ Last(V.keys[l]) \in Int
    BY <1>3, LastShared
  <2>4. InParts(W.keys[l], T.keys[l], T.keys[r], 0, T.keys[p][i])
    BY <2>2, <2>3, <1>3, <1>5, <1>6, <1>8, SharedPush
  <2>5. InParts(W.kids[l], T.kids[l], T.kids[r], 0, 0)
    BY <2>2, <1>3, <1>5, CatParts
  <2>6. /\ V.vals[l] \in Seq(RowIds) /\ V.vals[r] \in Seq(RowIds)
        /\ Len(V.vals[l]) = Len(V.keys[l]) /\ Len(V.keys[l]) \in Nat \ {0}
    BY <1>1, <1>3, <1>8, LenProperties, EmptySeq DEF Plain
  <2>7. V.vals[l] # << >>
    BY <2>6
  <2>8. /\ Shared(V.vals[l] \o V.vals[r], Front(V.vals[l]), Last(V.vals[l]), V.vals[r])
        /\ Front(V.vals[l]) \in Seq(RowIds) /\ Last(V.vals[l]) \in RowIds
    BY <2>6, <2>7, LastShared
  <2>9. InParts(W.vals[l], T.vals[l], T.vals[r], 0, 0)
    BY <2>2, <2>6, <2>8, <1>5, <1>8, SharedPush
  <2>10. Len(T.vals[l]) = Len(T.keys[l]) /\ Len(T.keys[l]) \in Nat
         /\ Len(T.keys[l]) = Len(V.keys[l]) - 1
    <3>1. Len(T.keys[l]) = Len(V.keys[l]) - 1
      BY <1>3, <1>6, FrontFacts
    <3>2. Len(T.vals[l]) = Len(V.vals[l]) - 1
      BY <2>2, <2>6, <2>7, FrontFacts
    <3> QED BY <3>1, <3>2, <2>6
  <2>11. /\ Part(W.vals[l], T.vals[l], 0) /\ Part(W.vals[l], T.vals[r], Len(T.keys[l]))
    <3>1. Part(W.vals[l], T.vals[l], 0) /\ Part(W.vals[l], T.vals[r], Len(T.vals[l]) + 0)
      BY <2>9 DEF InParts
    <3>2. Len(T.vals[l]) + 0 = Len(T.keys[l])
      BY <2>10
    <3> QED BY <3>1, <3>2
  <2>12. Len(V.keys[l]) >= 2 => CutsLeaf(T, p, i, l, r, d)
    <3> HAVE Len(V.keys[l]) >= 2
    <3>1. Len(T.keys[l]) >= 1
      BY <2>6, <2>10
    <3>2. T.keys[r][1] = Last(V.keys[l]) /\ Len(T.keys[r]) = Len(V.keys[r]) + 1
      BY <2>2, <2>3, <1>3, PushFacts
    <3>3. Len(T.keys[r]) >= 1
      BY <3>2, <1>3, LenProperties
    <3> QED BY <3>1, <3>2, <3>3, <1>7 DEF CutsLeaf
  <2> QED BY <2>1, <2>4, <2>5, <2>11, <2>12, <1>6, <1>7 DEF Reshares
<1>9. CASE l \notin V.leaves
  <2>1. d = 1
    BY <1>1, <1>9 DEF Kind
  <2>2. /\ T.keys[r] = <<V.keys[p][i]>> \o V.keys[r]
        /\ T.kids[l] = Front(V.kids[l]) /\ T.kids[r] = <<Last(V.kids[l])>> \o V.kids[r]
    BY <1>9 DEF PassedRight
  <2>3. InParts(W.keys[l], T.keys[l], T.keys[r], 1, T.keys[p][i])
    BY <2>2, <1>3, <1>4, <1>5, <1>6, <1>7, <1>9, LastBetween
  <2>4. Len(V.kids[l]) = Len(V.keys[l]) + 1 /\ Len(V.keys[l]) \in Nat
    BY <1>1, <1>2, <1>3, <1>9, LenProperties DEF Plain
  <2>5. V.kids[l] # << >>
    BY <2>4
  <2>6. /\ Shared(V.kids[l] \o V.kids[r], Front(V.kids[l]), Last(V.kids[l]), V.kids[r])
        /\ Front(V.kids[l]) \in Seq(V.ids) /\ Last(V.kids[l]) \in V.ids
    BY <2>5, <1>3, LastShared
  <2>7. InParts(W.kids[l], T.kids[l], T.kids[r], 0, 0)
    BY <2>2, <2>6, <1>3, <1>5, SharedPush
  <2> QED BY <2>1, <2>3, <2>7, <1>6, <1>7, <1>9 DEF Reshares
<1> QED BY <1>8, <1>9

\* T is V with what ShiftLeft changes.
PassedLeft(T, V, p, i, l, r) ==
  /\ T.ids = V.ids /\ T.root = V.root /\ T.leaves = V.leaves
  /\ \A n \in V.ids \ {p, l, r} : Same(V, T, n)
  /\ T.kids[p] = V.kids[p]
  /\ T.keys[r] = Tail(V.keys[r]) /\ T.next[l] = V.next[l] /\ T.next[r] = V.next[r]
  /\ l \in V.leaves =>
       /\ T.keys[p] = [V.keys[p] EXCEPT ![i] = V.keys[r][2]]
       /\ T.keys[l] = AtEnd(V.keys[l], Head(V.keys[r]))
       /\ T.vals[r] = Tail(V.vals[r]) /\ T.vals[l] = AtEnd(V.vals[l], Head(V.vals[r]))
       /\ T.kids[l] = V.kids[l] /\ T.kids[r] = V.kids[r]
  /\ l \notin V.leaves =>
       /\ T.keys[p] = [V.keys[p] EXCEPT ![i] = Head(V.keys[r])]
       /\ T.keys[l] = AtEnd(V.keys[l], V.keys[p][i])
       /\ T.kids[r] = Tail(V.kids[r]) /\ T.kids[l] = AtEnd(V.kids[l], Head(V.kids[r]))

\* and so is one passed to the left.
LEMMA PassedLeftShares ==
  ASSUME NEW W, NEW V, NEW p, NEW i, NEW l, NEW r, NEW d, Mergeable(W, V, p, i, l, r, d),
         NEW T, PassedLeft(T, V, p, i, l, r), V.keys[r] # << >>
  PROVE  /\ Reshares(T, W, V, p, i, l, r, d)
         /\ l \in V.leaves /\ Len(V.keys[r]) >= 2 => CutsLeaf(T, p, i, l, r, d)
<1>1. /\ Plain(V) /\ Plain(W) /\ Siblings(V, p, i, l, r) /\ Kind(V, l, d)
      /\ Merges(W, V, p, i, l, r)
      /\ l \in V.leaves => V.vals[l] \in Seq(RowIds) /\ V.vals[r] \in Seq(RowIds)
  BY DEF Mergeable
<1>2. /\ p \in V.ids /\ l \in V.ids /\ r \in V.ids /\ i \in 1 .. Len(V.keys[p])
      /\ l \in V.leaves <=> r \in V.leaves
  BY <1>1 DEF Siblings
<1>3. /\ V.keys[l] \in Seq(Int) /\ V.keys[r] \in Seq(Int) /\ V.keys[p] \in Seq(Int)
      /\ V.kids[l] \in Seq(V.ids) /\ V.kids[r] \in Seq(V.ids)
  BY <1>1, <1>2 DEF Plain
<1>4. V.keys[p][i] \in Int
  BY <1>2, <1>3, ElementOfSeq
<1>5. /\ W.keys[l] = IF l \in V.leaves THEN V.keys[l] \o V.keys[r]
                     ELSE V.keys[l] \o <<V.keys[p][i]>> \o V.keys[r]
      /\ W.kids[l] = V.kids[l] \o V.kids[r]
      /\ l \in V.leaves => W.vals[l] = V.vals[l] \o V.vals[r]
  BY <1>1 DEF Merges
<1>6. /\ T.ids = V.ids /\ T.root = V.root /\ T.leaves = V.leaves
      /\ \A n \in V.ids \ {p, l, r} : Same(V, T, n)
      /\ T.kids[p] = V.kids[p]
      /\ T.keys[r] = Tail(V.keys[r]) /\ T.next[l] = V.next[l] /\ T.next[r] = V.next[r]
  BY DEF PassedLeft
<1>7. ASSUME NEW e, T.keys[p] = [V.keys[p] EXCEPT ![i] = e]
      PROVE  ButAt(V.keys[p], T.keys[p], i) /\ T.keys[p][i] = e
  <2> DEFINE ks == V.keys[p]
  <2>1. ks \in Seq(Int) /\ i \in 1 .. Len(ks) /\ T.keys[p] = [ks EXCEPT ![i] = e]
    BY <1>2, <1>3, <1>7
  <2> HIDE DEF ks
  <2>2. ButAt(ks, [ks EXCEPT ![i] = e], i) /\ [ks EXCEPT ![i] = e][i] = e
    BY <2>1, PutAt
  <2>3. ButAt(ks, T.keys[p], i) /\ T.keys[p][i] = e
    BY <2>1, <2>2
  <2> QED BY <2>3 DEF ks
<1>8. CASE l \in V.leaves
  <2>1. d = 0
    BY <1>1, <1>8 DEF Kind
  <2>2. /\ T.keys[p] = [V.keys[p] EXCEPT ![i] = V.keys[r][2]]
        /\ T.keys[l] = AtEnd(V.keys[l], Head(V.keys[r]))
        /\ T.vals[r] = Tail(V.vals[r]) /\ T.vals[l] = AtEnd(V.vals[l], Head(V.vals[r]))
        /\ T.kids[l] = V.kids[l] /\ T.kids[r] = V.kids[r]
    BY <1>8 DEF PassedLeft
  <2>2a. ButAt(V.keys[p], T.keys[p], i) /\ T.keys[p][i] = V.keys[r][2]
    BY <2>2, <1>7
  <2>3. /\ Shared(V.keys[l] \o V.keys[r], V.keys[l], Head(V.keys[r]), Tail(V.keys[r]))
        /\ Tail(V.keys[r]) \in Seq(Int) /\ Head(V.keys[r]) \in Int
    BY <1>3, HeadShared
  <2>4. InParts(W.keys[l], T.keys[l], T.keys[r], 0, T.keys[p][i])
    <3>1. Shared(W.keys[l], V.keys[l], Head(V.keys[r]), Tail(V.keys[r]))
      BY <2>3, <1>5, <1>8
    <3>2. InParts(W.keys[l], AtEnd(V.keys[l], Head(V.keys[r])), Tail(V.keys[r]), 0, T.keys[p][i])
      BY <3>1, <2>3, <1>3, SharedAppend
    <3> QED BY <3>2, <2>2, <1>6
  <2>5. InParts(W.kids[l], T.kids[l], T.kids[r], 0, 0)
    BY <2>2, <1>3, <1>5, CatParts
  <2>6. /\ V.vals[l] \in Seq(RowIds) /\ V.vals[r] \in Seq(RowIds)
        /\ Len(V.vals[l]) = Len(V.keys[l]) /\ Len(V.vals[r]) = Len(V.keys[r])
        /\ Len(V.keys[l]) \in Nat /\ Len(V.keys[r]) \in Nat \ {0}
    BY <1>1, <1>2, <1>3, <1>8, LenProperties, EmptySeq DEF Plain
  <2>7. V.vals[r] # << >>
    BY <2>6
  <2>8. /\ Shared(V.vals[l] \o V.vals[r], V.vals[l], Head(V.vals[r]), Tail(V.vals[r]))
        /\ Tail(V.vals[r]) \in Seq(RowIds) /\ Head(V.vals[r]) \in RowIds
    BY <2>6, <2>7, HeadShared
  <2>9. InParts(W.vals[l], T.vals[l], T.vals[r], 0, 0)
    <3>1. Shared(W.vals[l], V.vals[l], Head(V.vals[r]), Tail(V.vals[r]))
      BY <2>8, <1>5, <1>8
    <3>2. V.vals[l] \in Seq(RowIds) /\ Tail(V.vals[r]) \in Seq(RowIds) /\ Head(V.vals[r]) \in RowIds
      BY <2>6, <2>8
    <3>3. InParts(W.vals[l], AtEnd(V.vals[l], Head(V.vals[r])), Tail(V.vals[r]), 0, 0)
      BY <3>1, <3>2, SharedAppend
    <3> QED BY <3>3, <2>2
  <2>10. Len(T.vals[l]) = Len(T.keys[l]) /\ Len(T.keys[l]) \in Nat
         /\ Len(T.keys[l]) = Len(V.keys[l]) + 1
    <3>1. Len(T.keys[l]) = Len(V.keys[l]) + 1
      BY <2>2, <2>3, <1>3, AppendProperties DEF AtEnd
    <3>2. Len(T.vals[l]) = Len(V.vals[l]) + 1
      <4>1. V.vals[l] \in Seq(RowIds) /\ Head(V.vals[r]) \in RowIds
        BY <2>6, <2>8
      <4>2. Len(AtEnd(V.vals[l], Head(V.vals[r]))) = Len(V.vals[l]) + 1
        BY <4>1, AppendProperties DEF AtEnd
      <4> QED BY <4>2, <2>2
    <3> QED BY <3>1, <3>2, <2>6
  <2>11. /\ Part(W.vals[l], T.vals[l], 0) /\ Part(W.vals[l], T.vals[r], Len(T.keys[l]))
    <3>1. Part(W.vals[l], T.vals[l], 0) /\ Part(W.vals[l], T.vals[r], Len(T.vals[l]) + 0)
      BY <2>9 DEF InParts
    <3>2. Len(T.vals[l]) + 0 = Len(T.keys[l])
      BY <2>10
    <3> QED BY <3>1, <3>2
  <2>12. Len(V.keys[r]) >= 2 => CutsLeaf(T, p, i, l, r, d)
    <3> HAVE Len(V.keys[r]) >= 2
    <3>1. Len(T.keys[l]) >= 1
      BY <2>6, <2>10
    <3>2. /\ Len(T.keys[r]) = Len(V.keys[r]) - 1
          /\ \A j \in 1 .. Len(V.keys[r]) - 1 : T.keys[r][j] = V.keys[r][j + 1]
      BY <1>3, <1>6, HeadTailProperties
    <3>3. Len(T.keys[r]) >= 1 /\ 1 \in 1 .. Len(V.keys[r]) - 1 /\ 1 + 1 = 2
      BY <3>2, <2>6
    <3>4. T.keys[r][1] = V.keys[r][2]
      BY <3>2, <3>3
    <3> QED BY <3>1, <3>3, <3>4, <2>2a DEF CutsLeaf
  <2> QED BY <2>1, <2>2a, <2>4, <2>5, <2>11, <2>12, <1>6 DEF Reshares
<1>9. CASE l \notin V.leaves
  <2>1. d = 1
    BY <1>1, <1>9 DEF Kind
  <2>2. /\ T.keys[p] = [V.keys[p] EXCEPT ![i] = Head(V.keys[r])]
        /\ T.keys[l] = AtEnd(V.keys[l], V.keys[p][i])
        /\ T.kids[r] = Tail(V.kids[r]) /\ T.kids[l] = AtEnd(V.kids[l], Head(V.kids[r]))
    BY <1>9 DEF PassedLeft
  <2>2a. ButAt(V.keys[p], T.keys[p], i) /\ T.keys[p][i] = Head(V.keys[r])
    BY <2>2, <1>7
  <2>3. InParts(W.keys[l], T.keys[l], T.keys[r], 1, T.keys[p][i])
    BY <2>2, <2>2a, <1>3, <1>4, <1>5, <1>6, <1>9, HeadBetween
  <2>4. Len(V.kids[r]) = Len(V.keys[r]) + 1 /\ Len(V.keys[r]) \in Nat
    BY <1>1, <1>2, <1>3, <1>9, LenProperties DEF Plain
  <2>5. V.kids[r] # << >>
    BY <2>4
  <2>6. /\ Shared(V.kids[l] \o V.kids[r], V.kids[l], Head(V.kids[r]), Tail(V.kids[r]))
        /\ Tail(V.kids[r]) \in Seq(V.ids) /\ Head(V.kids[r]) \in V.ids
    BY <2>5, <1>3, HeadShared
  <2>7. InParts(W.kids[l], T.kids[l], T.kids[r], 0, 0)
    BY <2>2, <2>6, <1>3, <1>5, SharedAppend
  <2> QED BY <2>1, <2>2a, <2>3, <2>7, <1>6, <1>9 DEF Reshares
<1> QED BY <1>8, <1>9

-----------------------------------------------------------------------------
(* Two nodes shared out over three *)

\* t is what s has behind its first o members, n of them.
Piece(s, t, o, n) == Len(t) = n /\ Part(s, t, o)

\* A subsequence is a piece of the sequence.
LEMMA SubPiece ==
  ASSUME NEW S, NEW s \in Seq(S), NEW o \in Nat, NEW n \in Nat, o + n <= Len(s),
         NEW u, NEW v, u = o + 1, v = o + n
  PROVE  SubSeq(s, u, v) \in Seq(S) /\ Piece(s, SubSeq(s, u, v), o, n)
<1>1. u \in Int /\ v \in Int /\ 1 <= u /\ u <= v + 1 /\ v <= Len(s) /\ v - u + 1 = n
  OBVIOUS
<1>2. /\ SubSeq(s, u, v) \in Seq(S) /\ Len(SubSeq(s, u, v)) = v - u + 1
      /\ \A j \in 1 .. v - u + 1 : SubSeq(s, u, v)[j] = s[u + j - 1]
  BY <1>1, SubFacts
<1>3. \A j \in 1 .. n : u + j - 1 = o + j
  OBVIOUS
<1> DEFINE t == SubSeq(s, u, v)
<1>4. /\ t \in Seq(S) /\ Len(t) = n /\ \A j \in 1 .. n : t[j] = s[u + j - 1]
  BY <1>1, <1>2
<1> HIDE DEF t
<1>5. Piece(s, t, o, n)
  BY <1>3, <1>4 DEF Piece, Part
<1> QED BY <1>4, <1>5 DEF t

\* s is x, y and z, with one member left out between them if d = 1.
InThreeParts(s, x, y, z, a, b, d) ==
  /\ a \in Nat /\ b \in Nat /\ d \in {0, 1} /\ a + d <= b /\ b + d <= Len(s)
  /\ Piece(s, x, 0, a) /\ Piece(s, y, a + d, b - a - d) /\ Piece(s, z, b + d, Len(s) - b - d)

\* Three parts are two, of which the first one has two.
LEMMA ThreeAreTwo ==
  ASSUME NEW S, NEW s \in Seq(S), NEW x, NEW y, NEW z, NEW a, NEW b, NEW d,
         InThreeParts(s, x, y, z, a, b, d), NEW w, Piece(s, w, 0, b)
  PROVE  InParts(s, w, z, d, s[b + 1]) /\ InParts(w, x, y, d, s[a + 1])
<1>1. /\ a \in Nat /\ b \in Nat /\ d \in {0, 1} /\ a + d <= b /\ b + d <= Len(s)
      /\ Len(x) = a /\ Len(y) = b - a - d /\ Len(z) = Len(s) - b - d /\ Len(w) = b
      /\ Len(s) \in Nat
  BY LenProperties DEF InThreeParts, Piece
<1>2. /\ Part(s, x, 0) /\ Part(s, y, a + d) /\ Part(s, z, b + d) /\ Part(s, w, 0)
  BY DEF InThreeParts, Piece
<1>3. InParts(s, w, z, d, s[b + 1])
  <2>1. Len(s) = b + d + (Len(s) - b - d)
    BY <1>1
  <2> QED BY <2>1, <1>1, <1>2 DEF InParts
<1>4. \A j \in 1 .. b : w[j] = s[j]
  <2>1. \A j \in 1 .. b : w[j] = s[0 + j] /\ 0 + j = j
    BY <1>1, <1>2 DEF Part
  <2> QED BY <2>1
<1>5. Part(w, x, 0)
  <2>1. \A j \in 1 .. a : x[j] = s[0 + j] /\ 0 + j = j /\ j \in 1 .. b
    BY <1>1, <1>2 DEF Part
  <2>2. \A j \in 1 .. a : x[j] = w[0 + j]
    BY <2>1, <1>4
  <2> QED BY <2>2, <1>1 DEF Part
<1>6. Part(w, y, a + d)
  <2>1. \A j \in 1 .. b - a - d : y[j] = s[a + d + j] /\ a + d + j \in 1 .. b
    BY <1>1, <1>2 DEF Part
  <2>2. \A j \in 1 .. b - a - d : y[j] = w[a + d + j]
    BY <2>1, <1>4
  <2> QED BY <2>2, <1>1 DEF Part
<1>7. d = 1 => w[a + 1] = s[a + 1]
  BY <1>1, <1>4
<1>8. b = a + d + (b - a - d)
  BY <1>1
<1> QED BY <1>1, <1>3, <1>5, <1>6, <1>7, <1>8 DEF InParts

\* x stays the one child it was.
LEMMA PartedOnce ==
  ASSUME NEW W, NEW T, Plain(W), Plain(T), NEW p, NEW i, NEW x, NEW y, NEW d,
         Parted(W, T, p, i, x, y, d), Once(W, p, i, x)
  PROVE  Once(T, p, i, x)
<1>1. IdsParted(W, T, p, i, x, y) /\ KidsParted(W, T, p, i, x, y)
  BY PartedIds, PartedKids
<1>2. /\ p \in W.ids /\ x \in W.ids /\ x # p /\ y # p /\ y # x /\ y \notin W.ids
      /\ T.ids = W.ids \cup {y} /\ T.root = W.root /\ i \in 1 .. Len(W.kids[p])
  BY <1>1 DEF IdsParted
<1>3. /\ x # W.root
      /\ \A n \in W.ids : \A j \in 1 .. Len(W.kids[n]) : W.kids[n][j] = x => n = p /\ j = i
  BY DEF Once
<1>4. /\ Len(T.kids[p]) = Len(W.kids[p]) + 1 /\ T.kids[p][i + 1] = y
      /\ \A j \in 1 .. i : T.kids[p][j] = W.kids[p][j]
      /\ \A j \in i + 2 .. Len(W.kids[p]) + 1 : T.kids[p][j] = W.kids[p][j - 1]
      /\ Len(W.kids[x]) = Len(T.kids[x]) + Len(T.kids[y])
      /\ \A j \in 1 .. Len(T.kids[x]) : T.kids[x][j] = W.kids[x][j]
      /\ \A j \in 1 .. Len(T.kids[y]) : T.kids[y][j] = W.kids[x][Len(T.kids[x]) + j]
      /\ \A n \in W.ids \ {p, x} : T.kids[n] = W.kids[n]
  BY <1>1 DEF KidsParted
<1>5. /\ Len(T.kids[x]) \in Nat /\ Len(T.kids[y]) \in Nat /\ Len(W.kids[p]) \in Nat
  BY <1>2, PlainFacts
<1>6. ASSUME NEW n \in T.ids, NEW j \in 1 .. Len(T.kids[n]), T.kids[n][j] = x
      PROVE  n = p /\ j = i
  <2>1. CASE n = p
    <3>1. CASE j <= i
      <4>1. j \in 1 .. i /\ j \in 1 .. Len(W.kids[p])
        BY <2>1, <3>1, <1>2, <1>5
      <4> QED BY <4>1, <2>1, <1>2, <1>3, <1>4, <1>6
    <3>2. CASE j = i + 1
      BY <2>1, <3>2, <1>2, <1>4, <1>6
    <3>3. CASE j > i + 1
      <4>1. j \in i + 2 .. Len(W.kids[p]) + 1 /\ j - 1 \in 1 .. Len(W.kids[p]) /\ j - 1 # i
        BY <2>1, <3>3, <1>2, <1>4, <1>5
      <4>2. W.kids[p][j - 1] = x
        BY <4>1, <2>1, <1>4, <1>6
      <4> QED BY <4>1, <4>2, <1>2, <1>3
    <3> QED BY <3>1, <3>2, <3>3, <2>1, <1>2
  <2>2. CASE n = x
    <3> DEFINE a == Len(T.kids[x])
               b == Len(T.kids[y])
    <3>1. a \in Nat /\ b \in Nat /\ j \in 1 .. a
      BY <2>2, <1>5
    <3>2. Len(W.kids[x]) = a + b
      BY <1>4
    <3> HIDE DEF a, b
    <3>3. j \in 1 .. Len(W.kids[x])
      BY <3>1, <3>2
    <3>4. W.kids[x][j] = x
      BY <2>2, <1>4, <1>6
    <3> QED BY <3>3, <3>4, <2>2, <1>2, <1>3
  <2>3. CASE n = y
    <3> DEFINE a == Len(T.kids[x])
               b == Len(T.kids[y])
    <3>1. a \in Nat /\ b \in Nat /\ j \in 1 .. b
      BY <2>3, <1>5
    <3>2. Len(W.kids[x]) = a + b
      BY <1>4
    <3>3. W.kids[x][a + j] = x
      BY <2>3, <1>4, <1>6
    <3> HIDE DEF a, b
    <3>4. a + j \in 1 .. Len(W.kids[x])
      BY <3>1, <3>2
    <3> QED BY <3>3, <3>4, <1>2, <1>3
  <2>4. CASE n \notin {p, x, y}
    <3>1. n \in W.ids \ {p, x}
      BY <2>4, <1>2
    <3> QED BY <3>1, <1>3, <1>4, <1>6
  <2> QED BY <2>1, <2>2, <2>3, <2>4
<1> QED BY <1>2, <1>3, <1>6 DEF Once

\* T is V with the merged l of W cut in three: l, the new node m, and r.
CutThree(T, W, V, p, i, l, m, r, d, a, b) ==
  /\ m \notin V.ids /\ T.ids = V.ids \cup {m} /\ T.root = V.root
  /\ T.leaves = IF l \in V.leaves THEN V.leaves \cup {m} ELSE V.leaves
  /\ \A n \in V.ids \ {p, l, r} : Same(V, T, n)
  /\ T.keys[p] = InsertAt([V.keys[p] EXCEPT ![i] = W.keys[l][b + 1]], i, W.keys[l][a + 1])
  /\ T.kids[p] = InsertAt(V.kids[p], i + 1, m)
  /\ InThreeParts(W.keys[l], T.keys[l], T.keys[m], T.keys[r], a, b, d)
  /\ b < Len(W.keys[l])
  /\ d = 1 => InThreeParts(W.kids[l], T.kids[l], T.kids[m], T.kids[r], a + 1, b + 1, 0)
  /\ d = 0 => /\ a >= 1 /\ a < b
              /\ InThreeParts(W.vals[l], T.vals[l], T.vals[m], T.vals[r], a, b, 0)
              /\ T.next[l] = m /\ T.next[m] = r /\ T.next[r] = V.next[r]

\* The tree between: l has what l and m get.
Halved(H, T, W, V, p, i, l, r, d, b) ==
  /\ H.ids = V.ids /\ H.root = V.root /\ H.leaves = V.leaves
  /\ \A n \in V.ids \ {p, l} : Same(T, H, n)
  /\ H.keys[p] = [V.keys[p] EXCEPT ![i] = W.keys[l][b + 1]] /\ H.kids[p] = V.kids[p]
  /\ H.keys[l] \in Seq(Int) /\ Piece(W.keys[l], H.keys[l], 0, b)
  /\ d = 1 => H.kids[l] \in Seq(W.ids) /\ Piece(W.kids[l], H.kids[l], 0, b + 1)
  /\ d = 0 => /\ H.kids[l] \in Seq(W.ids) /\ Len(H.kids[l]) = 0
              /\ Piece(W.vals[l], H.vals[l], 0, b) /\ H.next[l] = r

\* The tree between: merged, and cut in two at b.
Halfway(T, W, V, p, i, l, r, d, b) ==
  [ids |-> V.ids, root |-> V.root, leaves |-> V.leaves,
   keys |-> [n \in V.ids |-> IF n = p THEN [V.keys[p] EXCEPT ![i] = W.keys[l][b + 1]]
                             ELSE IF n = l THEN SubSeq(W.keys[l], 1, b) ELSE T.keys[n]],
   vals |-> [n \in V.ids |-> IF n = l THEN SubSeq(W.vals[l], 1, b) ELSE T.vals[n]],
   kids |-> [n \in V.ids |-> IF n = p THEN V.kids[p]
                             ELSE IF n # l THEN T.kids[n]
                             ELSE IF d = 1 THEN SubSeq(W.kids[l], 1, b + 1) ELSE << >>],
   next |-> [n \in V.ids |-> IF n = l THEN r ELSE T.next[n]]]

\* What is known of the three trees.
LEMMA ThreeTrees ==
  ASSUME NEW W, NEW V, NEW p, NEW i, NEW l, NEW r, NEW d, Mergeable(W, V, p, i, l, r, d),
         NEW T, Plain(T), NEW m, NEW a, NEW b, CutThree(T, W, V, p, i, l, m, r, d, a, b)
  PROVE  /\ p \in V.ids \ V.leaves /\ l \in V.ids /\ r \in V.ids /\ l # p /\ r # p /\ l # r
         /\ i \in 1 .. Len(V.keys[p]) /\ V.kids[p][i] = l
         /\ V.keys[p] \in Seq(Int) /\ V.kids[p] \in Seq(V.ids)
         /\ Len(V.kids[p]) = Len(V.keys[p]) + 1 /\ Len(V.keys[p]) \in Nat
         /\ l \in W.ids /\ W.ids = V.ids \ {r} /\ W.keys[l] \in Seq(Int) /\ W.kids[l] \in Seq(W.ids)
         /\ d \in {0, 1} /\ (d = 0 <=> l \in V.leaves) /\ (l \in V.leaves <=> r \in V.leaves)
         /\ d = 0 => /\ W.vals[l] \in Seq(RowIds) /\ Len(W.vals[l]) = Len(W.keys[l])
                     /\ Len(W.kids[l]) = 0
         /\ d = 1 => Len(W.kids[l]) = Len(W.keys[l]) + 1
         /\ a \in Nat /\ b \in Nat /\ a <= b /\ b < Len(W.keys[l]) /\ Len(W.keys[l]) \in Nat
         /\ W.keys[l][b + 1] \in Int /\ W.keys[l][a + 1] \in Int
         /\ m \notin V.ids
         /\ Plain(V) /\ Plain(W)
<1>1. /\ Plain(V) /\ Plain(W) /\ Siblings(V, p, i, l, r) /\ Kind(V, l, d)
      /\ Merges(W, V, p, i, l, r)
      /\ l \in V.leaves => V.vals[l] \in Seq(RowIds) /\ V.vals[r] \in Seq(RowIds)
  BY DEF Mergeable
<1>2. /\ p \in V.ids \ V.leaves /\ l \in V.ids /\ r \in V.ids /\ l # p /\ r # p /\ l # r
      /\ i \in 1 .. Len(V.keys[p]) /\ V.kids[p][i] = l /\ (l \in V.leaves <=> r \in V.leaves)
  BY <1>1 DEF Siblings
<1>3. /\ W.ids = V.ids \ {r} /\ W.leaves = V.leaves \ {r}
      /\ l \in V.leaves => W.vals[l] = V.vals[l] \o V.vals[r]
  BY <1>1 DEF Merges
<1>4. l \in W.ids /\ (l \in W.leaves <=> l \in V.leaves)
  BY <1>2, <1>3
<1>5. /\ V.keys[p] \in Seq(Int) /\ V.kids[p] \in Seq(V.ids)
      /\ Len(V.kids[p]) = Len(V.keys[p]) + 1 /\ Len(V.keys[p]) \in Nat
  BY <1>1, <1>2, LenProperties DEF Plain
<1>6. W.keys[l] \in Seq(Int) /\ W.kids[l] \in Seq(W.ids) /\ Len(W.keys[l]) \in Nat
  BY <1>1, <1>4, LenProperties DEF Plain
<1>7. d \in {0, 1} /\ (d = 0 <=> l \in V.leaves)
  BY <1>1 DEF Kind
<1>8. /\ l \in W.leaves => Len(W.kids[l]) = 0 /\ Len(W.vals[l]) = Len(W.keys[l])
      /\ l \notin W.leaves => Len(W.kids[l]) = Len(W.keys[l]) + 1
  BY <1>1, <1>4 DEF Plain
<1>9. l \in V.leaves => W.vals[l] \in Seq(RowIds)
  <2> HAVE l \in V.leaves
  <2>1. V.vals[l] \in Seq(RowIds) /\ V.vals[r] \in Seq(RowIds)
    BY <1>1
  <2>2. V.vals[l] \o V.vals[r] \in Seq(RowIds)
    BY <2>1, ConcatProperties
  <2> QED BY <2>2, <1>3
<1>10. m \notin V.ids /\ b < Len(W.keys[l]) /\ a \in Nat /\ b \in Nat /\ a + d <= b
  BY DEF CutThree, InThreeParts
<1>11. /\ a <= b /\ b + 1 \in 1 .. Len(W.keys[l]) /\ a + 1 \in 1 .. Len(W.keys[l])
  BY <1>6, <1>7, <1>10
<1>12. W.keys[l][b + 1] \in Int /\ W.keys[l][a + 1] \in Int
  BY <1>6, <1>11, ElementOfSeq
<1>13. d = 0 => /\ W.vals[l] \in Seq(RowIds) /\ Len(W.vals[l]) = Len(W.keys[l])
                /\ Len(W.kids[l]) = 0
  BY <1>4, <1>7, <1>8, <1>9
<1>14. d = 1 => Len(W.kids[l]) = Len(W.keys[l]) + 1
  BY <1>4, <1>7, <1>8
<1> QED BY <1>1, <1>2, <1>3, <1>4, <1>5, <1>6, <1>7, <1>10, <1>11, <1>12, <1>13, <1>14

\* The tree between is the merged one cut in two.
LEMMA HalfwayHalved ==
  ASSUME NEW W, NEW V, NEW p, NEW i, NEW l, NEW r, NEW d, Mergeable(W, V, p, i, l, r, d),
         NEW T, Plain(T), NEW m, NEW a, NEW b, CutThree(T, W, V, p, i, l, m, r, d, a, b),
         NEW H, H = Halfway(T, W, V, p, i, l, r, d, b)
  PROVE  Halved(H, T, W, V, p, i, l, r, d, b)
<1>1. /\ p \in V.ids \ V.leaves /\ l \in V.ids /\ r \in V.ids /\ l # p /\ r # p /\ l # r
      /\ l \in W.ids /\ W.keys[l] \in Seq(Int) /\ W.kids[l] \in Seq(W.ids)
      /\ d \in {0, 1}
      /\ d = 0 => W.vals[l] \in Seq(RowIds) /\ Len(W.vals[l]) = Len(W.keys[l])
      /\ d = 1 => Len(W.kids[l]) = Len(W.keys[l]) + 1
      /\ b \in Nat /\ b < Len(W.keys[l]) /\ Len(W.keys[l]) \in Nat
  BY ThreeTrees
<1>2. /\ H.ids = V.ids /\ H.root = V.root /\ H.leaves = V.leaves
      /\ \A n \in V.ids : H.keys[n] = IF n = p THEN [V.keys[p] EXCEPT ![i] = W.keys[l][b + 1]]
                             ELSE IF n = l THEN SubSeq(W.keys[l], 1, b) ELSE T.keys[n]
      /\ \A n \in V.ids : H.vals[n] = IF n = l THEN SubSeq(W.vals[l], 1, b) ELSE T.vals[n]
      /\ \A n \in V.ids : H.kids[n] = IF n = p THEN V.kids[p]
                             ELSE IF n # l THEN T.kids[n]
                             ELSE IF d = 1 THEN SubSeq(W.kids[l], 1, b + 1) ELSE << >>
      /\ \A n \in V.ids : H.next[n] = IF n = l THEN r ELSE T.next[n]
  BY DEF Halfway
<1>3. \A n \in V.ids \ {p, l} : Same(T, H, n)
  BY <1>2 DEF Same
<1>4. H.keys[p] = [V.keys[p] EXCEPT ![i] = W.keys[l][b + 1]] /\ H.kids[p] = V.kids[p]
  BY <1>1, <1>2
<1>5. H.keys[l] \in Seq(Int) /\ Piece(W.keys[l], H.keys[l], 0, b)
  <2>1. 0 + b <= Len(W.keys[l]) /\ 1 = 0 + 1 /\ b = 0 + b
    BY <1>1
  <2>2. SubSeq(W.keys[l], 1, b) \in Seq(Int) /\ Piece(W.keys[l], SubSeq(W.keys[l], 1, b), 0, b)
    BY <2>1, <1>1, SubPiece
  <2>3. H.keys[l] = SubSeq(W.keys[l], 1, b)
    BY <1>1, <1>2
  <2> QED BY <2>2, <2>3
<1>6. d = 1 => H.kids[l] \in Seq(W.ids) /\ Piece(W.kids[l], H.kids[l], 0, b + 1)
  <2> HAVE d = 1
  <2> DEFINE c == b + 1
  <2>1. c \in Nat /\ 0 + c <= Len(W.kids[l]) /\ 1 = 0 + 1 /\ c = 0 + c
    BY <1>1
  <2>2. H.kids[l] = SubSeq(W.kids[l], 1, c)
    BY <1>1, <1>2
  <2> HIDE DEF c
  <2>3. SubSeq(W.kids[l], 1, c) \in Seq(W.ids) /\ Piece(W.kids[l], SubSeq(W.kids[l], 1, c), 0, c)
    BY <2>1, <1>1, SubPiece
  <2>4. H.kids[l] \in Seq(W.ids) /\ Piece(W.kids[l], H.kids[l], 0, c)
    BY <2>2, <2>3
  <2> QED BY <2>4 DEF c
<1>7. d = 0 => /\ H.kids[l] \in Seq(W.ids) /\ Len(H.kids[l]) = 0
               /\ Piece(W.vals[l], H.vals[l], 0, b) /\ H.next[l] = r
  <2> HAVE d = 0
  <2>1. H.kids[l] = << >>
    BY <1>1, <1>2
  <2>2. << >> \in Seq(W.ids) /\ Len(<< >>) = 0
    BY EmptySeq
  <2>3. 0 + b <= Len(W.vals[l]) /\ 1 = 0 + 1 /\ b = 0 + b
    BY <1>1
  <2>4. Piece(W.vals[l], SubSeq(W.vals[l], 1, b), 0, b)
    BY <2>3, <1>1, SubPiece
  <2>5. H.vals[l] = SubSeq(W.vals[l], 1, b) /\ H.next[l] = r
    BY <1>1, <1>2
  <2> QED BY <2>1, <2>2, <2>4, <2>5
<1> QED BY <1>2, <1>3, <1>4, <1>5, <1>6, <1>7 DEF Halved

\* The tree between is a plain one.
LEMMA HalvedPlain ==
  ASSUME NEW W, NEW V, NEW p, NEW i, NEW l, NEW r, NEW d, Mergeable(W, V, p, i, l, r, d),
         NEW T, Plain(T), NEW m, NEW a, NEW b, CutThree(T, W, V, p, i, l, m, r, d, a, b),
         NEW H, Halved(H, T, W, V, p, i, l, r, d, b)
  PROVE  Plain(H)
<1>1. /\ p \in V.ids \ V.leaves /\ l \in V.ids /\ r \in V.ids /\ l # p /\ r # p /\ l # r
      /\ i \in 1 .. Len(V.keys[p])
      /\ V.keys[p] \in Seq(Int) /\ V.kids[p] \in Seq(V.ids)
      /\ Len(V.kids[p]) = Len(V.keys[p]) + 1 /\ Len(V.keys[p]) \in Nat
      /\ l \in W.ids /\ W.ids = V.ids \ {r}
      /\ d \in {0, 1} /\ (d = 0 <=> l \in V.leaves) /\ (l \in V.leaves <=> r \in V.leaves)
      /\ b \in Nat /\ b < Len(W.keys[l]) /\ Len(W.keys[l]) \in Nat
      /\ W.keys[l][b + 1] \in Int /\ m \notin V.ids /\ Plain(V) /\ W.kids[l] \in Seq(W.ids)
  BY ThreeTrees
<1>2. /\ V.root \in V.ids /\ NullPage \notin V.ids /\ V.leaves \subseteq V.ids
      /\ \A n \in V.ids : V.kids[n] \in Seq(V.ids)
  BY <1>1 DEF Plain
<1>3. /\ \A n \in T.ids : T.keys[n] \in Seq(Int) /\ T.kids[n] \in Seq(T.ids)
      /\ \A n \in T.leaves : Len(T.kids[n]) = 0 /\ Len(T.vals[n]) = Len(T.keys[n])
      /\ \A n \in T.ids \ T.leaves : Len(T.kids[n]) = Len(T.keys[n]) + 1
  BY DEF Plain
<1>4. /\ T.ids = V.ids \cup {m} /\ T.leaves = IF l \in V.leaves THEN V.leaves \cup {m} ELSE V.leaves
      /\ \A n \in V.ids \ {p, l, r} : Same(V, T, n)
      /\ d = 1 => InThreeParts(W.kids[l], T.kids[l], T.kids[m], T.kids[r], a + 1, b + 1, 0)
  BY DEF CutThree
<1>5. /\ H.ids = V.ids /\ H.root = V.root /\ H.leaves = V.leaves
      /\ \A n \in V.ids \ {p, l} : Same(T, H, n)
      /\ H.keys[p] = [V.keys[p] EXCEPT ![i] = W.keys[l][b + 1]] /\ H.kids[p] = V.kids[p]
      /\ H.keys[l] \in Seq(Int) /\ Piece(W.keys[l], H.keys[l], 0, b)
      /\ d = 1 => H.kids[l] \in Seq(W.ids) /\ Piece(W.kids[l], H.kids[l], 0, b + 1)
      /\ d = 0 => /\ H.kids[l] \in Seq(W.ids) /\ Len(H.kids[l]) = 0
                  /\ Piece(W.vals[l], H.vals[l], 0, b)
  BY DEF Halved
<1>6. \A n \in V.ids : n \in T.ids /\ (n \in T.leaves <=> n \in V.leaves)
  BY <1>1, <1>4
<1>7. \A n \in V.ids \ {p, l} : H.keys[n] = T.keys[n] /\ H.kids[n] = T.kids[n] /\ H.vals[n] = T.vals[n]
  BY <1>5 DEF Same
<1>8. H.keys[p] \in Seq(Int) /\ Len(H.keys[p]) = Len(V.keys[p])
  <2> DEFINE ks == V.keys[p]
             e == W.keys[l][b + 1]
  <2>1. ks \in Seq(Int) /\ e \in Int /\ i \in 1 .. Len(ks) /\ H.keys[p] = [ks EXCEPT ![i] = e]
    BY <1>1, <1>5
  <2> HIDE DEF ks, e
  <2>2. [ks EXCEPT ![i] = e] \in Seq(Int) /\ Len([ks EXCEPT ![i] = e]) = Len(ks)
    BY <2>1, ExceptSeq
  <2>3. H.keys[p] \in Seq(Int) /\ Len(H.keys[p]) = Len(ks)
    BY <2>1, <2>2
  <2> QED BY <2>3 DEF ks
<1>9. T.kids[r] \in Seq(V.ids)
  <2>1. T.kids[r] \in Seq(T.ids)
    BY <1>1, <1>3, <1>6
  <2>2. \A j \in 1 .. Len(T.kids[r]) : T.kids[r][j] \in V.ids
    <3>1. CASE d = 0
      <4>1. Len(T.kids[r]) = 0
        BY <3>1, <1>1, <1>3, <1>6
      <4> QED BY <4>1
    <3>2. CASE d = 1
      <4> DEFINE c == b + 1
                 cs == W.kids[l]
      <4>1. Piece(cs, T.kids[r], c + 0, Len(cs) - c - 0)
        BY <3>2, <1>4 DEF InThreeParts
      <4>2. c \in Nat /\ cs \in Seq(W.ids) /\ Len(cs) \in Nat
        BY <1>1, LenProperties
      <4> HIDE DEF c, cs
      <4>3. /\ Len(T.kids[r]) = Len(cs) - c
            /\ \A j \in 1 .. Len(T.kids[r]) : T.kids[r][j] = cs[c + 0 + j]
        BY <4>1, <4>2 DEF Piece, Part
      <4>4. \A j \in 1 .. Len(cs) - c : c + 0 + j \in 1 .. Len(cs)
        BY <4>2
      <4>5. \A j \in 1 .. Len(cs) : cs[j] \in V.ids
        BY <4>2, <1>1, ElementOfSeq
      <4> QED BY <4>3, <4>4, <4>5
    <3> QED BY <3>1, <3>2, <1>1
  <2> QED BY <2>1, <2>2, SeqInto
<1>10. H.kids[l] \in Seq(V.ids)
  <2>1. H.kids[l] \in Seq(W.ids)
    BY <1>1, <1>5
  <2>2. \A j \in 1 .. Len(H.kids[l]) : H.kids[l][j] \in V.ids
    BY <2>1, <1>1, ElementOfSeq
  <2> QED BY <2>1, <2>2, SeqInto
<1>11. \A n \in V.ids : H.keys[n] \in Seq(Int) /\ H.kids[n] \in Seq(V.ids)
  <2> TAKE n \in V.ids
  <2>1. CASE n = p
    BY <2>1, <1>1, <1>5, <1>8
  <2>2. CASE n = l
    BY <2>2, <1>5, <1>10
  <2>3. CASE n = r
    BY <2>3, <1>1, <1>3, <1>6, <1>7, <1>9
  <2>4. CASE n \notin {p, l, r}
    <3>1. T.kids[n] = V.kids[n]
      BY <2>4, <1>4 DEF Same
    <3> QED BY <3>1, <2>4, <1>2, <1>3, <1>6, <1>7
  <2> QED BY <2>1, <2>2, <2>3, <2>4
<1>12. \A n \in V.leaves : Len(H.kids[n]) = 0 /\ Len(H.vals[n]) = Len(H.keys[n])
  <2> TAKE n \in V.leaves
  <2>1. n # p /\ n \in V.ids /\ n \in T.leaves
    BY <1>1, <1>2, <1>6
  <2>2. CASE n = l
    BY <2>2, <1>1, <1>5 DEF Piece
  <2>3. CASE n # l
    BY <2>1, <2>3, <1>3, <1>7
  <2> QED BY <2>2, <2>3
<1>13. \A n \in V.ids \ V.leaves : Len(H.kids[n]) = Len(H.keys[n]) + 1
  <2> TAKE n \in V.ids \ V.leaves
  <2>1. n \in T.ids \ T.leaves
    BY <1>6
  <2>2. CASE n = l
    BY <2>2, <1>1, <1>5 DEF Piece
  <2>3. CASE n = p
    BY <2>3, <1>1, <1>5, <1>8
  <2>4. CASE n # l /\ n # p
    BY <2>1, <2>4, <1>3, <1>7
  <2> QED BY <2>2, <2>3, <2>4
<1> QED BY <1>2, <1>5, <1>11, <1>12, <1>13 DEF Plain

\* It is a way to share out what the two neighbours hold,
LEMMA HalvedReshares ==
  ASSUME NEW W, NEW V, NEW p, NEW i, NEW l, NEW r, NEW d, Mergeable(W, V, p, i, l, r, d),
         NEW T, Plain(T), NEW m, NEW a, NEW b, CutThree(T, W, V, p, i, l, m, r, d, a, b),
         NEW H, Halved(H, T, W, V, p, i, l, r, d, b)
  PROVE  /\ Reshares(H, W, V, p, i, l, r, d) /\ CutsLeaf(H, p, i, l, r, d)
         /\ d = 0 => H.next[l] = r
<1>1. /\ p \in V.ids /\ l \in V.ids /\ r \in V.ids /\ l # p /\ r # p /\ l # r
      /\ i \in 1 .. Len(V.keys[p]) /\ V.keys[p] \in Seq(Int)
      /\ l \in W.ids /\ W.keys[l] \in Seq(Int) /\ W.kids[l] \in Seq(W.ids)
      /\ d \in {0, 1} /\ (d = 0 <=> l \in V.leaves) /\ (l \in V.leaves <=> r \in V.leaves)
      /\ d = 0 => /\ W.vals[l] \in Seq(RowIds) /\ Len(W.vals[l]) = Len(W.keys[l])
                  /\ Len(W.kids[l]) = 0
      /\ b \in Nat /\ b < Len(W.keys[l]) /\ Len(W.keys[l]) \in Nat /\ m \notin V.ids
  BY ThreeTrees
<1>2. /\ T.ids = V.ids \cup {m} /\ T.leaves = IF l \in V.leaves THEN V.leaves \cup {m} ELSE V.leaves
      /\ \A n \in V.ids \ {p, l, r} : Same(V, T, n)
      /\ InThreeParts(W.keys[l], T.keys[l], T.keys[m], T.keys[r], a, b, d)
      /\ d = 1 => InThreeParts(W.kids[l], T.kids[l], T.kids[m], T.kids[r], a + 1, b + 1, 0)
      /\ d = 0 => /\ InThreeParts(W.vals[l], T.vals[l], T.vals[m], T.vals[r], a, b, 0)
                  /\ a >= 1 /\ a < b /\ T.next[r] = V.next[r]
  BY DEF CutThree
<1>3. /\ H.ids = V.ids /\ H.root = V.root /\ H.leaves = V.leaves
      /\ \A n \in V.ids \ {p, l} : Same(T, H, n)
      /\ H.keys[p] = [V.keys[p] EXCEPT ![i] = W.keys[l][b + 1]] /\ H.kids[p] = V.kids[p]
      /\ H.keys[l] \in Seq(Int) /\ Piece(W.keys[l], H.keys[l], 0, b)
      /\ d = 1 => H.kids[l] \in Seq(W.ids) /\ Piece(W.kids[l], H.kids[l], 0, b + 1)
      /\ d = 0 => /\ Len(H.kids[l]) = 0
                  /\ Piece(W.vals[l], H.vals[l], 0, b) /\ H.next[l] = r
  BY DEF Halved
<1>4. /\ H.keys[r] = T.keys[r] /\ H.kids[r] = T.kids[r] /\ H.vals[r] = T.vals[r]
      /\ H.next[r] = T.next[r]
  BY <1>1, <1>3 DEF Same
<1>5. \A n \in V.ids \ {p, l, r} : Same(V, H, n)
  BY <1>2, <1>3 DEF Same
<1>6. ButAt(V.keys[p], H.keys[p], i) /\ H.keys[p][i] = W.keys[l][b + 1]
  <2> DEFINE ks == V.keys[p]
             e == W.keys[l][b + 1]
  <2>1. ks \in Seq(Int) /\ i \in 1 .. Len(ks) /\ H.keys[p] = [ks EXCEPT ![i] = e]
    BY <1>1, <1>3
  <2> HIDE DEF ks, e
  <2>2. ButAt(ks, [ks EXCEPT ![i] = e], i) /\ [ks EXCEPT ![i] = e][i] = e
    BY <2>1, PutAt
  <2>3. ButAt(ks, H.keys[p], i) /\ H.keys[p][i] = e
    BY <2>1, <2>2
  <2> QED BY <2>3 DEF ks, e
<1>7. InParts(W.keys[l], H.keys[l], H.keys[r], d, H.keys[p][i])
  <2>1. InParts(W.keys[l], H.keys[l], T.keys[r], d, W.keys[l][b + 1])
    BY <1>1, <1>2, <1>3, ThreeAreTwo
  <2> QED BY <2>1, <1>4, <1>6
<1>8. InParts(W.kids[l], H.kids[l], H.kids[r], 0, 0)
  <2>1. CASE d = 0
    <3>1. Len(T.kids[r]) = 0
      <4>1. r \in T.leaves
        BY <2>1, <1>1, <1>2
      <4> QED BY <4>1 DEF Plain
    <3>2. /\ Len(W.kids[l]) = 0 /\ Len(H.kids[l]) = 0 /\ Len(H.kids[r]) = 0
      BY <3>1, <2>1, <1>1, <1>3, <1>4
    <3> QED BY <3>2 DEF InParts, Part
  <2>2. CASE d = 1
    <3> DEFINE c == b + 1
    <3>1. /\ InThreeParts(W.kids[l], T.kids[l], T.kids[m], T.kids[r], a + 1, c, 0)
          /\ Piece(W.kids[l], H.kids[l], 0, c)
      BY <2>2, <1>2, <1>3
    <3> HIDE DEF c
    <3>2. InParts(W.kids[l], H.kids[l], T.kids[r], 0, W.kids[l][c + 1])
      BY <3>1, <1>1, ThreeAreTwo
    <3> QED BY <3>2, <1>4 DEF InParts
  <2> QED BY <2>1, <2>2, <1>1
<1>9. d = 0 => /\ H.next[r] = V.next[r]
               /\ Part(W.vals[l], H.vals[l], 0) /\ Part(W.vals[l], H.vals[r], Len(H.keys[l]))
  <2> HAVE d = 0
  <2>1. InParts(W.vals[l], H.vals[l], T.vals[r], 0, W.vals[l][b + 1])
    BY <1>1, <1>2, <1>3, ThreeAreTwo
  <2>2. Part(W.vals[l], H.vals[l], 0) /\ Part(W.vals[l], H.vals[r], Len(H.vals[l]) + 0)
    BY <2>1, <1>4 DEF InParts
  <2>3. Len(H.vals[l]) + 0 = Len(H.keys[l])
    BY <1>1, <1>3 DEF Piece
  <2> QED BY <2>2, <2>3, <1>2, <1>4
<1>10. CutsLeaf(H, p, i, l, r, d)
  <2>1. CASE d = 0
    <3>1. Piece(W.keys[l], T.keys[r], b + 0, Len(W.keys[l]) - b - 0)
      BY <2>1, <1>2 DEF InThreeParts
    <3>2. Len(T.keys[r]) = Len(W.keys[l]) - b - 0
      BY <3>1 DEF Piece
    <3>3. 1 \in 1 .. Len(T.keys[r]) /\ b + 0 + 1 = b + 1 /\ Len(T.keys[r]) >= 1
      BY <3>2, <1>1
    <3>4. T.keys[r][1] = W.keys[l][b + 0 + 1]
      BY <3>1, <3>3 DEF Piece, Part
    <3>5. Len(H.keys[l]) >= 1
      <4>1. a \in Nat /\ Len(H.keys[l]) = b
        BY <1>2, <1>3 DEF InThreeParts, Piece
      <4> QED BY <4>1, <2>1, <1>1, <1>2
    <3> QED BY <3>3, <3>4, <3>5, <1>4, <1>6 DEF CutsLeaf
  <2>2. CASE d = 1
    BY <2>2 DEF CutsLeaf
  <2> QED BY <2>1, <2>2, <1>1
<1> QED BY <1>3, <1>5, <1>6, <1>7, <1>8, <1>9, <1>10 DEF Reshares

\* Inserting at a place leaves the rest in order.
LEMMA InsertPuts ==
  ASSUME NEW S, NEW s \in Seq(S), NEW e \in S, NEW i \in 1 .. Len(s) + 1,
         NEW t, t = InsertAt(s, i, e)
  PROVE  PutIn(s, t, i, e) /\ t[i] = e
<1>1. /\ Len(t) = Len(s) + 1 /\ t[i] = e
      /\ \A j \in 1 .. i - 1 : t[j] = s[j]
      /\ \A j \in i + 1 .. Len(s) + 1 : t[j] = s[j - 1]
  BY InsertAtFacts
<1>2. Len(s) \in Nat
  BY LenProperties
<1>3. \A j \in 1 .. Len(s) : t[IF j < i THEN j ELSE j + 1] = s[j]
  <2> TAKE j \in 1 .. Len(s)
  <2>1. CASE j < i
    <3>1. j \in 1 .. i - 1
      BY <2>1, <1>2
    <3> QED BY <2>1, <3>1, <1>1
  <2>2. CASE ~(j < i)
    <3>1. j + 1 \in i + 1 .. Len(s) + 1 /\ j + 1 - 1 = j
      BY <2>2, <1>2
    <3>2. t[j + 1] = s[j + 1 - 1]
      BY <3>1, <1>1
    <3> QED BY <2>2, <3>1, <3>2
  <2> QED BY <2>1, <2>2
<1> QED BY <1>1, <1>3 DEF PutIn

\* and the tree after the split is it with its first part cut again.
LEMMA HalvedParted ==
  ASSUME NEW W, NEW V, NEW p, NEW i, NEW l, NEW r, NEW d, Mergeable(W, V, p, i, l, r, d),
         NEW T, Plain(T), NEW m, NEW a, NEW b, CutThree(T, W, V, p, i, l, m, r, d, a, b),
         NEW H, Halved(H, T, W, V, p, i, l, r, d, b)
  PROVE  /\ Parted(H, T, p, i, l, m, d) /\ CutsLeaf(T, p, i, l, m, d)
         /\ d = 0 => T.next[l] = m
<1>1. /\ p \in V.ids \ V.leaves /\ l \in V.ids /\ r \in V.ids /\ l # p /\ r # p /\ l # r
      /\ i \in 1 .. Len(V.keys[p]) /\ V.keys[p] \in Seq(Int) /\ V.kids[p][i] = l
      /\ V.kids[p] \in Seq(V.ids) /\ Len(V.kids[p]) = Len(V.keys[p]) + 1 /\ Len(V.keys[p]) \in Nat
      /\ l \in W.ids /\ W.keys[l] \in Seq(Int) /\ W.kids[l] \in Seq(W.ids)
      /\ d \in {0, 1} /\ (d = 0 <=> l \in V.leaves)
      /\ d = 0 => /\ W.vals[l] \in Seq(RowIds) /\ Len(W.vals[l]) = Len(W.keys[l])
                  /\ Len(W.kids[l]) = 0
      /\ a \in Nat /\ b \in Nat /\ a <= b /\ b < Len(W.keys[l]) /\ Len(W.keys[l]) \in Nat
      /\ W.keys[l][b + 1] \in Int /\ W.keys[l][a + 1] \in Int /\ m \notin V.ids
  BY ThreeTrees
<1>2. /\ T.ids = V.ids \cup {m} /\ T.root = V.root
      /\ T.leaves = IF l \in V.leaves THEN V.leaves \cup {m} ELSE V.leaves
      /\ T.keys[p] = InsertAt([V.keys[p] EXCEPT ![i] = W.keys[l][b + 1]], i, W.keys[l][a + 1])
      /\ T.kids[p] = InsertAt(V.kids[p], i + 1, m)
      /\ InThreeParts(W.keys[l], T.keys[l], T.keys[m], T.keys[r], a, b, d)
      /\ d = 1 => InThreeParts(W.kids[l], T.kids[l], T.kids[m], T.kids[r], a + 1, b + 1, 0)
      /\ d = 0 => /\ InThreeParts(W.vals[l], T.vals[l], T.vals[m], T.vals[r], a, b, 0)
                  /\ a >= 1 /\ a < b /\ T.next[l] = m /\ T.next[m] = r
  BY DEF CutThree
<1>3. /\ H.ids = V.ids /\ H.root = V.root /\ H.leaves = V.leaves
      /\ \A n \in V.ids \ {p, l} : Same(T, H, n)
      /\ H.keys[p] = [V.keys[p] EXCEPT ![i] = W.keys[l][b + 1]] /\ H.kids[p] = V.kids[p]
      /\ Piece(W.keys[l], H.keys[l], 0, b)
      /\ d = 1 => Piece(W.kids[l], H.kids[l], 0, b + 1)
      /\ d = 0 => /\ Len(H.kids[l]) = 0
                  /\ Piece(W.vals[l], H.vals[l], 0, b) /\ H.next[l] = r
  BY DEF Halved
<1>4. \A n \in H.ids \ {p, l} : Same(H, T, n)
  BY <1>3 DEF Same
<1>5. PutIn(H.keys[p], T.keys[p], i, W.keys[l][a + 1]) /\ T.keys[p][i] = W.keys[l][a + 1]
  <2> DEFINE ks == V.keys[p]
             e == W.keys[l][b + 1]
             hs == H.keys[p]
             k == W.keys[l][a + 1]
             ts == T.keys[p]
  <2>1. /\ ks \in Seq(Int) /\ e \in Int /\ k \in Int /\ i \in 1 .. Len(ks) /\ hs = [ks EXCEPT ![i] = e]
        /\ Len(ks) \in Nat
    BY <1>1, <1>3
  <2>1a. ts = InsertAt(hs, i, k)
    BY <1>2, <1>3
  <2> HIDE DEF ks, e, k, hs, ts
  <2>2. [ks EXCEPT ![i] = e] \in Seq(Int) /\ Len([ks EXCEPT ![i] = e]) = Len(ks)
    BY <2>1, ExceptSeq
  <2>3. hs \in Seq(Int) /\ Len(hs) = Len(ks)
    BY <2>1, <2>2
  <2>4. i \in 1 .. Len(hs) + 1
    BY <2>1, <2>3
  <2>5. PutIn(hs, ts, i, k) /\ ts[i] = k
    <3>1. k \in Int /\ hs \in Seq(Int)
      BY <2>1, <2>3
    <3> QED BY <3>1, <2>1a, <2>4, InsertPuts
  <2> QED BY <2>5 DEF hs, k, ts
<1>6. PutIn(H.kids[p], T.kids[p], i + 1, m)
  <2> DEFINE cs == V.kids[p]
             c == i + 1
             S == V.ids \cup {m}
  <2>1. cs \in Seq(S)
    <3>1. \A j \in 1 .. Len(V.kids[p]) : V.kids[p][j] \in S
      BY <1>1, ElementOfSeq
    <3> HIDE DEF S
    <3> QED BY <3>1, <1>1, SeqInto
  <2>2. m \in S /\ c \in 1 .. Len(cs) + 1 /\ T.kids[p] = InsertAt(cs, c, m) /\ H.kids[p] = cs
    BY <1>1, <1>2, <1>3
  <2> HIDE DEF cs, c, S
  <2>3. PutIn(cs, T.kids[p], c, m)
    BY <2>1, <2>2, InsertPuts
  <2> QED BY <2>2, <2>3 DEF c
<1>7. InParts(H.keys[l], T.keys[l], T.keys[m], d, W.keys[l][a + 1])
  BY <1>1, <1>2, <1>3, ThreeAreTwo
<1>8. InParts(H.kids[l], T.kids[l], T.kids[m], 0, 0)
  <2>1. CASE d = 0
    <3>1. l \in T.leaves /\ m \in T.leaves
      BY <2>1, <1>1, <1>2
    <3>2. /\ Len(H.kids[l]) = 0 /\ Len(T.kids[l]) = 0 /\ Len(T.kids[m]) = 0
      BY <3>1, <2>1, <1>3 DEF Plain
    <3> QED BY <3>2 DEF InParts, Part
  <2>2. CASE d = 1
    <3> DEFINE c == b + 1
               e == a + 1
    <3>1. /\ InThreeParts(W.kids[l], T.kids[l], T.kids[m], T.kids[r], e, c, 0)
          /\ Piece(W.kids[l], H.kids[l], 0, c)
      BY <2>2, <1>2, <1>3
    <3> HIDE DEF c, e
    <3>2. InParts(H.kids[l], T.kids[l], T.kids[m], 0, W.kids[l][e + 1])
      BY <3>1, <1>1, ThreeAreTwo
    <3> QED BY <3>2 DEF InParts
  <2> QED BY <2>1, <2>2, <1>1
<1>9. d = 0 => /\ T.next[m] = H.next[l]
               /\ Part(H.vals[l], T.vals[l], 0) /\ Part(H.vals[l], T.vals[m], Len(T.keys[l]))
  <2> HAVE d = 0
  <2>1. InParts(H.vals[l], T.vals[l], T.vals[m], 0, W.vals[l][a + 1])
    BY <1>1, <1>2, <1>3, ThreeAreTwo
  <2>2. Part(H.vals[l], T.vals[l], 0) /\ Part(H.vals[l], T.vals[m], Len(T.vals[l]) + 0)
    BY <2>1 DEF InParts
  <2>3. Len(T.vals[l]) = a /\ Len(T.keys[l]) = a
    BY <1>2 DEF InThreeParts, Piece
  <2>4. Len(T.vals[l]) + 0 = Len(T.keys[l])
    BY <2>3, <1>1
  <2> QED BY <2>2, <2>4, <1>2, <1>3
<1>10. CutsLeaf(T, p, i, l, m, d)
  <2>1. CASE d = 0
    <3>1. Piece(W.keys[l], T.keys[m], a + 0, b - a - 0) /\ Len(T.keys[l]) = a
      BY <2>1, <1>2 DEF InThreeParts, Piece
    <3>2. Len(T.keys[m]) = b - a - 0
      BY <3>1 DEF Piece
    <3>2a. a \in Nat /\ b \in Nat /\ a < b /\ a >= 1
      BY <2>1, <1>1, <1>2
    <3>3. 1 \in 1 .. Len(T.keys[m]) /\ a + 0 + 1 = a + 1 /\ Len(T.keys[m]) >= 1
      BY <3>2, <3>2a
    <3>4. T.keys[m][1] = W.keys[l][a + 0 + 1]
      BY <3>1, <3>3 DEF Piece, Part
    <3> QED BY <3>1, <3>2a, <3>3, <3>4, <1>5 DEF CutsLeaf
  <2>2. CASE d = 1
    BY <2>2 DEF CutsLeaf
  <2> QED BY <2>1, <2>2, <1>1
<1>11. /\ Len(H.keys[l]) = Len(T.keys[l]) + d + Len(T.keys[m])
       /\ Part(H.keys[l], T.keys[l], 0) /\ Part(H.keys[l], T.keys[m], Len(T.keys[l]) + d)
       /\ d = 1 => H.keys[l][Len(T.keys[l]) + 1] = T.keys[p][i]
  BY <1>5, <1>7 DEF InParts
<1>12. /\ Len(H.kids[l]) = Len(T.kids[l]) + Len(T.kids[m])
       /\ Part(H.kids[l], T.kids[l], 0) /\ Part(H.kids[l], T.kids[m], Len(T.kids[l]))
  <2>1. /\ Len(H.kids[l]) = Len(T.kids[l]) + 0 + Len(T.kids[m])
        /\ Part(H.kids[l], T.kids[l], 0) /\ Part(H.kids[l], T.kids[m], Len(T.kids[l]) + 0)
    BY <1>8 DEF InParts
  <2>2. l \in T.ids
    BY <1>1, <1>2
  <2>3. Len(T.kids[l]) \in Nat
    BY <2>2, PlainFacts
  <2>4. Len(T.kids[l]) + 0 = Len(T.kids[l])
    BY <2>3
  <2> QED BY <2>1, <2>4
<1>13. /\ p \in H.ids \ H.leaves /\ i \in 1 .. Len(H.kids[p]) /\ H.kids[p][i] = l /\ l # p
       /\ m \notin H.ids /\ T.ids = H.ids \cup {m} /\ T.root = H.root
       /\ d = (IF l \in H.leaves THEN 0 ELSE 1)
       /\ T.leaves = (IF l \in H.leaves THEN H.leaves \cup {m} ELSE H.leaves)
  <2>1. H.ids = V.ids /\ H.root = V.root /\ H.leaves = V.leaves /\ H.kids[p] = V.kids[p]
    BY <1>3
  <2>2. /\ T.ids = V.ids \cup {m} /\ T.root = V.root
        /\ T.leaves = IF l \in V.leaves THEN V.leaves \cup {m} ELSE V.leaves
    BY <1>2
  <2>3. i \in 1 .. Len(V.kids[p])
    BY <1>1
  <2>4. d = (IF l \in V.leaves THEN 0 ELSE 1)
    BY <1>1
  <2> QED BY <2>1, <2>2, <2>3, <2>4, <1>1
<1>14. Parted(H, T, p, i, l, m, d)
  <2>1. \E e : PutIn(H.keys[p], T.keys[p], i, e)
    BY <1>5
  <2> QED BY <2>1, <1>4, <1>6, <1>9, <1>11, <1>12, <1>13 DEF Parted
<1> QED BY <1>2, <1>10, <1>14

\* Two nodes become three and what lookups find does not change.
LEMMA ThirdsOrdered ==
  ASSUME NEW W, NEW V, NEW p, NEW i, NEW l, NEW r, NEW d, Mergeable(W, V, p, i, l, r, d),
         Ordered(V),
         NEW T, Plain(T), NEW m, NEW a, NEW b, CutThree(T, W, V, p, i, l, m, r, d, a, b)
  PROVE  Ordered(T) /\ SameHeld(V, T)
<1> DEFINE H == Halfway(T, W, V, p, i, l, r, d, b)
<1>1. Halved(H, T, W, V, p, i, l, r, d, b)
  BY HalfwayHalved
<1> HIDE DEF H
<1>2. /\ Plain(H) /\ Reshares(H, W, V, p, i, l, r, d) /\ CutsLeaf(H, p, i, l, r, d)
      /\ d = 0 => H.next[l] = r
  BY <1>1, HalvedPlain, HalvedReshares
<1>3. SameHeld(W, V) /\ Ordered(H) /\ SameHeld(W, H)
  BY <1>2, MergeOrdered, ReshareOrdered
<1>4. /\ Parted(H, T, p, i, l, m, d) /\ CutsLeaf(T, p, i, l, m, d)
      /\ d = 0 => T.next[l] = m
  BY <1>1, HalvedParted
<1>5. Once(H, p, i, l)
  <2>1. Parted(W, H, p, i, l, r, d) /\ Once(W, p, i, l) /\ Plain(W)
    BY <1>2, ResharedIsParted DEF Mergeable
  <2> QED BY <2>1, <1>2, PartedOnce
<1>6. CutInto(H, T, p, i, l, m, d)
  BY <1>2, <1>4, <1>5 DEF CutInto
<1>7. Ordered(T)
  BY <1>3, <1>4, <1>6, SplitOrdered
<1>8. SameHeld(H, T)
  BY <1>2, <1>4, PartedHolds
<1>9. SameHeld(V, T)
  BY <1>3, <1>8 DEF SameHeld
<1> QED BY <1>7, <1>9

\* A sequence cut at two places.
LEMMA CutsInThree ==
  ASSUME NEW S, NEW s \in Seq(S), NEW a \in Nat, NEW b \in Nat, NEW d \in {0, 1},
         a + d <= b, b + d <= Len(s), NEW u, NEW v, u = a + d + 1, v = b + d + 1,
         NEW n, n = Len(s),
         NEW x, NEW y, NEW z, x = SubSeq(s, 1, a), y = SubSeq(s, u, b), z = SubSeq(s, v, n)
  PROVE  InThreeParts(s, x, y, z, a, b, d)
<1>1. Len(s) \in Nat
  BY LenProperties
<1>2. Piece(s, x, 0, a)
  <2>1. 0 + a <= Len(s) /\ 1 = 0 + 1 /\ a = 0 + a
    BY <1>1
  <2>2. Piece(s, SubSeq(s, 1, a), 0, a)
    BY <2>1, SubPiece
  <2> QED BY <2>2
<1>3. Piece(s, y, a + d, b - a - d)
  <2> DEFINE o == a + d
             c == b - a - d
  <2>1. o \in Nat /\ c \in Nat /\ o + c <= Len(s) /\ u = o + 1 /\ b = o + c
    BY <1>1
  <2> HIDE DEF o, c
  <2>2. Piece(s, SubSeq(s, u, b), o, c)
    BY <2>1, SubPiece
  <2> QED BY <2>2 DEF o, c
<1>4. Piece(s, z, b + d, Len(s) - b - d)
  <2> DEFINE o == b + d
             c == Len(s) - b - d
  <2>1. o \in Nat /\ c \in Nat /\ o + c <= Len(s) /\ v = o + 1 /\ n = o + c
    BY <1>1
  <2> HIDE DEF o, c
  <2>2. Piece(s, SubSeq(s, v, n), o, c)
    BY <2>1, SubPiece
  <2> QED BY <2>2 DEF o, c
<1> QED BY <1>2, <1>3, <1>4 DEF InThreeParts

-----------------------------------------------------------------------------
(* Keys in ascending order *)

\* The keys before place i are below k, those from place i on are not.
Cut(keys, i, k) ==
  \A j \in 1 .. Len(keys) : (j < i => keys[j] < k) /\ (j >= i => keys[j] >= k)

\* The members of a sequence.
Members(s) == {s[i] : i \in 1 .. Len(s)}

\* As many members as places.
LEMMA RisingCount ==
  ASSUME NEW s \in Seq(Int), Rising(s)
  PROVE  IsFiniteSet(Members(s)) /\ Cardinality(Members(s)) = Len(s)
<1> DEFINE n == Len(s)
           S == Members(s)
<1>1. n \in Nat /\ \A i \in 1 .. n : s[i] \in Int
  BY LenProperties, ElementOfSeq
<1>2. DOMAIN s = 1 .. n /\ s = [i \in 1 .. n |-> s[i]]
  BY LenProperties
<1>3. s \in [1 .. n -> S]
  BY <1>2 DEF Members
<1>4. \A i, j \in 1 .. n : s[i] = s[j] => i = j
  <2> TAKE i, j \in 1 .. n
  <2>1. i < j => s[i] < s[j]
    BY DEF Rising
  <2>2. j < i => s[j] < s[i]
    BY DEF Rising
  <2>3. i \in Int /\ j \in Int /\ s[i] \in Int /\ s[j] \in Int
    BY <1>1
  <2> QED BY <2>1, <2>2, <2>3
<1>5. \A k \in S : \E i \in 1 .. n : s[i] = k
  BY DEF Members
<1> HIDE DEF n, S
<1>6. s \in Bijection(1 .. n, S)
  BY <1>3, <1>4, <1>5 DEF Bijection, Injection, Surjection, IsInjective
<1>7. ExistsBijection(1 .. n, S)
  BY <1>6 DEF ExistsBijection
<1>8. IsFiniteSet(S) /\ Cardinality(S) = n
  BY <1>1, <1>7, FS_NatBijection, FS_CountingElements
<1> QED BY <1>8 DEF n, S

\* A beginning of a rising sequence: its members are those below the next.
LEMMA RankOfCut ==
  ASSUME NEW s \in Seq(Int), Rising(s), NEW k \in Int, NEW i \in 1 .. Len(s) + 1, Cut(s, i, k)
  PROVE  Cardinality({j \in Members(s) : j < k}) = i - 1
<1> DEFINE t == [m \in 1 .. i - 1 |-> s[m]]
<1>1. Len(s) \in Nat /\ \A m \in 1 .. Len(s) : s[m] \in Int
  BY LenProperties, ElementOfSeq
<1>2. i - 1 \in Nat /\ i - 1 <= Len(s) /\ i \in Nat
  BY <1>1
<1>3. \A m \in 1 .. i - 1 : m \in 1 .. Len(s) /\ m < i
  BY <1>1, <1>2
<1>4. t \in Seq(Int) /\ Len(t) = i - 1 /\ \A m \in 1 .. i - 1 : t[m] = s[m]
  <2>1. t \in [1 .. i - 1 -> Int]
    BY <1>1, <1>3
  <2> QED BY <1>2, <2>1
<1> HIDE DEF t
<1>5. Rising(t)
  <2> SUFFICES ASSUME NEW a \in 1 .. i - 1, NEW b \in 1 .. i - 1, a < b PROVE t[a] < t[b]
    BY <1>4 DEF Rising
  <2>1. s[a] < s[b]
    BY <1>3 DEF Rising
  <2> QED BY <2>1, <1>4
<1>6. Members(t) = {j \in Members(s) : j < k}
  <2>1. ASSUME NEW j \in Members(t)
        PROVE  j \in Members(s) /\ j < k
    <3>1. PICK m \in 1 .. i - 1 : j = s[m]
      BY <1>4 DEF Members
    <3> QED BY <3>1, <1>3 DEF Members, Cut
  <2>2. ASSUME NEW j \in Members(s), j < k
        PROVE  j \in Members(t)
    <3>1. PICK m \in 1 .. Len(s) : j = s[m]
      BY DEF Members
    <3>2. m < i
      <4>1. m >= i => s[m] >= k
        BY DEF Cut
      <4>2. s[m] \in Int /\ m \in Nat
        BY <1>1
      <4> QED BY <2>2, <3>1, <4>1, <4>2, <1>2
    <3>3. m \in 1 .. i - 1
      BY <3>2, <1>2
    <3> QED BY <3>1, <3>3, <1>4 DEF Members
  <2> QED BY <2>1, <2>2
<1>7. Cardinality(Members(t)) = Len(t)
  BY <1>4, <1>5, RisingCount
<1> QED BY <1>4, <1>6, <1>7

\* The members in ascending order are one sequence.
LEMMA RisingSame ==
  ASSUME NEW s \in Seq(Int), NEW t \in Seq(Int), Rising(s), Rising(t),
         \A k \in Int : k \in Members(s) <=> k \in Members(t)
  PROVE  s = t
<1> DEFINE n == Len(s)
           Bad == {i \in 1 .. n : s[i] # t[i]}
<1>1. /\ n \in Nat /\ \A i \in 1 .. n : s[i] \in Int
      /\ Len(t) \in Nat /\ \A i \in 1 .. Len(t) : t[i] \in Int
  BY LenProperties, ElementOfSeq
<1>2. Members(s) = Members(t)
  <2>1. Members(s) \subseteq Int /\ Members(t) \subseteq Int
    BY <1>1 DEF Members
  <2> QED BY <2>1
<1>3. Len(t) = n
  BY <1>2, RisingCount
<1>4. \A i \in 1 .. n : \E j \in 1 .. n : t[j] = s[i]
  BY <1>2, <1>3 DEF Members
<1>5. \A i \in 1 .. n : \E j \in 1 .. n : s[j] = t[i]
  BY <1>2, <1>3 DEF Members
<1> HIDE DEF n
<1>6. Bad = {}
  <2> SUFFICES ASSUME Bad # {} PROVE FALSE
    OBVIOUS
  <2>1. Bad \in SUBSET Nat
    BY <1>1
  <2>2. PICK i \in Bad : \A m \in Bad : i <= m
    BY <2>1, LeastOf
  <2>3. i \in 1 .. n /\ i \in Nat /\ s[i] # t[i] /\ s[i] \in Int /\ t[i] \in Int
    BY <1>1, <1>3, <2>2
  <2>4. \A m \in 1 .. n : m < i => s[m] = t[m]
    BY <1>1, <2>2, <2>3
  <2>5. CASE s[i] < t[i]
    <3>1. PICK j \in 1 .. n : t[j] = s[i]
      BY <1>4, <2>3
    <3>2. CASE j < i
      <4>1. s[j] = s[i]
        BY <2>4, <3>1, <3>2
      <4>2. s[j] < s[i]
        BY <2>3, <3>2 DEF Rising, n
      <4> QED BY <2>3, <4>1, <4>2
    <3>3. CASE j > i
      <4>1. t[i] < t[j]
        BY <2>3, <3>3, <1>3 DEF Rising
      <4> QED BY <2>3, <2>5, <3>1, <4>1
    <3>4. CASE j = i
      BY <2>3, <3>1, <3>4
    <3> QED BY <2>3, <3>2, <3>3, <3>4, <1>1
  <2>6. CASE t[i] < s[i]
    <3>1. PICK j \in 1 .. n : s[j] = t[i]
      BY <1>5, <2>3
    <3>2. CASE j < i
      <4>1. t[j] = t[i]
        BY <2>4, <3>1, <3>2
      <4>2. t[j] < t[i]
        BY <2>3, <3>2, <1>3 DEF Rising
      <4> QED BY <2>3, <4>1, <4>2
    <3>3. CASE j > i
      <4>1. s[i] < s[j]
        BY <2>3, <3>3 DEF Rising, n
      <4> QED BY <2>3, <2>6, <3>1, <4>1
    <3>4. CASE j = i
      BY <2>3, <3>1, <3>4
    <3> QED BY <2>3, <3>2, <3>3, <3>4, <1>1
  <2> QED BY <2>3, <2>5, <2>6
<1>7. \A i \in 1 .. Len(s) : s[i] = t[i]
  BY <1>6 DEF n
<1>8. Len(s) = Len(t)
  BY <1>3 DEF n
<1> QED BY <1>7, <1>8, SeqEqual

\* Cut at a key, a rising sequence falls into the members below the key and
\* those from it on; a member stands where it is cut.
LEMMA CutAtKey ==
  ASSUME NEW s \in Seq(Int), Rising(s), NEW k \in Int, NEW r \in 1 .. Len(s) + 1, Cut(s, r, k)
  PROVE  /\ Rising(SubSeq(s, 1, r - 1)) /\ Rising(SubSeq(s, r, Len(s)))
         /\ SubSeq(s, 1, r - 1) \in Seq(Int) /\ SubSeq(s, r, Len(s)) \in Seq(Int)
         /\ \A j : j \in Members(SubSeq(s, 1, r - 1)) <=> j \in Members(s) /\ j < k
         /\ \A j : j \in Members(SubSeq(s, r, Len(s))) <=> j \in Members(s) /\ k <= j
         /\ k \in Members(s) => r <= Len(s) /\ s[r] = k
<1> DEFINE n == Len(s)
           t == SubSeq(s, 1, r - 1)
           u == SubSeq(s, r, n)
<1>1. n \in Nat /\ \A m \in 1 .. n : s[m] \in Int
  BY LenProperties, ElementOfSeq
<1>2. \A m \in 1 .. n : (m < r => s[m] < k) /\ (m >= r => s[m] >= k)
  BY DEF Cut
<1>3. \A a, b \in 1 .. n : a < b => s[a] < s[b]
  BY DEF Rising
<1>4. Members(s) = {s[m] : m \in 1 .. n}
  BY DEF Members
<1>5. r \in 1 .. n + 1
  OBVIOUS
<1>6. t \in Seq(Int) /\ Len(t) = r - 1 /\ \A i \in 1 .. r - 1 : t[i] = s[i]
  <2>1. /\ t \in Seq(Int) /\ Len(t) = (r - 1) - 1 + 1
        /\ \A i \in 1 .. (r - 1) - 1 + 1 : t[i] = s[1 + i - 1]
    BY <1>1, <1>5, SubFacts
  <2> QED BY <2>1, <1>5
<1>7. u \in Seq(Int) /\ Len(u) = n - r + 1 /\ \A i \in 1 .. n - r + 1 : u[i] = s[r + i - 1]
  BY <1>1, <1>5, SubFacts
<1> HIDE DEF n, t, u
<1>8. \A a, b \in 1 .. Len(t) : a < b => t[a] < t[b]
  BY <1>1, <1>3, <1>5, <1>6
<1>9. \A a, b \in 1 .. Len(u) : a < b => u[a] < u[b]
  <2> TAKE a, b \in 1 .. Len(u)
  <2>1. r + a - 1 \in 1 .. n /\ r + b - 1 \in 1 .. n /\ a \in Int /\ b \in Int
    BY <1>1, <1>5, <1>7
  <2>2. a < b => r + a - 1 < r + b - 1
    BY <2>1, <1>5
  <2>3. u[a] = s[r + a - 1] /\ u[b] = s[r + b - 1]
    BY <1>7
  <2> QED BY <2>1, <2>2, <2>3, <1>3
<1>10. Rising(t) /\ Rising(u)
  BY <1>8, <1>9 DEF Rising
<1>11. ASSUME NEW j
       PROVE  j \in Members(t) <=> j \in Members(s) /\ j < k
  <2>1. ASSUME NEW i \in 1 .. Len(t), j = t[i]
        PROVE  j \in Members(s) /\ j < k
    <3>1. i \in 1 .. n /\ i < r /\ j = s[i]
      BY <2>1, <1>1, <1>5, <1>6
    <3> QED BY <3>1, <1>2, <1>4
  <2>2. ASSUME NEW m \in 1 .. n, j = s[m], j < k
        PROVE  \E i \in 1 .. Len(t) : j = t[i]
    <3>1. m < r
      BY <2>2, <1>1, <1>2, <1>5
    <3>2. m \in 1 .. r - 1
      BY <3>1, <1>1, <1>5
    <3> QED BY <2>2, <3>2, <1>6
  <2>3. j \in Members(t) <=> \E i \in 1 .. Len(t) : j = t[i]
    BY DEF Members
  <2> QED BY <2>1, <2>2, <2>3, <1>4
<1>12. ASSUME NEW j
       PROVE  j \in Members(u) <=> j \in Members(s) /\ k <= j
  <2>1. ASSUME NEW i \in 1 .. Len(u), j = u[i]
        PROVE  j \in Members(s) /\ k <= j
    <3>1. r + i - 1 \in 1 .. n /\ r + i - 1 >= r /\ j = s[r + i - 1]
      BY <2>1, <1>1, <1>5, <1>7
    <3>2. j \in Members(s) /\ s[r + i - 1] >= k
      BY <3>1, <1>2, <1>4
    <3> QED BY <3>1, <3>2, <1>1
  <2>2. ASSUME NEW m \in 1 .. n, j = s[m], k <= j
        PROVE  \E i \in 1 .. Len(u) : j = u[i]
    <3>1. m >= r
      BY <2>2, <1>1, <1>2, <1>5
    <3>2. PICK i : i = m - r + 1
      OBVIOUS
    <3>3. i \in 1 .. n - r + 1 /\ r + i - 1 = m
      BY <3>1, <3>2, <1>1, <1>5
    <3> QED BY <2>2, <3>3, <1>7
  <2>3. j \in Members(u) <=> \E i \in 1 .. Len(u) : j = u[i]
    BY DEF Members
  <2> QED BY <2>1, <2>2, <2>3, <1>4
<1>13. ASSUME k \in Members(s)
       PROVE  r <= n /\ s[r] = k
  <2>1. PICK m \in 1 .. n : k = s[m]
    BY <1>4, <1>13
  <2>2. m >= r
    BY <2>1, <1>1, <1>2, <1>5
  <2>3. r \in 1 .. n
    BY <2>2, <1>1, <1>5
  <2>4. s[r] >= k /\ s[r] \in Int
    BY <2>3, <1>1, <1>2
  <2>5. r < m => s[r] < k
    BY <2>1, <2>3, <1>3
  <2>6. ~(r < m)
    BY <2>4, <2>5
  <2>7. r = m
    BY <2>2, <2>3, <2>6
  <2> QED BY <2>1, <2>3, <2>7
<1> QED BY <1>6, <1>7, <1>10, <1>11, <1>12, <1>13 DEF n, t, u

\* A finite set of integers that is not empty has a least and a greatest
\* member, which Least and Greatest choose.
LEMMA Extremes ==
  ASSUME NEW S \in SUBSET Int, IsFiniteSet(S), S # {}
  PROVE  /\ Least(S) \in S /\ \A j \in S : Least(S) <= j
         /\ Greatest(S) \in S /\ \A j \in S : j <= Greatest(S)
<1> DEFINE Lo(x) == {j \in S : j < x}
           Hi(x) == {j \in S : j > x}
<1>1. \A x \in S : IsFiniteSet(Lo(x)) /\ IsFiniteSet(Hi(x))
  <2> TAKE x \in S
  <2>1. Lo(x) \subseteq S /\ Hi(x) \subseteq S
    OBVIOUS
  <2> QED BY <2>1, FS_Subset
<1>2. \A x \in S : Cardinality(Lo(x)) \in Nat /\ Cardinality(Hi(x)) \in Nat
  BY <1>1, FS_CardinalityType
<1>3. \E x \in S : \A j \in S : x <= j
  <2> DEFINE C == {Cardinality(Lo(x)) : x \in S}
  <2>1. C \in SUBSET Nat /\ C # {}
    BY <1>2
  <2>2. PICK c \in C : \A d \in C : c <= d
    BY <2>1, LeastOf
  <2>3. PICK x \in S : c = Cardinality(Lo(x))
    BY <2>2
  <2>4. ASSUME NEW j \in S, ~(x <= j) PROVE FALSE
    <3>1. j < x /\ x \in Int /\ j \in Int /\ \A i \in S : i \in Int
      BY <2>4
    <3>2. Lo(j) \subseteq Lo(x) /\ j \in Lo(x) /\ j \notin Lo(j)
      <4>1. \A i \in S : i < j => i < x
        <5> TAKE i \in S
        <5>1. i \in Int
          BY <3>1
        <5> QED BY <3>1, <5>1
      <4>2. ~(j < j)
        BY <3>1
      <4> QED BY <3>1, <4>1, <4>2
    <3>3. PICK A, B : A = Lo(j) /\ B = Lo(x)
      OBVIOUS
    <3>4. A \subseteq B /\ A # B /\ IsFiniteSet(B)
      BY <3>2, <3>3, <1>1
    <3>5. Cardinality(A) <= Cardinality(B) /\ Cardinality(A) # Cardinality(B)
      BY <3>4, FS_Subset
    <3>6. Cardinality(B) <= Cardinality(A)
      <4>1. Cardinality(Lo(j)) \in C
        OBVIOUS
      <4> QED BY <4>1, <2>2, <2>3, <3>3
    <3>7. Cardinality(A) \in Nat /\ Cardinality(B) \in Nat
      BY <3>3, <1>2
    <3> QED BY <3>5, <3>6, <3>7
  <2> QED BY <2>4
<1>4. \E x \in S : \A j \in S : j <= x
  <2> DEFINE C == {Cardinality(Hi(x)) : x \in S}
  <2>1. C \in SUBSET Nat /\ C # {}
    BY <1>2
  <2>2. PICK c \in C : \A d \in C : c <= d
    BY <2>1, LeastOf
  <2>3. PICK x \in S : c = Cardinality(Hi(x))
    BY <2>2
  <2>4. ASSUME NEW j \in S, ~(j <= x) PROVE FALSE
    <3>1. j > x /\ x \in Int /\ j \in Int /\ \A i \in S : i \in Int
      BY <2>4
    <3>2. Hi(j) \subseteq Hi(x) /\ j \in Hi(x) /\ j \notin Hi(j)
      <4>1. \A i \in S : i > j => i > x
        <5> TAKE i \in S
        <5>1. i \in Int
          BY <3>1
        <5> QED BY <3>1, <5>1
      <4>2. ~(j > j)
        BY <3>1
      <4> QED BY <3>1, <4>1, <4>2
    <3>3. PICK A, B : A = Hi(j) /\ B = Hi(x)
      OBVIOUS
    <3>4. A \subseteq B /\ A # B /\ IsFiniteSet(B)
      BY <3>2, <3>3, <1>1
    <3>5. Cardinality(A) <= Cardinality(B) /\ Cardinality(A) # Cardinality(B)
      BY <3>4, FS_Subset
    <3>6. Cardinality(B) <= Cardinality(A)
      <4>1. Cardinality(Hi(j)) \in C
        OBVIOUS
      <4> QED BY <4>1, <2>2, <2>3, <3>3
    <3>7. Cardinality(A) \in Nat /\ Cardinality(B) \in Nat
      BY <3>3, <1>2
    <3> QED BY <3>5, <3>6, <3>7
  <2> QED BY <2>4
<1>5. Least(S) \in S /\ \A j \in S : Least(S) <= j
  BY <1>3 DEF Least
<1>6. Greatest(S) \in S /\ \A j \in S : j <= Greatest(S)
  BY <1>4 DEF Greatest
<1> QED BY <1>5, <1>6

-----------------------------------------------------------------------------
(* What a scan reads in a leaf *)

\* f[i] is what was read of the first i entries.
Reading(f, keys, vals, lo, end) ==
  f = [i \in 0 .. end |->
         IF i = 0 THEN << >>
         ELSE IF keys[i] >= lo THEN Append(f[i - 1], vals[i])
         ELSE f[i - 1]]

\* The members of vals from place a to place i.
Excerpt(vals, a, i) == [j \in 1 .. i + 1 - a |-> vals[a - 1 + j]]

\* An excerpt grows by one member at a time.
LEMMA ExcerptGrows ==
  ASSUME NEW S, NEW vals \in Seq(S), NEW a \in Nat \ {0}, NEW i \in 1 .. Len(vals)
  PROVE  /\ i >= a => Excerpt(vals, a, i) = Append(Excerpt(vals, a, i - 1), vals[i])
         /\ i < a => Excerpt(vals, a, i) = Excerpt(vals, a, i - 1)
         /\ Excerpt(vals, a, 0) = << >>
<1>1. Len(vals) \in Nat /\ i \in Nat /\ i >= 1 /\ \A j \in 1 .. Len(vals) : vals[j] \in S
  BY LenProperties, ElementOfSeq
<1>2. ASSUME i >= a
      PROVE  Excerpt(vals, a, i) = Append(Excerpt(vals, a, i - 1), vals[i])
  <2> DEFINE n == i - a
             t == Excerpt(vals, a, i - 1)
             u == Excerpt(vals, a, i)
             w == Append(t, vals[i])
  <2>1. n \in Nat /\ i - 1 + 1 - a = n /\ i + 1 - a = n + 1
    BY <1>1, <1>2
  <2>2. t = [j \in 1 .. n |-> vals[a - 1 + j]] /\ u = [j \in 1 .. n + 1 |-> vals[a - 1 + j]]
    BY <2>1 DEF Excerpt
  <2>3. \A j \in 1 .. n + 1 : a - 1 + j \in 1 .. Len(vals)
    BY <2>1, <1>1
  <2>4. t \in Seq(S) /\ u \in Seq(S) /\ Len(t) = n /\ Len(u) = n + 1
    <3>1. t \in [1 .. n -> S] /\ u \in [1 .. n + 1 -> S]
      BY <2>1, <2>2, <2>3, <1>1
    <3> QED BY <2>1, <3>1
  <2>5. vals[i] \in S
    BY <1>1
  <2>6. u[n + 1] = vals[i]
    <3>1. a - 1 + (n + 1) = i
      BY <1>1
    <3>2. u[n + 1] = vals[a - 1 + (n + 1)]
      BY <2>1, <2>2
    <3> QED BY <3>1, <3>2
  <2>7. \A j \in 1 .. n : u[j] = t[j]
    BY <2>1, <2>2
  <2> HIDE DEF n, t, u
  <2>8. w \in Seq(S) /\ Len(w) = n + 1 /\ w[n + 1] = vals[i] /\ \A j \in 1 .. n : w[j] = t[j]
    BY <2>1, <2>4, <2>5, AppendProperties
  <2> HIDE DEF w
  <2>9. \A j \in 1 .. Len(u) : u[j] = w[j]
    BY <2>1, <2>4, <2>6, <2>7, <2>8
  <2>10. u = w
    BY <2>4, <2>8, <2>9, SeqEqual
  <2> QED BY <2>10 DEF u, w, t
<1>3. ASSUME i < a
      PROVE  Excerpt(vals, a, i) = Excerpt(vals, a, i - 1)
  <2>1. 1 .. i + 1 - a = {} /\ 1 .. i - 1 + 1 - a = {}
    BY <1>1, <1>3
  <2> QED BY <2>1 DEF Excerpt
<1>4. Excerpt(vals, a, 0) = << >>
  <2>1. 1 .. 0 + 1 - a = {}
    OBVIOUS
  <2> QED BY <2>1 DEF Excerpt
<1> QED BY <1>2, <1>3, <1>4

\* Of keys in ascending order an excerpt is read, the one from place a to end.
LEMMA ReadingIsExcerpt ==
  ASSUME NEW keys \in Seq(Int), NEW S, NEW vals \in Seq(S), Len(vals) = Len(keys),
         NEW lo \in Int, NEW a \in 1 .. Len(keys) + 1, Cut(keys, a, lo), NEW end \in 0 .. Len(keys)
  PROVE  /\ \E f : Reading(f, keys, vals, lo, end)
         /\ \A f : Reading(f, keys, vals, lo, end) => f[end] = Excerpt(vals, a, end)
<1>1. Len(keys) \in Nat /\ \A i \in 1 .. Len(keys) : keys[i] \in Int
  BY LenProperties, ElementOfSeq
<1>2. a \in Nat \ {0} /\ end \in Nat /\ end <= Len(keys)
  BY <1>1
<1>3. ASSUME NEW i \in 1 .. end
      PROVE  /\ keys[i] >= lo => Excerpt(vals, a, i) = Append(Excerpt(vals, a, i - 1), vals[i])
             /\ ~(keys[i] >= lo) => Excerpt(vals, a, i) = Excerpt(vals, a, i - 1)
  <2>1. i \in 1 .. Len(keys) /\ i \in Nat
    BY <1>1, <1>2
  <2>2. (i < a => keys[i] < lo) /\ (i >= a => keys[i] >= lo)
    BY <2>1 DEF Cut
  <2>3. keys[i] >= lo <=> i >= a
    BY <2>1, <2>2, <1>1, <1>2
  <2>4. i < a \/ i >= a
    BY <2>1, <1>2
  <2> QED BY <2>1, <2>3, <2>4, <1>2, ExcerptGrows
<1>4. Excerpt(vals, a, 0) = << >>
  <2>1. 1 .. 0 + 1 - a = {}
    BY <1>2
  <2> QED BY <2>1 DEF Excerpt
<1>5. \E f : Reading(f, keys, vals, lo, end)
  <2> DEFINE f == [i \in 0 .. end |-> Excerpt(vals, a, i)]
  <2>1. ASSUME NEW i \in 0 .. end
        PROVE  Excerpt(vals, a, i) = IF i = 0 THEN << >>
                                   ELSE IF keys[i] >= lo THEN Append(f[i - 1], vals[i])
                                   ELSE f[i - 1]
    <3>1. CASE i = 0
      BY <3>1, <1>4
    <3>2. CASE i # 0
      <4>1. i \in 1 .. end /\ i - 1 \in 0 .. end
        BY <3>2, <1>2
      <4>2. f[i - 1] = Excerpt(vals, a, i - 1)
        BY <4>1
      <4> QED BY <3>2, <4>1, <4>2, <1>3
    <3> QED BY <3>1, <3>2
  <2>2. Reading(f, keys, vals, lo, end)
    BY <2>1 DEF Reading
  <2> QED BY <2>2
<1>6. ASSUME NEW f, Reading(f, keys, vals, lo, end)
      PROVE  f[end] = Excerpt(vals, a, end)
  <2> DEFINE Bad == {i \in 0 .. end : f[i] # Excerpt(vals, a, i)}
  <2>1. \A i \in 0 .. end : f[i] = IF i = 0 THEN << >>
                                   ELSE IF keys[i] >= lo THEN Append(f[i - 1], vals[i])
                                   ELSE f[i - 1]
    BY <1>6 DEF Reading
  <2>2. Bad = {}
    <3> SUFFICES ASSUME Bad # {} PROVE FALSE
      OBVIOUS
    <3>1. Bad \in SUBSET Nat
      BY <1>2
    <3>2. PICK i \in Bad : \A m \in Bad : i <= m
      BY <3>1, LeastOf
    <3>3. i # 0
      BY <3>2, <2>1, <1>2, <1>4
    <3>4. i \in 1 .. end /\ i - 1 \in 0 .. end /\ ~(i <= i - 1)
      BY <3>2, <3>3, <1>2
    <3>5. f[i - 1] = Excerpt(vals, a, i - 1)
      BY <3>2, <3>4
    <3>6. f[i] = IF keys[i] >= lo THEN Append(f[i - 1], vals[i]) ELSE f[i - 1]
      BY <3>2, <3>3, <2>1
    <3>7. f[i] = Excerpt(vals, a, i)
      BY <3>4, <3>5, <3>6, <1>3
    <3> QED BY <3>2, <3>7
  <2>3. end \in 0 .. end
    BY <1>2
  <2> QED BY <2>2, <2>3
<1> QED BY <1>5, <1>6

\* An excerpt by position.
LEMMA ExcerptFacts ==
  ASSUME NEW S, NEW s \in Seq(S), NEW a \in Nat \ {0}, NEW e \in 0 .. Len(s)
  PROVE  /\ Excerpt(s, a, e) \in Seq(S)
         /\ Len(Excerpt(s, a, e)) = IF e + 1 >= a THEN e + 1 - a ELSE 0
         /\ \A j \in 1 .. Len(Excerpt(s, a, e)) :
              a - 1 + j \in a .. e /\ Excerpt(s, a, e)[j] = s[a - 1 + j]
         /\ \A i \in a .. e : /\ i + 1 - a \in 1 .. Len(Excerpt(s, a, e))
                              /\ Excerpt(s, a, e)[i + 1 - a] = s[i]
<1> DEFINE t == Excerpt(s, a, e)
           n == IF e + 1 >= a THEN e + 1 - a ELSE 0
<1>1. Len(s) \in Nat /\ e \in Nat /\ e <= Len(s) /\ \A i \in 1 .. Len(s) : s[i] \in S
  BY LenProperties, ElementOfSeq
<1>2. n \in Nat /\ 1 .. e + 1 - a = 1 .. n
  BY <1>1
<1>3. \A j \in 1 .. n : a - 1 + j \in a .. e /\ a - 1 + j \in 1 .. Len(s)
  BY <1>1
<1>4. \A i \in a .. e : i + 1 - a \in 1 .. n /\ a - 1 + (i + 1 - a) = i
  BY <1>1
<1>5. t = [j \in 1 .. n |-> s[a - 1 + j]]
  BY <1>2 DEF Excerpt
<1> HIDE DEF n, t
<1>6. t \in [1 .. n -> S]
  BY <1>1, <1>3, <1>5
<1>7. t \in Seq(S) /\ Len(t) = n
  BY <1>2, <1>6
<1>8. \A j \in 1 .. n : t[j] = s[a - 1 + j]
  BY <1>5
<1>9. \A i \in a .. e : i + 1 - a \in 1 .. n /\ t[i + 1 - a] = s[i]
  BY <1>4, <1>8
<1> QED BY <1>3, <1>7, <1>8, <1>9 DEF n, t

\* s are the row ids of the keys ks, those of A that V holds, in order.
Lists(V, ks, s, A) ==
  /\ ks \in Seq(Int) /\ Rising(ks) /\ s \in Seq(RowIds) /\ Len(s) = Len(ks)
  /\ \A i \in 1 .. Len(ks) : ks[i] \in A /\ Holds(V, ks[i], s[i])
  /\ \A k \in A : \A v : Holds(V, k, v) => \E i \in 1 .. Len(ks) : ks[i] = k

\* The keys lo <= k < hi of a set.
Window(A, lo, hi) == {k \in A : lo <= k /\ k < hi}

-----------------------------------------------------------------------------
(* The chain of leaves *)

\* What is read of a leaf, and of those after it until a scan ends in B.
Collects(f, D, B, nx, v) ==
  f = [n \in D |-> IF n \in B THEN v[n] ELSE v[n] \o f[nx[n]]]

\* A scan comes to its end if the chain does.
LEMMA CollectsExists ==
  ASSUME NEW D, NEW B, NEW nx, NEW h, NEW b, Downward(D, B, nx, h, b), NEW v
  PROVE  \E f : Collects(f, D, B, nx, v)
<1> DEFINE Upto(f, k) == \A n \in D : h[n] <= k =>
                           f[n] = IF n \in B THEN v[n] ELSE v[n] \o f[nx[n]]
           Can(k) == \E f : DOMAIN f = D /\ Upto(f, k)
           Bad == {k \in Nat : ~Can(k)}
<1>1. /\ b \in Nat /\ \A n \in D : h[n] \in Nat /\ h[n] <= b
      /\ \A n \in D : nx[n] \in D
      /\ \A n \in D \ B : h[nx[n]] < h[n]
  BY DEF Downward
<1>2. Can(0)
  <2> DEFINE f == [n \in D |-> v[n]]
  <2>1. Upto(f, 0)
    BY <1>1
  <2> QED BY <2>1
<1>3. ASSUME NEW k \in Nat, Can(k)
      PROVE  Can(k + 1)
  <2>1. PICK f : DOMAIN f = D /\ Upto(f, k)
    BY <1>3
  <2> DEFINE g == [n \in D |-> IF n \in B THEN v[n] ELSE v[n] \o f[nx[n]]]
  <2>2. ASSUME NEW n \in D, h[n] <= k
        PROVE  g[n] = f[n]
    BY <2>1, <2>2
  <2>3. ASSUME NEW n \in D, h[n] <= k + 1
        PROVE  g[n] = IF n \in B THEN v[n] ELSE v[n] \o g[nx[n]]
    <3>1. CASE n \in B
      BY <3>1
    <3>2. CASE n \notin B
      <4>1. nx[n] \in D /\ h[nx[n]] <= k
        BY <1>1, <1>3, <2>3, <3>2
      <4>2. g[nx[n]] = f[nx[n]]
        BY <2>2, <4>1
      <4>3. g[n] = v[n] \o f[nx[n]]
        BY <3>2
      <4> QED BY <3>2, <4>2, <4>3
    <3> QED BY <3>1, <3>2
  <2> HIDE DEF g
  <2>4. DOMAIN g = D
    BY DEF g
  <2> QED BY <2>3, <2>4
<1> HIDE DEF Can
<1>4. Bad = {}
  <2> SUFFICES ASSUME Bad # {} PROVE FALSE
    OBVIOUS
  <2>1. PICK k \in Bad : \A j \in Bad : k <= j
    BY LeastOf
  <2>2. k \in Nat /\ k # 0 /\ ~Can(k)
    BY <2>1, <1>2
  <2>3. k - 1 \in Nat /\ k - 1 < k /\ k - 1 + 1 = k
    BY <2>2
  <2>4. Can(k - 1)
    BY <2>1, <2>3
  <2>5. Can(k - 1 + 1)
    BY <2>3, <2>4, <1>3
  <2> QED BY <2>2, <2>3, <2>5
<1>5. PICK f : DOMAIN f = D /\ Upto(f, b)
  BY <1>1, <1>4 DEF Can
<1> DEFINE g == [n \in D |-> f[n]]
<1>6. Collects(g, D, B, nx, v)
  BY <1>1, <1>5 DEF Collects
<1> QED BY <1>6

\* A set of integers that has no greatest one has all from its first one on.
LEMMA ClosedUp ==
  ASSUME NEW S \in SUBSET Int, \A k \in S : k + 1 \in S, NEW a \in S, NEW k \in Int, a <= k
  PROVE  k \in S
<1> DEFINE Bad == {j \in Nat : a + j \notin S}
<1>1. a \in Int
  OBVIOUS
<1>2. Bad = {}
  <2> SUFFICES ASSUME Bad # {} PROVE FALSE
    OBVIOUS
  <2>1. PICK j \in Bad : \A m \in Bad : j <= m
    BY LeastOf
  <2>2. j \in Nat /\ a + j \notin S /\ j # 0
    BY <2>1, <1>1
  <2>3. j - 1 \in Nat /\ ~(j <= j - 1) /\ a + (j - 1) + 1 = a + j
    BY <2>2, <1>1
  <2>4. a + (j - 1) \in S
    BY <2>1, <2>3
  <2>5. a + (j - 1) + 1 \in S
    BY <2>4
  <2> QED BY <2>2, <2>3, <2>5
<1>3. k - a \in Nat /\ a + (k - a) = k
  BY <1>1
<1> QED BY <1>2, <1>3

\* What is read in two places, one with the smaller keys.
LEMMA ListsCat ==
  ASSUME NEW V, NEW A1, NEW A2, NEW k1, NEW s1, NEW k2, NEW s2,
         Lists(V, k1, s1, A1), Lists(V, k2, s2, A2), \A x \in A1, y \in A2 : x < y
  PROVE  Lists(V, k1 \o k2, s1 \o s2, A1 \cup A2)
<1> DEFINE ks == k1 \o k2
           s == s1 \o s2
           p == Len(k1)
           q == Len(k2)
<1>1. /\ k1 \in Seq(Int) /\ k2 \in Seq(Int) /\ s1 \in Seq(RowIds) /\ s2 \in Seq(RowIds)
      /\ Len(s1) = p /\ Len(s2) = q /\ p \in Nat /\ q \in Nat /\ Rising(k1) /\ Rising(k2)
      /\ \A i \in 1 .. p : k1[i] \in A1 /\ Holds(V, k1[i], s1[i])
      /\ \A i \in 1 .. q : k2[i] \in A2 /\ Holds(V, k2[i], s2[i])
  BY LenProperties DEF Lists
<1>2. ks \in Seq(Int) /\ s \in Seq(RowIds) /\ Len(ks) = p + q /\ Len(s) = p + q
  <2>1. ks \in Seq(Int) /\ Len(ks) = Len(k1) + Len(k2)
    BY <1>1, ConcatProperties
  <2>2. s \in Seq(RowIds) /\ Len(s) = Len(s1) + Len(s2)
    BY <1>1, ConcatProperties
  <2> QED BY <2>1, <2>2, <1>1
<1>3. /\ \A i \in 1 .. p : ks[i] = k1[i] /\ s[i] = s1[i]
      /\ \A i \in 1 .. q : ks[p + i] = k2[i] /\ s[p + i] = s2[i]
  <2>1. \A i \in 1 .. p : i \in 1 .. p + q
    BY <1>1
  <2>2. \A i \in 1 .. q : p + i \in 1 .. p + q /\ ~(p + i <= p) /\ p + i - p = i
    BY <1>1
  <2> QED BY <1>1, <2>1, <2>2, ConcatProperties
<1> HIDE DEF ks, s, p, q
<1>4. \A i \in 1 .. p + q : i \in 1 .. p \/ (i - p \in 1 .. q /\ p + (i - p) = i)
  BY <1>1
<1>5. ASSUME NEW i \in 1 .. p + q
      PROVE  ks[i] \in A1 \cup A2 /\ Holds(V, ks[i], s[i])
  <2>1. CASE i \in 1 .. p
    BY <2>1, <1>1, <1>3
  <2>2. CASE i - p \in 1 .. q /\ p + (i - p) = i
    <3>1. PICK m \in 1 .. q : p + m = i
      BY <2>2
    <3> QED BY <3>1, <1>1, <1>3
  <2> QED BY <2>1, <2>2, <1>4
<1>6. Rising(ks)
  <2> SUFFICES ASSUME NEW i \in 1 .. p + q, NEW j \in 1 .. p + q, i < j PROVE ks[i] < ks[j]
    BY <1>2 DEF Rising
  <2>1. i \in Nat /\ j \in Nat
    BY <1>1
  <2>2. CASE j \in 1 .. p
    <3>1. i \in 1 .. p
      BY <2>1, <2>2, <1>1
    <3> QED BY <2>2, <3>1, <1>1, <1>3 DEF Rising, p
  <2>3. CASE i \in 1 .. p /\ j \notin 1 .. p
    <3>1. PICK m \in 1 .. q : p + m = j
      BY <2>3, <1>4
    <3>2. ks[i] \in A1 /\ ks[j] \in A2
      BY <2>3, <3>1, <1>1, <1>3
    <3> QED BY <3>2
  <2>4. CASE i \notin 1 .. p /\ j \notin 1 .. p
    <3>1. PICK m \in 1 .. q : p + m = j
      BY <2>4, <1>4
    <3>2. PICK l \in 1 .. q : p + l = i
      BY <2>4, <1>4
    <3>3. l < m
      BY <3>1, <3>2, <1>1
    <3>4. k2[l] < k2[m]
      BY <3>3, <1>1 DEF Rising, q
    <3> QED BY <3>1, <3>2, <3>4, <1>3
  <2>5. j \in 1 .. p => i \in 1 .. p
    BY <2>1, <1>1
  <2> QED BY <2>2, <2>3, <2>4, <2>5
<1>7. ASSUME NEW k \in A1 \cup A2, NEW v, Holds(V, k, v)
      PROVE  \E i \in 1 .. p + q : ks[i] = k
  <2>1. CASE k \in A1
    <3>1. PICK i \in 1 .. p : k1[i] = k
      BY <2>1, <1>7 DEF Lists, p
    <3>2. i \in 1 .. p + q
      BY <1>1
    <3> QED BY <3>1, <3>2, <1>3
  <2>2. CASE k \in A2
    <3>1. PICK i \in 1 .. q : k2[i] = k
      BY <2>2, <1>7 DEF Lists, q
    <3>2. p + i \in 1 .. p + q
      BY <1>1
    <3> QED BY <3>1, <3>2, <1>3
  <2> QED BY <2>1, <2>2
<1>8. Lists(V, ks, s, A1 \cup A2)
  BY <1>2, <1>5, <1>6, <1>7 DEF Lists
<1> QED BY <1>8 DEF ks, s

\* A leaf's link leads to the keys above its own, and there is none only
\* behind the last ones.
LEMMA NextSpan ==
  ASSUME NEW V, Plain(V), NEW span, Spans(V, span), Linking(V, span), NEW n \in V.leaves
  PROVE  \/ V.next[n] = NullPage /\ \A k \in span[n] : k + 1 \in span[n]
         \/ /\ V.next[n] \in V.leaves
            /\ \E b \in Int : /\ b \in span[n] /\ b + 1 \in span[V.next[n]]
                              /\ \A k \in span[n] : k <= b
                              /\ \A k \in span[V.next[n]] : b + 1 <= k
<1>1. CASE \A k \in span[n] : k + 1 \in span[n]
  BY <1>1 DEF Linking
<1>2. CASE \E k \in span[n] : k + 1 \notin span[n]
  <2>1. PICK b \in span[n] : b + 1 \notin span[n]
    BY <1>2
  <2>2. PICK m : m = V.next[n]
    OBVIOUS
  <2>3. m \in V.leaves /\ b + 1 \in span[m]
    BY <2>1, <2>2 DEF Linking
  <2>4. n \in V.ids /\ m \in V.ids
    BY <2>3 DEF Plain
  <2>5. span[n] \subseteq Int /\ span[m] \subseteq Int /\ Convex(span[n]) /\ Convex(span[m])
    BY <2>4 DEF Spans
  <2>6. b \in Int /\ b + 1 \in Int
    BY <2>1, <2>5
  <2>7. ASSUME NEW k \in span[n]
        PROVE  k <= b
    <3>1. k \in Int
      BY <2>5
    <3>2. b + 1 <= k => b + 1 \in span[n]
      BY <2>1, <2>5, <2>6, <3>1 DEF Convex
    <3> QED BY <2>1, <2>6, <3>1, <3>2
  <2>8. b \notin span[m]
    BY <2>1, <2>3 DEF Linking
  <2>9. ASSUME NEW k \in span[m]
        PROVE  b + 1 <= k
    <3>1. k \in Int
      BY <2>5
    <3>2. k <= b => b \in span[m]
      BY <2>3, <2>5, <2>6, <3>1 DEF Convex
    <3> QED BY <2>6, <2>8, <3>1, <3>2
  <2> QED BY <2>1, <2>2, <2>3, <2>6, <2>7, <2>9
<1> QED BY <1>1, <1>2

\* The leaves with a key above one of n.
Later(V, span, n) == {m \in V.leaves : m # n /\ \E j \in span[n], k \in span[m] : j < k}

\* How many leaves a scan may yet come to.
Ahead(V, span) ==
  [n \in V.leaves \cup {NullPage} |->
     IF n = NullPage THEN 0 ELSE Cardinality(Later(V, span, n)) + 1]

\* Where a scan goes from a leaf.
Onward(V) ==
  [n \in V.leaves \cup {NullPage} |-> IF n = NullPage THEN NullPage ELSE V.next[n]]

\* With every link fewer leaves are left.
LEMMA ChainDescends ==
  ASSUME NEW V, Plain(V), NEW span, Spans(V, span), Linking(V, span), IsFiniteSet(V.leaves)
  PROVE  Downward(V.leaves \cup {NullPage}, {NullPage}, Onward(V), Ahead(V, span),
                  Cardinality(V.leaves) + 1)
<1> DEFINE D == V.leaves \cup {NullPage}
           h == Ahead(V, span)
           nx == Onward(V)
           c == Cardinality(V.leaves)
           L(n) == Later(V, span, n)
<1>1. c \in Nat
  BY FS_CardinalityType
<1>2. NullPage \notin V.leaves /\ V.leaves \subseteq V.ids
  BY DEF Plain
<1>3. ASSUME NEW n \in V.leaves
      PROVE  L(n) \subseteq V.leaves /\ IsFiniteSet(L(n)) /\ Cardinality(L(n)) \in Nat /\ Cardinality(L(n)) <= c
  <2>1. L(n) \in SUBSET V.leaves
    BY DEF Later
  <2>2. IsFiniteSet(L(n)) /\ Cardinality(L(n)) <= c
    BY <2>1, FS_Subset
  <2> QED BY <2>1, <2>2, FS_CardinalityType
<1> HIDE DEF L
<1>4. /\ h[NullPage] = 0 /\ nx[NullPage] = NullPage
      /\ \A n \in V.leaves : h[n] = Cardinality(L(n)) + 1 /\ nx[n] = V.next[n]
  BY <1>2 DEF Ahead, Onward, L
<1>5. h = [n \in D |-> h[n]] /\ nx = [n \in D |-> nx[n]]
  BY DEF Ahead, Onward
<1> HIDE DEF h, nx, c
<1>6. ASSUME NEW n \in V.leaves
      PROVE  h[n] \in 0 .. c + 1 /\ nx[n] \in D /\ h[nx[n]] < h[n]
  <2>1. Cardinality(L(n)) \in Nat /\ Cardinality(L(n)) <= c
    BY <1>3
  <2>2. h[n] \in 0 .. c + 1 /\ h[n] \in Nat /\ h[n] >= 1
    BY <2>1, <1>1, <1>4
  <2>3. CASE V.next[n] = NullPage
    BY <2>2, <2>3, <1>4
  <2>4. CASE /\ V.next[n] \in V.leaves
             /\ \E b \in Int : /\ b \in span[n] /\ b + 1 \in span[V.next[n]]
                               /\ \A k \in span[n] : k <= b
                               /\ \A k \in span[V.next[n]] : b + 1 <= k
    <3>1. PICK m : m = V.next[n]
      OBVIOUS
    <3>2. m \in V.leaves
      BY <2>4, <3>1
    <3>3. PICK b \in Int : /\ b \in span[n] /\ b + 1 \in span[m]
                           /\ \A k \in span[n] : k <= b /\ \A x \in span[m] : b + 1 <= x
      BY <2>4, <3>1
    <3>4. span[n] \subseteq Int /\ span[m] \subseteq Int /\ \A q \in V.leaves : span[q] \subseteq Int
      BY <3>2, <1>2 DEF Spans
    <3>5. m # n /\ m \in L(n)
      <4>1. b < b + 1 /\ ~(b + 1 <= b)
        OBVIOUS
      <4>2. m # n
        BY <3>3, <4>1
      <4> QED BY <3>2, <3>3, <4>1, <4>2 DEF L, Later
    <3>6. m \notin L(m)
      BY DEF L, Later
    <3>7. ASSUME NEW q \in L(m)
          PROVE  q \in L(n)
      <4>1. q \in V.leaves /\ \E j \in span[m], k \in span[q] : j < k
        BY DEF L, Later
      <4>2. PICK j \in span[m], k \in span[q] : j < k
        BY <4>1
      <4>3. j \in Int /\ k \in Int /\ b + 1 <= j
        BY <3>3, <3>4, <4>1, <4>2
      <4>4. b < k /\ ~(k <= b)
        BY <4>2, <4>3
      <4>5. q # n
        BY <3>3, <4>2, <4>4
      <4> QED BY <3>3, <4>1, <4>2, <4>4, <4>5 DEF L, Later
    <3>8. L(m) \in SUBSET (L(n) \ {m})
      BY <3>6, <3>7
    <3>9. /\ IsFiniteSet(L(n) \ {m}) /\ Cardinality(L(n) \ {m}) = Cardinality(L(n)) - 1
      BY <3>5, <1>3, FS_RemoveElement
    <3>10. Cardinality(L(m)) <= Cardinality(L(n)) - 1
      BY <3>8, <3>9, FS_Subset
    <3>11. Cardinality(L(m)) \in Nat
      BY <3>2, <1>3
    <3>12. Cardinality(L(m)) + 1 < Cardinality(L(n)) + 1
      BY <2>1, <3>10, <3>11
    <3>13. h[m] < h[n] /\ nx[n] = m
      BY <3>1, <3>2, <3>12, <1>4
    <3> QED BY <2>2, <3>2, <3>13
  <2> QED BY <2>3, <2>4, NextSpan
<1>7. /\ c + 1 \in Nat /\ h \in [D -> 0 .. c + 1] /\ nx \in [D -> D]
      /\ \A n \in D \ {NullPage} : h[nx[n]] < h[n]
  <2>1. \A n \in D : h[n] \in 0 .. c + 1 /\ nx[n] \in D
    BY <1>1, <1>4, <1>6
  <2> HIDE DEF D
  <2>2. h \in [D -> 0 .. c + 1] /\ nx \in [D -> D]
    BY <2>1, <1>5
  <2>3. \A n \in D \ {NullPage} : h[nx[n]] < h[n]
    BY <1>6 DEF D
  <2> QED BY <2>2, <2>3, <1>1
<1>8. Downward(D, {NullPage}, nx, h, c + 1)
  BY <1>7 DEF Downward
<1> QED BY <1>8 DEF D, nx, h, c

=============================================================================
