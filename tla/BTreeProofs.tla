----------------------------- MODULE BTreeProofs -----------------------------
(***************************************************************************)
(* The shape of the B*-tree is an invariant: Shape holds of the empty leaf *)
(* the constructor makes and survives every insert and erase and each of   *)
(* the calls they go on to make.  The types, the sizes of the leaves and   *)
(* their even depth follow from it.                                        *)
(*                                                                         *)
(* First what is known of trees, then what each change BTree makes to its  *)
(* store leaves behind (keys shifted between neighbours, nodes merged and  *)
(* split, the root gained and lost), then the actions and the theorems.    *)
(***************************************************************************)
EXTENDS BTree, SequenceLemmas

-----------------------------------------------------------------------------
(* Lemmas about trees *)

\* The children of a leaf are none; children are one level below.
LEMMA TreeFacts ==
  ASSUME NEW f, NEW r, Tree(f, r)
  PROVE  /\ r \in DOMAIN f /\ DOMAIN f \subseteq NodeId
         /\ \A n \in DOMAIN f : WellFormed(f[n])
         /\ \A n \in DOMAIN f : Kids(f, n) \subseteq DOMAIN f \ {r}
         /\ \A n \in DOMAIN f : f[n].leaf => Kids(f, n) = {}
<1>1. /\ r \in DOMAIN f /\ DOMAIN f \subseteq NodeId
      /\ \A n \in DOMAIN f : WellFormed(f[n])
      /\ \A n \in DOMAIN f : Kids(f, n) \subseteq DOMAIN f \ {r}
  BY DEF Tree, Linked
<1>2. ASSUME NEW n \in DOMAIN f, f[n].leaf
      PROVE  Kids(f, n) = {}
  <2>1. f[n].kids = << >>
    BY <1>1, <1>2 DEF WellFormed
  <2>2. << >> \in Seq(NodeId) /\ Len(<< >>) = 0
    OBVIOUS
  <2>3. Range(<< >>) = {<< >>[i] : i \in 1 .. Len(<< >>)}
    BY <2>2, Positions
  <2>4. Range(<< >>) = {}
    BY <2>2, <2>3
  <2> QED BY <2>1, <2>4 DEF Kids
<1> QED BY <1>1, <1>2

\* A step that changes neither children nor parents keeps the tree.
LEMMA SameKids ==
  ASSUME NEW f, NEW r, NEW g, Tree(f, r),
         DOMAIN g = DOMAIN f,
         \A n \in DOMAIN f : /\ g[n].kids = f[n].kids /\ g[n].leaf = f[n].leaf
                             /\ g[n].parent = f[n].parent
                             /\ WellFormed(g[n])
  PROVE  Tree(g, r) /\ (Adopted(f) => Adopted(g))
<1>1. \A n \in DOMAIN f : Kids(g, n) = Kids(f, n)
  BY DEF Kids
<1>2. PICK h : Level(f, h)
  BY DEF Tree
<1>3. Level(g, h)
  BY <1>1, <1>2 DEF Level
<1>4. Linked(g, r)
  BY <1>1 DEF Tree, Linked
<1>5. Rooted(g, r)
  BY DEF Tree, Rooted
<1>6. Tree(g, r)
  BY <1>3, <1>4, <1>5 DEF Tree
<1>7. ASSUME Adopted(f), NEW p \in DOMAIN g, NEW c \in Kids(g, p)
      PROVE  g[c].parent = p
  <2>1. c \in Kids(f, p) /\ c \in DOMAIN f
    BY <1>1, <1>7 DEF Tree, Linked
  <2> QED BY <2>1, <1>7 DEF Adopted
<1> QED BY <1>6, <1>7 DEF Adopted

\* A step that shares the children of two nodes a and b of one level out
\* over them anew keeps the tree.
LEMMA SharedKids ==
  ASSUME NEW f, NEW r, NEW g, Tree(f, r),
         NEW a \in DOMAIN f, NEW b \in DOMAIN f, a # b,
         \A h : Level(f, h) => h[a] = h[b],
         DOMAIN g = DOMAIN f,
         \A n \in DOMAIN f : /\ g[n].leaf = f[n].leaf
                             /\ WellFormed(g[n])
                             /\ g[n].parent = NullPage <=> f[n].parent = NullPage,
         \A n \in DOMAIN f \ {a, b} : Kids(g, n) = Kids(f, n),
         Kids(g, a) \cup Kids(g, b) = Kids(f, a) \cup Kids(f, b),
         Kids(g, a) \cap Kids(g, b) = {}
  PROVE  Tree(g, r)
<1>1. PICK h : Level(f, h)
  BY DEF Tree
<1>2. h[a] = h[b] /\ \A n \in DOMAIN f : \A c \in Kids(f, n) : h[n] = h[c] + 1
  BY <1>1 DEF Level
<1>3. ASSUME NEW n \in DOMAIN f, NEW c \in Kids(g, n)
      PROVE  h[n] = h[c] + 1
  <2>1. CASE n \in {a, b}
    <3>1. c \in Kids(f, a) \/ c \in Kids(f, b)
      BY <2>1, <1>3
    <3> QED BY <3>1, <2>1, <1>2
  <2>2. CASE n \notin {a, b}
    BY <2>2, <1>2, <1>3
  <2> QED BY <2>1, <2>2
<1>4. Level(g, h)
  BY <1>1, <1>3 DEF Level
<1>5. Linked(g, r)
  <2>1. r \in DOMAIN f /\ \A n \in DOMAIN f : Kids(f, n) \subseteq DOMAIN f \ {r}
    BY DEF Tree, Linked
  <2>2. \A n \in DOMAIN f : Kids(g, n) \subseteq DOMAIN f \ {r}
    <3>1. \A n \in DOMAIN f \ {a, b} : Kids(g, n) \subseteq DOMAIN f \ {r}
      BY <2>1
    <3>2. Kids(g, a) \subseteq DOMAIN f \ {r} /\ Kids(g, b) \subseteq DOMAIN f \ {r}
      BY <2>1
    <3> QED BY <3>1, <3>2
  <2>3. ASSUME NEW n \in DOMAIN f \ {r}
        PROVE  \E p \in DOMAIN f : n \in Kids(g, p)
    <3>1. PICK p \in DOMAIN f : n \in Kids(f, p)
      BY DEF Tree, Linked
    <3>2. p \in {a, b} => n \in Kids(g, a) \/ n \in Kids(g, b)
      BY <3>1
    <3>3. p \notin {a, b} => n \in Kids(g, p)
      BY <3>1
    <3> QED BY <3>1, <3>2, <3>3
  <2>4. \A p, q \in DOMAIN f : p # q => Kids(f, p) \cap Kids(f, q) = {}
    BY DEF Tree, Linked
  <2>5. ASSUME NEW p \in DOMAIN f, NEW q \in DOMAIN f, p # q
        PROVE  Kids(g, p) \cap Kids(g, q) = {}
    <3>1. CASE p \in {a, b} /\ q \in {a, b}
      BY <3>1, <2>5
    <3>2. CASE p \in {a, b} /\ q \notin {a, b}
      <4>1. Kids(g, q) \cap Kids(f, a) = {} /\ Kids(g, q) \cap Kids(f, b) = {}
        BY <3>2, <2>4
      <4>2. Kids(g, p) \subseteq Kids(f, a) \cup Kids(f, b)
        BY <3>2
      <4> QED BY <4>1, <4>2
    <3>3. CASE p \notin {a, b} /\ q \in {a, b}
      <4>1. Kids(g, p) \cap Kids(f, a) = {} /\ Kids(g, p) \cap Kids(f, b) = {}
        BY <3>3, <2>4
      <4>2. Kids(g, q) \subseteq Kids(f, a) \cup Kids(f, b)
        BY <3>3
      <4> QED BY <4>1, <4>2
    <3>4. CASE p \notin {a, b} /\ q \notin {a, b}
      BY <3>4, <2>4, <2>5
    <3> QED BY <3>1, <3>2, <3>3, <3>4
  <2> QED BY <2>1, <2>2, <2>3, <2>5 DEF Linked
<1>6. Rooted(g, r)
  BY DEF Tree, Rooted
<1> QED BY <1>4, <1>5, <1>6 DEF Tree

\* A split: the children of a and b, children of p, are shared out over
\* these and a new child m of p.
LEMMA MoreKids ==
  ASSUME NEW f, NEW r, NEW g, Tree(f, r),
         NEW p \in DOMAIN f, NEW a \in Kids(f, p), NEW b \in Kids(f, p), a # b,
         NEW m \in NodeId, m \notin DOMAIN f,
         p # a, p # b,
         DOMAIN g = DOMAIN f \cup {m},
         \A n \in DOMAIN f : /\ g[n].leaf = f[n].leaf
                             /\ g[n].parent = NullPage <=> f[n].parent = NullPage,
         \A n \in DOMAIN g : WellFormed(g[n]),
         g[m].leaf = f[a].leaf, g[m].parent # NullPage,
         \A n \in DOMAIN f \ {p, a, b} : Kids(g, n) = Kids(f, n),
         Kids(g, p) = Kids(f, p) \cup {m},
         Kids(g, a) \cup Kids(g, m) \cup Kids(g, b) = Kids(f, a) \cup Kids(f, b),
         Kids(g, a) \cap Kids(g, b) = {}, Kids(g, a) \cap Kids(g, m) = {},
         Kids(g, m) \cap Kids(g, b) = {}
  PROVE  Tree(g, r)
<1>0. /\ r \in DOMAIN f /\ DOMAIN f \subseteq NodeId
      /\ \A n \in DOMAIN f : Kids(f, n) \subseteq DOMAIN f \ {r}
      /\ \A n \in DOMAIN f \ {r} : \E q \in DOMAIN f : n \in Kids(f, q)
      /\ \A n, q \in DOMAIN f : n # q => Kids(f, n) \cap Kids(f, q) = {}
  BY DEF Tree, Linked
<1>1. a \in DOMAIN f /\ b \in DOMAIN f
  BY <1>0
<1>2. PICK h : Level(f, h)
  BY DEF Tree
<1>3. /\ h[a] = h[b] /\ h[p] = h[a] + 1 /\ h[a] \in Nat
      /\ \A n \in DOMAIN f : \A c \in Kids(f, n) : h[n] = h[c] + 1
      /\ \A n \in DOMAIN f : h[n] \in Nat /\ (f[n].leaf <=> h[n] = 0)
  BY <1>1, <1>2 DEF Level
<1> DEFINE k == [n \in DOMAIN g |-> IF n = m THEN h[a] ELSE h[n]]
<1>4. /\ k[m] = h[a]
      /\ \A n \in DOMAIN f : k[n] = h[n]
      /\ k \in [DOMAIN g -> Nat]
  BY <1>3
<1> HIDE DEF k
<1>5. ASSUME NEW n \in DOMAIN g, NEW c \in Kids(g, n)
      PROVE  k[n] = k[c] + 1
  <2>1. CASE n \in {a, b, m}
    <3>1. c \in Kids(f, a) \/ c \in Kids(f, b)
      BY <2>1, <1>5
    <3>2. c \in DOMAIN f /\ h[a] = h[c] + 1
      BY <3>1, <1>0, <1>1, <1>3
    <3>3. k[n] = h[a]
      BY <2>1, <1>1, <1>3, <1>4
    <3> QED BY <3>2, <3>3, <1>4
  <2>2. CASE n = p
    <3>1. CASE c = m
      BY <2>2, <3>1, <1>3, <1>4
    <3>2. CASE c \in Kids(f, p)
      <4>1. c \in DOMAIN f /\ h[p] = h[c] + 1
        BY <3>2, <1>0, <1>3
      <4> QED BY <4>1, <2>2, <1>4
    <3> QED BY <3>1, <3>2, <2>2, <1>5
  <2>3. CASE n \notin {a, b, m, p}
    <3>1. n \in DOMAIN f /\ c \in Kids(f, n)
      BY <2>3, <1>5
    <3>2. c \in DOMAIN f /\ h[n] = h[c] + 1
      BY <3>1, <1>0, <1>3
    <3> QED BY <3>1, <3>2, <1>4
  <2> QED BY <2>1, <2>2, <2>3
<1>6. Level(g, k)
  <2>1. \A n \in DOMAIN g : g[n].leaf <=> k[n] = 0
    BY <1>1, <1>3, <1>4
  <2> QED BY <2>1, <1>4, <1>5 DEF Level
<1>7. \A n \in DOMAIN g : Kids(g, n) \subseteq DOMAIN g \ {r}
  <2>1. /\ Kids(g, a) \subseteq DOMAIN g \ {r} /\ Kids(g, b) \subseteq DOMAIN g \ {r}
        /\ Kids(g, m) \subseteq DOMAIN g \ {r}
    <3>1. Kids(f, a) \subseteq DOMAIN f \ {r} /\ Kids(f, b) \subseteq DOMAIN f \ {r}
      BY <1>0, <1>1
    <3> QED BY <3>1
  <2>2. Kids(g, p) \subseteq DOMAIN g \ {r}
    <3>1. Kids(f, p) \subseteq DOMAIN f \ {r} /\ m # r
      BY <1>0
    <3> QED BY <3>1
  <2>3. \A n \in DOMAIN f \ {p, a, b} : Kids(g, n) \subseteq DOMAIN g \ {r}
    BY <1>0
  <2> QED BY <2>1, <2>2, <2>3
<1>8. ASSUME NEW n \in DOMAIN g \ {r}
      PROVE  \E q \in DOMAIN g : n \in Kids(g, q)
  <2>1. CASE n = m
    BY <2>1
  <2>2. CASE n # m
    <3>1. PICK q \in DOMAIN f : n \in Kids(f, q)
      BY <2>2, <1>0
    <3>2. q \in {a, b} => n \in Kids(g, a) \/ n \in Kids(g, b) \/ n \in Kids(g, m)
      BY <3>1
    <3>3. q \notin {a, b} => n \in Kids(g, q)
      BY <3>1
    <3> QED BY <3>1, <3>2, <3>3, <1>1
  <2> QED BY <2>1, <2>2
<1>9. ASSUME NEW q \in DOMAIN g, NEW s \in DOMAIN g, q # s
      PROVE  Kids(g, q) \cap Kids(g, s) = {}
  <2>0. ASSUME NEW x \in {a, b, m}, NEW y \in DOMAIN g, y \notin {a, b, m}
        PROVE  Kids(g, x) \cap Kids(g, y) = {}
    <3>1. Kids(g, x) \subseteq Kids(f, a) \cup Kids(f, b)
      BY <2>0
    <3>2. Kids(g, y) \subseteq Kids(f, y) \cup {m} /\ y \in DOMAIN f
      BY <2>0
    <3>3. Kids(f, y) \cap Kids(f, a) = {} /\ Kids(f, y) \cap Kids(f, b) = {}
      BY <3>2, <2>0, <1>0, <1>1
    <3>4. m \notin Kids(f, a) /\ m \notin Kids(f, b)
      BY <1>0, <1>1
    <3> QED BY <3>1, <3>2, <3>3, <3>4
  <2>1. CASE q \in {a, b, m} /\ s \in {a, b, m}
    BY <2>1, <1>9
  <2>2. CASE q \in {a, b, m} /\ s \notin {a, b, m}
    BY <2>0, <2>2
  <2>3. CASE q \notin {a, b, m} /\ s \in {a, b, m}
    <3>1. Kids(g, s) \cap Kids(g, q) = {}
      BY <2>0, <2>3
    <3> QED BY <3>1
  <2>4. CASE q \notin {a, b, m} /\ s \notin {a, b, m}
    <3>1. q \in DOMAIN f /\ s \in DOMAIN f /\ Kids(f, q) \cap Kids(f, s) = {}
      BY <2>4, <1>0, <1>9
    <3>2. /\ Kids(g, q) = Kids(f, q) \/ (q = p /\ Kids(g, q) = Kids(f, q) \cup {m})
          /\ Kids(g, s) = Kids(f, s) \/ (s = p /\ Kids(g, s) = Kids(f, s) \cup {m})
      BY <2>4
    <3>3. m \notin Kids(f, q) /\ m \notin Kids(f, s)
      BY <3>1, <1>0
    <3> QED BY <3>1, <3>2, <3>3, <1>9
  <2> QED BY <2>1, <2>2, <2>3, <2>4
<1>10. Linked(g, r)
  BY <1>0, <1>7, <1>8, <1>9 DEF Linked
<1>11. Rooted(g, r)
  <2>1. \A n \in DOMAIN f : f[n].parent = NullPage <=> n = r
    BY DEF Tree, Rooted
  <2>2. m # r
    BY <1>0
  <2> QED BY <2>1, <2>2 DEF Rooted
<1>12. DOMAIN g \subseteq NodeId
  BY <1>0
<1> QED BY <1>6, <1>10, <1>11, <1>12 DEF Tree

\* A merge: a takes the children of b, both children of p, and b goes.
LEMMA FewerKids ==
  ASSUME NEW f, NEW r, NEW g, Tree(f, r),
         NEW p \in DOMAIN f, NEW a \in Kids(f, p), NEW b \in Kids(f, p), a # b,
         p # a, p # b,
         DOMAIN g = DOMAIN f \ {b},
         \A n \in DOMAIN g : /\ g[n].leaf = f[n].leaf
                             /\ g[n].parent = NullPage <=> f[n].parent = NullPage
                             /\ WellFormed(g[n]),
         \A n \in DOMAIN g \ {p, a} : Kids(g, n) = Kids(f, n),
         Kids(g, p) = Kids(f, p) \ {b},
         Kids(g, a) = Kids(f, a) \cup Kids(f, b)
  PROVE  Tree(g, r)
<1>0. /\ r \in DOMAIN f /\ DOMAIN f \subseteq NodeId
      /\ \A n \in DOMAIN f : Kids(f, n) \subseteq DOMAIN f \ {r}
      /\ \A n \in DOMAIN f \ {r} : \E q \in DOMAIN f : n \in Kids(f, q)
      /\ \A n, q \in DOMAIN f : n # q => Kids(f, n) \cap Kids(f, q) = {}
  BY DEF Tree, Linked
<1>1. a \in DOMAIN f /\ b \in DOMAIN f /\ b # r
  BY <1>0
<1>2. PICK h : Level(f, h)
  BY DEF Tree
<1>3. /\ h[a] = h[b] /\ h[p] = h[a] + 1 /\ h[a] \in Nat
      /\ \A n \in DOMAIN f : \A c \in Kids(f, n) : h[n] = h[c] + 1
      /\ \A n \in DOMAIN f : h[n] \in Nat /\ (f[n].leaf <=> h[n] = 0)
  BY <1>1, <1>2 DEF Level
<1>4. b \notin Kids(f, a) /\ b \notin Kids(f, b)
      /\ \A n \in DOMAIN f \ {p} : b \notin Kids(f, n)
  <2>1. \A n \in DOMAIN f \ {p} : b \notin Kids(f, n)
    BY <1>0
  <2> QED BY <2>1, <1>1
<1>5. \A n \in DOMAIN g : Kids(g, n) \subseteq DOMAIN g
  <2>1. Kids(g, p) \subseteq DOMAIN g
    BY <1>0
  <2>2. Kids(g, a) \subseteq DOMAIN g
    BY <1>0, <1>1, <1>4
  <2>3. \A n \in DOMAIN g \ {p, a} : Kids(g, n) \subseteq DOMAIN g
    BY <1>0, <1>4
  <2> QED BY <2>1, <2>2, <2>3
<1> DEFINE k == [n \in DOMAIN g |-> h[n]]
<1>6. k \in [DOMAIN g -> Nat] /\ \A n \in DOMAIN g : k[n] = h[n]
  BY <1>3
<1> HIDE DEF k
<1>7. ASSUME NEW n \in DOMAIN g, NEW c \in Kids(g, n)
      PROVE  k[n] = k[c] + 1
  <2>1. c \in DOMAIN g
    BY <1>5, <1>7
  <2>2. CASE n = a
    <3>1. c \in Kids(f, a) \/ c \in Kids(f, b)
      BY <2>2, <1>7
    <3>2. h[a] = h[c] + 1
      BY <3>1, <1>1, <1>3
    <3> QED BY <3>2, <2>1, <2>2, <1>6
  <2>3. CASE n # a
    <3>1. c \in Kids(f, n) /\ n \in DOMAIN f
      BY <2>3, <1>7
    <3>2. h[n] = h[c] + 1
      BY <3>1, <1>3
    <3> QED BY <3>2, <2>1, <1>6
  <2> QED BY <2>2, <2>3
<1>8. Level(g, k)
  BY <1>3, <1>6, <1>7 DEF Level
<1>9. \A n \in DOMAIN g : Kids(g, n) \subseteq DOMAIN g \ {r}
  <2>1. r \notin Kids(g, p)
    BY <1>0
  <2>2. r \notin Kids(g, a)
    BY <1>0, <1>1
  <2>3. \A n \in DOMAIN g \ {p, a} : r \notin Kids(g, n)
    BY <1>0
  <2> QED BY <2>1, <2>2, <2>3, <1>5
<1>10. ASSUME NEW n \in DOMAIN g \ {r}
       PROVE  \E q \in DOMAIN g : n \in Kids(g, q)
  <2>1. PICK q \in DOMAIN f : n \in Kids(f, q)
    BY <1>0
  <2>2. CASE q \in {a, b}
    <3>1. n \in Kids(g, a) /\ a \in DOMAIN g
      BY <2>1, <2>2, <1>1
    <3> QED BY <3>1
  <2>3. CASE q = p
    BY <2>1, <2>3
  <2>4. CASE q \notin {a, b, p}
    BY <2>1, <2>4
  <2> QED BY <2>2, <2>3, <2>4
<1>11. ASSUME NEW q \in DOMAIN g, NEW s \in DOMAIN g, q # s
       PROVE  Kids(g, q) \cap Kids(g, s) = {}
  <2>0. ASSUME NEW y \in DOMAIN g, y # a
        PROVE  Kids(g, a) \cap Kids(g, y) = {}
    <3>1. Kids(g, y) \subseteq Kids(f, y) /\ y \in DOMAIN f /\ y # b
      BY <2>0
    <3>2. Kids(f, y) \cap Kids(f, a) = {} /\ Kids(f, y) \cap Kids(f, b) = {}
      BY <3>1, <2>0, <1>0, <1>1
    <3> QED BY <3>1, <3>2
  <2>1. CASE q = a
    BY <2>0, <2>1, <1>11
  <2>2. CASE s = a
    <3>1. Kids(g, s) \cap Kids(g, q) = {}
      BY <2>0, <2>2, <1>11
    <3> QED BY <3>1
  <2>3. CASE q # a /\ s # a
    <3>1. /\ q \in DOMAIN f /\ s \in DOMAIN f /\ Kids(f, q) \cap Kids(f, s) = {}
          /\ Kids(g, q) \subseteq Kids(f, q) /\ Kids(g, s) \subseteq Kids(f, s)
      BY <2>3, <1>0, <1>11
    <3> QED BY <3>1
  <2> QED BY <2>1, <2>2, <2>3
<1>12. Linked(g, r)
  <2>1. r \in DOMAIN g
    BY <1>0, <1>1
  <2> QED BY <2>1, <1>9, <1>10, <1>11 DEF Linked
<1>13. Rooted(g, r)
  BY DEF Tree, Rooted
<1>14. DOMAIN g \subseteq NodeId
  BY <1>0
<1> QED BY <1>8, <1>12, <1>13, <1>14 DEF Tree

\* The root splits into itself and m under a new root t.
LEMMA NewTop ==
  ASSUME NEW f, NEW r, NEW g, Tree(f, r),
         NEW m \in NodeId, NEW t \in NodeId, m # t,
         m \notin DOMAIN f, t \notin DOMAIN f,
         DOMAIN g = DOMAIN f \cup {m, t},
         \A n \in DOMAIN f : /\ g[n].leaf = f[n].leaf
                             /\ g[n].parent # NullPage,
         \A n \in DOMAIN g : WellFormed(g[n]),
         g[m].leaf = f[r].leaf, ~g[t].leaf,
         g[m].parent # NullPage, g[t].parent = NullPage,
         \A n \in DOMAIN f \ {r} : Kids(g, n) = Kids(f, n),
         Kids(g, t) = {r, m},
         Kids(g, r) \cup Kids(g, m) = Kids(f, r),
         Kids(g, r) \cap Kids(g, m) = {}
  PROVE  Tree(g, t)
<1>0. /\ r \in DOMAIN f /\ DOMAIN f \subseteq NodeId
      /\ \A n \in DOMAIN f : Kids(f, n) \subseteq DOMAIN f \ {r}
      /\ \A n \in DOMAIN f \ {r} : \E q \in DOMAIN f : n \in Kids(f, q)
      /\ \A n, q \in DOMAIN f : n # q => Kids(f, n) \cap Kids(f, q) = {}
  BY DEF Tree, Linked
<1>2. PICK h : Level(f, h)
  BY DEF Tree
<1>3. /\ \A n \in DOMAIN f : \A c \in Kids(f, n) : h[n] = h[c] + 1
      /\ \A n \in DOMAIN f : h[n] \in Nat /\ (f[n].leaf <=> h[n] = 0)
  BY <1>2 DEF Level
<1> DEFINE k == [n \in DOMAIN g |-> IF n = m THEN h[r] ELSE IF n = t THEN h[r] + 1 ELSE h[n]]
<1>4. /\ k[m] = h[r] /\ k[t] = h[r] + 1
      /\ \A n \in DOMAIN f : k[n] = h[n]
      /\ k \in [DOMAIN g -> Nat]
  BY <1>0, <1>3
<1> HIDE DEF k
<1>5. ASSUME NEW n \in DOMAIN g, NEW c \in Kids(g, n)
      PROVE  k[n] = k[c] + 1
  <2>1. CASE n = t
    BY <2>1, <1>0, <1>4, <1>5
  <2>2. CASE n \in {r, m}
    <3>1. c \in Kids(f, r)
      BY <2>2, <1>5
    <3>2. c \in DOMAIN f /\ h[r] = h[c] + 1
      BY <3>1, <1>0, <1>3
    <3>3. k[n] = h[r]
      BY <2>2, <1>0, <1>4
    <3> QED BY <3>2, <3>3, <1>4
  <2>3. CASE n \notin {r, m, t}
    <3>1. n \in DOMAIN f /\ c \in Kids(f, n)
      BY <2>3, <1>5
    <3>2. c \in DOMAIN f /\ h[n] = h[c] + 1
      BY <3>1, <1>0, <1>3
    <3> QED BY <3>1, <3>2, <1>4
  <2> QED BY <2>1, <2>2, <2>3
<1>6. Level(g, k)
  <2>1. \A n \in DOMAIN g : g[n].leaf <=> k[n] = 0
    <3>1. k[t] # 0
      BY <1>0, <1>3, <1>4
    <3> QED BY <3>1, <1>0, <1>3, <1>4
  <2> QED BY <2>1, <1>4, <1>5 DEF Level
<1>7. \A n \in DOMAIN g : Kids(g, n) \subseteq DOMAIN g \ {t}
  <2>1. Kids(g, r) \subseteq DOMAIN f /\ Kids(g, m) \subseteq DOMAIN f
    BY <1>0
  <2>2. \A n \in DOMAIN f \ {r} : Kids(g, n) \subseteq DOMAIN f
    BY <1>0
  <2>3. Kids(g, t) \subseteq DOMAIN g \ {t}
    BY <1>0
  <2> QED BY <2>1, <2>2, <2>3
<1>8. ASSUME NEW n \in DOMAIN g \ {t}
      PROVE  \E q \in DOMAIN g : n \in Kids(g, q)
  <2>1. CASE n \in {r, m}
    BY <2>1
  <2>2. CASE n \notin {r, m}
    <3>1. PICK q \in DOMAIN f : n \in Kids(f, q)
      BY <2>2, <1>0
    <3>2. q = r => n \in Kids(g, r) \/ n \in Kids(g, m)
      BY <3>1
    <3>3. q # r => n \in Kids(g, q)
      BY <3>1
    <3> QED BY <3>1, <3>2, <3>3
  <2> QED BY <2>1, <2>2
<1>9. ASSUME NEW q \in DOMAIN g, NEW s \in DOMAIN g, q # s
      PROVE  Kids(g, q) \cap Kids(g, s) = {}
  <2>1. ASSUME NEW x \in DOMAIN g, x # t
        PROVE  Kids(g, x) \cap Kids(g, t) = {}
    <3>1. Kids(g, x) \subseteq DOMAIN f \ {r}
      <4>1. CASE x \in {r, m}
        BY <4>1, <1>0
      <4>2. CASE x \notin {r, m}
        <5>1. x \in DOMAIN f \ {r}
          BY <4>2, <2>1
        <5> QED BY <5>1, <1>0
      <4> QED BY <4>1, <4>2
    <3> QED BY <3>1
  <2>2. ASSUME NEW x \in {r, m}, NEW y \in DOMAIN f, y # r
        PROVE  Kids(g, x) \cap Kids(g, y) = {}
    <3>1. Kids(g, x) \subseteq Kids(f, r) /\ Kids(g, y) = Kids(f, y)
      BY <2>2
    <3>2. Kids(f, r) \cap Kids(f, y) = {}
      BY <2>2, <1>0
    <3> QED BY <3>1, <3>2
  <2>3. CASE q = t
    <3>1. Kids(g, s) \cap Kids(g, t) = {}
      BY <2>1, <2>3, <1>9
    <3> QED BY <3>1, <2>3
  <2>4. CASE s = t
    BY <2>1, <2>4, <1>9
  <2>5. CASE q \in {r, m} /\ s \in {r, m}
    BY <2>5, <1>9
  <2>6. CASE q \in {r, m} /\ s \notin {r, m, t}
    <3>1. s \in DOMAIN f /\ s # r
      BY <2>6
    <3> QED BY <3>1, <2>2, <2>6
  <2>7. CASE q \notin {r, m, t} /\ s \in {r, m}
    <3>1. q \in DOMAIN f /\ q # r
      BY <2>7
    <3>2. Kids(g, s) \cap Kids(g, q) = {}
      BY <3>1, <2>2, <2>7
    <3> QED BY <3>2
  <2>8. CASE q \notin {r, m, t} /\ s \notin {r, m, t}
    <3>1. /\ q \in DOMAIN f /\ s \in DOMAIN f
          /\ Kids(g, q) = Kids(f, q) /\ Kids(g, s) = Kids(f, s)
      BY <2>8
    <3> QED BY <3>1, <1>0, <1>9
  <2> QED BY <2>3, <2>4, <2>5, <2>6, <2>7, <2>8
<1>10. Linked(g, t)
  BY <1>7, <1>8, <1>9 DEF Linked
<1>11. Rooted(g, t)
  BY DEF Rooted
<1>12. DOMAIN g \subseteq NodeId
  BY <1>0
<1> QED BY <1>6, <1>10, <1>11, <1>12 DEF Tree

\* The root goes and its only child l takes its place.
TopGone(f, r, g, l) ==
  /\ Kids(f, r) = {l}
  /\ DOMAIN g = DOMAIN f \ {r}
  /\ \A n \in DOMAIN g : /\ g[n].leaf = f[n].leaf
                         /\ g[n].parent = NullPage <=> n = l
                         /\ WellFormed(g[n])
                         /\ Kids(g, n) = Kids(f, n)

LEMMA LostTop ==
  ASSUME NEW f, NEW r, NEW g, Tree(f, r), NEW l, TopGone(f, r, g, l)
  PROVE  Tree(g, l)
<1> USE DEF TopGone
<1>0. /\ r \in DOMAIN f /\ DOMAIN f \subseteq NodeId
      /\ \A n \in DOMAIN f : Kids(f, n) \subseteq DOMAIN f \ {r}
      /\ \A n \in DOMAIN f \ {r} : \E q \in DOMAIN f : n \in Kids(f, q)
      /\ \A n, q \in DOMAIN f : n # q => Kids(f, n) \cap Kids(f, q) = {}
  BY DEF Tree, Linked
<1>1. l \in DOMAIN g
  BY <1>0
<1>2. PICK h : Level(f, h)
  BY DEF Tree
<1>3. /\ \A n \in DOMAIN f : \A c \in Kids(f, n) : h[n] = h[c] + 1
      /\ \A n \in DOMAIN f : h[n] \in Nat /\ (f[n].leaf <=> h[n] = 0)
  BY <1>2 DEF Level
<1>4. \A n \in DOMAIN g : Kids(g, n) \subseteq DOMAIN g \ {l}
  BY <1>0
<1> DEFINE k == [n \in DOMAIN g |-> h[n]]
<1>5. k \in [DOMAIN g -> Nat] /\ \A n \in DOMAIN g : k[n] = h[n]
  BY <1>3
<1> HIDE DEF k
<1>6. \A n \in DOMAIN g : \A c \in Kids(g, n) : k[n] = k[c] + 1
  BY <1>3, <1>4, <1>5
<1>7. Level(g, k)
  BY <1>3, <1>5, <1>6 DEF Level
<1>8. \A n \in DOMAIN g \ {l} : \E q \in DOMAIN g : n \in Kids(g, q)
  BY <1>0
<1>9. \A q, s \in DOMAIN g : q # s => Kids(g, q) \cap Kids(g, s) = {}
  BY <1>0
<1>10. Linked(g, l)
  BY <1>1, <1>4, <1>8, <1>9 DEF Linked
<1>11. Rooted(g, l)
  BY DEF Rooted
<1> QED BY <1>0, <1>7, <1>10, <1>11 DEF Tree

-----------------------------------------------------------------------------
(* Nodes *)

\* The fields of a node.
LEMMA NodeFields ==
  ASSUME NEW N \in Node
  PROVE  /\ N.leaf \in BOOLEAN /\ N.keys \in Seq(Keys) /\ N.vals \in Seq(RowIds)
         /\ N.kids \in Seq(NodeId)
         /\ N.parent \in NodeId \cup {NullPage} /\ N.next \in NodeId \cup {NullPage}
  BY DEF Node

WithVals(N, ks, vs) == [N EXCEPT !.keys = ks, !.vals = vs]
LeafNode(N) == WellFormed(N) /\ N.leaf
WithNext(N, ks, vs, x) == [N EXCEPT !.keys = ks, !.vals = vs, !.next = x]
WithKids(N, ks, cs) == [N EXCEPT !.keys = ks, !.kids = cs]

\* A leaf with other keys and values.
LEMMA LeafWith ==
  ASSUME NEW N, LeafNode(N),
         NEW ks \in Seq(Keys), NEW vs \in Seq(RowIds), Len(ks) = Len(vs)
  PROVE  LET M == WithVals(N, ks, vs)
         IN  /\ WellFormed(M) /\ M.leaf = N.leaf /\ M.keys = ks /\ M.vals = vs
             /\ M.kids = N.kids /\ M.parent = N.parent /\ M.next = N.next
<1>1. N \in Node /\ N.kids = << >> /\ WellFormed(N) /\ N.leaf
  BY DEF WellFormed, LeafNode
<1>2. WithVals(N, ks, vs) \in Node
  BY <1>1 DEF Node, WithVals
<1> QED BY <1>1, <1>2 DEF WellFormed, Node, WithVals

\* A leaf with other keys, values and next leaf.
LEMMA LeafMore ==
  ASSUME NEW N, LeafNode(N), NEW ks \in Seq(Keys), NEW vs \in Seq(RowIds), Len(ks) = Len(vs),
         NEW x \in NodeId \cup {NullPage}
  PROVE  LET M == WithNext(N, ks, vs, x)
         IN  /\ WellFormed(M) /\ M.leaf = N.leaf /\ M.keys = ks /\ M.vals = vs
             /\ M.kids = N.kids /\ M.parent = N.parent /\ M.next = x
<1>1. N \in Node /\ N.kids = << >> /\ WellFormed(N) /\ N.leaf
  BY DEF WellFormed, LeafNode
<1>2. WithNext(N, ks, vs, x) \in Node
  BY <1>1 DEF Node, WithNext
<1> QED BY <1>1, <1>2 DEF WellFormed, Node, WithNext

\* An internal node with other keys and children.
LEMMA InnerWith ==
  ASSUME NEW N, WellFormed(N), ~N.leaf,
         NEW ks \in Seq(Keys), NEW cs \in Seq(NodeId), Len(cs) = Len(ks) + 1, IsInjective(cs)
  PROVE  LET M == WithKids(N, ks, cs)
         IN  /\ WellFormed(M) /\ M.leaf = N.leaf /\ M.keys = ks /\ M.vals = N.vals
             /\ M.kids = cs /\ M.parent = N.parent /\ M.next = N.next
<1>1. N \in Node
  BY DEF WellFormed
<1>2. WithKids(N, ks, cs) \in Node
  BY <1>1 DEF Node, WithKids
<1> QED BY <1>1, <1>2 DEF WellFormed, Node, WithKids

\* A node with other keys, as many as before.
LEMMA KeysWith ==
  ASSUME NEW N, WellFormed(N), NEW i \in 1 .. Len(N.keys), NEW k \in Keys
  PROVE  LET M == [N EXCEPT !.keys[i] = k]
         IN  /\ WellFormed(M) /\ M.leaf = N.leaf /\ Len(M.keys) = Len(N.keys) /\ M.vals = N.vals
             /\ M.kids = N.kids /\ M.parent = N.parent /\ M.next = N.next
<1>1. N \in Node
  BY DEF WellFormed
<1>2. N.keys \in Seq(Keys)
  BY <1>1 DEF Node
<1>3. [N.keys EXCEPT ![i] = k] \in Seq(Keys) /\ Len([N.keys EXCEPT ![i] = k]) = Len(N.keys)
  BY <1>2, ExceptSeq
<1>4. [N EXCEPT !.keys[i] = k] \in Node
  BY <1>1, <1>3 DEF Node
<1>5. [N EXCEPT !.keys[i] = k].keys = [N.keys EXCEPT ![i] = k]
  BY <1>1 DEF Node
<1> QED BY <1>1, <1>3, <1>4, <1>5 DEF WellFormed, Node

\* A node with another parent.
LEMMA ParentWith ==
  ASSUME NEW N, WellFormed(N), NEW p \in NodeId \cup {NullPage}
  PROVE  LET M == [N EXCEPT !.parent = p]
         IN  /\ WellFormed(M) /\ M.leaf = N.leaf /\ M.keys = N.keys /\ M.vals = N.vals
             /\ M.kids = N.kids /\ M.parent = p /\ M.next = N.next
<1>1. N \in Node
  BY DEF WellFormed
<1>2. [N EXCEPT !.parent = p] \in Node
  BY <1>1 DEF Node
<1> QED BY <1>1, <1>2 DEF WellFormed, Node

\* What Leaf and Inner make.
LeafData(ks, vs, p, x) ==
  /\ ks \in Seq(Keys) /\ vs \in Seq(RowIds) /\ Len(ks) = Len(vs)
  /\ p \in NodeId \cup {NullPage} /\ x \in NodeId \cup {NullPage}

LEMMA NewLeaf ==
  ASSUME NEW ks, NEW vs, NEW p, NEW x, LeafData(ks, vs, p, x),
         NEW M, M = Leaf(ks, vs, p, x)
  PROVE  /\ WellFormed(M) /\ M.leaf /\ M.keys = ks /\ M.kids = << >>
         /\ M.parent = p /\ M.next = x
<1>1. M \in Node
  BY DEF Leaf, Node, LeafData
<1> QED BY <1>1 DEF Leaf, WellFormed, LeafData

InnerData(ks, cs, p) ==
  /\ ks \in Seq(Keys) /\ cs \in Seq(NodeId) /\ Len(cs) = Len(ks) + 1 /\ IsInjective(cs)
  /\ p \in NodeId \cup {NullPage}

LEMMA NewInner ==
  ASSUME NEW ks, NEW cs, NEW p, InnerData(ks, cs, p), NEW M, M = Inner(ks, cs, p)
  PROVE  /\ WellFormed(M) /\ ~M.leaf /\ M.keys = ks /\ M.kids = cs /\ M.parent = p
<1>1. M \in Node
  BY DEF Inner, Node, NullPage, InnerData
<1> QED BY <1>1 DEF Inner, WellFormed, InnerData

-----------------------------------------------------------------------------
(* Relatives of a node *)

\* l and r are children number i and i + 1 of p.
Adjacent(p, i, l, r) ==
  /\ p \in DOMAIN nodes
  /\ i \in Int /\ 1 <= i /\ i < Len(nodes[p].kids)
  /\ l = nodes[p].kids[i] /\ r = nodes[p].kids[i + 1]

SameLevel(l, r) == \A h : Level(nodes, h) => h[l] = h[r]

\* Two neighbouring children of a node.
LEMMA Neighbours ==
  ASSUME Tree(nodes, root), NEW p, NEW i, NEW l, NEW r, Adjacent(p, i, l, r)
  PROVE  /\ l \in Kids(nodes, p) /\ r \in Kids(nodes, p)
         /\ p \in DOMAIN nodes /\ i \in Int
         /\ l \in DOMAIN nodes \ {root} /\ r \in DOMAIN nodes \ {root}
         /\ l # r /\ p # l /\ p # r /\ ~nodes[p].leaf
         /\ i \in 1 .. Len(nodes[p].keys) /\ Len(nodes[p].kids) = Len(nodes[p].keys) + 1
         /\ nodes[l].leaf = nodes[r].leaf
         /\ SameLevel(l, r)
         /\ {p, l, r} \cap (Kids(nodes, l) \cup Kids(nodes, r)) = {}
         /\ Kids(nodes, l) \cap Kids(nodes, r) = {}
         /\ WellFormed(nodes[p]) /\ WellFormed(nodes[l]) /\ WellFormed(nodes[r])
<1> USE DEF Adjacent
<1>1. /\ \A n \in DOMAIN nodes : WellFormed(nodes[n])
      /\ \A n \in DOMAIN nodes : Kids(nodes, n) \subseteq DOMAIN nodes \ {root}
      /\ \A n \in DOMAIN nodes : nodes[n].leaf => Kids(nodes, n) = {}
      /\ \A m, n \in DOMAIN nodes : m # n => Kids(nodes, m) \cap Kids(nodes, n) = {}
  BY TreeFacts DEF Tree, Linked
<1>2. nodes[p].kids \in Seq(NodeId) /\ nodes[p].keys \in Seq(Keys)
  BY <1>1, NodeFields DEF WellFormed
<1>3. Len(nodes[p].kids) \in Nat /\ Len(nodes[p].keys) \in Nat
  BY <1>2, LenProperties
<1>4. i \in 1 .. Len(nodes[p].kids) /\ i + 1 \in 1 .. Len(nodes[p].kids)
  BY <1>3
<1>5. /\ Kids(nodes, p) = {nodes[p].kids[j] : j \in 1 .. Len(nodes[p].kids)}
      /\ IsInjective(nodes[p].kids) <=> \A j, k \in 1 .. Len(nodes[p].kids) :
                                         nodes[p].kids[j] = nodes[p].kids[k] => j = k
  BY <1>2, Positions DEF Kids
<1>6. l \in Kids(nodes, p) /\ r \in Kids(nodes, p)
  BY <1>4, <1>5
<1>7. ~nodes[p].leaf
  BY <1>1, <1>6
<1>8. Len(nodes[p].kids) = Len(nodes[p].keys) + 1 /\ IsInjective(nodes[p].kids)
  BY <1>1, <1>7 DEF WellFormed
<1>9. l # r
  BY <1>4, <1>5, <1>8
<1>10. l \in DOMAIN nodes \ {root} /\ r \in DOMAIN nodes \ {root}
  BY <1>1, <1>6
<1>11. ASSUME NEW h, Level(nodes, h)
       PROVE  /\ h[l] = h[r] /\ h[p] = h[l] + 1 /\ h[l] \in Nat
              /\ \A c \in Kids(nodes, l) \cup Kids(nodes, r) :
                   c \in DOMAIN nodes /\ h[l] = h[c] + 1 /\ h[c] \in Nat
              /\ nodes[l].leaf = nodes[r].leaf
  <2>1. /\ h \in [DOMAIN nodes -> Nat]
        /\ \A n \in DOMAIN nodes : \A c \in Kids(nodes, n) : h[n] = h[c] + 1
        /\ \A n \in DOMAIN nodes : nodes[n].leaf <=> h[n] = 0
    BY <1>11 DEF Level
  <2>2. h[p] = h[l] + 1 /\ h[p] = h[r] + 1 /\ h[l] \in Nat /\ h[r] \in Nat
    BY <2>1, <1>6, <1>10
  <2>3. \A c \in Kids(nodes, l) : c \in DOMAIN nodes /\ h[l] = h[c] + 1 /\ h[c] \in Nat
    BY <2>1, <1>1, <1>10
  <2>4. \A c \in Kids(nodes, r) : c \in DOMAIN nodes /\ h[r] = h[c] + 1 /\ h[c] \in Nat
    BY <2>1, <1>1, <1>10
  <2>5. h[l] = h[r]
    BY <2>2
  <2>6. nodes[l].leaf \in BOOLEAN /\ nodes[r].leaf \in BOOLEAN
    BY <1>1, <1>10, NodeFields DEF WellFormed
  <2> QED BY <2>1, <2>2, <2>3, <2>4, <2>5, <2>6, <1>10
<1>12. PICK h : Level(nodes, h)
  BY DEF Tree
<1>13. p # l /\ p # r
  BY <1>11, <1>12
<1>14. {p, l, r} \cap (Kids(nodes, l) \cup Kids(nodes, r)) = {}
  <2>1. \A c \in Kids(nodes, l) \cup Kids(nodes, r) : c \notin {p, l, r}
    BY <1>11, <1>12
  <2> QED BY <2>1
<1>15. nodes[l].leaf = nodes[r].leaf
  BY <1>11, <1>12
<1>16. SameLevel(l, r)
  BY <1>11 DEF SameLevel
<1>17. Kids(nodes, l) \cap Kids(nodes, r) = {}
  BY <1>1, <1>9, <1>10
<1>18. i \in 1 .. Len(nodes[p].keys)
  BY <1>3, <1>8
<1>19. WellFormed(nodes[p]) /\ WellFormed(nodes[l]) /\ WellFormed(nodes[r])
  BY <1>1, <1>10
<1> QED BY <1>6, <1>7, <1>8, <1>9, <1>10, <1>13, <1>14, <1>15, <1>16, <1>17, <1>18, <1>19

-----------------------------------------------------------------------------
(* Keys that go to a neighbour *)

\* The last key of l goes to r: the tree and its parents stay as they are,
\* and so does every leaf but these two.
LEMMA ShiftRightKeeps ==
  ASSUME Tree(nodes, root), NEW p, NEW i, NEW l, NEW r, Adjacent(p, i, l, r),
         nodes[l].keys # << >>,
         NEW g, g = ShiftRight(p, i)
  PROVE  /\ Tree(g, root) /\ (Adopted(nodes) => Adopted(g))
         /\ DOMAIN g = DOMAIN nodes
         /\ \A n \in DOMAIN nodes : g[n].leaf = nodes[n].leaf /\ g[n].next = nodes[n].next
         /\ \A n \in DOMAIN nodes \ {l, r} : nodes[n].leaf => g[n].keys = nodes[n].keys
         /\ Len(g[l].keys) = Len(nodes[l].keys) - 1
         /\ Len(g[r].keys) = Len(nodes[r].keys) + 1
<1> DEFINE L == nodes[l]
           R == nodes[r]
           k == Last(L.keys)
<1>1. /\ p \in DOMAIN nodes
      /\ l \in DOMAIN nodes \ {root} /\ r \in DOMAIN nodes \ {root}
      /\ l # r /\ p # l /\ p # r /\ ~nodes[p].leaf
      /\ i \in 1 .. Len(nodes[p].keys)
      /\ L.leaf = R.leaf
      /\ SameLevel(l, r)
      /\ {p, l, r} \cap (Kids(nodes, l) \cup Kids(nodes, r)) = {}
      /\ Kids(nodes, l) \cap Kids(nodes, r) = {}
      /\ WellFormed(nodes[p]) /\ WellFormed(L) /\ WellFormed(R)
  BY Neighbours
<1>2. /\ L \in Node /\ R \in Node /\ nodes[p] \in Node
      /\ L.keys \in Seq(Keys) /\ R.keys \in Seq(Keys) /\ nodes[p].keys \in Seq(Keys)
      /\ L.vals \in Seq(RowIds) /\ R.vals \in Seq(RowIds)
      /\ L.kids \in Seq(NodeId) /\ R.kids \in Seq(NodeId)
  BY <1>1, NodeFields DEF WellFormed
<1>3. /\ \A n \in DOMAIN nodes : WellFormed(nodes[n])
      /\ \A n \in DOMAIN nodes : Kids(nodes, n) \subseteq DOMAIN nodes \ {root}
      /\ \A m, n \in DOMAIN nodes : m # n => Kids(nodes, m) \cap Kids(nodes, n) = {}
      /\ \A n \in DOMAIN nodes : nodes[n].parent = NullPage <=> n = root
      /\ DOMAIN nodes \subseteq NodeId
  BY DEF Tree, Linked, Rooted
<1>4. /\ Front(L.keys) \in Seq(Keys) /\ Len(Front(L.keys)) = Len(L.keys) - 1
      /\ k \in Keys /\ Len(L.keys) \in Nat \ {0} /\ Len(R.keys) \in Nat
  BY <1>2, FrontFacts, EmptySeq, LenProperties
<1>5. ASSUME NEW x \in Keys
      PROVE  <<x>> \o R.keys \in Seq(Keys) /\ Len(<<x>> \o R.keys) = Len(R.keys) + 1
  BY <1>2, PushFacts
<1>6. CASE L.leaf
  <2> DEFINE P == [nodes[p] EXCEPT !.keys[i] = k]
             X == WithVals(L, Front(L.keys), Front(L.vals))
             Y == WithVals(R, <<k>> \o R.keys, <<Last(L.vals)>> \o R.vals)
  <2>1. g = [nodes EXCEPT ![p] = P, ![l] = X, ![r] = Y]
    BY <1>6 DEF ShiftRight, WithVals, Adjacent
  <2>2. /\ WellFormed(P) /\ P.leaf = nodes[p].leaf /\ P.kids = nodes[p].kids
        /\ P.parent = nodes[p].parent /\ P.next = nodes[p].next
    BY <1>1, <1>4, KeysWith
  <2>3. Len(L.vals) = Len(L.keys) /\ Len(R.vals) = Len(R.keys)
    BY <1>1, <1>6 DEF WellFormed
  <2>4. /\ L.vals # << >> /\ Last(L.vals) \in RowIds
        /\ Front(L.vals) \in Seq(RowIds) /\ Len(Front(L.vals)) = Len(L.vals) - 1
    <3>1. L.vals # << >>
      BY <2>3, <1>4
    <3> QED BY <3>1, <1>2, FrontFacts
  <2>5. /\ <<Last(L.vals)>> \o R.vals \in Seq(RowIds)
        /\ Len(<<Last(L.vals)>> \o R.vals) = Len(R.vals) + 1
    BY <1>2, <2>4, PushFacts
  <2>6. /\ WellFormed(X) /\ X.leaf = L.leaf /\ Len(X.keys) = Len(L.keys) - 1
        /\ X.kids = L.kids /\ X.parent = L.parent /\ X.next = L.next
    <3> DEFINE ks == Front(L.keys)
               vs == Front(L.vals)
    <3>1. ks \in Seq(Keys) /\ vs \in Seq(RowIds) /\ Len(ks) = Len(vs)
      BY <1>4, <2>3, <2>4
    <3>0. Len(ks) = Len(L.keys) - 1
      BY <1>4, <2>3, <2>4
    <3>2. X = WithVals(L, ks, vs) /\ LeafNode(L)
      BY <1>1, <1>6 DEF LeafNode
    <3> HIDE DEF ks, vs, X, L
    <3>3. /\ WellFormed(X) /\ X.leaf = L.leaf /\ X.keys = ks
          /\ X.kids = L.kids /\ X.parent = L.parent /\ X.next = L.next
      BY <3>1, <3>2, LeafWith
    <3> QED BY <3>0, <3>3
  <2>7. /\ WellFormed(Y) /\ Y.leaf = R.leaf /\ Len(Y.keys) = Len(R.keys) + 1
        /\ Y.kids = R.kids /\ Y.parent = R.parent /\ Y.next = R.next
    <3> DEFINE ks == <<k>> \o R.keys
               vs == <<Last(L.vals)>> \o R.vals
    <3>1. ks \in Seq(Keys) /\ vs \in Seq(RowIds) /\ Len(ks) = Len(vs)
      BY <1>4, <1>5, <2>3, <2>5
    <3>0. Len(ks) = Len(R.keys) + 1
      BY <1>4, <1>5, <2>3, <2>5
    <3>2. Y = WithVals(R, ks, vs) /\ LeafNode(R)
      BY <1>1, <1>6 DEF LeafNode
    <3> HIDE DEF ks, vs, Y, R
    <3>3. /\ WellFormed(Y) /\ Y.leaf = R.leaf /\ Y.keys = ks
          /\ Y.kids = R.kids /\ Y.parent = R.parent /\ Y.next = R.next
      BY <3>1, <3>2, LeafWith
    <3> QED BY <3>0, <3>3
  <2> HIDE DEF P, X, Y
  <2>8. /\ DOMAIN g = DOMAIN nodes /\ g[p] = P /\ g[l] = X /\ g[r] = Y
        /\ \A n \in DOMAIN nodes \ {p, l, r} : g[n] = nodes[n]
    BY <1>1, <2>1
  <2>9. \A n \in DOMAIN nodes : /\ g[n].kids = nodes[n].kids /\ g[n].leaf = nodes[n].leaf
                                /\ g[n].parent = nodes[n].parent /\ g[n].next = nodes[n].next
                                /\ WellFormed(g[n])
    BY <1>3, <2>2, <2>6, <2>7, <2>8
  <2>10. Tree(g, root) /\ (Adopted(nodes) => Adopted(g))
    BY <2>8, <2>9, SameKids
  <2> QED BY <1>1, <1>4, <1>5, <2>6, <2>7, <2>8, <2>9, <2>10
<1>7. CASE ~L.leaf
  <2> DEFINE c == Last(L.kids)
             P == [nodes[p] EXCEPT !.keys[i] = k]
             X == WithKids(L, Front(L.keys), Front(L.kids))
             Y == WithKids(R, <<nodes[p].keys[i]>> \o R.keys, <<c>> \o R.kids)
             Z == [nodes[c] EXCEPT !.parent = r]
  <2>1. g = [nodes EXCEPT ![p] = P, ![l] = X, ![r] = Y, ![c] = Z]
    BY <1>7 DEF ShiftRight, WithKids, Adjacent
  <2>2. /\ WellFormed(P) /\ P.leaf = nodes[p].leaf /\ P.kids = nodes[p].kids
        /\ P.parent = nodes[p].parent /\ P.next = nodes[p].next
    BY <1>1, <1>4, KeysWith
  <2>3. /\ Len(L.kids) = Len(L.keys) + 1 /\ IsInjective(L.kids)
        /\ Len(R.kids) = Len(R.keys) + 1 /\ IsInjective(R.kids) /\ L.kids # << >>
    BY <1>1, <1>2, <1>4, <1>7 DEF WellFormed
  <2>4. /\ Range(Front(L.kids)) = Kids(nodes, l) \ {c} /\ c \in Kids(nodes, l)
        /\ IsInjective(Front(L.kids)) /\ Front(L.kids) \in Seq(NodeId) /\ c \in NodeId
        /\ Len(Front(L.kids)) = Len(L.kids) - 1
    BY <1>2, <2>3, FrontKids, FrontFacts DEF Kids
  <2>5. /\ <<c>> \o R.kids \in Seq(NodeId) /\ IsInjective(<<c>> \o R.kids)
        /\ Len(<<c>> \o R.kids) = Len(R.kids) + 1
        /\ Range(<<c>> \o R.kids) = Kids(nodes, r) \cup {c}
    <3> DEFINE cs == R.kids
    <3>1. cs \in Seq(NodeId) /\ IsInjective(cs) /\ c \in NodeId /\ c \notin Range(cs)
      BY <1>1, <1>2, <2>3, <2>4 DEF Kids
    <3> HIDE DEF c, cs
    <3>2. /\ <<c>> \o cs \in Seq(NodeId) /\ IsInjective(<<c>> \o cs)
          /\ Len(<<c>> \o cs) = Len(cs) + 1
          /\ Range(<<c>> \o cs) = Range(cs) \cup {c}
      BY <3>1, PushKids
    <3> QED BY <3>2 DEF cs, Kids
  <2>6. /\ WellFormed(X) /\ X.leaf = L.leaf /\ X.keys = Front(L.keys) /\ X.kids = Front(L.kids)
        /\ X.parent = L.parent /\ X.next = L.next
    <3>1. Len(Front(L.kids)) = Len(Front(L.keys)) + 1
      BY <1>4, <2>3, <2>4
    <3> QED BY <3>1, <1>1, <1>4, <1>7, <2>4, InnerWith
  <2>7. nodes[p].keys[i] \in Keys
    BY <1>1, <1>2, ElementOfSeq
  <2>8. /\ WellFormed(Y) /\ Y.leaf = R.leaf /\ Len(Y.keys) = Len(R.keys) + 1
        /\ Y.kids = <<c>> \o R.kids /\ Y.parent = R.parent /\ Y.next = R.next
    <3> DEFINE ks == <<nodes[p].keys[i]>> \o R.keys
               cs == <<c>> \o R.kids
    <3>1. ks \in Seq(Keys) /\ Len(ks) = Len(R.keys) + 1
      BY <1>5, <2>7
    <3>2. cs \in Seq(NodeId) /\ Len(cs) = Len(ks) + 1 /\ IsInjective(cs)
      BY <3>1, <1>4, <2>3, <2>5
    <3> HIDE DEF ks, cs
    <3>3. Y = WithKids(R, ks, cs)
      BY DEF ks, cs
    <3> HIDE DEF Y
    <3>4. /\ WellFormed(Y) /\ Y.leaf = R.leaf /\ Y.keys = ks /\ Y.kids = cs
          /\ Y.parent = R.parent /\ Y.next = R.next
      BY <3>1, <3>2, <3>3, <1>1, <1>7, InnerWith
    <3> QED BY <3>1, <3>4 DEF cs
  <2>9. c \in DOMAIN nodes \ {root, p, l, r}
    BY <1>1, <1>3, <2>4
  <2>10. /\ WellFormed(Z) /\ Z.leaf = nodes[c].leaf /\ Z.keys = nodes[c].keys
         /\ Z.kids = nodes[c].kids /\ Z.parent = r /\ Z.next = nodes[c].next
    <3>1. r \in NodeId \cup {NullPage} /\ WellFormed(nodes[c])
      BY <1>1, <1>3, <2>9
    <3> QED BY <3>1, ParentWith
  <2> HIDE DEF P, X, Y, Z, c
  <2>11. /\ DOMAIN g = DOMAIN nodes /\ g[p] = P /\ g[l] = X /\ g[r] = Y /\ g[c] = Z
         /\ \A n \in DOMAIN nodes \ {p, l, r, c} : g[n] = nodes[n]
    BY <1>1, <2>1, <2>9
  <2>12. \A n \in DOMAIN nodes : g[n].leaf = nodes[n].leaf /\ g[n].next = nodes[n].next
    BY <2>2, <2>6, <2>8, <2>10, <2>11
  <2>13. \A n \in DOMAIN nodes : WellFormed(g[n])
    BY <1>3, <2>2, <2>6, <2>8, <2>10, <2>11
  <2>14. r # NullPage /\ c # root
    BY <1>1, <1>3, <2>9 DEF NodeId, NullPage
  <2>15. \A n \in DOMAIN nodes : g[n].parent = NullPage <=> nodes[n].parent = NullPage
    BY <1>3, <2>2, <2>6, <2>8, <2>9, <2>10, <2>11, <2>14
  <2>16. /\ \A n \in DOMAIN nodes \ {l, r} : Kids(g, n) = Kids(nodes, n)
         /\ Kids(g, l) = Kids(nodes, l) \ {c} /\ Kids(g, r) = Kids(nodes, r) \cup {c}
    BY <2>2, <2>4, <2>5, <2>6, <2>8, <2>10, <2>11 DEF Kids
  <2>17. /\ Kids(g, l) \cup Kids(g, r) = Kids(nodes, l) \cup Kids(nodes, r)
         /\ Kids(g, l) \cap Kids(g, r) = {}
    BY <1>1, <2>4, <2>16
  <2>18. Tree(g, root)
    BY <1>1, <2>11, <2>12, <2>13, <2>15, <2>16, <2>17, SharedKids DEF SameLevel
  <2>19. ASSUME Adopted(nodes), NEW n \in DOMAIN g, NEW d \in Kids(g, n)
         PROVE  g[d].parent = n
    <3>1. n \notin {l, r} => d \in Kids(nodes, n) /\ d # c
      BY <1>1, <1>3, <2>4, <2>11, <2>16, <2>19
    <3>2. n \in {l, r} => (d = c /\ n = r) \/ (d \in Kids(nodes, n) /\ d # c)
      <4>1. CASE n = l
        <5>1. d \in Kids(nodes, l) \ {c}
          BY <4>1, <2>16, <2>19
        <5> QED BY <5>1, <4>1
      <4>2. CASE n = r
        <5>1. d = c \/ d \in Kids(nodes, r)
          BY <4>2, <2>16, <2>19
        <5> QED BY <5>1, <4>2
      <4> QED BY <4>1, <4>2
    <3>3. d \in DOMAIN nodes /\ d # c => g[d].parent = nodes[d].parent
      BY <2>2, <2>6, <2>8, <2>11
    <3> QED BY <3>1, <3>2, <3>3, <1>3, <2>10, <2>11, <2>19 DEF Adopted
  <2>20. \A n \in DOMAIN nodes \ {l, r} : nodes[n].leaf => g[n].keys = nodes[n].keys
    BY <1>1, <2>10, <2>11
  <2> QED BY <1>4, <2>6, <2>8, <2>11, <2>12, <2>18, <2>19, <2>20 DEF Adopted
<1>8. L.leaf \in BOOLEAN
  BY <1>2, NodeFields
<1> QED BY <1>6, <1>7, <1>8

\* The first key of r goes to l.
LEMMA ShiftLeftKeeps ==
  ASSUME Tree(nodes, root), NEW p, NEW i, NEW l, NEW r, Adjacent(p, i, l, r),
         nodes[r].keys # << >>, nodes[r].leaf => Len(nodes[r].keys) >= 2,
         NEW g, g = ShiftLeft(p, i)
  PROVE  /\ Tree(g, root) /\ (Adopted(nodes) => Adopted(g))
         /\ DOMAIN g = DOMAIN nodes
         /\ \A n \in DOMAIN nodes : g[n].leaf = nodes[n].leaf /\ g[n].next = nodes[n].next
         /\ \A n \in DOMAIN nodes \ {l, r} : nodes[n].leaf => g[n].keys = nodes[n].keys
         /\ Len(g[l].keys) = Len(nodes[l].keys) + 1
         /\ Len(g[r].keys) = Len(nodes[r].keys) - 1
<1> DEFINE L == nodes[l]
           R == nodes[r]
           k == IF L.leaf THEN R.keys[2] ELSE Head(R.keys)
<1>1. /\ p \in DOMAIN nodes
      /\ l \in DOMAIN nodes \ {root} /\ r \in DOMAIN nodes \ {root}
      /\ l # r /\ p # l /\ p # r /\ ~nodes[p].leaf
      /\ i \in 1 .. Len(nodes[p].keys)
      /\ L.leaf = R.leaf
      /\ SameLevel(l, r)
      /\ {p, l, r} \cap (Kids(nodes, l) \cup Kids(nodes, r)) = {}
      /\ Kids(nodes, l) \cap Kids(nodes, r) = {}
      /\ WellFormed(nodes[p]) /\ WellFormed(L) /\ WellFormed(R)
  BY Neighbours
<1>2. /\ L \in Node /\ R \in Node /\ nodes[p] \in Node
      /\ L.keys \in Seq(Keys) /\ R.keys \in Seq(Keys) /\ nodes[p].keys \in Seq(Keys)
      /\ L.vals \in Seq(RowIds) /\ R.vals \in Seq(RowIds)
      /\ L.kids \in Seq(NodeId) /\ R.kids \in Seq(NodeId)
  BY <1>1, NodeFields DEF WellFormed
<1>3. /\ \A n \in DOMAIN nodes : WellFormed(nodes[n])
      /\ \A n \in DOMAIN nodes : Kids(nodes, n) \subseteq DOMAIN nodes \ {root}
      /\ \A m, n \in DOMAIN nodes : m # n => Kids(nodes, m) \cap Kids(nodes, n) = {}
      /\ \A n \in DOMAIN nodes : nodes[n].parent = NullPage <=> n = root
      /\ DOMAIN nodes \subseteq NodeId
  BY DEF Tree, Linked, Rooted
<1>4. /\ Tail(R.keys) \in Seq(Keys) /\ Len(Tail(R.keys)) = Len(R.keys) - 1
      /\ Head(R.keys) \in Keys /\ Len(L.keys) \in Nat /\ Len(R.keys) \in Nat \ {0}
  BY <1>2, HeadTailProperties, EmptySeq, LenProperties
<1>9. k \in Keys
  <2>1. CASE L.leaf
    <3>1. 2 \in 1 .. Len(R.keys)
      BY <2>1, <1>1, <1>4
    <3> QED BY <3>1, <2>1, <1>2, ElementOfSeq
  <2>2. CASE ~L.leaf
    BY <2>2, <1>4
  <2> QED BY <2>1, <2>2
<1>5. ASSUME NEW x \in Keys
      PROVE  Append(L.keys, x) \in Seq(Keys) /\ Len(Append(L.keys, x)) = Len(L.keys) + 1
  BY <1>2, AppendProperties
<1>6. CASE L.leaf
  <2> DEFINE P == [nodes[p] EXCEPT !.keys[i] = k]
             X == WithVals(L, Append(L.keys, Head(R.keys)), Append(L.vals, Head(R.vals)))
             Y == WithVals(R, Tail(R.keys), Tail(R.vals))
  <2>1. g = [nodes EXCEPT ![p] = P, ![l] = X, ![r] = Y]
    BY <1>6 DEF ShiftLeft, WithVals, Adjacent
  <2>2. /\ WellFormed(P) /\ P.leaf = nodes[p].leaf /\ P.kids = nodes[p].kids
        /\ P.parent = nodes[p].parent /\ P.next = nodes[p].next
    BY <1>1, <1>9, KeysWith
  <2>3. Len(L.vals) = Len(L.keys) /\ Len(R.vals) = Len(R.keys)
    BY <1>1, <1>6 DEF WellFormed
  <2>4. /\ R.vals # << >> /\ Head(R.vals) \in RowIds
        /\ Tail(R.vals) \in Seq(RowIds) /\ Len(Tail(R.vals)) = Len(R.vals) - 1
    <3>1. R.vals # << >>
      BY <2>3, <1>4
    <3> QED BY <3>1, <1>2, HeadTailProperties
  <2>5. /\ Append(L.vals, Head(R.vals)) \in Seq(RowIds)
        /\ Len(Append(L.vals, Head(R.vals))) = Len(L.vals) + 1
    BY <1>2, <2>4, AppendProperties
  <2>6. /\ WellFormed(X) /\ X.leaf = L.leaf /\ Len(X.keys) = Len(L.keys) + 1
        /\ X.kids = L.kids /\ X.parent = L.parent /\ X.next = L.next
    <3> DEFINE ks == Append(L.keys, Head(R.keys))
               vs == Append(L.vals, Head(R.vals))
    <3>1. ks \in Seq(Keys) /\ vs \in Seq(RowIds) /\ Len(ks) = Len(vs)
      BY <1>4, <1>5, <2>3, <2>5
    <3>0. Len(ks) = Len(L.keys) + 1
      BY <1>4, <1>5
    <3>2. X = WithVals(L, ks, vs) /\ LeafNode(L)
      BY <1>1, <1>6 DEF LeafNode
    <3> HIDE DEF ks, vs, X, L
    <3>3. /\ WellFormed(X) /\ X.leaf = L.leaf /\ X.keys = ks
          /\ X.kids = L.kids /\ X.parent = L.parent /\ X.next = L.next
      BY <3>1, <3>2, LeafWith
    <3> QED BY <3>0, <3>3
  <2>7. /\ WellFormed(Y) /\ Y.leaf = R.leaf /\ Len(Y.keys) = Len(R.keys) - 1
        /\ Y.kids = R.kids /\ Y.parent = R.parent /\ Y.next = R.next
    <3> DEFINE ks == Tail(R.keys)
               vs == Tail(R.vals)
    <3>1. ks \in Seq(Keys) /\ vs \in Seq(RowIds) /\ Len(ks) = Len(vs)
      BY <1>4, <2>3, <2>4
    <3>0. Len(ks) = Len(R.keys) - 1
      BY <1>4
    <3>2. Y = WithVals(R, ks, vs) /\ LeafNode(R)
      BY <1>1, <1>6 DEF LeafNode
    <3> HIDE DEF ks, vs, Y, R
    <3>3. /\ WellFormed(Y) /\ Y.leaf = R.leaf /\ Y.keys = ks
          /\ Y.kids = R.kids /\ Y.parent = R.parent /\ Y.next = R.next
      BY <3>1, <3>2, LeafWith
    <3> QED BY <3>0, <3>3
  <2> HIDE DEF P, X, Y
  <2>8. /\ DOMAIN g = DOMAIN nodes /\ g[p] = P /\ g[l] = X /\ g[r] = Y
        /\ \A n \in DOMAIN nodes \ {p, l, r} : g[n] = nodes[n]
    BY <1>1, <2>1
  <2>9. \A n \in DOMAIN nodes : /\ g[n].kids = nodes[n].kids /\ g[n].leaf = nodes[n].leaf
                                /\ g[n].parent = nodes[n].parent /\ g[n].next = nodes[n].next
                                /\ WellFormed(g[n])
    BY <1>3, <2>2, <2>6, <2>7, <2>8
  <2>10. Tree(g, root) /\ (Adopted(nodes) => Adopted(g))
    BY <2>8, <2>9, SameKids
  <2> QED BY <1>1, <1>4, <1>5, <2>6, <2>7, <2>8, <2>9, <2>10
<1>7. CASE ~L.leaf
  <2> DEFINE c == Head(R.kids)
             P == [nodes[p] EXCEPT !.keys[i] = k]
             X == WithKids(L, Append(L.keys, nodes[p].keys[i]), Append(L.kids, c))
             Y == WithKids(R, Tail(R.keys), Tail(R.kids))
             Z == [nodes[c] EXCEPT !.parent = l]
  <2>1. g = [nodes EXCEPT ![p] = P, ![l] = X, ![r] = Y, ![c] = Z]
    BY <1>7 DEF ShiftLeft, WithKids, Adjacent
  <2>2. /\ WellFormed(P) /\ P.leaf = nodes[p].leaf /\ P.kids = nodes[p].kids
        /\ P.parent = nodes[p].parent /\ P.next = nodes[p].next
    BY <1>1, <1>9, KeysWith
  <2>3. /\ Len(L.kids) = Len(L.keys) + 1 /\ IsInjective(L.kids)
        /\ Len(R.kids) = Len(R.keys) + 1 /\ IsInjective(R.kids) /\ R.kids # << >>
    BY <1>1, <1>2, <1>4, <1>7 DEF WellFormed
  <2>4. /\ Range(Tail(R.kids)) = Kids(nodes, r) \ {c} /\ c \in Kids(nodes, r)
        /\ IsInjective(Tail(R.kids)) /\ Tail(R.kids) \in Seq(NodeId) /\ c \in NodeId
        /\ Len(Tail(R.kids)) = Len(R.kids) - 1
    BY <1>2, <2>3, TailKids, HeadTailProperties DEF Kids
  <2>5. /\ Append(L.kids, c) \in Seq(NodeId) /\ IsInjective(Append(L.kids, c))
        /\ Len(Append(L.kids, c)) = Len(L.kids) + 1
        /\ Range(Append(L.kids, c)) = Kids(nodes, l) \cup {c}
    <3> DEFINE cs == L.kids
    <3>1. cs \in Seq(NodeId) /\ IsInjective(cs) /\ c \in NodeId /\ c \notin Range(cs)
      BY <1>1, <1>2, <2>3, <2>4 DEF Kids
    <3>2. Append(cs, c) = AtEnd(cs, c)
      BY DEF AtEnd
    <3> HIDE DEF c, cs
    <3>3. /\ AtEnd(cs, c) \in Seq(NodeId) /\ IsInjective(AtEnd(cs, c))
          /\ Len(AtEnd(cs, c)) = Len(cs) + 1
          /\ Range(AtEnd(cs, c)) = Range(cs) \cup {c}
      BY <3>1, AppendKids
    <3> QED BY <3>2, <3>3 DEF cs, Kids
  <2>7. nodes[p].keys[i] \in Keys
    BY <1>1, <1>2, ElementOfSeq
  <2>6. /\ WellFormed(X) /\ X.leaf = L.leaf /\ Len(X.keys) = Len(L.keys) + 1
        /\ X.kids = Append(L.kids, c) /\ X.parent = L.parent /\ X.next = L.next
    <3> DEFINE ks == Append(L.keys, nodes[p].keys[i])
               cs == Append(L.kids, c)
    <3>1. ks \in Seq(Keys) /\ Len(ks) = Len(L.keys) + 1
      BY <1>5, <2>7
    <3>2. cs \in Seq(NodeId) /\ Len(cs) = Len(ks) + 1 /\ IsInjective(cs)
      BY <3>1, <1>4, <2>3, <2>5
    <3> HIDE DEF ks, cs
    <3>3. X = WithKids(L, ks, cs)
      BY DEF ks, cs
    <3> HIDE DEF X
    <3>4. /\ WellFormed(X) /\ X.leaf = L.leaf /\ X.keys = ks /\ X.kids = cs
          /\ X.parent = L.parent /\ X.next = L.next
      BY <3>1, <3>2, <3>3, <1>1, <1>7, InnerWith
    <3> QED BY <3>1, <3>4 DEF cs
  <2>8. /\ WellFormed(Y) /\ Y.leaf = R.leaf /\ Len(Y.keys) = Len(R.keys) - 1
        /\ Y.kids = Tail(R.kids) /\ Y.parent = R.parent /\ Y.next = R.next
    <3> DEFINE ks == Tail(R.keys)
               cs == Tail(R.kids)
    <3>1. ks \in Seq(Keys) /\ Len(ks) = Len(R.keys) - 1
      BY <1>4
    <3>2. cs \in Seq(NodeId) /\ Len(cs) = Len(ks) + 1 /\ IsInjective(cs)
      BY <3>1, <1>4, <2>3, <2>4
    <3> HIDE DEF ks, cs
    <3>3. Y = WithKids(R, ks, cs)
      BY DEF ks, cs
    <3> HIDE DEF Y
    <3>4. /\ WellFormed(Y) /\ Y.leaf = R.leaf /\ Y.keys = ks /\ Y.kids = cs
          /\ Y.parent = R.parent /\ Y.next = R.next
      BY <3>1, <3>2, <3>3, <1>1, <1>7, InnerWith
    <3> QED BY <3>1, <3>4 DEF cs
  <2>9. c \in DOMAIN nodes \ {root, p, l, r}
    BY <1>1, <1>3, <2>4
  <2>10. /\ WellFormed(Z) /\ Z.leaf = nodes[c].leaf /\ Z.keys = nodes[c].keys
         /\ Z.kids = nodes[c].kids /\ Z.parent = l /\ Z.next = nodes[c].next
    <3>1. l \in NodeId \cup {NullPage} /\ WellFormed(nodes[c])
      BY <1>1, <1>3, <2>9
    <3> QED BY <3>1, ParentWith
  <2> HIDE DEF P, X, Y, Z, c
  <2>11. /\ DOMAIN g = DOMAIN nodes /\ g[p] = P /\ g[l] = X /\ g[r] = Y /\ g[c] = Z
         /\ \A n \in DOMAIN nodes \ {p, l, r, c} : g[n] = nodes[n]
    BY <1>1, <2>1, <2>9
  <2>12. \A n \in DOMAIN nodes : g[n].leaf = nodes[n].leaf /\ g[n].next = nodes[n].next
    BY <2>2, <2>6, <2>8, <2>10, <2>11
  <2>13. \A n \in DOMAIN nodes : WellFormed(g[n])
    BY <1>3, <2>2, <2>6, <2>8, <2>10, <2>11
  <2>14. l # NullPage /\ c # root
    BY <1>1, <1>3, <2>9 DEF NodeId, NullPage
  <2>15. \A n \in DOMAIN nodes : g[n].parent = NullPage <=> nodes[n].parent = NullPage
    BY <1>3, <2>2, <2>6, <2>8, <2>9, <2>10, <2>11, <2>14
  <2>16. /\ \A n \in DOMAIN nodes \ {l, r} : Kids(g, n) = Kids(nodes, n)
         /\ Kids(g, r) = Kids(nodes, r) \ {c} /\ Kids(g, l) = Kids(nodes, l) \cup {c}
    BY <2>2, <2>4, <2>5, <2>6, <2>8, <2>10, <2>11 DEF Kids
  <2>17. /\ Kids(g, l) \cup Kids(g, r) = Kids(nodes, l) \cup Kids(nodes, r)
         /\ Kids(g, l) \cap Kids(g, r) = {}
    BY <1>1, <2>4, <2>16
  <2>18. Tree(g, root)
    BY <1>1, <2>11, <2>12, <2>13, <2>15, <2>16, <2>17, SharedKids DEF SameLevel
  <2>19. ASSUME Adopted(nodes), NEW n \in DOMAIN g, NEW d \in Kids(g, n)
         PROVE  g[d].parent = n
    <3>1. n \notin {l, r} => d \in Kids(nodes, n) /\ d # c
      <4>1. n \notin {l, r} => d \in Kids(nodes, n) /\ Kids(nodes, n) \cap Kids(nodes, r) = {}
        BY <1>1, <1>3, <2>11, <2>16, <2>19
      <4> QED BY <4>1, <2>4
    <3>2. n \in {l, r} => (d = c /\ n = l) \/ (d \in Kids(nodes, n) /\ d # c)
      <4>1. CASE n = r
        <5>1. d \in Kids(nodes, r) \ {c}
          BY <4>1, <2>16, <2>19
        <5> QED BY <5>1, <4>1
      <4>2. CASE n = l
        <5>1. d = c \/ d \in Kids(nodes, l)
          BY <4>2, <2>16, <2>19
        <5> QED BY <5>1, <4>2
      <4> QED BY <4>1, <4>2
    <3>3. d \in DOMAIN nodes /\ d # c => g[d].parent = nodes[d].parent
      BY <2>2, <2>6, <2>8, <2>11
    <3> QED BY <3>1, <3>2, <3>3, <1>3, <2>10, <2>11, <2>19 DEF Adopted
  <2>20. \A n \in DOMAIN nodes \ {l, r} : nodes[n].leaf => g[n].keys = nodes[n].keys
    BY <1>1, <2>10, <2>11
  <2> QED BY <1>4, <2>6, <2>8, <2>11, <2>12, <2>18, <2>19, <2>20 DEF Adopted
<1>8. L.leaf \in BOOLEAN
  BY <1>2, NodeFields
<1> QED BY <1>6, <1>7, <1>8

-----------------------------------------------------------------------------
(* Nodes that merge *)

\* A store in which the children C have the parent q.
LEMMA ReparentFacts ==
  ASSUME NEW f, \A n \in DOMAIN f : WellFormed(f[n]), NEW C, NEW q \in NodeId,
         NEW g, g = Reparent(f, C, q)
  PROVE  /\ DOMAIN g = DOMAIN f
         /\ \A n \in DOMAIN f : /\ WellFormed(g[n]) /\ g[n].leaf = f[n].leaf
                                /\ g[n].keys = f[n].keys /\ g[n].vals = f[n].vals
                                /\ g[n].kids = f[n].kids /\ g[n].next = f[n].next
         /\ \A n \in DOMAIN f : g[n].parent = IF n \in C THEN q ELSE f[n].parent
         /\ \A n \in DOMAIN f \ C : g[n] = f[n]
<1>1. DOMAIN g = DOMAIN f /\ \A n \in DOMAIN f \ C : g[n] = f[n]
  BY DEF Reparent
<1>2. \A n \in DOMAIN f : n \in C => g[n] = [f[n] EXCEPT !.parent = q]
  BY DEF Reparent
<1>3. ASSUME NEW n \in DOMAIN f, n \in C
      PROVE  /\ WellFormed(g[n]) /\ g[n].leaf = f[n].leaf
             /\ g[n].keys = f[n].keys /\ g[n].vals = f[n].vals
             /\ g[n].kids = f[n].kids /\ g[n].next = f[n].next /\ g[n].parent = q
  <2> DEFINE N == f[n]
  <2>1. WellFormed(N) /\ g[n] = [N EXCEPT !.parent = q] /\ q \in NodeId \cup {NullPage}
    BY <1>2, <1>3
  <2> HIDE DEF N
  <2>2. LET M == [N EXCEPT !.parent = q]
        IN  /\ WellFormed(M) /\ M.leaf = N.leaf /\ M.keys = N.keys /\ M.vals = N.vals
            /\ M.kids = N.kids /\ M.parent = q /\ M.next = N.next
    BY <2>1, ParentWith
  <2> QED BY <2>1, <2>2 DEF N
<1> QED BY <1>1, <1>3

\* g is the tree in which r has gone into its neighbour l: of the leaves only
\* l has grown.
MergedInto(g, p, l, r) ==
  /\ Tree(g, root) /\ (Adopted(nodes) => Adopted(g))
  /\ DOMAIN g = DOMAIN nodes \ {r}
  /\ \A n \in DOMAIN g : g[n].leaf = nodes[n].leaf
  /\ \A n \in DOMAIN g \ {l} : g[n].next = nodes[n].next
  /\ nodes[l].leaf => g[l].next = nodes[r].next
  /\ \A n \in DOMAIN g \ {l} : nodes[n].leaf => g[n].keys = nodes[n].keys
  /\ nodes[l].leaf => Len(g[l].keys) = Len(nodes[l].keys) + Len(nodes[r].keys)
  /\ p \in DOMAIN g /\ l \in Kids(g, p) /\ ~g[p].leaf

LEMMA MergedKeeps ==
  ASSUME Tree(nodes, root), NEW p, NEW i, NEW l, NEW r, Adjacent(p, i, l, r),
         NEW g, g = Merged(p, i)
  PROVE  MergedInto(g, p, l, r)
<1> DEFINE L == nodes[l]
           R == nodes[r]
           f == Reparent(nodes, Range(R.kids), l)
           one == IF L.leaf
                  THEN [L EXCEPT !.keys = @ \o R.keys, !.vals = @ \o R.vals, !.next = R.next]
                  ELSE [L EXCEPT !.keys = @ \o <<nodes[p].keys[i]>> \o R.keys,
                                 !.kids = @ \o R.kids]
           P == WithKids(nodes[p], RemoveAt(nodes[p].keys, i), RemoveAt(nodes[p].kids, i + 1))
<1>1. /\ p \in DOMAIN nodes /\ i \in Int
      /\ l \in Kids(nodes, p) /\ r \in Kids(nodes, p)
      /\ l \in DOMAIN nodes \ {root} /\ r \in DOMAIN nodes \ {root}
      /\ l # r /\ p # l /\ p # r /\ ~nodes[p].leaf
      /\ i \in 1 .. Len(nodes[p].keys) /\ Len(nodes[p].kids) = Len(nodes[p].keys) + 1
      /\ L.leaf = R.leaf
      /\ {p, l, r} \cap (Kids(nodes, l) \cup Kids(nodes, r)) = {}
      /\ Kids(nodes, l) \cap Kids(nodes, r) = {}
      /\ WellFormed(nodes[p]) /\ WellFormed(L) /\ WellFormed(R)
  BY Neighbours
<1>2. /\ L \in Node /\ R \in Node /\ nodes[p] \in Node
      /\ L.keys \in Seq(Keys) /\ R.keys \in Seq(Keys) /\ nodes[p].keys \in Seq(Keys)
      /\ L.vals \in Seq(RowIds) /\ R.vals \in Seq(RowIds)
      /\ L.kids \in Seq(NodeId) /\ R.kids \in Seq(NodeId) /\ nodes[p].kids \in Seq(NodeId)
      /\ R.next \in NodeId \cup {NullPage}
  BY <1>1, NodeFields DEF WellFormed
<1>3. /\ \A n \in DOMAIN nodes : WellFormed(nodes[n])
      /\ \A n \in DOMAIN nodes : Kids(nodes, n) \subseteq DOMAIN nodes \ {root}
      /\ \A m, n \in DOMAIN nodes : m # n => Kids(nodes, m) \cap Kids(nodes, n) = {}
      /\ \A n \in DOMAIN nodes : nodes[n].parent = NullPage <=> n = root
      /\ DOMAIN nodes \subseteq NodeId
  BY DEF Tree, Linked, Rooted
<1>4. Len(L.keys) \in Nat /\ Len(R.keys) \in Nat /\ Len(nodes[p].keys) \in Nat
  BY <1>2, LenProperties
<1>5. /\ WellFormed(P) /\ P.leaf = nodes[p].leaf /\ P.parent = nodes[p].parent
      /\ P.next = nodes[p].next /\ Range(P.kids) = Kids(nodes, p) \ {r}
  <2> DEFINE ks == RemoveAt(nodes[p].keys, i)
             cs == RemoveAt(nodes[p].kids, i + 1)
             s == nodes[p].kids
  <2>1. ks \in Seq(Keys) /\ Len(ks) = Len(nodes[p].keys) - 1
    BY <1>1, <1>2, RemoveAtFacts
  <2>2. s \in Seq(NodeId) /\ i + 1 \in 1 .. Len(s) /\ IsInjective(s) /\ s[i + 1] = r
    BY <1>1, <1>2, <1>4 DEF WellFormed, Adjacent
  <2> HIDE DEF s
  <2>3. /\ RemoveAt(s, i + 1) \in Seq(NodeId) /\ Len(RemoveAt(s, i + 1)) = Len(s) - 1
        /\ Range(RemoveAt(s, i + 1)) = Range(s) \ {s[i + 1]} /\ IsInjective(RemoveAt(s, i + 1))
    BY <2>2, RemoveAtFacts, RemoveKids
  <2>4. /\ cs \in Seq(NodeId) /\ Len(cs) = Len(nodes[p].kids) - 1
        /\ Range(cs) = Kids(nodes, p) \ {r} /\ IsInjective(cs)
    BY <2>2, <2>3 DEF s, Kids
  <2>5. Len(cs) = Len(ks) + 1
    BY <1>1, <1>4, <2>1, <2>4
  <2>6. P = WithKids(nodes[p], ks, cs) /\ WellFormed(nodes[p]) /\ ~nodes[p].leaf
    BY <1>1
  <2> HIDE DEF ks, cs, P
  <2>7. /\ WellFormed(P) /\ P.leaf = nodes[p].leaf /\ P.kids = cs
        /\ P.parent = nodes[p].parent /\ P.next = nodes[p].next
    BY <2>1, <2>4, <2>5, <2>6, InnerWith
  <2> QED BY <2>4, <2>7
<1>6. ASSUME L.leaf
      PROVE  /\ WellFormed(one) /\ one.leaf = L.leaf /\ one.parent = L.parent
             /\ one.next = R.next /\ Len(one.keys) = Len(L.keys) + Len(R.keys)
             /\ one.kids = L.kids
  <2> DEFINE ks == L.keys \o R.keys
             vs == L.vals \o R.vals
  <2>1. Len(L.vals) = Len(L.keys) /\ Len(R.vals) = Len(R.keys)
    BY <1>1, <1>6 DEF WellFormed
  <2>2. ks \in Seq(Keys) /\ Len(ks) = Len(L.keys) + Len(R.keys)
    BY <1>2, ConcatProperties
  <2>3. vs \in Seq(RowIds) /\ Len(vs) = Len(L.vals) + Len(R.vals)
    BY <1>2, ConcatProperties
  <2>4. Len(ks) = Len(vs)
    BY <2>1, <2>2, <2>3
  <2>5. one = WithNext(L, ks, vs, R.next) /\ LeafNode(L)
    BY <1>1, <1>6 DEF LeafNode, WithNext
  <2> DEFINE x == R.next
  <2>6. x \in NodeId \cup {NullPage} /\ one = WithNext(L, ks, vs, x)
        /\ ks \in Seq(Keys) /\ vs \in Seq(RowIds)
    BY <1>2, <2>2, <2>3, <2>5
  <2> HIDE DEF ks, vs, x, one, L
  <2>7. LET M == WithNext(L, ks, vs, x)
        IN  /\ WellFormed(M) /\ M.leaf = L.leaf /\ M.keys = ks
            /\ M.kids = L.kids /\ M.parent = L.parent /\ M.next = x
    BY <2>4, <2>5, <2>6, LeafMore
  <2> QED BY <2>2, <2>6, <2>7 DEF x
<1>7. ASSUME ~L.leaf
      PROVE  /\ WellFormed(one) /\ one.leaf = L.leaf /\ one.parent = L.parent
             /\ one.next = L.next /\ Range(one.kids) = Kids(nodes, l) \cup Kids(nodes, r)
  <2> DEFINE sep == <<nodes[p].keys[i]>>
             lk == L.keys \o sep
             rk == R.keys
             ks == lk \o rk
             a == L.kids
             b == R.kids
             cs == a \o b
  <2>1. sep \in Seq(Keys) /\ Len(sep) = 1
    <3>1. nodes[p].keys[i] \in Keys
      BY <1>1, <1>2, ElementOfSeq
    <3> QED BY <3>1
  <2> HIDE DEF sep
  <2>2. lk \in Seq(Keys) /\ Len(lk) = Len(L.keys) + Len(sep)
    BY <1>2, <2>1, ConcatProperties
  <2> HIDE DEF lk
  <2>3. ks \in Seq(Keys) /\ Len(ks) = Len(lk) + Len(rk)
    <3>1. rk \in Seq(Keys) /\ lk \in Seq(Keys)
      BY <1>2, <2>2
    <3> HIDE DEF rk
    <3> QED BY <3>1, ConcatProperties
  <2>4. /\ a \in Seq(NodeId) /\ b \in Seq(NodeId) /\ IsInjective(a) /\ IsInjective(b)
        /\ Range(a) \cap Range(b) = {}
    BY <1>1, <1>2, <1>7 DEF WellFormed, Kids
  <2>5. Len(a) = Len(L.keys) + 1 /\ Len(b) = Len(R.keys) + 1
    BY <1>1, <1>7 DEF WellFormed
  <2>6. one = WithKids(L, ks, cs)
    BY <1>7 DEF WithKids, lk, sep
  <2>6a. WellFormed(L) /\ ~L.leaf
    BY <1>1, <1>7
  <2> HIDE DEF a, b, ks, one
  <2>7. /\ cs \in Seq(NodeId) /\ Len(cs) = Len(a) + Len(b)
        /\ Range(cs) = Range(a) \cup Range(b) /\ IsInjective(cs)
    <3>1. cs \in Seq(NodeId) /\ Len(cs) = Len(a) + Len(b)
      BY <2>4, ConcatProperties
    <3>2. Range(a \o b) = Range(a) \cup Range(b) /\ IsInjective(a \o b)
      BY <2>4, CatKids
    <3> QED BY <3>1, <3>2
  <2> HIDE DEF cs
  <2>8. Len(cs) = Len(ks) + 1
    <3>1. Len(lk) = Len(L.keys) + 1
      BY <2>1, <2>2
    <3>2. Len(ks) = Len(L.keys) + 1 + Len(R.keys)
      BY <3>1, <2>3
    <3>3. Len(cs) = (Len(L.keys) + 1) + (Len(R.keys) + 1)
      BY <2>5, <2>7
    <3> DEFINE x == Len(L.keys)
               y == Len(R.keys)
    <3>4. x \in Nat /\ y \in Nat /\ Len(ks) = x + 1 + y /\ Len(cs) = (x + 1) + (y + 1)
      BY <3>2, <3>3, <1>4
    <3> HIDE DEF x, y
    <3> QED BY <3>4
  <2> HIDE DEF L
  <2>9. /\ WellFormed(one) /\ one.leaf = L.leaf /\ one.kids = cs
        /\ one.parent = L.parent /\ one.next = L.next
    BY <2>3, <2>6, <2>6a, <2>7, <2>8, InnerWith
  <2> QED BY <2>7, <2>9 DEF a, b, Kids, L
<1>8. g = Without([f EXCEPT ![p] = P, ![l] = one], r)
  BY DEF Merged, WithKids, Adjacent
<1>9. /\ DOMAIN f = DOMAIN nodes
      /\ \A n \in DOMAIN nodes : /\ WellFormed(f[n]) /\ f[n].leaf = nodes[n].leaf
                                 /\ f[n].keys = nodes[n].keys /\ f[n].kids = nodes[n].kids
                                 /\ f[n].next = nodes[n].next
      /\ \A n \in DOMAIN nodes : f[n].parent = IF n \in Kids(nodes, r) THEN l ELSE nodes[n].parent
  <2>1. l \in NodeId
    BY <1>1, <1>3
  <2> QED BY <2>1, <1>3, ReparentFacts DEF Kids
<1> HIDE DEF f, one, P
<1>10. /\ DOMAIN g = DOMAIN nodes \ {r} /\ g[p] = P /\ g[l] = one
       /\ \A n \in DOMAIN g \ {p, l} : g[n] = f[n]
  BY <1>1, <1>8, <1>9 DEF Without
<1>11. L.leaf \in BOOLEAN
  BY <1>2, NodeFields
<1>12. Range(one.kids) = Kids(nodes, l) \cup Kids(nodes, r)
  <2>1. CASE L.leaf
    <3>1. Kids(nodes, l) = {} /\ Kids(nodes, r) = {}
      BY <2>1, <1>1, TreeFacts
    <3> QED BY <2>1, <3>1, <1>6 DEF Kids
  <2> QED BY <2>1, <1>7, <1>11
<1>13. WellFormed(one) /\ one.leaf = L.leaf /\ one.parent = L.parent
  BY <1>6, <1>7, <1>11
<1>14. \A n \in DOMAIN g : WellFormed(g[n]) /\ g[n].leaf = nodes[n].leaf
  BY <1>5, <1>9, <1>10, <1>13
<1>15. l # NullPage /\ root \notin Kids(nodes, r)
  BY <1>1, <1>3 DEF NodeId, NullPage
<1>16. \A n \in DOMAIN g : g[n].parent = NullPage <=> nodes[n].parent = NullPage
  BY <1>3, <1>5, <1>9, <1>10, <1>13, <1>15
<1>17. /\ \A n \in DOMAIN g \ {p, l} : Kids(g, n) = Kids(nodes, n)
       /\ Kids(g, p) = Kids(nodes, p) \ {r}
       /\ Kids(g, l) = Kids(nodes, l) \cup Kids(nodes, r)
  BY <1>5, <1>9, <1>10, <1>12 DEF Kids
<1>18. Tree(g, root)
  BY <1>1, <1>10, <1>14, <1>16, <1>17, FewerKids
<1>19. ASSUME Adopted(nodes), NEW n \in DOMAIN g, NEW d \in Kids(g, n)
       PROVE  g[d].parent = n
  <2>0. Tree(g, root) /\ d \in DOMAIN g
    BY <1>18, <1>19, TreeFacts
  <2>1. g[d].parent = IF d \in Kids(nodes, r) THEN l ELSE nodes[d].parent
    <3>1. p \notin Kids(nodes, r) /\ l \notin Kids(nodes, r)
      BY <1>1
    <3> QED BY <2>0, <3>1, <1>5, <1>9, <1>10, <1>13
  <2>2. CASE d \in Kids(nodes, r)
    <3>1. n = l
      <4>1. n \in DOMAIN nodes /\ n # r /\ r \in DOMAIN nodes
        BY <1>1, <1>10
      <4>2. n # l => d \in Kids(nodes, n)
        BY <1>17, <1>19
      <4>3. Kids(nodes, n) \cap Kids(nodes, r) = {}
        BY <4>1, <1>3
      <4> QED BY <2>2, <4>2, <4>3
    <3> QED BY <2>1, <2>2, <3>1
  <2>3. CASE d \notin Kids(nodes, r)
    <3>1. d \in Kids(nodes, n)
      BY <2>3, <1>17, <1>19
    <3> QED BY <2>1, <2>3, <3>1, <1>10, <1>19 DEF Adopted
  <2> QED BY <2>2, <2>3
<1>20. \A n \in DOMAIN g \ {l} : g[n].next = nodes[n].next
  BY <1>5, <1>9, <1>10
<1>21. \A n \in DOMAIN g \ {l} : nodes[n].leaf => g[n].keys = nodes[n].keys
  BY <1>1, <1>9, <1>10
<1>22. p \in DOMAIN g /\ l \in Kids(g, p)
  BY <1>1, <1>10, <1>17
<1>23. Adopted(nodes) => Adopted(g)
  BY <1>19 DEF Adopted
<1>24. /\ nodes[l].leaf => g[l].next = nodes[r].next
       /\ nodes[l].leaf => Len(g[l].keys) = Len(nodes[l].keys) + Len(nodes[r].keys)
  BY <1>6, <1>10
<1>25. DOMAIN g = DOMAIN nodes \ {r} /\ ~g[p].leaf
  BY <1>1, <1>10, <1>14, <1>22
<1>26. \A n \in DOMAIN g : g[n].leaf = nodes[n].leaf
  BY <1>14
<1> QED BY <1>18, <1>20, <1>21, <1>22, <1>23, <1>24, <1>25, <1>26 DEF MergedInto

\* The root r, left with the child l alone, gives way to it.
Collapsed(f, r, l) == [Without(f, r) EXCEPT ![l].parent = NullPage]

Emptied(N) == ~N.leaf /\ N.keys = << >>

\* g is the tree f without its root r, the only child l of r its root.
ShorterTree(g, f, r, l) ==
  /\ Tree(g, l) /\ (Adopted(f) => Adopted(g))
  /\ DOMAIN g = DOMAIN f \ {r} /\ l \in DOMAIN g
  /\ \A n \in DOMAIN g : /\ g[n].leaf = f[n].leaf /\ g[n].keys = f[n].keys
                         /\ g[n].next = f[n].next

LEMMA CollapseKeeps ==
  ASSUME NEW f, NEW r, Tree(f, r), Emptied(f[r]),
         NEW l \in Kids(f, r),
         NEW g, g = Collapsed(f, r, l)
  PROVE  ShorterTree(g, f, r, l)
<1>0. ~f[r].leaf /\ f[r].keys = << >>
  BY DEF Emptied
<1>1. /\ r \in DOMAIN f /\ DOMAIN f \subseteq NodeId
      /\ \A n \in DOMAIN f : WellFormed(f[n])
      /\ \A n \in DOMAIN f : Kids(f, n) \subseteq DOMAIN f \ {r}
  BY TreeFacts
<1>2. \A n \in DOMAIN f : f[n].parent = NullPage <=> n = r
  BY DEF Tree, Rooted
<1>3. l \in DOMAIN f \ {r}
  BY <1>1
<1> DEFINE s == f[r].kids
<1>4. Kids(f, r) = {l}
  <2>1. s \in Seq(NodeId) /\ Len(s) = 1 /\ Kids(f, r) = Range(s)
    <3>1. WellFormed(f[r]) /\ Len(<< >>) = 0
      BY <1>1
    <3> QED BY <1>0, <3>1, NodeFields DEF WellFormed, Kids
  <2> HIDE DEF s
  <2>2. Range(s) = {s[i] : i \in 1 .. Len(s)}
    BY <2>1, Positions
  <2>3. Range(s) = {s[1]}
    BY <2>1, <2>2
  <2> QED BY <2>1, <2>3
<1> DEFINE N == f[l]
           M == [N EXCEPT !.parent = NullPage]
<1>5. /\ WellFormed(M) /\ M.leaf = N.leaf /\ M.keys = N.keys /\ M.kids = N.kids
      /\ M.parent = NullPage /\ M.next = N.next
  <2>1. WellFormed(N) /\ NullPage \in NodeId \cup {NullPage}
    BY <1>1, <1>3
  <2> HIDE DEF N
  <2> QED BY <2>1, ParentWith
<1>6. /\ DOMAIN g = DOMAIN f \ {r} /\ g[l] = M
      /\ \A n \in DOMAIN g \ {l} : g[n] = f[n]
  BY <1>3 DEF Without, Collapsed
<1> HIDE DEF M
<1>7. \A n \in DOMAIN g : /\ g[n].leaf = f[n].leaf /\ g[n].keys = f[n].keys
                          /\ g[n].next = f[n].next /\ g[n].kids = f[n].kids
  BY <1>5, <1>6
<1>8. \A n \in DOMAIN g : Kids(g, n) = Kids(f, n)
  BY <1>7 DEF Kids
<1>9. \A n \in DOMAIN g : /\ g[n].parent = NullPage <=> n = l
                          /\ WellFormed(g[n])
  BY <1>1, <1>2, <1>5, <1>6
<1>10. Tree(g, l)
  <2>1. TopGone(f, r, g, l)
    BY <1>0, <1>4, <1>6, <1>7, <1>8, <1>9 DEF TopGone
  <2> QED BY <2>1, LostTop
<1>11. ASSUME Adopted(f), NEW n \in DOMAIN g, NEW d \in Kids(g, n)
       PROVE  g[d].parent = n
  <2>1. d \in Kids(f, n) /\ d \in DOMAIN g \ {l}
    BY <1>8, <1>10, <1>11, TreeFacts
  <2> QED BY <2>1, <1>6, <1>11 DEF Adopted
<1>12. Adopted(f) => Adopted(g)
  BY <1>11 DEF Adopted
<1>13. DOMAIN g = DOMAIN f \ {r} /\ l \in DOMAIN g
  BY <1>3, <1>6
<1> QED BY <1>7, <1>10, <1>12, <1>13 DEF ShorterTree

-----------------------------------------------------------------------------
(* Nodes that split *)

\* While numbers are left, NewNode and NewRoot are two that are unused.
LEMMA NewNodes ==
  /\ NumbersFor(1) => NewNode \in Unused
  /\ NumbersFor(2) => NewNode \in Unused /\ NewRoot \in Unused /\ NewNode # NewRoot
<1>1. IsFiniteSet(Unused)
  <2>1. IsFiniteSet(0 .. MaxNodes - 1)
    BY BTreeAssumption, FS_Interval
  <2> QED BY <2>1, FS_Subset DEF Unused, NodeId
<1>2. ASSUME NEW S, Unused \ S # {}
      PROVE  LeastUnused(S) \in Unused \ S
  <2>1. Unused \ S \in SUBSET Nat
    BY BTreeAssumption DEF Unused, NodeId
  <2>2. \E n \in Unused \ S : \A m \in Unused \ S : n <= m
    BY <2>1, <1>2, LeastOf
  <2> QED BY <2>2 DEF LeastUnused
<1>3. Cardinality(Unused) \in Nat
  BY <1>1, FS_CardinalityType
<1>4. ASSUME Cardinality(Unused) >= 1
      PROVE  NewNode \in Unused
  <2>1. Unused # {}
    BY <1>4, FS_EmptySet
  <2> QED BY <2>1, <1>2 DEF NewNode
<1>5. ASSUME Cardinality(Unused) >= 2
      PROVE  NewRoot \in Unused \ {NewNode}
  <2>1. NewNode \in Unused
    BY <1>3, <1>4, <1>5
  <2>2. Cardinality(Unused \ {NewNode}) = Cardinality(Unused) - 1
    BY <1>1, <2>1, FS_RemoveElement
  <2>3. Unused \ {NewNode} # {}
    BY <2>2, <1>3, <1>5, FS_EmptySet
  <2> QED BY <2>3, <1>2 DEF NewRoot
<1> QED BY <1>3, <1>4, <1>5 DEF NumbersFor

\* The parent of two nodes that split: separators a and b for separator i,
\* and m for a new child.
SplitParent(N, i, place, a, b, m) ==
  [N EXCEPT !.keys = InsertAt([@ EXCEPT ![i] = b], i, a), !.kids = InsertAt(@, place, m)]

CanGrow(N, i, place, a, b, m) ==
  /\ WellFormed(N) /\ ~N.leaf /\ i \in 1 .. Len(N.keys) /\ a \in Keys /\ b \in Keys
  /\ m \in NodeId /\ m \notin Range(N.kids) /\ place \in 1 .. Len(N.kids) + 1

LEMMA ParentGrows ==
  ASSUME NEW N, NEW i, NEW place, NEW a, NEW b, NEW m, CanGrow(N, i, place, a, b, m),
         NEW M, M = SplitParent(N, i, place, a, b, m)
  PROVE  /\ WellFormed(M) /\ M.leaf = N.leaf /\ Len(M.keys) = Len(N.keys) + 1
         /\ Range(M.kids) = Range(N.kids) \cup {m}
         /\ M.parent = N.parent /\ M.next = N.next
<1> DEFINE k0 == N.keys
           k1 == [k0 EXCEPT ![i] = b]
           ks == InsertAt(k1, i, a)
           s  == N.kids
           cs == InsertAt(s, place, m)
<1>1. /\ k0 \in Seq(Keys) /\ s \in Seq(NodeId) /\ IsInjective(s)
      /\ Len(s) = Len(k0) + 1 /\ Len(k0) \in Nat /\ i \in 1 .. Len(k0)
      /\ m \notin Range(s) /\ place \in 1 .. Len(s) + 1
      /\ a \in Keys /\ b \in Keys /\ m \in NodeId /\ WellFormed(N) /\ ~N.leaf
  <2>1. N \in Node
    BY DEF WellFormed, CanGrow
  <2>2. N.keys \in Seq(Keys) /\ N.kids \in Seq(NodeId)
    BY <2>1, NodeFields
  <2> QED BY <2>2, LenProperties DEF WellFormed, CanGrow
<1>2. M = WithKids(N, ks, cs)
  BY DEF SplitParent, WithKids
<1> HIDE DEF k0, s
<1>3. k1 \in Seq(Keys) /\ Len(k1) = Len(k0)
  BY <1>1, ExceptSeq
<1>4. i \in 1 .. Len(k1) + 1
  BY <1>1, <1>3
<1> HIDE DEF k1
<1>5. ks \in Seq(Keys) /\ Len(ks) = Len(k1) + 1
  BY <1>1, <1>3, <1>4, InsertAtFacts
<1>6. cs \in Seq(NodeId) /\ Len(cs) = Len(s) + 1
  BY <1>1, InsertAtFacts
<1>7. IsInjective(cs) /\ Range(cs) = Range(s) \cup {m}
  BY <1>1, InsertKids
<1>8. Len(cs) = Len(ks) + 1 /\ Len(ks) = Len(k0) + 1
  BY <1>1, <1>3, <1>5, <1>6
<1> HIDE DEF ks, cs
<1>9. /\ WellFormed(M) /\ M.leaf = N.leaf /\ M.keys = ks /\ M.kids = cs
      /\ M.parent = N.parent /\ M.next = N.next
  <2>1. WellFormed(N) /\ ~N.leaf
    BY <1>1
  <2>2. Len(cs) = Len(ks) + 1
    BY <1>8
  <2> QED BY <2>1, <2>2, <1>2, <1>5, <1>6, <1>7, InnerWith
<1> QED BY <1>7, <1>8, <1>9 DEF k0, s

\* Two nodes l and r split over three, A, B and C, the second a new node m:
\* the store that results from the store f.
Split(f, p, i, place, a, b, l, r, m, A, B, C) ==
  Put([f EXCEPT ![p] = SplitParent(nodes[p], i, place, a, b, m), ![l] = A, ![r] = C], m, B)

\* LeafThirds and InnerThirds in these terms.
LeafThirdsSplit(p, i, l, r) ==
  LET ks == nodes[l].keys \o nodes[r].keys
      vs == nodes[l].vals \o nodes[r].vals
      n1 == Len(ks) \div 3
      n2 == (Len(ks) - n1) \div 2
      A == Leaf(SubSeq(ks, 1, n1), SubSeq(vs, 1, n1), nodes[l].parent, NewNode)
      B == Leaf(SubSeq(ks, n1 + 1, n1 + n2), SubSeq(vs, n1 + 1, n1 + n2), p, r)
      C == Leaf(SubSeq(ks, n1 + n2 + 1, Len(ks)), SubSeq(vs, n1 + n2 + 1, Len(ks)),
                nodes[r].parent, nodes[r].next)
  IN  /\ LeafThirds(p, i, 1) =
           Split(nodes, p, i, i + 1, A.keys[1], B.keys[1], l, r, NewNode, A, B, C)
      /\ LeafThirds(p, i, 2) =
           Split(nodes, p, i, i + 1, B.keys[1], C.keys[1], l, r, NewNode, A, B, C)

LEMMA LeafThirdsIs ==
  ASSUME NEW p, NEW i
  PROVE  LeafThirdsSplit(p, i, nodes[p].kids[i], nodes[p].kids[i + 1])
<1> DEFINE l == nodes[p].kids[i]
           r == nodes[p].kids[i + 1]
           ks == nodes[l].keys \o nodes[r].keys
           vs == nodes[l].vals \o nodes[r].vals
           n1 == Len(ks) \div 3
           n2 == (Len(ks) - n1) \div 2
           A == Leaf(SubSeq(ks, 1, n1), SubSeq(vs, 1, n1), nodes[l].parent, NewNode)
           B == Leaf(SubSeq(ks, n1 + 1, n1 + n2), SubSeq(vs, n1 + 1, n1 + n2), p, r)
           C == Leaf(SubSeq(ks, n1 + n2 + 1, Len(ks)), SubSeq(vs, n1 + n2 + 1, Len(ks)),
                     nodes[r].parent, nodes[r].next)
           T == <<A, B, C>>
<1>1. ASSUME NEW j
      PROVE  LeafThirds(p, i, j) =
               Split(nodes, p, i, i + 1, T[j].keys[1], T[j + 1].keys[1], l, r, NewNode,
                     T[1], T[2], T[3])
  BY DEF LeafThirds, Split, SplitParent
<1>2. T[1] = A /\ T[2] = B /\ T[3] = C /\ T[1 + 1] = B /\ T[2 + 1] = C
  <2> HIDE DEF A, B, C
  <2> QED OBVIOUS
<1> HIDE DEF T, A, B, C
<1>3. /\ LeafThirds(p, i, 1) =
           Split(nodes, p, i, i + 1, A.keys[1], B.keys[1], l, r, NewNode, A, B, C)
      /\ LeafThirds(p, i, 2) =
           Split(nodes, p, i, i + 1, B.keys[1], C.keys[1], l, r, NewNode, A, B, C)
  BY <1>1, <1>2
<1> QED BY <1>3 DEF A, B, C, LeafThirdsSplit

InnerThirdsSplit(p, i, place, l, r) ==
  LET ks == nodes[l].keys \o <<nodes[p].keys[i]>> \o nodes[r].keys
      cs == nodes[l].kids \o nodes[r].kids
      k1 == (Len(ks) - 2) \div 3
      k2 == (Len(ks) - 2 - k1) \div 2
      B == Inner(SubSeq(ks, k1 + 2, k1 + k2 + 1), SubSeq(cs, k1 + 2, k1 + k2 + 2), p)
      A == Inner(SubSeq(ks, 1, k1), SubSeq(cs, 1, k1 + 1), nodes[l].parent)
      C == Inner(SubSeq(ks, k1 + k2 + 3, Len(ks)), SubSeq(cs, k1 + k2 + 3, Len(cs)),
                 nodes[r].parent)
  IN  InnerThirds(p, i, place) =
        Split(Reparent(nodes, Range(B.kids), NewNode), p, i, place,
              ks[k1 + 1], ks[k1 + k2 + 2], l, r, NewNode, A, B, C)

LEMMA InnerThirdsIs ==
  ASSUME NEW p, NEW i, NEW place
  PROVE  InnerThirdsSplit(p, i, place, nodes[p].kids[i], nodes[p].kids[i + 1])
  BY DEF InnerThirds, Split, SplitParent, InnerThirdsSplit

\* M has one key more than N.
OneMoreKey(M, N) == Len(M.keys) = Len(N.keys) + 1

\* A parent that has gained the child m.
Grown(P, p, m) ==
  /\ OneMoreKey(P, nodes[p])
  /\ WellFormed(P) /\ P.leaf = nodes[p].leaf
  /\ P.parent = nodes[p].parent /\ P.next = nodes[p].next
  /\ Range(P.kids) = Range(nodes[p].kids) \cup {m}

\* A, B and C share the children of the nodes l and r.
Parts(l, r, A, B, C) ==
  /\ WellFormed(A) /\ WellFormed(B) /\ WellFormed(C)
  /\ A.leaf = nodes[l].leaf /\ B.leaf = nodes[l].leaf /\ C.leaf = nodes[l].leaf
  /\ A.parent = nodes[l].parent /\ B.parent # NullPage /\ C.parent = nodes[r].parent
  /\ Range(A.kids) \cup Range(B.kids) \cup Range(C.kids) = Kids(nodes, l) \cup Kids(nodes, r)
  /\ Range(A.kids) \cap Range(B.kids) = {} /\ Range(A.kids) \cap Range(C.kids) = {}
  /\ Range(B.kids) \cap Range(C.kids) = {}

\* f differs from the store in the parents of some children alone.
SameButParents(f) ==
  /\ DOMAIN f = DOMAIN nodes
  /\ \A n \in DOMAIN nodes : /\ WellFormed(f[n]) /\ f[n].leaf = nodes[n].leaf
                             /\ f[n].keys = nodes[n].keys /\ f[n].kids = nodes[n].kids
                             /\ f[n].next = nodes[n].next
                             /\ f[n].parent = NullPage <=> nodes[n].parent = NullPage

\* The store after two nodes were split over three.
InThree(g, f, p, P, l, A, m, B, r, C) ==
  /\ DOMAIN g = DOMAIN nodes \cup {m} /\ g[p] = P /\ g[l] = A /\ g[m] = B /\ g[r] = C
  /\ \A n \in DOMAIN nodes \ {p, l, r} : g[n] = f[n]

\* g is a tree with the node m more, and the leaves as they were but for l
\* and r.
MoreTree(g, l, m, r) ==
  /\ Tree(g, root) /\ DOMAIN g = DOMAIN nodes \cup {m}
  /\ \A n \in DOMAIN nodes : g[n].leaf = nodes[n].leaf
  /\ g[m].leaf = nodes[l].leaf
  /\ \A n \in DOMAIN nodes \ {l, r} : nodes[n].leaf => /\ g[n].keys = nodes[n].keys
                                                       /\ g[n].next = nodes[n].next

LEMMA InThreeIsTree ==
  ASSUME Tree(nodes, root), NEW p, NEW i, NEW l, NEW r, Adjacent(p, i, l, r),
         NEW m, m \in Unused,
         NEW f, SameButParents(f), NEW P, Grown(P, p, m),
         NEW A, NEW B, NEW C, Parts(l, r, A, B, C),
         NEW g, InThree(g, f, p, P, l, A, m, B, r, C)
  PROVE  MoreTree(g, l, m, r)
<1>1. /\ p \in DOMAIN nodes
      /\ l \in Kids(nodes, p) /\ r \in Kids(nodes, p)
      /\ l \in DOMAIN nodes \ {root} /\ r \in DOMAIN nodes \ {root}
      /\ l # r /\ p # l /\ p # r /\ ~nodes[p].leaf
      /\ nodes[l].leaf = nodes[r].leaf
  BY Neighbours
<1>2. \A n \in DOMAIN nodes : WellFormed(nodes[n])
  BY TreeFacts
<1>3. m \in NodeId /\ m \notin DOMAIN nodes
  BY DEF Unused
<1>4. /\ DOMAIN g = DOMAIN nodes \cup {m} /\ g[p] = P /\ g[l] = A /\ g[m] = B /\ g[r] = C
      /\ \A n \in DOMAIN nodes \ {p, l, r} : g[n] = f[n]
  BY DEF InThree
<1>5. \A n \in DOMAIN nodes : /\ WellFormed(g[n]) /\ g[n].leaf = nodes[n].leaf
                              /\ g[n].parent = NullPage <=> nodes[n].parent = NullPage
  BY <1>1, <1>4 DEF Parts, Grown, SameButParents
<1>6. WellFormed(g[m]) /\ g[m].leaf = nodes[l].leaf /\ g[m].parent # NullPage
  BY <1>4 DEF Parts
<1>7. \A n \in DOMAIN nodes \ {p, l, r} : Kids(g, n) = Kids(nodes, n)
  BY <1>4 DEF Kids, SameButParents
<1>8. /\ Kids(g, p) = Kids(nodes, p) \cup {m}
      /\ Kids(g, l) = Range(A.kids) /\ Kids(g, m) = Range(B.kids) /\ Kids(g, r) = Range(C.kids)
  BY <1>4 DEF Kids, Grown
<1>9. /\ Kids(g, l) \cup Kids(g, m) \cup Kids(g, r) = Kids(nodes, l) \cup Kids(nodes, r)
      /\ Kids(g, l) \cap Kids(g, r) = {} /\ Kids(g, l) \cap Kids(g, m) = {}
      /\ Kids(g, m) \cap Kids(g, r) = {}
  <2>1. /\ Range(A.kids) \cup Range(B.kids) \cup Range(C.kids)
             = Kids(nodes, l) \cup Kids(nodes, r)
        /\ Range(A.kids) \cap Range(B.kids) = {} /\ Range(A.kids) \cap Range(C.kids) = {}
        /\ Range(B.kids) \cap Range(C.kids) = {}
    BY DEF Parts
  <2> QED BY <2>1, <1>8
<1>10. Tree(g, root)
  <2>1. \A n \in DOMAIN g : WellFormed(g[n])
    BY <1>4, <1>5, <1>6
  <2>2. /\ DOMAIN g = DOMAIN nodes \cup {m} /\ Kids(g, p) = Kids(nodes, p) \cup {m}
        /\ \A n \in DOMAIN nodes : /\ g[n].leaf = nodes[n].leaf
                                   /\ g[n].parent = NullPage <=> nodes[n].parent = NullPage
    BY <1>4, <1>5, <1>8
  <2> QED BY <2>1, <2>2, <1>1, <1>3, <1>6, <1>7, <1>9, MoreKids
<1>11. \A n \in DOMAIN nodes \ {l, r} : nodes[n].leaf => /\ g[n].keys = nodes[n].keys
                                                         /\ g[n].next = nodes[n].next
  BY <1>1, <1>4 DEF SameButParents
<1> QED BY <1>4, <1>5, <1>6, <1>10, <1>11 DEF MoreTree

\* What Split makes is such a store.
LEMMA SplitFacts ==
  ASSUME Tree(nodes, root), NEW p, NEW i, NEW l, NEW r, Adjacent(p, i, l, r),
         NEW m, m \in Unused, NEW f, SameButParents(f),
         NEW place, place \in 1 .. Len(nodes[p].kids) + 1, NEW a \in Keys, NEW b \in Keys,
         NEW A, NEW B, NEW C,
         NEW g, g = Split(f, p, i, place, a, b, l, r, m, A, B, C)
  PROVE  \E P : Grown(P, p, m) /\ InThree(g, f, p, P, l, A, m, B, r, C)
<1> DEFINE N == nodes[p]
           P == SplitParent(N, i, place, a, b, m)
<1>1. /\ p \in DOMAIN nodes /\ l \in DOMAIN nodes /\ r \in DOMAIN nodes
      /\ l # r /\ p # l /\ p # r /\ ~N.leaf /\ WellFormed(N)
      /\ i \in 1 .. Len(N.keys)
  BY Neighbours
<1>2. m \in NodeId /\ m \notin DOMAIN nodes
  BY DEF Unused
<1>3. m \notin Range(N.kids)
  BY <1>1, <1>2, TreeFacts DEF Kids
<1>4. g = Put([f EXCEPT ![p] = P, ![l] = A, ![r] = C], m, B)
  BY DEF Split
<1>5. CanGrow(N, i, place, a, b, m) /\ P = SplitParent(N, i, place, a, b, m)
  BY <1>1, <1>2, <1>3 DEF CanGrow
<1>6. N = nodes[p] /\ DOMAIN f = DOMAIN nodes
  BY DEF SameButParents
<1> HIDE DEF N, P
<1>7. /\ WellFormed(P) /\ P.leaf = N.leaf /\ Range(P.kids) = Range(N.kids) \cup {m}
      /\ P.parent = N.parent /\ P.next = N.next /\ OneMoreKey(P, N)
  BY <1>5, ParentGrows DEF OneMoreKey
<1>8. Grown(P, p, m)
  BY <1>6, <1>7 DEF Grown
<1>9. InThree(g, f, p, P, l, A, m, B, r, C)
  BY <1>1, <1>2, <1>4, <1>6 DEF InThree, Put
<1> QED BY <1>8, <1>9

-----------------------------------------------------------------------------
(* The thirds of two leaves *)

\* The leaves l and r have t keys.
KeysInBoth(l, r, t) == t = Len(nodes[l].keys) + Len(nodes[r].keys)

\* n1, n2 and n3 are the thirds of t.
Thirds(t, n1, n2, n3) ==
  t >= 6 /\ n1 = t \div 3 /\ n2 = (t - n1) \div 2 /\ n3 = t - n1 - n2

LEMMA ThirdsFacts ==
  ASSUME NEW t \in Nat, NEW n1, NEW n2, NEW n3, Thirds(t, n1, n2, n3)
  PROVE  /\ n1 \in Nat /\ n2 \in Nat /\ n3 \in Nat
         /\ n1 >= 2 /\ n2 >= 2 /\ n3 >= 2 /\ n1 <= n3 /\ n2 <= n3 /\ n3 <= n1 + 1
         /\ n3 <= n2 + 1 /\ n1 + n2 + n3 = t
<1>2. t >= 6 /\ n1 = t \div 3 /\ n2 = (t - n1) \div 2 /\ n3 = t - n1 - n2
  BY DEF Thirds
<1>3. n1 + n2 + n3 = t
  BY <1>2
<1>4. /\ n1 \in Nat /\ n2 \in Nat /\ n3 \in Nat
      /\ n1 >= 2 /\ n2 >= 2 /\ n3 >= 2 /\ n1 <= n3 /\ n2 <= n3 /\ n3 <= n1 + 1 /\ n3 <= n2 + 1
  BY <1>2
<1> QED BY <1>3, <1>4

\* ks has positions a to b.
Within(ks, a, b) == a \in Nat /\ b \in Nat /\ 1 <= a /\ a <= b /\ b <= Len(ks)

\* A leaf with some of the keys ks and values vs.
LEMMA LeafPart ==
  ASSUME NEW ks, NEW vs, NEW q, NEW x, LeafData(ks, vs, q, x),
         NEW a, NEW b, Within(ks, a, b),
         NEW M, M = Leaf(SubSeq(ks, a, b), SubSeq(vs, a, b), q, x)
  PROVE  /\ WellFormed(M) /\ M.leaf /\ Len(M.keys) = b - a + 1 /\ M.keys[1] \in Keys
         /\ M.kids = << >> /\ M.parent = q /\ M.next = x
<1> DEFINE y == SubSeq(ks, a, b)
           z == SubSeq(vs, a, b)
<1>0. /\ ks \in Seq(Keys) /\ vs \in Seq(RowIds) /\ Len(ks) = Len(vs)
      /\ a \in Int /\ b \in Int /\ 1 <= a /\ a <= b + 1 /\ a <= b /\ b <= Len(ks)
  BY DEF LeafData, Within
<1>1. y \in Seq(Keys) /\ Len(y) = b - a + 1
  BY <1>0, SubFacts
<1>2. z \in Seq(RowIds) /\ Len(z) = b - a + 1
  BY <1>0, SubFacts
<1>3. y[1] \in Keys
  BY <1>0, <1>1, ElementOfSeq
<1>4. Len(y) = Len(z)
  BY <1>1, <1>2
<1>5. M = Leaf(y, z, q, x) /\ LeafData(y, z, q, x)
  BY <1>1, <1>2, <1>4 DEF LeafData
<1> HIDE DEF y, z
<1>6. /\ WellFormed(M) /\ M.leaf /\ M.keys = y /\ M.kids = << >> /\ M.parent = q /\ M.next = x
  BY <1>5, NewLeaf
<1> QED BY <1>1, <1>3, <1>6

\* A leaf with n keys.
ALeaf(M, n, q, x) ==
  /\ WellFormed(M) /\ M.leaf /\ Len(M.keys) = n /\ M.keys[1] \in Keys
  /\ M.kids = << >> /\ M.parent = q /\ M.next = x

\* t keys and t values.
KeysAndVals(ks, vs, t) == ks \in Seq(Keys) /\ vs \in Seq(RowIds) /\ Len(ks) = t /\ Len(vs) = t

\* A, B and C are leaves with n1, n2 and the other ones of t keys and values.
AreThirds(A, B, C, ks, vs, t, n1, n2, q, p, s, m, r, x) ==
  /\ {q, p, s, m, r, x} \subseteq NodeId \cup {NullPage}
  /\ A = Leaf(SubSeq(ks, 1, n1), SubSeq(vs, 1, n1), q, m)
  /\ B = Leaf(SubSeq(ks, n1 + 1, n1 + n2), SubSeq(vs, n1 + 1, n1 + n2), p, r)
  /\ C = Leaf(SubSeq(ks, n1 + n2 + 1, t), SubSeq(vs, n1 + n2 + 1, t), s, x)

LEMMA ThreeLeaves ==
  ASSUME NEW ks, NEW vs, NEW t \in Nat, KeysAndVals(ks, vs, t),
         NEW n1, NEW n2, NEW n3, Thirds(t, n1, n2, n3),
         NEW q, NEW p, NEW s, NEW m, NEW r, NEW x,
         NEW A, NEW B, NEW C, AreThirds(A, B, C, ks, vs, t, n1, n2, q, p, s, m, r, x)
  PROVE  ALeaf(A, n1, q, m) /\ ALeaf(B, n2, p, r) /\ ALeaf(C, n3, s, x)
<1>1. /\ n1 \in Nat /\ n2 \in Nat /\ n3 \in Nat /\ n1 >= 2 /\ n2 >= 2 /\ n3 >= 2
      /\ n1 + n2 + n3 = t
  BY ThirdsFacts
<1>2. /\ LeafData(ks, vs, q, m) /\ LeafData(ks, vs, p, r) /\ LeafData(ks, vs, s, x)
      /\ Len(ks) = t
  BY DEF LeafData, KeysAndVals, AreThirds
<1>3. /\ WellFormed(A) /\ A.leaf /\ Len(A.keys) = n1 /\ A.keys[1] \in Keys
      /\ A.kids = << >> /\ A.parent = q /\ A.next = m
  <2>1. Within(ks, 1, n1)
    BY <1>1, <1>2 DEF Within
  <2>2. A = Leaf(SubSeq(ks, 1, n1), SubSeq(vs, 1, n1), q, m)
    BY DEF AreThirds
  <2>3. /\ WellFormed(A) /\ A.leaf /\ Len(A.keys) = n1 - 1 + 1 /\ A.keys[1] \in Keys
        /\ A.kids = << >> /\ A.parent = q /\ A.next = m
    BY <1>2, <2>1, <2>2, LeafPart
  <2> QED BY <1>1, <2>3
<1>4. /\ WellFormed(B) /\ B.leaf /\ Len(B.keys) = n2 /\ B.keys[1] \in Keys
      /\ B.kids = << >> /\ B.parent = p /\ B.next = r
  <2> DEFINE a == n1 + 1
             b == n1 + n2
  <2>1. Within(ks, a, b) /\ b - a + 1 = n2
    BY <1>1, <1>2 DEF Within
  <2>2. B = Leaf(SubSeq(ks, a, b), SubSeq(vs, a, b), p, r)
    BY DEF AreThirds
  <2> HIDE DEF a, b
  <2>3. /\ WellFormed(B) /\ B.leaf /\ Len(B.keys) = b - a + 1 /\ B.keys[1] \in Keys
        /\ B.kids = << >> /\ B.parent = p /\ B.next = r
    BY <1>2, <2>1, <2>2, LeafPart
  <2> QED BY <2>1, <2>3
<1>5. /\ WellFormed(C) /\ C.leaf /\ Len(C.keys) = n3 /\ C.keys[1] \in Keys
      /\ C.kids = << >> /\ C.parent = s /\ C.next = x
  <2> DEFINE a == n1 + n2 + 1
  <2>1. Within(ks, a, t) /\ t - a + 1 = n3
    BY <1>1, <1>2 DEF Within
  <2>2. C = Leaf(SubSeq(ks, a, t), SubSeq(vs, a, t), s, x)
    BY DEF AreThirds
  <2> HIDE DEF a
  <2>3. /\ WellFormed(C) /\ C.leaf /\ Len(C.keys) = t - a + 1 /\ C.keys[1] \in Keys
        /\ C.kids = << >> /\ C.parent = s /\ C.next = x
    BY <1>2, <2>1, <2>2, LeafPart
  <2> QED BY <2>1, <2>3
<1> QED BY <1>3, <1>4, <1>5 DEF ALeaf

\* g is a tree with the leaf m between l and r, which have n1, n2 and n3 keys.
MoreLeaves(g, p, l, m, r, n1, n2, n3) ==
  /\ Tree(g, root) /\ (Adopted(nodes) => Adopted(g))
  /\ DOMAIN g = DOMAIN nodes \cup {m}
  /\ \A n \in DOMAIN nodes : g[n].leaf = nodes[n].leaf
  /\ g[m].leaf
  /\ \A n \in DOMAIN nodes \ {l} : nodes[n].leaf => g[n].next = nodes[n].next
  /\ g[l].next = m /\ g[m].next = r
  /\ \A n \in DOMAIN nodes \ {l, r} : nodes[n].leaf => g[n].keys = nodes[n].keys
  /\ Len(g[l].keys) = n1 /\ Len(g[m].keys) = n2 /\ Len(g[r].keys) = n3
  /\ OneMoreKey(g[p], nodes[p])

\* The two ways leaves are split.
AreThirdsOf(g, p, i) == g = LeafThirds(p, i, 1) \/ g = LeafThirds(p, i, 2)

\* The thirds leaves l and r are shared out over: what LeafThirds leaves is a
\* tree, and no other leaf has changed.
LEMMA LeafThirdsKeeps ==
  ASSUME Tree(nodes, root), NEW p, NEW i, NEW l, NEW r, Adjacent(p, i, l, r),
         LeafNode(nodes[l]), NewNode \in Unused,
         NEW t \in Nat, KeysInBoth(l, r, t), NEW n1, NEW n2, NEW n3, Thirds(t, n1, n2, n3),
         NEW g, AreThirdsOf(g, p, i)
  PROVE  MoreLeaves(g, p, l, NewNode, r, n1, n2, n3)
<1>1. /\ p \in DOMAIN nodes
      /\ l \in Kids(nodes, p) /\ r \in Kids(nodes, p)
      /\ l \in DOMAIN nodes /\ r \in DOMAIN nodes
      /\ l # r /\ p # l /\ p # r /\ ~nodes[p].leaf
      /\ nodes[l].leaf = nodes[r].leaf
      /\ WellFormed(nodes[p]) /\ WellFormed(nodes[l]) /\ WellFormed(nodes[r])
  BY Neighbours
<1>2. /\ nodes[l].keys \in Seq(Keys) /\ nodes[r].keys \in Seq(Keys)
      /\ nodes[l].vals \in Seq(RowIds) /\ nodes[r].vals \in Seq(RowIds)
      /\ nodes[l].parent \in NodeId \cup {NullPage} /\ nodes[r].parent \in NodeId \cup {NullPage}
      /\ nodes[r].next \in NodeId \cup {NullPage}
  BY <1>1, NodeFields DEF WellFormed
<1>3. /\ \A n \in DOMAIN nodes : WellFormed(nodes[n])
      /\ \A n \in DOMAIN nodes : Kids(nodes, n) \subseteq DOMAIN nodes
      /\ DOMAIN nodes \subseteq NodeId
  BY TreeFacts
<1> DEFINE m == NewNode
<1>4. /\ m \in NodeId /\ m \notin DOMAIN nodes /\ m \in Unused /\ m \in NodeId \cup {NullPage}
      /\ r \in NodeId \cup {NullPage} /\ p \in NodeId \cup {NullPage} /\ p # NullPage
  BY <1>1, <1>3 DEF Unused, NodeId, NullPage
<1>5. nodes[l].leaf /\ nodes[r].leaf
  BY <1>1 DEF LeafNode
<1> DEFINE L == nodes[l]
           R == nodes[r]
           ks == L.keys \o R.keys
           vs == L.vals \o R.vals
           c1 == Len(ks) \div 3
           c2 == (Len(ks) - c1) \div 2
           u == Len(ks)
           q == L.parent
           s == R.parent
           x == R.next
           A == Leaf(SubSeq(ks, 1, c1), SubSeq(vs, 1, c1), q, m)
           B == Leaf(SubSeq(ks, c1 + 1, c1 + c2), SubSeq(vs, c1 + 1, c1 + c2), p, r)
           C == Leaf(SubSeq(ks, c1 + c2 + 1, u), SubSeq(vs, c1 + c2 + 1, u), s, x)
           place == i + 1
<1>6. \/ g = Split(nodes, p, i, place, A.keys[1], B.keys[1], l, r, m, A, B, C)
      \/ g = Split(nodes, p, i, place, B.keys[1], C.keys[1], l, r, m, A, B, C)
  <2>1. l = nodes[p].kids[i] /\ r = nodes[p].kids[i + 1]
    BY DEF Adjacent
  <2>2. /\ LeafThirds(p, i, 1) =
             Split(nodes, p, i, place, A.keys[1], B.keys[1], l, r, m, A, B, C)
        /\ LeafThirds(p, i, 2) =
             Split(nodes, p, i, place, B.keys[1], C.keys[1], l, r, m, A, B, C)
    <3>1. LeafThirdsSplit(p, i, l, r)
      BY <2>1, LeafThirdsIs
    <3> QED BY <3>1 DEF LeafThirdsSplit
  <2>3. g = LeafThirds(p, i, 1) \/ g = LeafThirds(p, i, 2)
    BY DEF AreThirdsOf
  <2> HIDE DEF A, B, C, place, m
  <2> QED BY <2>2, <2>3
<1>7. ks \in Seq(Keys) /\ Len(ks) = t
  <2>1. ks \in Seq(Keys) /\ Len(ks) = Len(L.keys) + Len(R.keys)
    BY <1>2, ConcatProperties
  <2> QED BY <2>1 DEF KeysInBoth
<1>8. vs \in Seq(RowIds) /\ Len(vs) = t
  <2>1. vs \in Seq(RowIds) /\ Len(vs) = Len(L.vals) + Len(R.vals)
    BY <1>2, ConcatProperties
  <2>2. Len(L.vals) = Len(L.keys) /\ Len(R.vals) = Len(R.keys)
    BY <1>1, <1>5 DEF WellFormed
  <2> QED BY <2>1, <2>2 DEF KeysInBoth
<1>9. c1 = n1 /\ c2 = n2 /\ u = t
  BY <1>7 DEF Thirds
<1>13. q \in NodeId \cup {NullPage} /\ s \in NodeId \cup {NullPage} /\ x \in NodeId \cup {NullPage}
  BY <1>2
<1>10. AreThirds(A, B, C, ks, vs, t, n1, n2, q, p, s, m, r, x)
  <2> HIDE DEF ks, vs, q, s, m, x
  <2> QED BY <1>4, <1>9, <1>13 DEF AreThirds
<1>14. q = nodes[l].parent /\ s = nodes[r].parent /\ x = nodes[r].next /\ m = NewNode
  OBVIOUS
<1>15. place \in 1 .. Len(nodes[p].kids) + 1
  <2>1. nodes[p].kids \in Seq(NodeId)
    BY <1>1, NodeFields DEF WellFormed
  <2> QED BY <2>1, LenProperties DEF Adjacent
<1> HIDE DEF ks, vs, c1, c2, u, q, s, x, m, A, B, C, place
<1>16. /\ WellFormed(A) /\ A.leaf /\ Len(A.keys) = n1 /\ A.keys[1] \in Keys
       /\ A.kids = << >> /\ A.parent = q /\ A.next = m
       /\ WellFormed(B) /\ B.leaf /\ Len(B.keys) = n2 /\ B.keys[1] \in Keys
       /\ B.kids = << >> /\ B.parent = p /\ B.next = r
       /\ WellFormed(C) /\ C.leaf /\ Len(C.keys) = n3 /\ C.keys[1] \in Keys
       /\ C.kids = << >> /\ C.parent = s /\ C.next = x
  <2>1. KeysAndVals(ks, vs, t)
    BY <1>7, <1>8 DEF KeysAndVals
  <2>3. ALeaf(A, n1, q, m) /\ ALeaf(B, n2, p, r) /\ ALeaf(C, n3, s, x)
    BY <2>1, <1>10, ThreeLeaves
  <2> QED BY <2>3 DEF ALeaf
<1>17. Parts(l, r, A, B, C)
  <2>1. Kids(nodes, l) = {} /\ Kids(nodes, r) = {}
    BY <1>1, <1>5, TreeFacts
  <2>2. Range(A.kids) = {} /\ Range(B.kids) = {} /\ Range(C.kids) = {}
    BY <1>16 DEF Range
  <2>3. /\ WellFormed(A) /\ WellFormed(B) /\ WellFormed(C)
        /\ A.leaf = nodes[l].leaf /\ B.leaf = nodes[l].leaf /\ C.leaf = nodes[l].leaf
    <3>1. A.leaf \in BOOLEAN /\ B.leaf \in BOOLEAN /\ C.leaf \in BOOLEAN /\ L.leaf \in BOOLEAN
      BY <1>1, <1>16, NodeFields DEF WellFormed
    <3> QED BY <3>1, <1>5, <1>16
  <2> QED BY <2>1, <2>2, <2>3, <1>4, <1>14, <1>16 DEF Parts
<1>18. SameButParents(nodes)
  BY <1>3 DEF SameButParents
<1>19. PICK a \in Keys, b \in Keys :
         g = Split(nodes, p, i, place, a, b, l, r, m, A, B, C)
  BY <1>6, <1>16
<1>20. PICK P : Grown(P, p, m) /\ InThree(g, nodes, p, P, l, A, m, B, r, C)
  BY <1>4, <1>15, <1>18, <1>19, SplitFacts
<1>21. /\ Tree(g, root) /\ DOMAIN g = DOMAIN nodes \cup {m}
       /\ \A n \in DOMAIN nodes : g[n].leaf = nodes[n].leaf
       /\ g[m].leaf = nodes[l].leaf
       /\ \A n \in DOMAIN nodes \ {l, r} : nodes[n].leaf => /\ g[n].keys = nodes[n].keys
                                                            /\ g[n].next = nodes[n].next
  <2>1. m \in Unused
    BY <1>4
  <2>2. Grown(P, p, m) /\ InThree(g, nodes, p, P, l, A, m, B, r, C)
    BY <1>20
  <2>3. MoreTree(g, l, m, r)
    BY <2>1, <2>2, <1>17, <1>18, InThreeIsTree
  <2> QED BY <2>3 DEF MoreTree
<1>22. /\ g[p] = P /\ g[l] = A /\ g[m] = B /\ g[r] = C
       /\ \A n \in DOMAIN nodes \ {p, l, r} : g[n] = nodes[n]
  BY <1>20 DEF InThree
<1>23. ASSUME Adopted(nodes), NEW n \in DOMAIN g, NEW d \in Kids(g, n)
       PROVE  g[d].parent = n
  <2>1. n \in DOMAIN nodes /\ n # l /\ n # r
    <3>1. Kids(g, l) = {} /\ Kids(g, m) = {} /\ Kids(g, r) = {}
      BY <1>5, <1>21, <1>1, TreeFacts
    <3> QED BY <3>1, <1>21, <1>23
  <2>2. /\ Kids(g, n) = IF n = p THEN Kids(nodes, p) \cup {m} ELSE Kids(nodes, n)
    BY <2>1, <1>20, <1>22 DEF Kids, Grown
  <2>3. \A c \in DOMAIN nodes : g[c].parent = nodes[c].parent
    BY <1>14, <1>16, <1>20, <1>22 DEF Grown
  <2>4. CASE d = m
    <3>1. n = p
      BY <2>1, <2>2, <2>4, <1>3, <1>4, <1>23
    <3> QED BY <2>4, <3>1, <1>16, <1>22
  <2>5. CASE d # m
    <3>1. d \in Kids(nodes, n) /\ d \in DOMAIN nodes
      BY <2>1, <2>2, <2>5, <1>3, <1>23
    <3> QED BY <2>1, <2>3, <3>1, <1>23 DEF Adopted
  <2> QED BY <2>4, <2>5
<1>24. g[l].next = m /\ g[m].next = r /\ g[r].next = nodes[r].next
  BY <1>14, <1>16, <1>22
<1>25. Adopted(nodes) => Adopted(g)
  BY <1>23 DEF Adopted
<1>26. Len(g[l].keys) = n1 /\ Len(g[m].keys) = n2 /\ Len(g[r].keys) = n3
  BY <1>16, <1>22
<1>27. OneMoreKey(g[p], nodes[p])
  BY <1>20, <1>22 DEF Grown
<1>28. MoreLeaves(g, p, l, m, r, n1, n2, n3)
  <2>1. g[m].leaf /\ \A n \in DOMAIN nodes \ {l} : nodes[n].leaf => g[n].next = nodes[n].next
    BY <1>1, <1>5, <1>21, <1>24
  <2> QED BY <2>1, <1>21, <1>24, <1>25, <1>26, <1>27 DEF MoreLeaves
<1> QED BY <1>14, <1>28

-----------------------------------------------------------------------------
(* The thirds of two internal nodes *)

\* k1, k2 and k3 are the thirds of t keys, without the two that go up.
InnerShares(t, k1, k2, k3) ==
  t >= 2 /\ k1 = (t - 2) \div 3 /\ k2 = (t - 2 - k1) \div 2 /\ k3 = t - 2 - k1 - k2

LEMMA InnerSharesFacts ==
  ASSUME NEW t \in Nat, NEW k1, NEW k2, NEW k3, InnerShares(t, k1, k2, k3)
  PROVE  k1 \in Nat /\ k2 \in Nat /\ k3 \in Nat /\ k1 + k2 + k3 + 2 = t
<1>1. t >= 2 /\ k1 = (t - 2) \div 3 /\ k2 = (t - 2 - k1) \div 2 /\ k3 = t - 2 - k1 - k2
  BY DEF InnerShares
<1>2. k1 + k2 + k3 + 2 = t
  BY <1>1
<1>3. k1 \in Nat /\ k2 \in Nat /\ k3 \in Nat
  BY <1>1
<1> QED BY <1>2, <1>3

\* An internal node with the children cs and the parent q.
AnInner(M, cs, q) == WellFormed(M) /\ ~M.leaf /\ M.kids = cs /\ M.parent = q

\* An internal node with some of the keys ks, and children.
LEMMA InnerPart ==
  ASSUME NEW ks \in Seq(Keys), NEW a \in Nat, NEW b \in Nat, 1 <= a, a <= b + 1, b <= Len(ks),
         NEW cs \in Seq(NodeId), Len(cs) = b - a + 2, IsInjective(cs),
         NEW q \in NodeId \cup {NullPage},
         NEW M, M = Inner(SubSeq(ks, a, b), cs, q)
  PROVE  AnInner(M, cs, q)
<1> DEFINE x == SubSeq(ks, a, b)
<1>1. x \in Seq(Keys) /\ Len(x) = b - a + 1
  BY SubFacts
<1>2. Len(cs) = Len(x) + 1
  BY <1>1
<1> HIDE DEF x
<1>3. InnerData(x, cs, q)
  BY <1>1, <1>2 DEF InnerData
<1>4. M = Inner(x, cs, q)
  BY DEF x
<1>5. WellFormed(M) /\ ~M.leaf /\ M.kids = cs /\ M.parent = q
  BY <1>3, <1>4, NewInner
<1> QED BY <1>5 DEF AnInner

\* t keys and a child more.
KeysAndKids(ks, cs, t) ==
  /\ ks \in Seq(Keys) /\ Len(ks) = t
  /\ cs \in Seq(NodeId) /\ Len(cs) = t + 1 /\ IsInjective(cs)

\* A, B and C are internal nodes with the thirds of the keys ks and of the
\* children cs, which are x, y and z.
AreInnerThirds(A, B, C, ks, cs, t, k1, k2, q, p, s, x, y, z) ==
  /\ {q, p, s} \subseteq NodeId \cup {NullPage}
  /\ x = SubSeq(cs, 1, k1 + 1) /\ y = SubSeq(cs, k1 + 2, k1 + k2 + 2)
  /\ z = SubSeq(cs, k1 + k2 + 3, Len(cs))
  /\ A = Inner(SubSeq(ks, 1, k1), x, q)
  /\ B = Inner(SubSeq(ks, k1 + 2, k1 + k2 + 1), y, p)
  /\ C = Inner(SubSeq(ks, k1 + k2 + 3, t), z, s)

\* The nodes that result, and the keys between them.
LEMMA ThreeInners ==
  ASSUME NEW ks, NEW cs, NEW t \in Nat, KeysAndKids(ks, cs, t),
         NEW k1, NEW k2, NEW k3, InnerShares(t, k1, k2, k3),
         NEW q, NEW p, NEW s, NEW A, NEW B, NEW C, NEW x, NEW y, NEW z,
         AreInnerThirds(A, B, C, ks, cs, t, k1, k2, q, p, s, x, y, z)
  PROVE  /\ AnInner(A, x, q) /\ AnInner(B, y, p) /\ AnInner(C, z, s) /\ SharedByThree(cs, x, y, z)
         /\ ks[k1 + 1] \in Keys /\ ks[k1 + k2 + 2] \in Keys
<1>1. k1 \in Nat /\ k2 \in Nat /\ k3 \in Nat /\ k1 + k2 + k3 + 2 = t
  BY InnerSharesFacts
<1>2. /\ ks \in Seq(Keys) /\ Len(ks) = t
      /\ cs \in Seq(NodeId) /\ Len(cs) = t + 1 /\ IsInjective(cs)
  BY DEF KeysAndKids
<1>3. q \in NodeId \cup {NullPage} /\ p \in NodeId \cup {NullPage} /\ s \in NodeId \cup {NullPage}
  BY DEF AreInnerThirds
<1>4. /\ x \in Seq(NodeId) /\ Len(x) = k1 + 1 /\ IsInjective(x)
      /\ y \in Seq(NodeId) /\ Len(y) = k2 + 1 /\ IsInjective(y)
      /\ z \in Seq(NodeId) /\ Len(z) = k3 + 1 /\ IsInjective(z)
      /\ SharedByThree(cs, x, y, z)
  <2> DEFINE a == k1 + 1
             b == k1 + k2 + 2
  <2>1. a \in Nat /\ b \in Nat /\ a <= b /\ b <= Len(cs)
    BY <1>1, <1>2
  <2>2. x = SubSeq(cs, 1, a) /\ y = SubSeq(cs, a + 1, b) /\ z = SubSeq(cs, b + 1, Len(cs))
    <3>1. a + 1 = k1 + 2 /\ b + 1 = k1 + k2 + 3
      BY <1>1
    <3> QED BY <3>1 DEF AreInnerThirds
  <2>3. b - a = k2 + 1 /\ Len(cs) - b = k3 + 1 /\ a = k1 + 1
    BY <1>1, <1>2
  <2> HIDE DEF a, b
  <2>4. /\ KidsOf(NodeId, x, a) /\ KidsOf(NodeId, y, b - a) /\ KidsOf(NodeId, z, Len(cs) - b)
        /\ SharedByThree(cs, x, y, z)
    <3>1. cs \in Seq(NodeId) /\ IsInjective(cs)
      BY <1>2
    <3>2. CutInThree(cs, a, b, x, y, z)
      BY <2>1, <2>2 DEF CutInThree
    <3> QED BY <3>1, <3>2, ThreeParts
  <2> QED BY <2>3, <2>4 DEF KidsOf
<1>5. AnInner(A, x, q)
  <2>1. /\ 1 \in Nat /\ k1 \in Nat /\ 1 <= 1 /\ 1 <= k1 + 1 /\ k1 <= Len(ks)
        /\ Len(x) = k1 - 1 + 2
    BY <1>1, <1>2, <1>4
  <2>2. A = Inner(SubSeq(ks, 1, k1), x, q)
    BY DEF AreInnerThirds
  <2> QED BY <2>1, <2>2, <1>2, <1>3, <1>4, InnerPart
<1>6. AnInner(B, y, p)
  <2> DEFINE a == k1 + 2
             b == k1 + k2 + 1
  <2>1. a \in Nat /\ b \in Nat /\ 1 <= a /\ a <= b + 1 /\ b <= Len(ks) /\ Len(y) = b - a + 2
    BY <1>1, <1>2, <1>4
  <2>2. B = Inner(SubSeq(ks, a, b), y, p)
    BY DEF AreInnerThirds
  <2> HIDE DEF a, b
  <2> QED BY <2>1, <2>2, <1>2, <1>3, <1>4, InnerPart
<1>7. AnInner(C, z, s)
  <2> DEFINE a == k1 + k2 + 3
  <2>1. a \in Nat /\ 1 <= a /\ a <= t + 1 /\ t <= Len(ks) /\ Len(z) = t - a + 2
    BY <1>1, <1>2, <1>4
  <2>2. C = Inner(SubSeq(ks, a, t), z, s)
    BY DEF AreInnerThirds
  <2> HIDE DEF a
  <2> QED BY <2>1, <2>2, <1>2, <1>3, <1>4, InnerPart
<1>8. ks[k1 + 1] \in Keys /\ ks[k1 + k2 + 2] \in Keys
  <2>1. k1 + 1 \in 1 .. Len(ks) /\ k1 + k2 + 2 \in 1 .. Len(ks)
    BY <1>1, <1>2
  <2> QED BY <1>2, <2>1, ElementOfSeq
<1> QED BY <1>4, <1>5, <1>6, <1>7, <1>8

\* The members of the ends of two sequences that were put together.
AreEnds(s, t, u, a, b, x, z) ==
  /\ s \in Seq(NodeId) /\ t \in Seq(NodeId) /\ u = s \o t
  /\ a \in Nat /\ b \in Nat /\ a <= Len(s) /\ Len(s) <= b /\ b <= Len(u)
  /\ x = SubSeq(u, 1, a) /\ z = SubSeq(u, b + 1, Len(u))

LEMMA EndsOfBoth ==
  ASSUME NEW s, NEW t, NEW u, NEW a, NEW b, NEW x, NEW z, AreEnds(s, t, u, a, b, x, z)
  PROVE  Range(x) \subseteq Range(s) /\ Range(z) \subseteq Range(t)
<1> DEFINE n == Len(s)
           o == Len(u)
<1>1. /\ n \in Nat /\ o \in Nat /\ Len(t) \in Nat /\ o = n + Len(t)
      /\ u \in Seq(NodeId)
      /\ \A j \in 1 .. o : u[j] = IF j <= n THEN s[j] ELSE t[j - n]
  BY LenProperties, ConcatProperties DEF AreEnds
<1>2. /\ a \in Nat /\ b \in Nat /\ a <= n /\ n <= b /\ b <= o /\ o = Len(u)
      /\ x = SubSeq(u, 1, a) /\ z = SubSeq(u, b + 1, o)
  BY DEF AreEnds
<1> HIDE DEF n, o
<1>3. ASSUME NEW e \in Range(x)
      PROVE  e \in Range(s)
  <2>1. /\ x \in Seq(NodeId) /\ Len(x) = a
        /\ \A j \in 1 .. a : x[j] = u[1 + j - 1]
    BY <1>1, <1>2, SubFacts
  <2>2. PICK j \in 1 .. a : e = x[j]
    BY <2>1, <1>3 DEF Range
  <2>3. 1 + j - 1 = j /\ j \in 1 .. o /\ j <= n /\ j \in 1 .. n
    BY <1>1, <1>2
  <2>4. e = s[j] /\ j \in 1 .. Len(s)
    BY <2>1, <2>2, <2>3, <1>1 DEF n
  <2> QED BY <2>4 DEF Range
<1>4. ASSUME NEW e \in Range(z)
      PROVE  e \in Range(t)
  <2>1. /\ z \in Seq(NodeId) /\ Len(z) = o - (b + 1) + 1
        /\ \A j \in 1 .. Len(z) : z[j] = u[b + 1 + j - 1]
    <3>1. b + 1 \in Int /\ o \in Int /\ 1 <= b + 1 /\ b + 1 <= o + 1 /\ o <= Len(u)
      BY <1>1, <1>2
    <3> DEFINE c == b + 1
    <3> HIDE DEF c
    <3>2. /\ SubSeq(u, c, o) \in Seq(NodeId) /\ Len(SubSeq(u, c, o)) = o - c + 1
          /\ \A j \in 1 .. o - c + 1 : SubSeq(u, c, o)[j] = u[c + j - 1]
      BY <3>1, <1>1, SubFacts DEF c
    <3> QED BY <3>2, <1>2 DEF c
  <2>2. PICK j \in 1 .. Len(z) : e = z[j]
    BY <2>1, <1>4, LenProperties DEF Range
  <2>3. j \in Int /\ j >= 1 /\ j <= o - b
    <3>1. Len(z) = o - b
      BY <2>1, <1>1, <1>2
    <3> QED BY <3>1, <1>1, <1>2
  <2> DEFINE c == b + 1 + j - 1
  <2>4. c \in 1 .. o /\ ~(c <= n) /\ c - n \in 1 .. Len(t)
    BY <2>3, <1>1, <1>2
  <2>5. e = u[c]
    BY <2>1, <2>2
  <2> HIDE DEF c
  <2>6. e = t[c - n]
    BY <2>4, <2>5, <1>1
  <2> QED BY <2>4, <2>6 DEF Range
<1> QED BY <1>3, <1>4

\* g is a tree with the internal node m more, and the leaves as they were.
\* Children know their parent unless l and r differed too much in size.
MoreInners(g, p, i, m) ==
  /\ Adopted(nodes) /\ ~HandsOver(p, i) => Adopted(g)
  /\ Tree(g, root) /\ DOMAIN g = DOMAIN nodes \cup {m}
  /\ \A n \in DOMAIN nodes : g[n].leaf = nodes[n].leaf
  /\ ~g[m].leaf /\ OneMoreKey(g[p], nodes[p])
  /\ \A n \in DOMAIN nodes : nodes[n].leaf => /\ g[n].keys = nodes[n].keys
                                              /\ g[n].next = nodes[n].next

LEMMA InnerThirdsKeeps ==
  ASSUME Tree(nodes, root), NEW p, NEW i, NEW l, NEW r, Adjacent(p, i, l, r),
         ~nodes[l].leaf, NewNode \in Unused,
         NEW t \in Nat, KeysInBoth(l, r, t),
         NEW k1, NEW k2, NEW k3, InnerShares(t + 1, k1, k2, k3),
         NEW place, place \in 1 .. Len(nodes[p].kids) + 1,
         NEW g, g = InnerThirds(p, i, place)
  PROVE  MoreInners(g, p, i, NewNode)
<1>1. /\ p \in DOMAIN nodes /\ i \in 1 .. Len(nodes[p].keys)
      /\ l \in DOMAIN nodes \ {root} /\ r \in DOMAIN nodes \ {root}
      /\ l # r /\ p # l /\ p # r
      /\ nodes[l].leaf = nodes[r].leaf
      /\ Kids(nodes, l) \cap Kids(nodes, r) = {}
      /\ {p, l, r} \cap (Kids(nodes, l) \cup Kids(nodes, r)) = {}
      /\ WellFormed(nodes[p]) /\ WellFormed(nodes[l]) /\ WellFormed(nodes[r])
  BY Neighbours
<1>2. /\ nodes[l].keys \in Seq(Keys) /\ nodes[r].keys \in Seq(Keys)
      /\ nodes[l].kids \in Seq(NodeId) /\ nodes[r].kids \in Seq(NodeId)
      /\ nodes[l].parent \in NodeId \cup {NullPage} /\ nodes[r].parent \in NodeId \cup {NullPage}
      /\ nodes[p].keys \in Seq(Keys)
  BY <1>1, NodeFields DEF WellFormed
<1>3. /\ \A n \in DOMAIN nodes : WellFormed(nodes[n])
      /\ \A n \in DOMAIN nodes : Kids(nodes, n) \subseteq DOMAIN nodes \ {root}
      /\ DOMAIN nodes \subseteq NodeId
      /\ \A n \in DOMAIN nodes : nodes[n].parent = NullPage <=> n = root
      /\ \A o, n \in DOMAIN nodes : o # n => Kids(nodes, o) \cap Kids(nodes, n) = {}
  BY TreeFacts DEF Tree, Rooted, Linked
<1> DEFINE m == NewNode
<1>4. /\ m \in NodeId /\ m \notin DOMAIN nodes /\ m \in Unused /\ m # NullPage
      /\ p \in NodeId \cup {NullPage} /\ p # NullPage
  BY <1>1, <1>3 DEF Unused, NodeId, NullPage
<1>5. ~nodes[l].leaf /\ ~nodes[r].leaf
  BY <1>1
<1> DEFINE L == nodes[l]
           R == nodes[r]
           sep == <<nodes[p].keys[i]>>
           lk == L.keys \o sep
           rk == R.keys
           ks == lk \o rk
           lc == L.kids
           rc == R.kids
           cs == lc \o rc
           c1 == (Len(ks) - 2) \div 3
           c2 == (Len(ks) - 2 - c1) \div 2
           u == Len(ks)
           q == L.parent
           s == R.parent
           x == SubSeq(cs, 1, c1 + 1)
           y == SubSeq(cs, c1 + 2, c1 + c2 + 2)
           z == SubSeq(cs, c1 + c2 + 3, Len(cs))
           A == Inner(SubSeq(ks, 1, c1), x, q)
           B == Inner(SubSeq(ks, c1 + 2, c1 + c2 + 1), y, p)
           C == Inner(SubSeq(ks, c1 + c2 + 3, u), z, s)
           a == ks[c1 + 1]
           b == ks[c1 + c2 + 2]
<1>6. g = Split(Reparent(nodes, Range(B.kids), m), p, i, place, a, b, l, r, m, A, B, C)
  <2>1. l = nodes[p].kids[i] /\ r = nodes[p].kids[i + 1]
    BY DEF Adjacent
  <2>2. InnerThirdsSplit(p, i, place, l, r)
    BY <2>1, InnerThirdsIs
  <2>3. InnerThirds(p, i, place) =
          Split(Reparent(nodes, Range(B.kids), m), p, i, place, a, b, l, r, m, A, B, C)
    BY <2>2 DEF InnerThirdsSplit
  <2> HIDE DEF A, B, C, a, b, m
  <2> QED BY <2>3
<1> DEFINE v == t + 1
<1>7. ks \in Seq(Keys) /\ Len(ks) = v
  <2>1. sep \in Seq(Keys) /\ Len(sep) = 1
    <3>1. nodes[p].keys[i] \in Keys
      BY <1>1, <1>2, ElementOfSeq
    <3> QED BY <3>1
  <2> HIDE DEF sep
  <2>2. lk \in Seq(Keys) /\ Len(lk) = Len(L.keys) + Len(sep)
    BY <1>2, <2>1, ConcatProperties
  <2> HIDE DEF lk
  <2>3. ks \in Seq(Keys) /\ Len(ks) = Len(lk) + Len(rk)
    <3>1. rk \in Seq(Keys) /\ lk \in Seq(Keys)
      BY <1>2, <2>2
    <3> HIDE DEF rk
    <3> QED BY <3>1, ConcatProperties
  <2>4. t = Len(L.keys) + Len(rk)
    BY DEF KeysInBoth
  <2> HIDE DEF ks
  <2> DEFINE e == Len(L.keys)
             f == Len(rk)
  <2>5. e \in Nat /\ f \in Nat
    BY <1>2, LenProperties
  <2>6. Len(ks) = (e + 1) + f /\ t = e + f
    BY <2>1, <2>2, <2>3, <2>4
  <2> HIDE DEF e, f, rk
  <2>7. Len(ks) = t + 1
    BY <2>5, <2>6
  <2> QED BY <2>3, <2>7
<1>8. cs \in Seq(NodeId) /\ IsInjective(cs) /\ Len(cs) = v + 1
      /\ Range(cs) = Kids(nodes, l) \cup Kids(nodes, r)
  <2>1. /\ lc \in Seq(NodeId) /\ rc \in Seq(NodeId) /\ IsInjective(lc) /\ IsInjective(rc)
        /\ Range(lc) \cap Range(rc) = {}
    BY <1>1, <1>2, <1>5 DEF WellFormed, Kids
  <2>2. Len(lc) = Len(L.keys) + 1 /\ Len(rc) = Len(R.keys) + 1
    BY <1>1, <1>5 DEF WellFormed
  <2>3. Range(lc) \cup Range(rc) = Kids(nodes, l) \cup Kids(nodes, r)
    BY DEF Kids
  <2>4. t = Len(L.keys) + Len(R.keys)
    BY DEF KeysInBoth
  <2> DEFINE e == Len(L.keys)
             f == Len(R.keys)
  <2>5. e \in Nat /\ f \in Nat /\ t = e + f
    BY <1>2, <2>4, LenProperties
  <2>6. Len(lc) = e + 1 /\ Len(rc) = f + 1
    BY <2>2
  <2> HIDE DEF lc, rc, e, f
  <2>7. /\ cs \in Seq(NodeId) /\ Len(cs) = Len(lc) + Len(rc)
        /\ Range(cs) = Range(lc) \cup Range(rc) /\ IsInjective(cs)
    BY <2>1, CatKids
  <2>8. Len(lc) + Len(rc) = t + 2
    BY <2>5, <2>6
  <2> QED BY <2>3, <2>7, <2>8
<1>9. /\ InnerShares(v, k1, k2, k3) /\ v \in Nat /\ c1 = k1 /\ c2 = k2 /\ u = v
  <2>1. InnerShares(v, k1, k2, k3) /\ v \in Nat
    OBVIOUS
  <2> HIDE DEF v
  <2> QED BY <2>1, <1>7 DEF InnerShares
<1>10. q \in NodeId \cup {NullPage} /\ s \in NodeId \cup {NullPage}
  BY <1>2
<1>11. q = nodes[l].parent /\ s = nodes[r].parent /\ m = NewNode
  OBVIOUS
<1>12. KeysAndKids(ks, cs, v)
  <2> HIDE DEF ks, cs, v
  <2> QED BY <1>7, <1>8 DEF KeysAndKids
<1>13. AreInnerThirds(A, B, C, ks, cs, v, k1, k2, q, p, s, x, y, z)
  <2> HIDE DEF ks, cs, q, s, v
  <2> QED BY <1>4, <1>9, <1>10 DEF AreInnerThirds
<1>cs. cs = nodes[l].kids \o nodes[r].kids /\ Len(cs) = v + 1
  <2>1. cs = nodes[l].kids \o nodes[r].kids
    OBVIOUS
  <2> HIDE DEF cs
  <2> QED BY <1>8, <2>1
<1>14. a = ks[k1 + 1] /\ b = ks[k1 + k2 + 2]
  BY <1>9
<1> HIDE DEF ks, cs, c1, c2, u, q, s, m, x, y, z, A, B, C, a, b, v
<1>15. /\ AnInner(A, x, q) /\ AnInner(B, y, p) /\ AnInner(C, z, s) /\ SharedByThree(cs, x, y, z)
       /\ ks[k1 + 1] \in Keys /\ ks[k1 + k2 + 2] \in Keys
  BY <1>9, <1>12, <1>13, ThreeInners
<1>16. a \in Keys /\ b \in Keys
  BY <1>14, <1>15
<1>17. Parts(l, r, A, B, C)
  <2>1. A.leaf \in BOOLEAN /\ B.leaf \in BOOLEAN /\ C.leaf \in BOOLEAN /\ L.leaf \in BOOLEAN
    BY <1>1, <1>15, NodeFields DEF WellFormed, AnInner
  <2>2. A.leaf = L.leaf /\ B.leaf = L.leaf /\ C.leaf = L.leaf
    BY <2>1, <1>5, <1>15 DEF AnInner
  <2>3. Range(x) \cup Range(y) \cup Range(z) = Kids(nodes, l) \cup Kids(nodes, r)
    BY <1>8, <1>15 DEF SharedByThree
  <2> QED BY <2>2, <2>3, <1>4, <1>11, <1>15 DEF Parts, AnInner, SharedByThree
<1> DEFINE f == Reparent(nodes, Range(B.kids), m)
<1>18. SameButParents(f)
  <2>1. /\ DOMAIN f = DOMAIN nodes
        /\ \A n \in DOMAIN nodes : /\ WellFormed(f[n]) /\ f[n].leaf = nodes[n].leaf
                                   /\ f[n].keys = nodes[n].keys /\ f[n].kids = nodes[n].kids
                                   /\ f[n].next = nodes[n].next
        /\ \A n \in DOMAIN nodes :
             f[n].parent = IF n \in Range(B.kids) THEN m ELSE nodes[n].parent
    <3>1. m \in NodeId /\ \A n \in DOMAIN nodes : WellFormed(nodes[n])
      BY <1>3, <1>4
    <3>2. f = Reparent(nodes, Range(B.kids), m)
      OBVIOUS
    <3> HIDE DEF f
    <3> QED BY <3>1, <3>2, ReparentFacts
  <2>2. Range(B.kids) \subseteq DOMAIN nodes \ {root}
    <3>1. Range(B.kids) \subseteq Kids(nodes, l) \cup Kids(nodes, r)
      BY <1>17 DEF Parts
    <3> QED BY <3>1, <1>1, <1>3
  <2> HIDE DEF f
  <2> QED BY <2>1, <2>2, <1>3, <1>4 DEF SameButParents
<1>h. \A n \in DOMAIN nodes : f[n].parent = IF n \in Range(y) THEN m ELSE nodes[n].parent
  <2>1. m \in NodeId /\ \A n \in DOMAIN nodes : WellFormed(nodes[n])
    BY <1>3, <1>4
  <2>2. f = Reparent(nodes, Range(B.kids), m) /\ B.kids = y
    BY <1>15 DEF AnInner
  <2> HIDE DEF f
  <2> QED BY <2>1, <2>2, ReparentFacts
<1>19. g = Split(f, p, i, place, a, b, l, r, m, A, B, C) /\ m \in Unused
  BY <1>4, <1>6
<1> HIDE DEF f
<1>20. PICK P : Grown(P, p, m) /\ InThree(g, f, p, P, l, A, m, B, r, C)
  BY <1>16, <1>18, <1>19, SplitFacts
<1>21. MoreTree(g, l, m, r)
  BY <1>17, <1>18, <1>19, <1>20, InThreeIsTree
<1>22. \A n \in DOMAIN nodes : nodes[n].leaf => /\ g[n].keys = nodes[n].keys
                                                /\ g[n].next = nodes[n].next
  BY <1>5, <1>21 DEF MoreTree
<1>23. ~g[m].leaf
  BY <1>5, <1>21 DEF MoreTree
<1>24. OneMoreKey(g[p], nodes[p])
  BY <1>20 DEF Grown, InThree
<1>25. ASSUME Adopted(nodes), ~HandsOver(p, i)
       PROVE  Adopted(g)
  <2>1. /\ k1 \in Nat /\ k2 \in Nat /\ k1 + 1 <= Len(lc) /\ Len(lc) <= k1 + k2 + 2
        /\ k1 + k2 + 2 <= Len(cs)
    <3> DEFINE e == Len(lc)
               h == Len(rc)
    <3>1. nodes[p].kids[i] = l /\ nodes[p].kids[i + 1] = r
      BY DEF Adjacent
    <3>2. ~Uneven(e, h)
      BY <3>1, <1>25 DEF HandsOver
    <3>3. e \in Nat /\ h \in Nat /\ e + h = v + 1
      BY <1>2, <1>8, <1>cs, LenProperties, ConcatProperties
    <3>4. k1 \in Nat /\ k2 \in Nat /\ k3 \in Nat /\ k1 + k2 + k3 + 2 = v /\ v \in Nat
      BY <1>9, InnerSharesFacts
    <3>5. k1 = (v - 2) \div 3 /\ k2 = (v - 2 - k1) \div 2
      BY <1>9 DEF InnerShares
    <3> HIDE DEF e, h
    <3>6. e + h - 3 = v - 2
      BY <3>3, <3>4
    <3>7. ~(k1 + 1 > e \/ k1 + k2 + 2 < e)
      BY <3>2, <3>3, <3>4, <3>5, <3>6 DEF Uneven
    <3>8. Len(cs) = v + 1
      BY <1>8
    <3>9. k1 + 1 <= e /\ e <= k1 + k2 + 2 /\ k1 + k2 + 2 <= Len(cs)
      BY <3>3, <3>4, <3>7, <3>8
    <3> QED BY <3>4, <3>9 DEF e
  <2>2. Range(x) \subseteq Kids(nodes, l) /\ Range(z) \subseteq Kids(nodes, r)
    <3> DEFINE c == k1 + 1
               d == k1 + k2 + 2
    <3>1. c \in Nat /\ d \in Nat /\ c <= Len(lc) /\ Len(lc) <= d /\ d <= Len(cs)
      BY <2>1
    <3>2. x = SubSeq(cs, 1, c) /\ z = SubSeq(cs, d + 1, Len(cs))
      <4>1. d + 1 = k1 + k2 + 3
        BY <2>1
      <4> QED BY <4>1, <1>13 DEF AreInnerThirds
    <3>3. lc \in Seq(NodeId) /\ rc \in Seq(NodeId) /\ cs = lc \o rc
      BY <1>2, <1>cs
    <3>4. Range(lc) = Kids(nodes, l) /\ Range(rc) = Kids(nodes, r)
      BY DEF Kids
    <3> HIDE DEF c, d, lc, rc
    <3>5. AreEnds(lc, rc, cs, c, d, x, z)
      BY <3>1, <3>2, <3>3 DEF AreEnds
    <3>6. Range(x) \subseteq Range(lc) /\ Range(z) \subseteq Range(rc)
      BY <3>5, EndsOfBoth
    <3> QED BY <3>4, <3>6
  <2>3. /\ Range(x) \cap Range(y) = {} /\ Range(z) \cap Range(y) = {}
        /\ Range(y) \subseteq Kids(nodes, l) \cup Kids(nodes, r)
    BY <1>8, <1>15 DEF SharedByThree
  <2>4. /\ DOMAIN g = DOMAIN nodes \cup {m} /\ g[p] = P /\ g[l] = A /\ g[m] = B /\ g[r] = C
        /\ \A n \in DOMAIN nodes \ {p, l, r} : g[n] = f[n]
    BY <1>20 DEF InThree
  <2>5. /\ A.kids = x /\ B.kids = y /\ C.kids = z
        /\ A.parent = nodes[l].parent /\ B.parent = p /\ C.parent = nodes[r].parent
        /\ P.parent = nodes[p].parent /\ Range(P.kids) = Kids(nodes, p) \cup {m}
    BY <1>11, <1>15, <1>20 DEF AnInner, Grown, Kids
  <2>6. \A d \in DOMAIN nodes : g[d].parent = IF d \in Range(y) THEN m ELSE nodes[d].parent
    <3>1. p \notin Range(y) /\ l \notin Range(y) /\ r \notin Range(y)
      BY <1>1, <2>3
    <3> QED BY <3>1, <2>4, <2>5, <1>h
  <2>7. ASSUME NEW n \in DOMAIN nodes \ {l, r}, NEW d \in Kids(nodes, n)
        PROVE  g[d].parent = n
    <3>1. d \in DOMAIN nodes /\ d \notin Range(y)
      BY <1>1, <1>3, <2>3, <2>7
    <3> QED BY <3>1, <2>6, <2>7, <1>25 DEF Adopted
  <2>8. ASSUME NEW n \in DOMAIN g, NEW d \in Kids(g, n)
        PROVE  g[d].parent = n
    <3>1. CASE n = m
      <4>1. d \in Range(y) /\ d \in DOMAIN nodes
        BY <3>1, <2>3, <2>4, <2>5, <2>8, <1>1, <1>3 DEF Kids
      <4> QED BY <4>1, <3>1, <2>6
    <3>2. CASE n = l
      <4>1. d \in Kids(nodes, l) /\ d \notin Range(y) /\ d \in DOMAIN nodes
        BY <3>2, <2>2, <2>3, <2>4, <2>5, <2>8, <1>1, <1>3 DEF Kids
      <4> QED BY <4>1, <3>2, <2>6, <1>1, <1>25 DEF Adopted
    <3>3. CASE n = r
      <4>1. d \in Kids(nodes, r) /\ d \notin Range(y) /\ d \in DOMAIN nodes
        BY <3>3, <2>2, <2>3, <2>4, <2>5, <2>8, <1>1, <1>3 DEF Kids
      <4> QED BY <4>1, <3>3, <2>6, <1>1, <1>25 DEF Adopted
    <3>4. CASE n = p
      <4>1. d = m \/ d \in Kids(nodes, p)
        BY <3>4, <2>4, <2>5, <2>8 DEF Kids
      <4>2. d = m => g[d].parent = p
        BY <2>4, <2>5
      <4>3. d \in Kids(nodes, p) => g[d].parent = p
        BY <1>1, <2>7
      <4> QED BY <4>1, <4>2, <4>3, <3>4
    <3>5. CASE n \notin {m, l, r, p}
      <4>1. n \in DOMAIN nodes \ {p, l, r} /\ Kids(g, n) = Kids(nodes, n)
        BY <3>5, <2>4, <2>8, <1>18 DEF Kids, SameButParents
      <4> QED BY <4>1, <2>7, <2>8
    <3> QED BY <3>1, <3>2, <3>3, <3>4, <3>5
  <2> QED BY <2>8 DEF Adopted
<1>26. MoreInners(g, p, i, m)
  BY <1>21, <1>22, <1>23, <1>24, <1>25 DEF MoreTree, MoreInners
<1> QED BY <1>11, <1>26

-----------------------------------------------------------------------------
(* A root that splits *)

\* A and B share the children of the root and have the parent t.
Halves(A, B, t) ==
  /\ WellFormed(A) /\ WellFormed(B)
  /\ A.leaf = nodes[root].leaf /\ B.leaf = nodes[root].leaf
  /\ A.parent = t /\ B.parent = t
  /\ Range(A.kids) \cap Range(B.kids) = {}
  /\ Range(A.kids) \cup Range(B.kids) = Kids(nodes, root)

\* The store after the root was split over A and the new node m, under the
\* new root t: of the rest, only children of m have changed, and only their
\* parent.
InTwo(g, A, m, B, t, key) ==
  /\ DOMAIN g = DOMAIN nodes \cup {m, t}
  /\ g[root] = A /\ g[m] = B /\ g[t] = Inner(<<key>>, <<root, m>>, NullPage)
  /\ \A n \in DOMAIN nodes \ {root} :
       /\ WellFormed(g[n]) /\ g[n].leaf = nodes[n].leaf
       /\ g[n].keys = nodes[n].keys /\ g[n].kids = nodes[n].kids /\ g[n].next = nodes[n].next
       /\ g[n].parent = IF n \in Range(B.kids) THEN m ELSE nodes[n].parent

\* g is a tree with the root t and the node m more, and the leaves as they
\* were but for the former root.
TallerTree(g, m, t) ==
  /\ Tree(g, t) /\ (Adopted(nodes) => Adopted(g))
  /\ DOMAIN g = DOMAIN nodes \cup {m, t}
  /\ \A n \in DOMAIN nodes : g[n].leaf = nodes[n].leaf
  /\ g[m].leaf = nodes[root].leaf /\ ~g[t].leaf
  /\ \A n \in DOMAIN nodes \ {root} : nodes[n].leaf => /\ g[n].keys = nodes[n].keys
                                                       /\ g[n].next = nodes[n].next

LEMMA InTwoIsTree ==
  ASSUME Tree(nodes, root), NEW m, NEW t, m \in Unused, t \in Unused, m # t, NEW key \in Keys,
         NEW A, NEW B, Halves(A, B, t), NEW g, InTwo(g, A, m, B, t, key)
  PROVE  TallerTree(g, m, t)
<1>1. /\ root \in DOMAIN nodes /\ DOMAIN nodes \subseteq NodeId
      /\ \A n \in DOMAIN nodes : Kids(nodes, n) \subseteq DOMAIN nodes \ {root}
      /\ \A n \in DOMAIN nodes : nodes[n].parent = NullPage <=> n = root
      /\ \A k, n \in DOMAIN nodes : k # n => Kids(nodes, k) \cap Kids(nodes, n) = {}
  BY TreeFacts DEF Tree, Linked, Rooted
<1>2. /\ m \in NodeId /\ m \notin DOMAIN nodes /\ m # NullPage
      /\ t \in NodeId /\ t \notin DOMAIN nodes /\ t # NullPage
      /\ root \in NodeId /\ root # m /\ root # t
  BY <1>1 DEF Unused, NodeId, NullPage
<1> DEFINE T == g[t]
<1>3. WellFormed(T) /\ ~T.leaf /\ T.kids = <<root, m>> /\ T.parent = NullPage
      /\ Range(<<root, m>>) = {root, m}
  <2> DEFINE ks == <<key>>
             cs == <<root, m>>
  <2>1. ks \in Seq(Keys) /\ Len(ks) = 1
    OBVIOUS
  <2>2. cs \in Seq(NodeId) /\ Len(cs) = 2 /\ cs[1] = root /\ cs[2] = m
    BY <1>2
  <2>3. T = Inner(ks, cs, NullPage)
    BY DEF InTwo
  <2> HIDE DEF ks, cs
  <2>4. /\ Range(cs) = {cs[j] : j \in 1 .. Len(cs)}
        /\ IsInjective(cs) <=> \A j, k \in 1 .. Len(cs) : cs[j] = cs[k] => j = k
    BY <2>2, Positions
  <2>5. IsInjective(cs)
    BY <2>2, <2>4, <1>2
  <2>6. Range(cs) = {root, m}
    <3>1. \A j \in 1 .. 2 : j = 1 \/ j = 2
      OBVIOUS
    <3> QED BY <2>2, <2>4, <3>1
  <2>7. InnerData(ks, cs, NullPage)
    BY <2>1, <2>2, <2>5 DEF InnerData
  <2>8. WellFormed(T) /\ ~T.leaf /\ T.kids = cs /\ T.parent = NullPage
    BY <2>3, <2>7, NewInner
  <2> QED BY <2>6, <2>8 DEF cs
<1>4. /\ DOMAIN g = DOMAIN nodes \cup {m, t} /\ g[root] = A /\ g[m] = B
      /\ \A n \in DOMAIN nodes \ {root} :
           /\ WellFormed(g[n]) /\ g[n].leaf = nodes[n].leaf
           /\ g[n].keys = nodes[n].keys /\ g[n].kids = nodes[n].kids
           /\ g[n].next = nodes[n].next
           /\ g[n].parent = IF n \in Range(B.kids) THEN m ELSE nodes[n].parent
  BY DEF InTwo
<1> HIDE DEF T
<1>5. /\ \A n \in DOMAIN nodes : g[n].leaf = nodes[n].leaf /\ g[n].parent # NullPage
      /\ \A n \in DOMAIN g : WellFormed(g[n])
  <2>1. \A n \in DOMAIN nodes : g[n].leaf = nodes[n].leaf /\ g[n].parent # NullPage
    BY <1>1, <1>2, <1>4 DEF Halves
  <2>2. \A n \in DOMAIN g : WellFormed(g[n])
    BY <1>3, <1>4 DEF Halves, T
  <2> QED BY <2>1, <2>2
<1>6. /\ \A n \in DOMAIN nodes \ {root} : Kids(g, n) = Kids(nodes, n)
      /\ Kids(g, t) = {root, m} /\ Kids(g, root) = Range(A.kids) /\ Kids(g, m) = Range(B.kids)
  BY <1>3, <1>4 DEF Kids, T
<1>7. /\ Kids(g, root) \cup Kids(g, m) = Kids(nodes, root)
      /\ Kids(g, root) \cap Kids(g, m) = {}
  <2>1. /\ Range(A.kids) \cap Range(B.kids) = {}
        /\ Range(A.kids) \cup Range(B.kids) = Kids(nodes, root)
    BY DEF Halves
  <2> QED BY <2>1, <1>6
<1>8. g[m].leaf = nodes[root].leaf /\ ~g[t].leaf /\ g[m].parent # NullPage /\ g[t].parent = NullPage
  BY <1>2, <1>3, <1>4 DEF Halves, T
<1>9. Tree(g, t)
  <2>1. DOMAIN g = DOMAIN nodes \cup {m, t}
    BY <1>4
  <2>2. /\ Kids(g, t) = {root, m}
        /\ \A n \in DOMAIN nodes \ {root} : Kids(g, n) = Kids(nodes, n)
    BY <1>6
  <2> QED BY <2>1, <2>2, <1>2, <1>5, <1>7, <1>8, NewTop
<1>10. ASSUME Adopted(nodes), NEW n \in DOMAIN g, NEW d \in Kids(g, n)
       PROVE  g[d].parent = n
  <2>1. CASE n = t
    BY <2>1, <1>4, <1>6, <1>10 DEF Halves
  <2>2. CASE n = m
    <3>1. d \in Range(B.kids) /\ d \in DOMAIN nodes \ {root}
      BY <2>2, <1>1, <1>6, <1>7, <1>10
    <3> QED BY <2>2, <3>1, <1>4
  <2>3. CASE n \in DOMAIN nodes
    <3>1. d \in Kids(nodes, n) /\ d \notin Range(B.kids)
      <4>1. CASE n = root
        BY <4>1, <1>6, <1>7, <1>10
      <4>2. CASE n # root
        <5>1. d \in Kids(nodes, n)
          BY <2>3, <4>2, <1>6, <1>10
        <5>2. Kids(nodes, n) \cap Kids(nodes, root) = {}
          BY <2>3, <4>2, <1>1
        <5>3. Range(B.kids) \subseteq Kids(nodes, root)
          BY <1>6, <1>7
        <5> QED BY <5>1, <5>2, <5>3
      <4> QED BY <4>1, <4>2
    <3>2. d \in DOMAIN nodes \ {root}
      BY <2>3, <3>1, <1>1
    <3> QED BY <2>3, <3>1, <3>2, <1>4, <1>10 DEF Adopted
  <2> QED BY <2>1, <2>2, <2>3, <1>4
<1>11. Adopted(nodes) => Adopted(g)
  BY <1>10 DEF Adopted
<1> QED BY <1>4, <1>5, <1>8, <1>9, <1>11 DEF TallerTree

\* The root has c keys, four or more, of which half go to the left.
RootHalf(c, half) == c = Len(nodes[root].keys) /\ c >= 4 /\ half = c \div 2

LEMMA HalfFacts ==
  ASSUME NEW c, c \in Nat, NEW half, RootHalf(c, half)
  PROVE  /\ half \in Nat /\ half >= 2 /\ half + 2 <= c
         /\ half - 1 + 1 = half /\ c - (half + 1) + 1 = c - half
         /\ c - half >= 2 /\ c - half <= half + 1 /\ half <= c - half
<1>1. c >= 4 /\ half = c \div 2
  BY DEF RootHalf
<1>2. half \in Nat /\ half >= 2 /\ half + half <= c /\ c <= half + half + 1
  BY <1>1
<1> QED BY <1>2

\* The halves of a leaf that is the root: its keys from 1 to b and from a on.
LeafHalves(g, ks, vs, x, b, a, c, A, m, B, t, key) ==
  /\ ks = nodes[root].keys /\ vs = nodes[root].vals /\ x = nodes[root].next
  /\ Within(ks, 1, b) /\ Within(ks, a, c) /\ key \in Keys
  /\ A = Leaf(SubSeq(ks, 1, b), SubSeq(vs, 1, b), t, m)
  /\ B = Leaf(SubSeq(ks, a, c), SubSeq(vs, a, c), t, x)
  /\ g = Put(Put([nodes EXCEPT ![root] = A], m, B), t, Inner(<<key>>, <<root, m>>, NullPage))

LEMMA LeafHalvesKeep ==
  ASSUME Tree(nodes, root), nodes[root].leaf, NEW m, NEW t, m \in Unused, t \in Unused, m # t,
         NEW ks, NEW vs, NEW x, NEW a, NEW b, NEW c, NEW A, NEW B, NEW key, NEW g,
         LeafHalves(g, ks, vs, x, b, a, c, A, m, B, t, key)
  PROVE  /\ TallerTree(g, m, t)
         /\ Len(g[root].keys) = b - 1 + 1 /\ Len(g[m].keys) = c - a + 1
         /\ g[root].next = m /\ g[m].next = x
<1>1. root \in DOMAIN nodes /\ LeafNode(nodes[root])
  BY TreeFacts DEF LeafNode
<1>2. /\ ks \in Seq(Keys) /\ vs \in Seq(RowIds) /\ Len(vs) = Len(ks)
      /\ x \in NodeId \cup {NullPage} /\ nodes[root].kids = << >>
  BY <1>1, NodeFields DEF WellFormed, LeafNode, LeafHalves
<1>3. m \in NodeId /\ t \in NodeId /\ m \notin DOMAIN nodes /\ t \notin DOMAIN nodes
  BY DEF Unused
<1>4. /\ Within(ks, 1, b) /\ Within(ks, a, c) /\ key \in Keys
      /\ A = Leaf(SubSeq(ks, 1, b), SubSeq(vs, 1, b), t, m)
      /\ B = Leaf(SubSeq(ks, a, c), SubSeq(vs, a, c), t, x)
      /\ g = Put(Put([nodes EXCEPT ![root] = A], m, B), t, Inner(<<key>>, <<root, m>>, NullPage))
  BY DEF LeafHalves
<1>5. LeafData(ks, vs, t, m) /\ LeafData(ks, vs, t, x)
  BY <1>2, <1>3 DEF LeafData
<1>6. /\ WellFormed(A) /\ A.leaf /\ Len(A.keys) = b - 1 + 1
      /\ A.kids = << >> /\ A.parent = t /\ A.next = m
  BY <1>4, <1>5, LeafPart
<1>7. /\ WellFormed(B) /\ B.leaf /\ Len(B.keys) = c - a + 1
      /\ B.kids = << >> /\ B.parent = t /\ B.next = x
  BY <1>4, <1>5, LeafPart
<1>8. Halves(A, B, t)
  <2> DEFINE e == << >>
  <2>1. Range(e) = {}
    BY DEF Range
  <2>2. A.kids = e /\ B.kids = e /\ nodes[root].kids = e
    BY <1>2, <1>6, <1>7
  <2> HIDE DEF e
  <2>3. Kids(nodes, root) = {} /\ Range(A.kids) = {} /\ Range(B.kids) = {}
    BY <2>1, <2>2 DEF Kids
  <2>4. A.leaf \in BOOLEAN /\ B.leaf \in BOOLEAN /\ nodes[root].leaf \in BOOLEAN
    BY <1>1, <1>6, <1>7, NodeFields DEF WellFormed, LeafNode
  <2>5. A.leaf = nodes[root].leaf /\ B.leaf = nodes[root].leaf
    BY <2>4, <1>6, <1>7
  <2> QED BY <2>3, <2>5, <1>6, <1>7 DEF Halves
<1>9. InTwo(g, A, m, B, t, key)
  <2>1. /\ DOMAIN g = DOMAIN nodes \cup {m, t}
        /\ g[root] = A /\ g[m] = B /\ g[t] = Inner(<<key>>, <<root, m>>, NullPage)
        /\ \A n \in DOMAIN nodes \ {root} : g[n] = nodes[n]
    BY <1>1, <1>3, <1>4 DEF Put
  <2>2. \A n : n \notin Range(B.kids)
    <3> DEFINE e == << >>
    <3>1. \A n : n \notin Range(e)
      BY DEF Range
    <3>2. B.kids = e
      BY <1>7
    <3> HIDE DEF e
    <3> QED BY <3>1, <3>2
  <2>3. \A n \in DOMAIN nodes : WellFormed(nodes[n])
    BY TreeFacts
  <2> QED BY <2>1, <2>2, <2>3 DEF InTwo
<1>10. TallerTree(g, m, t)
  BY <1>4, <1>8, <1>9, InTwoIsTree
<1>11. g[root] = A /\ g[m] = B
  BY <1>9 DEF InTwo
<1> QED BY <1>6, <1>7, <1>10, <1>11

\* The halves of an internal node that is the root: the children from 1 to e
\* and those after them.
InnerHalves(g, cs, e, x, y, A, m, B, t, key) ==
  /\ cs = nodes[root].kids
  /\ CutInTwo(cs, e, x, y) /\ key \in Keys
  /\ AnInner(A, x, t) /\ AnInner(B, y, t)
  /\ g = Put(Put([Reparent(nodes, Range(y), m) EXCEPT ![root] = A], m, B), t,
             Inner(<<key>>, <<root, m>>, NullPage))

LEMMA InnerHalvesKeep ==
  ASSUME Tree(nodes, root), ~nodes[root].leaf, NEW m, NEW t, m \in Unused, t \in Unused, m # t,
         NEW cs, NEW x, NEW y, NEW e, NEW A, NEW B, NEW key, NEW g,
         InnerHalves(g, cs, e, x, y, A, m, B, t, key)
  PROVE  TallerTree(g, m, t)
<1>1. /\ root \in DOMAIN nodes /\ WellFormed(nodes[root])
      /\ \A n \in DOMAIN nodes : WellFormed(nodes[n])
  BY TreeFacts
<1>2. cs \in Seq(NodeId) /\ IsInjective(cs) /\ Range(cs) = Kids(nodes, root)
  BY <1>1, NodeFields DEF WellFormed, InnerHalves, Kids
<1>3. m \in NodeId /\ t \in NodeId /\ m \notin DOMAIN nodes /\ t \notin DOMAIN nodes
  BY DEF Unused
<1> DEFINE f == Reparent(nodes, Range(y), m)
<1>4. /\ CutInTwo(cs, e, x, y) /\ key \in Keys
      /\ AnInner(A, x, t) /\ AnInner(B, y, t) /\ f = Reparent(nodes, Range(y), m)
      /\ g = Put(Put([f EXCEPT ![root] = A], m, B), t, Inner(<<key>>, <<root, m>>, NullPage))
  BY DEF InnerHalves
<1> HIDE DEF f
<1>5. SharedByTwo(cs, x, y)
  BY <1>2, <1>4, TwoParts
<1>6. Halves(A, B, t)
  <2>1. A.leaf \in BOOLEAN /\ B.leaf \in BOOLEAN /\ nodes[root].leaf \in BOOLEAN
    BY <1>1, <1>4, NodeFields DEF WellFormed, AnInner
  <2>2. A.leaf = nodes[root].leaf /\ B.leaf = nodes[root].leaf
    BY <2>1, <1>4 DEF AnInner
  <2> QED BY <2>2, <1>2, <1>4, <1>5 DEF Halves, AnInner, SharedByTwo
<1>7. InTwo(g, A, m, B, t, key)
  <2>1. /\ DOMAIN f = DOMAIN nodes
        /\ \A n \in DOMAIN nodes : /\ WellFormed(f[n]) /\ f[n].leaf = nodes[n].leaf
                                   /\ f[n].keys = nodes[n].keys /\ f[n].kids = nodes[n].kids
                                   /\ f[n].next = nodes[n].next
        /\ \A n \in DOMAIN nodes : f[n].parent = IF n \in Range(y) THEN m ELSE nodes[n].parent
    BY <1>1, <1>3, <1>4, ReparentFacts
  <2>2. /\ DOMAIN g = DOMAIN nodes \cup {m, t}
        /\ g[root] = A /\ g[m] = B /\ g[t] = Inner(<<key>>, <<root, m>>, NullPage)
        /\ \A n \in DOMAIN nodes \ {root} : g[n] = f[n]
    BY <2>1, <1>1, <1>3, <1>4 DEF Put
  <2>3. B.kids = y
    BY <1>4 DEF AnInner
  <2> QED BY <2>1, <2>2, <2>3 DEF InTwo
<1> QED BY <1>4, <1>6, <1>7, InTwoIsTree

-----------------------------------------------------------------------------
(* The relatives of a node *)

\* The node n is child number Index(n) of its parent p.
ChildOf(n, p) ==
  /\ p = nodes[n].parent /\ p \in DOMAIN nodes /\ n \in Kids(nodes, p)
  /\ Index(n) \in 1 .. Len(nodes[p].kids) /\ nodes[p].kids[Index(n)] = n

LEMMA KnownIndex ==
  ASSUME Tree(nodes, root), NEW n, Known(n)
  PROVE  ChildOf(n, nodes[n].parent)
<1> DEFINE p == nodes[n].parent
           S == {i \in DOMAIN nodes[p].kids : nodes[p].kids[i] = n}
           cs == nodes[p].kids
<1>1. p \in DOMAIN nodes /\ n \in Range(cs)
  BY DEF Known, Parent
<1>2. cs \in Seq(NodeId)
  BY <1>1, TreeFacts, NodeFields DEF WellFormed
<1>3. PICK i \in DOMAIN cs : cs[i] = n
  BY <1>1 DEF Range
<1>4. DOMAIN cs = 1 .. Len(cs)
  BY <1>2, LenProperties
<1>5. Index(n) \in DOMAIN cs /\ cs[Index(n)] = n
  BY <1>3 DEF Index, findChildIndex
<1> QED BY <1>1, <1>4, <1>5 DEF ChildOf, Kids

LEMMA LeftOf ==
  ASSUME NEW n, NEW p, ChildOf(n, p), HasLeft(n)
  PROVE  Adjacent(p, Index(n) - 1, Left(n), n)
<1> DEFINE i == Index(n)
           len == Len(nodes[p].kids)
<1>1. p \in DOMAIN nodes /\ i \in 1 .. len /\ nodes[p].kids[i] = n
  BY DEF ChildOf
<1>2. i > 1 /\ Left(n) = nodes[p].kids[i - 1]
  BY DEF HasLeft, Left, Parent, ChildOf
<1> HIDE DEF i
<1>3. i \in Int /\ i - 1 \in Int /\ 1 <= i - 1 /\ i - 1 < len /\ i - 1 + 1 = i
  BY <1>1, <1>2
<1>4. Adjacent(p, i - 1, Left(n), n)
  BY <1>1, <1>2, <1>3 DEF Adjacent
<1> QED BY <1>4 DEF i

LEMMA RightOf ==
  ASSUME NEW n, NEW p, ChildOf(n, p), HasRight(n)
  PROVE  Adjacent(p, Index(n), n, Right(n))
<1> DEFINE i == Index(n)
           len == Len(nodes[p].kids)
<1>1. p \in DOMAIN nodes /\ i \in 1 .. len /\ nodes[p].kids[i] = n
  BY DEF ChildOf
<1>2. i < len /\ Right(n) = nodes[p].kids[i + 1]
  BY DEF HasRight, Right, Parent, ChildOf
<1> HIDE DEF i
<1>3. i \in Int /\ 1 <= i
  BY <1>1, <1>2
<1>4. Adjacent(p, i, n, Right(n))
  BY <1>1, <1>2, <1>3 DEF Adjacent
<1> QED BY <1>4 DEF i

-----------------------------------------------------------------------------
(* Finding a leaf, and a place in it *)

LEMMA HeightBound ==
  ASSUME NEW D, D \subseteq NodeId, NEW h \in [D -> Nat]
  PROVE  \E b \in Nat : \A n \in D : h[n] <= b
<1> DEFINE Can(k) == \E b \in Nat : \A n \in D : n < k => h[n] <= b
           Bad == {k \in Nat : ~Can(k)}
<1>0. MaxNodes \in Nat /\ \A n \in D : n \in Int /\ 0 <= n /\ n < MaxNodes
  BY BTreeAssumption DEF NodeId
<1>1. Can(0)
  <2>1. \A n \in D : ~(n < 0)
    BY <1>0
  <2> QED BY <2>1
<1>2. ASSUME NEW k \in Nat, Can(k)
      PROVE  Can(k + 1)
  <2>1. PICK b \in Nat : \A n \in D : n < k => h[n] <= b
    BY <1>2
  <2>2. \A n \in D : n < k + 1 => n < k \/ n = k
    BY <1>0
  <2>3. CASE k \in D
    <3> DEFINE c == IF h[k] <= b THEN b ELSE h[k]
    <3>1. h[k] \in Nat /\ c \in Nat /\ b <= c /\ h[k] <= c
      BY <2>3
    <3> HIDE DEF c
    <3>2. \A n \in D : n < k + 1 => h[n] <= c
      <4> TAKE n \in D
      <4>1. h[n] \in Nat
        OBVIOUS
      <4>2. CASE n < k
        BY <4>1, <4>2, <3>1, <2>1
      <4>3. CASE n = k
        BY <4>3, <3>1
      <4> QED BY <4>2, <4>3, <2>2
    <3> QED BY <3>1, <3>2
  <2>4. CASE k \notin D
    BY <2>1, <2>2, <2>4
  <2> QED BY <2>3, <2>4
<1> HIDE DEF Can
<1>3. Bad = {}
  <2> SUFFICES ASSUME Bad # {} PROVE FALSE
    OBVIOUS
  <2>1. PICK k \in Bad : \A j \in Bad : k <= j
    BY LeastOf
  <2>2. k \in Nat /\ k # 0 /\ ~Can(k)
    BY <2>1, <1>1
  <2>3. k - 1 \in Nat /\ k - 1 < k /\ k - 1 + 1 = k
    BY <2>2
  <2>4. Can(k - 1)
    BY <2>1, <2>3
  <2>5. Can(k - 1 + 1)
    BY <2>3, <2>4, <1>2
  <2> QED BY <2>2, <2>3, <2>5
<1>4. PICK b \in Nat : \A n \in D : n < MaxNodes => h[n] <= b
  BY <1>0, <1>3 DEF Can
<1> QED BY <1>0, <1>4

\* A lookup goes from an internal node to one of its children.
LEMMA ChildIsKid ==
  ASSUME Tree(nodes, root), NEW n \in DOMAIN nodes, ~nodes[n].leaf, NEW k
  PROVE  Child(n, k) \in Kids(nodes, n)
<1> DEFINE ks == nodes[n].keys
           cs == nodes[n].kids
           above == {i \in DOMAIN ks : k < ks[i]}
<1>1. ks \in Seq(Keys) /\ cs \in Seq(NodeId) /\ Len(cs) = Len(ks) + 1
  BY TreeFacts, NodeFields DEF WellFormed
<1>2. DOMAIN ks = 1 .. Len(ks) /\ DOMAIN cs = 1 .. Len(cs) /\ Len(ks) \in Nat
  BY <1>1, LenProperties
<1>3. \A i \in 1 .. Len(cs) : cs[i] \in Kids(nodes, n)
  BY <1>2 DEF Kids, Range
<1>4. CASE above = {}
  <2>1. Child(n, k) = Last(cs)
    BY <1>4 DEF Child
  <2>2. Last(cs) = cs[Len(cs)]
    BY DEF Last
  <2>3. Len(cs) \in 1 .. Len(cs)
    BY <1>1, <1>2
  <2> QED BY <2>1, <2>2, <2>3, <1>3
<1>5. CASE above # {}
  <2>1. above \in SUBSET Nat
    BY <1>2
  <2>2. PICK a \in above : \A j \in above : a <= j
    BY <2>1, <1>5, LeastOf
  <2> DEFINE c == CHOOSE i \in above : \A j \in above : i <= j
  <2>3. c \in above
    BY <2>2
  <2>4. Child(n, k) = cs[c]
    BY <1>5 DEF Child
  <2> HIDE DEF c
  <2>5. c \in 1 .. Len(cs)
    BY <2>3, <1>1, <1>2
  <2> QED BY <2>4, <2>5, <1>3
<1> QED BY <1>4, <1>5

\* What a lookup goes down to.
Steps(k) == [n \in DOMAIN nodes |-> IF nodes[n].leaf THEN n ELSE Child(n, k)]

LEMMA LookupDescends ==
  ASSUME Tree(nodes, root), NEW k
  PROVE  /\ \E h, b : Downward(DOMAIN nodes, Leaves, Steps(k), h, b)
         /\ \E f : Descends(f, DOMAIN nodes, Leaves, Steps(k), [n \in DOMAIN nodes |-> n])
                   /\ findLeaf(k) = f[root]
<1> DEFINE D == DOMAIN nodes
           v == [n \in D |-> n]
<1>1. /\ root \in D /\ D \subseteq NodeId
      /\ \A n \in D : Kids(nodes, n) \subseteq D
  BY TreeFacts
<1>2. \A n \in D : ~nodes[n].leaf => Child(n, k) \in Kids(nodes, n)
  BY ChildIsKid
<1>3. \E h, b : Downward(D, Leaves, Steps(k), h, b)
  <2>1. PICK h : Level(nodes, h)
    BY DEF Tree
  <2>2. h \in [D -> Nat] /\ \A n \in D : \A c \in Kids(nodes, n) : h[n] = h[c] + 1
    BY <2>1 DEF Level
  <2>3. PICK b \in Nat : \A n \in D : h[n] <= b
    BY <1>1, <2>2, HeightBound
  <2>4. h \in [D -> 0 .. b]
    BY <2>2, <2>3
  <2>5. Steps(k) \in [D -> D]
    BY <1>1, <1>2 DEF Steps
  <2>6. \A n \in D \ Leaves : h[Steps(k)[n]] < h[n]
    <3> TAKE n \in D \ Leaves
    <3>1. Steps(k)[n] = Child(n, k) /\ ~nodes[n].leaf
      BY DEF Steps, Leaves
    <3>2. h[n] = h[Child(n, k)] + 1 /\ h[Child(n, k)] \in Nat
      BY <3>1, <1>1, <1>2, <2>2
    <3> QED BY <3>1, <3>2
  <2> QED BY <2>3, <2>4, <2>5, <2>6 DEF Downward
<1>4. PICK f : Descends(f, D, Leaves, Steps(k), v)
  BY <1>3, DescentExists
<1> DEFINE Down(g) == g = [n \in D |-> IF nodes[n].leaf THEN n ELSE g[Child(n, k)]]
<1>5. \A g : Down(g) <=> Descends(g, D, Leaves, Steps(k), v)
  <2> TAKE g
  <2>1. \A n \in D : (IF n \in Leaves THEN v[n] ELSE g[Steps(k)[n]])
                   = (IF nodes[n].leaf THEN n ELSE g[Child(n, k)])
    BY DEF Leaves, Steps
  <2> QED BY <2>1 DEF Descends
<1>6. findLeaf(k) = (CHOOSE g : Down(g))[root]
  BY DEF findLeaf
<1>7. Down(CHOOSE g : Down(g))
  BY <1>4, <1>5
<1> QED BY <1>3, <1>5, <1>6, <1>7

\* A lookup ends in a leaf.
LEMMA FindsALeaf ==
  ASSUME Tree(nodes, root), NEW k
  PROVE  findLeaf(k) \in Leaves
<1> DEFINE v == [n \in DOMAIN nodes |-> n]
<1>1. PICK h, b : Downward(DOMAIN nodes, Leaves, Steps(k), h, b)
  BY LookupDescends
<1>2. PICK f : Descends(f, DOMAIN nodes, Leaves, Steps(k), v) /\ findLeaf(k) = f[root]
  BY LookupDescends
<1>3. \A n \in DOMAIN nodes \cap Leaves : v[n] \in Leaves
  OBVIOUS
<1> HIDE DEF v
<1>4. \A n \in DOMAIN nodes : f[n] \in Leaves
  BY <1>1, <1>2, <1>3, DescentEnds
<1> QED BY <1>2, <1>4, TreeFacts

Mid(lo, hi) == (lo + hi - 2) \div 2 + 1

LEMMA MidFacts ==
  ASSUME NEW lo \in Nat, NEW hi \in Nat, lo >= 1, lo < hi
  PROVE  Mid(lo, hi) \in Nat /\ lo <= Mid(lo, hi) /\ Mid(lo, hi) < hi
<1> DEFINE q == (lo + hi - 2) \div 2
<1>1. q \in Nat /\ lo - 1 <= q /\ q < hi - 1
  OBVIOUS
<1> HIDE DEF q
<1>2. Mid(lo, hi) = q + 1
  BY DEF Mid, q
<1> QED BY <1>1, <1>2

\* Binary search for k goes on with a half of an interval, until it is empty.
Half(keys, k, lo, hi) ==
  IF keys[Mid(lo, hi)] < k THEN <<Mid(lo, hi) + 1, hi>> ELSE <<lo, Mid(lo, hi)>>
Places(keys) == 1 .. Len(keys) + 1
Empty(keys) == {x \in Places(keys) \X Places(keys) : x[1] >= x[2]}
Halving(keys, k) ==
  [x \in Places(keys) \X Places(keys) |->
     IF x[1] >= x[2] THEN x ELSE Half(keys, k, x[1], x[2])]
Width(keys) ==
  [x \in Places(keys) \X Places(keys) |-> IF x[1] >= x[2] THEN 0 ELSE x[2] - x[1]]

LEMMA HalfInside ==
  ASSUME NEW keys, NEW len \in Nat, Places(keys) = 1 .. len + 1, NEW k,
         NEW lo \in Places(keys), NEW hi \in Places(keys), lo < hi
  PROVE  \E a, b : /\ Half(keys, k, lo, hi) = <<a, b>>
                   /\ a \in Places(keys) /\ b \in Places(keys) /\ b - a < hi - lo
<1>1. lo \in Nat /\ hi \in Nat /\ lo >= 1 /\ hi <= len + 1
  OBVIOUS
<1> DEFINE m == Mid(lo, hi)
<1>2. m \in Nat /\ lo <= m /\ m < hi
  BY <1>1, MidFacts
<1> HIDE DEF m
<1>3. m + 1 \in Places(keys) /\ m \in Places(keys) /\ hi - (m + 1) < hi - lo /\ m - lo < hi - lo
  BY <1>1, <1>2
<1>4. Half(keys, k, lo, hi) = IF keys[m] < k THEN <<m + 1, hi>> ELSE <<lo, m>>
  BY DEF Half, m
<1> QED BY <1>3, <1>4

\* Binary search is such a descent: it ends at the place it returns.
LEMMA SearchDescends ==
  ASSUME NEW S, NEW keys \in Seq(S), NEW k
  PROVE  /\ Downward(Places(keys) \X Places(keys), Empty(keys), Halving(keys, k), Width(keys),
                     Len(keys))
         /\ \E f : /\ Descends(f, Places(keys) \X Places(keys), Empty(keys), Halving(keys, k),
                               [x \in Places(keys) \X Places(keys) |-> x[1]])
                  /\ lowerBound(keys, k) = f[<<1, Len(keys) + 1>>]
<1> DEFINE P == Places(keys)
           D == P \X P
           B == Empty(keys)
           len == Len(keys)
           v == [x \in D |-> x[1]]
<1>1. len \in Nat /\ P = 1 .. len + 1
  BY LenProperties DEF Places
<1> HIDE DEF len
<1>2. Downward(D, B, Halving(keys, k), Width(keys), len)
  <2>1. Width(keys) \in [D -> 0 .. len]
    <3> SUFFICES ASSUME NEW x \in D
                 PROVE  (IF x[1] >= x[2] THEN 0 ELSE x[2] - x[1]) \in 0 .. len
      BY DEF Width
    <3>1. x[1] \in P /\ x[2] \in P
      OBVIOUS
    <3> QED BY <3>1, <1>1
  <2>2. \A x \in D \ B : x[1] \in P /\ x[2] \in P /\ x[1] < x[2]
    BY <1>1 DEF Empty
  <2>3. ASSUME NEW x \in D \ B
        PROVE  Halving(keys, k)[x] \in D /\ Width(keys)[Halving(keys, k)[x]] < Width(keys)[x]
    <3>1. PICK a, b : /\ Half(keys, k, x[1], x[2]) = <<a, b>>
                      /\ a \in P /\ b \in P /\ b - a < x[2] - x[1]
      BY <1>1, <2>2, <2>3, HalfInside
    <3>2. Halving(keys, k)[x] = <<a, b>> /\ <<a, b>> \in D
      <4>1. ~(x[1] >= x[2])
        BY <1>1, <2>2, <2>3
      <4> QED BY <4>1, <3>1, <2>3 DEF Halving
    <3>3. Width(keys)[<<a, b>>] = IF a >= b THEN 0 ELSE b - a
      BY <3>2 DEF Width
    <3>4. Width(keys)[x] = x[2] - x[1]
      <4>1. ~(x[1] >= x[2])
        BY <1>1, <2>2, <2>3
      <4> QED BY <4>1, <2>3 DEF Width
    <3>5. x[1] \in Nat /\ x[2] \in Nat /\ x[1] < x[2] /\ a \in Nat /\ b \in Nat
      BY <1>1, <2>2, <2>3, <3>1
    <3>6. (IF a >= b THEN 0 ELSE b - a) < x[2] - x[1]
      BY <3>1, <3>5
    <3> QED BY <3>2, <3>3, <3>4, <3>6
  <2>4. \A x \in B : x \in D /\ Halving(keys, k)[x] \in D
    BY DEF Empty, Halving
  <2>5. Halving(keys, k) \in [D -> D]
    <3>1. \A x \in D : Halving(keys, k)[x] \in D
      BY <2>3, <2>4
    <3> QED BY <3>1 DEF Halving
  <2> QED BY <1>1, <2>1, <2>3, <2>5 DEF Downward
<1> DEFINE Search(g) == g = [x \in D |->
                               LET lo == x[1]
                                   hi == x[2]
                                   mid == (lo + hi - 2) \div 2 + 1
                               IN  IF lo >= hi THEN lo
                                   ELSE IF keys[mid] < k THEN g[<<mid + 1, hi>>]
                                   ELSE g[<<lo, mid>>]]
<1>4. \A g : Search(g) <=> Descends(g, D, B, Halving(keys, k), v)
  <2> TAKE g
  <2>1. \A x \in D : (IF x \in B THEN v[x] ELSE g[Halving(keys, k)[x]])
                   = (LET lo == x[1]
                          hi == x[2]
                          mid == (lo + hi - 2) \div 2 + 1
                      IN  IF lo >= hi THEN lo
                          ELSE IF keys[mid] < k THEN g[<<mid + 1, hi>>]
                          ELSE g[<<lo, mid>>])
    <3> TAKE x \in D
    <3>1. x \in B <=> x[1] >= x[2]
      BY DEF Empty
    <3>2. Halving(keys, k)[x] = IF x[1] >= x[2] THEN x ELSE Half(keys, k, x[1], x[2])
      BY DEF Halving
    <3> QED BY <3>1, <3>2 DEF Half, Mid
  <2> QED BY <2>1 DEF Descends
<1>5. lowerBound(keys, k) = (CHOOSE g : Search(g))[<<1, Len(keys) + 1>>]
  BY DEF lowerBound, Places
<1>6. PICK f : Descends(f, D, B, Halving(keys, k), v)
  BY <1>2, DescentExists
<1>7. Search(CHOOSE g : Search(g))
  BY <1>4, <1>6
<1>8. PICK s : s = (CHOOSE g : Search(g))
  OBVIOUS
<1>9. Descends(s, D, B, Halving(keys, k), v)
  BY <1>4, <1>7, <1>8
<1> HIDE DEF Search
<1> QED BY <1>2, <1>5, <1>8, <1>9 DEF len

\* The place found for a key is one of the sequence, or the one after it.
LEMMA PlaceFound ==
  ASSUME NEW S, NEW keys \in Seq(S), NEW k
  PROVE  lowerBound(keys, k) \in 1 .. Len(keys) + 1
<1> DEFINE P == Places(keys)
           D == P \X P
           B == Empty(keys)
           v == [x \in D |-> x[1]]
<1>1. Downward(D, B, Halving(keys, k), Width(keys), Len(keys))
  BY SearchDescends
<1>2. PICK f : Descends(f, D, B, Halving(keys, k), v) /\ lowerBound(keys, k) = f[<<1, Len(keys) + 1>>]
  BY SearchDescends
<1>3. \A x \in D \cap B : v[x] \in P
  OBVIOUS
<1>4. <<1, Len(keys) + 1>> \in D
  BY LenProperties DEF Places
<1> HIDE DEF v
<1>5. \A x \in D : f[x] \in P
  BY <1>1, <1>2, <1>3, DescentEnds
<1> QED BY <1>2, <1>4, <1>5 DEF Places

-----------------------------------------------------------------------------
(* Limits, calls and the leaves they leave behind *)

LEMMA Limits ==
  /\ MaxKeys \in Nat /\ MinKeys \in Nat /\ LeafLimit \in Nat
  /\ MaxKeys >= 3 /\ MinKeys >= 2 /\ MinKeys <= MaxKeys
  /\ MaxKeys <= LeafLimit /\ 2 * MinKeys - 1 <= LeafLimit
<1>1. MaxKeys \in Nat /\ MaxKeys >= 3
  BY BTreeAssumption
<1>2. MinKeys \in Nat /\ MinKeys >= 2 /\ MinKeys <= MaxKeys
  BY <1>1 DEF MinKeys
<1> QED BY <1>1, <1>2 DEF LeafLimit

LEMMA Calls ==
  ASSUME NEW m, NEW n
  PROVE  /\ Overflow(m) = Overflow(n) => m = n
         /\ Underflow(m) = Underflow(n) => m = n
         /\ Overflow(m) # Underflow(n) /\ Overflow(m) # NoCall /\ Underflow(m) # NoCall
<1>1. Overflow(m) = Overflow(n) => m = n
  <2>1. Overflow(m).node = m /\ Overflow(n).node = n
    BY DEF Overflow
  <2> QED BY <2>1
<1>2. Underflow(m) = Underflow(n) => m = n
  <2>1. Underflow(m).node = m /\ Underflow(n).node = n
    BY DEF Underflow
  <2> QED BY <2>1
<1>3. Overflow(m).fn = "overflow" /\ Underflow(n).fn = "underflow" /\ Underflow(m).fn = "underflow"
      /\ NoCall.fn = "none"
  BY DEF Overflow, Underflow, NoCall
<1> QED BY <1>1, <1>2, <1>3

Small(N) == Len(N.keys) <= LeafLimit
Two(N) == Len(N.keys) >= 2
Count(N) == Len(N.keys)

\* The leaves of the store f with the root r are neither too large nor too
\* small.
Fitting(f, r) ==
  \A m \in DOMAIN f : f[m].leaf => Small(f[m]) /\ (m # r => Two(f[m]))

\* The pending call is about no leaf.
Quiet ==
  \/ call = NoCall
  \/ \E p \in DOMAIN nodes : ~nodes[p].leaf /\ (call = Overflow(p) \/ call = Underflow(p))

LEMMA FitAfter ==
  ASSUME "stuck" \notin harm' => Fitting(nodes', root'), Quiet',
         \A n \in DOMAIN nodes' : WellFormed(nodes'[n])
  PROVE  LeavesFit'
<1> SUFFICES ASSUME "stuck" \notin harm', NEW n \in Leaves'
             PROVE  /\ Len(nodes'[n].keys) <= IF call' = Overflow(n) THEN LeafLimit + 1 ELSE LeafLimit
                    /\ n # root' => Len(nodes'[n].keys) >= IF call' = Underflow(n) \/ ub' THEN 1 ELSE 2
                    /\ call' = Underflow(n) => Len(nodes'[n].keys) < MinKeys
  BY DEF LeavesFit
<1>1. n \in DOMAIN nodes' /\ nodes'[n].leaf
  BY DEF Leaves
<1>2. call' # Overflow(n) /\ call' # Underflow(n)
  BY <1>1, Calls DEF Quiet
<1>3. Len(nodes'[n].keys) \in Nat
  BY <1>1, NodeFields, LenProperties DEF WellFormed
<1>4. Len(nodes'[n].keys) <= LeafLimit /\ (n # root' => Len(nodes'[n].keys) >= 2)
  BY <1>1 DEF Fitting, Small, Two
<1> QED BY <1>2, <1>3, <1>4

\* While n overflows it is the only leaf that may be too large.
LEMMA Overflowing ==
  ASSUME Shape, NEW n, Overflows(n)
  PROVE  /\ n \in DOMAIN nodes /\ Count(nodes[n]) \in Nat /\ Count(nodes[n]) > MaxKeys
         /\ ~ub
         /\ "stuck" \notin harm =>
              /\ \A m \in Leaves : m # root => Two(nodes[m])
              /\ \A m \in Leaves \ {n} : Small(nodes[m])
              /\ nodes[n].leaf => Count(nodes[n]) <= LeafLimit + 1
<1>1. n \in DOMAIN nodes /\ Len(nodes[n].keys) > MaxKeys
  BY Calls DEF Shape, CallFits, Overflows
<1>2. Len(nodes[n].keys) \in Nat
  BY <1>1, TreeFacts, NodeFields, LenProperties DEF Shape, WellFormed
<1>3. ASSUME "stuck" \notin harm, NEW m \in Leaves
      PROVE  /\ m # root => Two(nodes[m])
             /\ m # n => Small(nodes[m])
             /\ m = n => Count(nodes[m]) <= LeafLimit + 1
  <2>1. call # Underflow(m) /\ (call = Overflow(m) <=> m = n) /\ ~ub
    BY Calls DEF Overflows
  <2>2. /\ Len(nodes[m].keys) <= IF call = Overflow(m) THEN LeafLimit + 1 ELSE LeafLimit
        /\ m # root => Len(nodes[m].keys) >= IF call = Underflow(m) \/ ub THEN 1 ELSE 2
    BY <1>3 DEF Shape, LeavesFit
  <2> QED BY <2>1, <2>2 DEF Two, Small, Count
<1>4. ~ub
  BY DEF Overflows
<1> QED BY <1>1, <1>2, <1>3, <1>4 DEF Count, Leaves

\* While n underflows it is the only leaf that may be too small.
LEMMA Underflowing ==
  ASSUME Shape, NEW n, Underflows(n)
  PROVE  /\ n \in DOMAIN nodes /\ n # root /\ Count(nodes[n]) \in Nat
         /\ ~ub
         /\ "stuck" \notin harm =>
              /\ \A m \in Leaves : Small(nodes[m])
              /\ \A m \in Leaves \ {n} : m # root => Two(nodes[m])
              /\ nodes[n].leaf => Count(nodes[n]) >= 1 /\ Count(nodes[n]) < MinKeys
<1>1. n \in DOMAIN nodes /\ n # root
  BY Calls DEF Shape, CallFits, Underflows
<1>2. Len(nodes[n].keys) \in Nat
  BY <1>1, TreeFacts, NodeFields, LenProperties DEF Shape, WellFormed
<1>3. ASSUME "stuck" \notin harm, NEW m \in Leaves
      PROVE  /\ m # root /\ m # n => Two(nodes[m])
             /\ Small(nodes[m])
             /\ m = n => Count(nodes[m]) >= 1 /\ Count(nodes[m]) < MinKeys
  <2>1. call # Overflow(m) /\ (call = Underflow(m) <=> m = n) /\ ~ub
    BY Calls DEF Underflows
  <2>2. /\ Len(nodes[m].keys) <= IF call = Overflow(m) THEN LeafLimit + 1 ELSE LeafLimit
        /\ m # root => Len(nodes[m].keys) >= IF call = Underflow(m) \/ ub THEN 1 ELSE 2
        /\ call = Underflow(m) => Len(nodes[m].keys) < MinKeys
    BY <1>3 DEF Shape, LeavesFit
  <2> QED BY <1>1, <2>1, <2>2 DEF Two, Small, Count
<1>4. ~ub
  BY DEF Underflows
<1> QED BY <1>1, <1>2, <1>3, <1>4 DEF Count, Leaves

\* Between calls all leaves fit.
LEMMA Idle ==
  ASSUME Shape, call = NoCall, ~ub, "stuck" \notin harm
  PROVE  Fitting(nodes, root)
<1> SUFFICES ASSUME NEW m \in DOMAIN nodes, nodes[m].leaf
             PROVE  Small(nodes[m]) /\ (m # root => Two(nodes[m]))
  BY DEF Fitting
<1>1. call # Overflow(m) /\ call # Underflow(m)
  BY Calls
<1>2. /\ Len(nodes[m].keys) <= IF call = Overflow(m) THEN LeafLimit + 1 ELSE LeafLimit
      /\ m # root => Len(nodes[m].keys) >= IF call = Underflow(m) \/ ub THEN 1 ELSE 2
  BY DEF Shape, LeavesFit, Leaves
<1> QED BY <1>1, <1>2 DEF Small, Two

-----------------------------------------------------------------------------
(* The actions that pass a key on to a neighbour *)

\* In g the node x has passed a key on to y, and nothing else has changed for
\* the worse.
PassedOn(g, x, y) ==
  /\ Tree(g, root) /\ (Adopted(nodes) => Adopted(g)) /\ DOMAIN g = DOMAIN nodes
  /\ x \in DOMAIN nodes /\ y \in DOMAIN nodes /\ nodes[x].leaf = nodes[y].leaf
  /\ \A n \in DOMAIN nodes : g[n].leaf = nodes[n].leaf
  /\ \A n \in DOMAIN nodes \ {x, y} : nodes[n].leaf => g[n].keys = nodes[n].keys
  /\ Count(g[x]) = Count(nodes[x]) - 1 /\ Count(g[y]) = Count(nodes[y]) + 1
  /\ Count(nodes[x]) \in Nat /\ Count(nodes[y]) \in Nat

\* The leaf x has a key too many, or one to spare, and the leaf y has room.
CanPass(x, y) ==
  nodes[x].leaf => /\ Count(nodes[x]) >= 3 /\ Count(nodes[x]) <= LeafLimit + 1
                   /\ Count(nodes[y]) >= 1 /\ Count(nodes[y]) < LeafLimit

OthersFit(S) == \A m \in Leaves \ S : Small(nodes[m]) /\ (m # root => Two(nodes[m]))

LEMMA RightPasses ==
  ASSUME Tree(nodes, root), NEW p, NEW i, NEW l, NEW r, Adjacent(p, i, l, r),
         Count(nodes[l]) >= 1
  PROVE  PassedOn(ShiftRight(p, i), l, r)
<1>1. /\ l \in DOMAIN nodes /\ r \in DOMAIN nodes /\ nodes[l].leaf = nodes[r].leaf
      /\ WellFormed(nodes[l]) /\ WellFormed(nodes[r])
  BY Neighbours
<1>2. nodes[l].keys \in Seq(Keys) /\ nodes[r].keys \in Seq(Keys)
  BY <1>1, NodeFields DEF WellFormed
<1>3. nodes[l].keys # << >>
  BY <1>2, EmptySeq DEF Count
<1>4. Count(nodes[l]) \in Nat /\ Count(nodes[r]) \in Nat
  BY <1>2, LenProperties DEF Count
<1> DEFINE g == ShiftRight(p, i)
<1>5. g = ShiftRight(p, i)
  OBVIOUS
<1> HIDE DEF g
<1>6. /\ Tree(g, root) /\ (Adopted(nodes) => Adopted(g))
      /\ DOMAIN g = DOMAIN nodes
      /\ \A n \in DOMAIN nodes : g[n].leaf = nodes[n].leaf
      /\ \A n \in DOMAIN nodes \ {l, r} : nodes[n].leaf => g[n].keys = nodes[n].keys
      /\ Len(g[l].keys) = Len(nodes[l].keys) - 1
      /\ Len(g[r].keys) = Len(nodes[r].keys) + 1
  BY <1>3, <1>5, ShiftRightKeeps
<1>7. PassedOn(g, l, r)
  BY <1>1, <1>4, <1>6 DEF PassedOn, Count
<1> QED BY <1>5, <1>7

LEMMA LeftPasses ==
  ASSUME Tree(nodes, root), NEW p, NEW i, NEW l, NEW r, Adjacent(p, i, l, r),
         Count(nodes[r]) >= 1, nodes[r].leaf => Count(nodes[r]) >= 2
  PROVE  PassedOn(ShiftLeft(p, i), r, l)
<1>1. /\ l \in DOMAIN nodes /\ r \in DOMAIN nodes /\ nodes[l].leaf = nodes[r].leaf
      /\ WellFormed(nodes[l]) /\ WellFormed(nodes[r])
  BY Neighbours
<1>2. nodes[l].keys \in Seq(Keys) /\ nodes[r].keys \in Seq(Keys)
  BY <1>1, NodeFields DEF WellFormed
<1>3. nodes[r].keys # << >>
  BY <1>2, EmptySeq DEF Count
<1>4. Count(nodes[l]) \in Nat /\ Count(nodes[r]) \in Nat
  BY <1>2, LenProperties DEF Count
<1> DEFINE g == ShiftLeft(p, i)
<1>5. g = ShiftLeft(p, i) /\ (nodes[r].leaf => Len(nodes[r].keys) >= 2)
  BY DEF Count
<1> HIDE DEF g
<1>6. /\ Tree(g, root) /\ (Adopted(nodes) => Adopted(g))
      /\ DOMAIN g = DOMAIN nodes
      /\ \A n \in DOMAIN nodes : g[n].leaf = nodes[n].leaf
      /\ \A n \in DOMAIN nodes \ {l, r} : nodes[n].leaf => g[n].keys = nodes[n].keys
      /\ Len(g[l].keys) = Len(nodes[l].keys) + 1
      /\ Len(g[r].keys) = Len(nodes[r].keys) - 1
  BY <1>3, <1>5, ShiftLeftKeeps
<1>7. PassedOn(g, r, l)
  BY <1>1, <1>4, <1>6 DEF PassedOn, Count
<1> QED BY <1>5, <1>7

LEMMA PassingKeepsShape ==
  ASSUME Shape, NEW x, NEW y, PassedOn(nodes', x, y),
         "stuck" \notin harm => CanPass(x, y) /\ OthersFit({x, y}),
         root' = root, call' = NoCall, harm' = harm
  PROVE  Shape'
<1>1. /\ Tree(nodes', root') /\ (Adopted(nodes) => Adopted(nodes'))
      /\ DOMAIN nodes' = DOMAIN nodes
      /\ x \in DOMAIN nodes /\ y \in DOMAIN nodes /\ nodes[x].leaf = nodes[y].leaf
      /\ \A n \in DOMAIN nodes : nodes'[n].leaf = nodes[n].leaf
      /\ \A n \in DOMAIN nodes \ {x, y} : nodes[n].leaf => nodes'[n].keys = nodes[n].keys
      /\ Count(nodes'[x]) = Count(nodes[x]) - 1 /\ Count(nodes'[y]) = Count(nodes[y]) + 1
      /\ Count(nodes[x]) \in Nat /\ Count(nodes[y]) \in Nat
  BY DEF PassedOn
<1>2. CallFits' /\ Quiet'
  BY DEF CallFits, Quiet
<1>3. ASSUME "stuck" \notin harm, NEW n \in DOMAIN nodes', nodes'[n].leaf
      PROVE  Small(nodes'[n]) /\ (n # root' => Two(nodes'[n]))
  <2>1. CASE n = x
    <3>1. Count(nodes[x]) >= 3 /\ Count(nodes[x]) <= LeafLimit + 1
      BY <1>1, <1>3, <2>1 DEF CanPass
    <3>2. Count(nodes'[x]) >= 2 /\ Count(nodes'[x]) <= LeafLimit
      BY <3>1, <1>1, Limits
    <3> QED BY <2>1, <3>2 DEF Count, Small, Two
  <2>2. CASE n = y
    <3>1. Count(nodes[y]) >= 1 /\ Count(nodes[y]) < LeafLimit
      BY <1>1, <1>3, <2>2 DEF CanPass
    <3>2. Count(nodes'[y]) >= 2 /\ Count(nodes'[y]) <= LeafLimit
      BY <3>1, <1>1, Limits
    <3> QED BY <2>2, <3>2 DEF Count, Small, Two
  <2>3. CASE n # x /\ n # y
    <3>1. n \in Leaves \ {x, y} /\ nodes'[n].keys = nodes[n].keys
      BY <1>1, <1>3, <2>3 DEF Leaves
    <3> QED BY <3>1, <1>3 DEF OthersFit, Small, Two
  <2> QED BY <2>1, <2>2, <2>3
<1>4. "stuck" \notin harm' => Fitting(nodes', root')
  BY <1>3 DEF Fitting
<1>5. \A n \in DOMAIN nodes' : WellFormed(nodes'[n])
  BY <1>1 DEF Tree
<1>6. LeavesFit'
  BY <1>2, <1>4, <1>5, FitAfter
<1> QED BY <1>1, <1>2, <1>6 DEF Shape

\* What a node that overflows needs of the neighbour it passes a key to.
LEMMA OverflowPasses ==
  ASSUME Shape, NEW n, Overflows(n), NEW y \in DOMAIN nodes \ {root}, y # n,
         nodes[y].leaf = nodes[n].leaf, ~Full(y)
  PROVE  /\ "stuck" \notin harm => CanPass(n, y) /\ OthersFit({n, y})
         /\ Count(nodes[n]) >= 2
<1>1. /\ n \in DOMAIN nodes /\ Count(nodes[n]) \in Nat /\ Count(nodes[n]) > MaxKeys
      /\ "stuck" \notin harm =>
           /\ \A m \in Leaves : m # root => Two(nodes[m])
           /\ \A m \in Leaves \ {n} : Small(nodes[m])
           /\ nodes[n].leaf => Count(nodes[n]) <= LeafLimit + 1
  BY Overflowing
<1>2. Count(nodes[y]) \in Nat /\ Count(nodes[y]) < MaxKeys
  <2>1. Count(nodes[y]) \in Nat
    BY TreeFacts, NodeFields, LenProperties DEF Shape, WellFormed, Count
  <2>2. ~(Count(nodes[y]) >= MaxKeys)
    BY DEF Full, Count
  <2> QED BY <2>1, <2>2, Limits
<1>3. ASSUME "stuck" \notin harm
      PROVE  CanPass(n, y)
  <2> SUFFICES ASSUME nodes[n].leaf
               PROVE  /\ Count(nodes[n]) >= 3 /\ Count(nodes[n]) <= LeafLimit + 1
                      /\ Count(nodes[y]) >= 1 /\ Count(nodes[y]) < LeafLimit
    BY DEF CanPass
  <2>1. Count(nodes[n]) <= LeafLimit + 1
    BY <1>1, <1>3
  <2>2. Count(nodes[y]) >= 2
    BY <1>1, <1>3 DEF Leaves, Two, Count
  <2> QED BY <1>1, <1>2, <2>1, <2>2, Limits
<1>4. ASSUME "stuck" \notin harm
      PROVE  OthersFit({n, y})
  BY <1>1, <1>4 DEF OthersFit
<1>5. Count(nodes[n]) >= 2
  BY <1>1, Limits
<1> QED BY <1>3, <1>4, <1>5

LEMMA LeafGivesLeftKeeps ==
  ASSUME Shape, NEW n, LeafGivesLeft(n)
  PROVE  Shape'
<1> DEFINE p == nodes[n].parent
<1>1. /\ Overflows(n) /\ Known(n) /\ HasLeft(n) /\ ~Full(Left(n))
      /\ nodes' = ShiftLeft(p, Index(n) - 1)
      /\ call' = NoCall /\ root' = root /\ harm' = harm
  BY DEF LeafGivesLeft
<1>2. Tree(nodes, root)
  BY DEF Shape
<1>3. Adjacent(p, Index(n) - 1, Left(n), n)
  BY <1>1, <1>2, KnownIndex, LeftOf
<1>4. Left(n) \in DOMAIN nodes \ {root} /\ Left(n) # n /\ nodes[Left(n)].leaf = nodes[n].leaf
  BY <1>2, <1>3, Neighbours
<1>5. /\ "stuck" \notin harm => CanPass(n, Left(n)) /\ OthersFit({n, Left(n)})
      /\ Count(nodes[n]) >= 2
  BY <1>1, <1>4, OverflowPasses
<1>6. Count(nodes[n]) >= 1
  BY <1>1, Overflowing, Limits
<1>7. PassedOn(nodes', n, Left(n))
  BY <1>1, <1>2, <1>3, <1>5, <1>6, LeftPasses
<1> QED BY <1>1, <1>5, <1>7, PassingKeepsShape

LEMMA LeafGivesRightKeeps ==
  ASSUME Shape, NEW n, LeafGivesRight(n)
  PROVE  Shape'
<1> DEFINE p == nodes[n].parent
<1>1. /\ Overflows(n) /\ Known(n) /\ HasRight(n) /\ ~Full(Right(n))
      /\ nodes' = ShiftRight(p, Index(n))
      /\ call' = NoCall /\ root' = root /\ harm' = harm
  BY DEF LeafGivesRight
<1>2. Tree(nodes, root)
  BY DEF Shape
<1>3. Adjacent(p, Index(n), n, Right(n))
  BY <1>1, <1>2, KnownIndex, RightOf
<1>4. Right(n) \in DOMAIN nodes \ {root} /\ Right(n) # n /\ nodes[Right(n)].leaf = nodes[n].leaf
  BY <1>2, <1>3, Neighbours
<1>5. "stuck" \notin harm => CanPass(n, Right(n)) /\ OthersFit({n, Right(n)})
  BY <1>1, <1>4, OverflowPasses
<1>6. Count(nodes[n]) >= 1
  BY <1>1, Overflowing, Limits
<1>7. PassedOn(nodes', n, Right(n))
  BY <1>1, <1>2, <1>3, <1>6, RightPasses
<1> QED BY <1>1, <1>5, <1>7, PassingKeepsShape

\* A call that ends without a change to the tree.
LEMMA EndsCall ==
  ASSUME Shape, nodes' = nodes, root' = root, call' = NoCall,
         harm \subseteq harm', harm' \subseteq Harms,
         "stuck" \notin harm' => Fitting(nodes, root) \/ LeavesFit'
  PROVE  Shape'
<1>1. CallFits' /\ Quiet'
  BY DEF CallFits, Quiet
<1>2. Tree(nodes', root') /\ ("orphaned" \notin harm' => Adopted(nodes'))
  BY DEF Shape
<1>3. \A n \in DOMAIN nodes' : WellFormed(nodes'[n])
  BY <1>2 DEF Tree
<1>4. CASE "stuck" \notin harm' => Fitting(nodes, root)
  <2>1. "stuck" \notin harm' => Fitting(nodes', root')
    BY <1>4
  <2>2. LeavesFit'
    BY <2>1, <1>1, <1>3, FitAfter
  <2> QED BY <1>1, <1>2, <2>2 DEF Shape
<1>5. CASE LeavesFit'
  BY <1>1, <1>2, <1>5 DEF Shape
<1> QED BY <1>4, <1>5

\* A node without keys is no leaf: while an internal node overflows, all
\* leaves fit.
LEMMA InnerOverflows ==
  ASSUME Shape, NEW n, Overflows(n), ~nodes[n].leaf, "stuck" \notin harm
  PROVE  Fitting(nodes, root)
<1>1. /\ \A m \in Leaves : m # root => Two(nodes[m])
      /\ \A m \in Leaves \ {n} : Small(nodes[m])
  BY Overflowing
<1> QED BY <1>1 DEF Fitting, Leaves

LEMMA InnerTakesLeftKeeps ==
  ASSUME Shape, NEW n, InnerTakesLeft(n)
  PROVE  Shape'
<1> DEFINE p == nodes[n].parent
<1>1. /\ Overflows(n) /\ ~nodes[n].leaf /\ Known(n) /\ HasLeft(n)
      /\ IF nodes[Left(n)].keys = << >>
           THEN harm' = harm \cup {"outside"} /\ nodes' = nodes
           ELSE nodes' = ShiftRight(p, Index(n) - 1) /\ harm' = harm
      /\ call' = NoCall /\ root' = root
  BY DEF InnerTakesLeft
<1>2. Tree(nodes, root) /\ harm \subseteq Harms
  BY DEF Shape
<1>3. Adjacent(p, Index(n) - 1, Left(n), n)
  BY <1>1, <1>2, KnownIndex, LeftOf
<1>4. /\ Left(n) \in DOMAIN nodes \ {root} /\ nodes[Left(n)].leaf = nodes[n].leaf
      /\ WellFormed(nodes[Left(n)])
  BY <1>2, <1>3, Neighbours
<1>5. "stuck" \notin harm => Fitting(nodes, root)
  BY <1>1, InnerOverflows
<1>6. CASE nodes[Left(n)].keys = << >>
  <2>1. harm \subseteq harm' /\ harm' \subseteq Harms
    BY <1>1, <1>2, <1>6 DEF Harms
  <2> QED BY <2>1, <1>1, <1>5, <1>6, EndsCall
<1>7. CASE nodes[Left(n)].keys # << >>
  <2>1. Count(nodes[Left(n)]) >= 1
    <3>1. nodes[Left(n)].keys \in Seq(Keys)
      BY <1>4, NodeFields DEF WellFormed
    <3> QED BY <3>1, <1>7, EmptySeq, LenProperties DEF Count
  <2>2. PassedOn(nodes', Left(n), n)
    BY <2>1, <1>1, <1>2, <1>3, <1>7, RightPasses
  <2>3. "stuck" \notin harm => CanPass(Left(n), n) /\ OthersFit({Left(n), n})
    BY <1>1, <1>4, <1>5 DEF CanPass, OthersFit, Fitting, Leaves
  <2> QED BY <2>2, <2>3, <1>1, <1>7, PassingKeepsShape
<1> QED BY <1>6, <1>7

LEMMA InnerTakesRightKeeps ==
  ASSUME Shape, NEW n, InnerTakesRight(n)
  PROVE  Shape'
<1> DEFINE p == nodes[n].parent
<1>1. /\ Overflows(n) /\ ~nodes[n].leaf /\ Known(n) /\ HasRight(n)
      /\ IF nodes[Right(n)].keys = << >>
           THEN harm' = harm \cup {"outside"} /\ nodes' = nodes
           ELSE nodes' = ShiftLeft(p, Index(n)) /\ harm' = harm
      /\ call' = NoCall /\ root' = root
  BY DEF InnerTakesRight
<1>2. Tree(nodes, root) /\ harm \subseteq Harms
  BY DEF Shape
<1>3. Adjacent(p, Index(n), n, Right(n))
  BY <1>1, <1>2, KnownIndex, RightOf
<1>4. /\ Right(n) \in DOMAIN nodes \ {root} /\ nodes[Right(n)].leaf = nodes[n].leaf
      /\ WellFormed(nodes[Right(n)]) /\ WellFormed(nodes[n])
  BY <1>2, <1>3, Neighbours
<1>5. "stuck" \notin harm => Fitting(nodes, root)
  BY <1>1, InnerOverflows
<1>6. CASE nodes[Right(n)].keys = << >>
  <2>1. harm \subseteq harm' /\ harm' \subseteq Harms
    BY <1>1, <1>2, <1>6 DEF Harms
  <2> QED BY <2>1, <1>1, <1>5, <1>6, EndsCall
<1>7. CASE nodes[Right(n)].keys # << >>
  <2>1. Count(nodes[Right(n)]) >= 1
    <3>1. nodes[Right(n)].keys \in Seq(Keys)
      BY <1>4, NodeFields DEF WellFormed
    <3> QED BY <3>1, <1>7, EmptySeq, LenProperties DEF Count
  <2>2. ~nodes[Right(n)].leaf
    BY <1>1, <1>4
  <2>3. PassedOn(nodes', Right(n), n)
    BY <2>1, <2>2, <1>1, <1>2, <1>3, <1>7, LeftPasses
  <2>4. "stuck" \notin harm => CanPass(Right(n), n) /\ OthersFit({Right(n), n})
    BY <2>2, <1>5 DEF CanPass, OthersFit, Fitting, Leaves
  <2> QED BY <2>3, <2>4, <1>1, <1>7, PassingKeepsShape
<1> QED BY <1>6, <1>7

\* What a node that underflows needs of the neighbour that spares it a key.
LEMMA UnderflowTakes ==
  ASSUME Shape, NEW n, Underflows(n), NEW x \in DOMAIN nodes \ {root}, x # n,
         nodes[x].leaf = nodes[n].leaf, Spares(x)
  PROVE  /\ "stuck" \notin harm => CanPass(x, n) /\ OthersFit({x, n})
         /\ Count(nodes[x]) >= 2 /\ Count(nodes[x]) >= 1
<1>1. /\ n \in DOMAIN nodes /\ n # root /\ Count(nodes[n]) \in Nat
      /\ "stuck" \notin harm =>
           /\ \A m \in Leaves : Small(nodes[m])
           /\ \A m \in Leaves \ {n} : m # root => Two(nodes[m])
           /\ nodes[n].leaf => Count(nodes[n]) >= 1 /\ Count(nodes[n]) < MinKeys
  BY Underflowing
<1>2. Count(nodes[x]) \in Nat /\ Count(nodes[x]) > MinKeys
  <2>1. Count(nodes[x]) \in Nat
    BY TreeFacts, NodeFields, LenProperties DEF Shape, WellFormed, Count
  <2> QED BY <2>1 DEF Spares, Count
<1>3. ASSUME "stuck" \notin harm
      PROVE  CanPass(x, n)
  <2> SUFFICES ASSUME nodes[x].leaf
               PROVE  /\ Count(nodes[x]) >= 3 /\ Count(nodes[x]) <= LeafLimit + 1
                      /\ Count(nodes[n]) >= 1 /\ Count(nodes[n]) < LeafLimit
    BY DEF CanPass
  <2>1. Count(nodes[n]) >= 1 /\ Count(nodes[n]) < MinKeys
    BY <1>1, <1>3
  <2>2. Count(nodes[x]) <= LeafLimit
    BY <1>1, <1>3 DEF Leaves, Small, Count
  <2> QED BY <1>1, <1>2, <2>1, <2>2, Limits
<1>4. ASSUME "stuck" \notin harm
      PROVE  OthersFit({x, n})
  BY <1>1, <1>4 DEF OthersFit
<1>5. Count(nodes[x]) >= 2 /\ Count(nodes[x]) >= 1
  BY <1>2, Limits
<1> QED BY <1>3, <1>4, <1>5

LEMMA BorrowLeftKeeps ==
  ASSUME Shape, NEW n, tryBorrowLeft(n)
  PROVE  Shape'
<1> DEFINE p == nodes[n].parent
<1>1. /\ Underflows(n) /\ Known(n) /\ HasLeft(n) /\ Spares(Left(n))
      /\ nodes' = ShiftRight(p, Index(n) - 1)
      /\ call' = NoCall /\ root' = root /\ harm' = harm
  BY DEF tryBorrowLeft
<1>2. Tree(nodes, root)
  BY DEF Shape
<1>3. Adjacent(p, Index(n) - 1, Left(n), n)
  BY <1>1, <1>2, KnownIndex, LeftOf
<1>4. Left(n) \in DOMAIN nodes \ {root} /\ Left(n) # n /\ nodes[Left(n)].leaf = nodes[n].leaf
  BY <1>2, <1>3, Neighbours
<1>5. /\ "stuck" \notin harm => CanPass(Left(n), n) /\ OthersFit({Left(n), n})
      /\ Count(nodes[Left(n)]) >= 1
  BY <1>1, <1>4, UnderflowTakes
<1>6. PassedOn(nodes', Left(n), n)
  BY <1>1, <1>2, <1>3, <1>5, RightPasses
<1> QED BY <1>1, <1>5, <1>6, PassingKeepsShape

LEMMA BorrowRightKeeps ==
  ASSUME Shape, NEW n, tryBorrowRight(n)
  PROVE  Shape'
<1> DEFINE p == nodes[n].parent
<1>1. /\ Underflows(n) /\ Known(n) /\ HasRight(n) /\ Spares(Right(n))
      /\ nodes' = ShiftLeft(p, Index(n))
      /\ call' = NoCall /\ root' = root /\ harm' = harm
  BY DEF tryBorrowRight
<1>2. Tree(nodes, root)
  BY DEF Shape
<1>3. Adjacent(p, Index(n), n, Right(n))
  BY <1>1, <1>2, KnownIndex, RightOf
<1>4. Right(n) \in DOMAIN nodes \ {root} /\ Right(n) # n /\ nodes[Right(n)].leaf = nodes[n].leaf
  BY <1>2, <1>3, Neighbours
<1>5. /\ "stuck" \notin harm => CanPass(Right(n), n) /\ OthersFit({Right(n), n})
      /\ Count(nodes[Right(n)]) >= 1 /\ Count(nodes[Right(n)]) >= 2
  BY <1>1, <1>4, UnderflowTakes
<1>6. PassedOn(nodes', Right(n), n)
  BY <1>1, <1>2, <1>3, <1>5, LeftPasses
<1> QED BY <1>1, <1>5, <1>6, PassingKeepsShape

-----------------------------------------------------------------------------
(* The actions that split nodes *)

\* The parent of the nodes that split may overflow next.
LEMMA CallAfterSplit ==
  ASSUME NEW p \in DOMAIN nodes, ~nodes[p].leaf, WellFormed(nodes[p]),
         p \in DOMAIN nodes', ~nodes'[p].leaf, OneMoreKey(nodes'[p], nodes[p]),
         call' = ParentCall(p)
  PROVE  CallFits' /\ Quiet'
<1>1. CASE Full(p)
  <2>1. Len(nodes[p].keys) >= MaxKeys /\ Len(nodes[p].keys) \in Nat
    BY <1>1, NodeFields, LenProperties DEF Full, WellFormed
  <2>2. Len(nodes'[p].keys) = Len(nodes[p].keys) + 1
    BY DEF OneMoreKey
  <2>3. Len(nodes'[p].keys) > MaxKeys
    BY <2>1, <2>2, Limits
  <2>4. call' = Overflow(p)
    BY <1>1 DEF ParentCall
  <2> QED BY <2>3, <2>4 DEF CallFits, Quiet
<1>2. CASE ~Full(p)
  BY <1>2 DEF ParentCall, CallFits, Quiet
<1> QED BY <1>1, <1>2

\* The thirds of two leaves that together have one key too many.
LEMMA ThirdsFit ==
  ASSUME NEW a \in Nat, NEW b \in Nat, a > MaxKeys, b >= MaxKeys
  PROVE  \E t \in Nat, n1 \in Nat, n2 \in Nat, n3 \in Nat :
           /\ t = a + b /\ Thirds(t, n1, n2, n3)
           /\ n1 >= 2 /\ n2 >= 2 /\ n3 >= 2
           /\ a <= LeafLimit + 1 /\ b <= LeafLimit =>
                n1 <= LeafLimit /\ n2 <= LeafLimit /\ n3 <= LeafLimit
<1> DEFINE t == a + b
           n1 == t \div 3
           n2 == (t - n1) \div 2
           n3 == t - n1 - n2
<1>1. t \in Nat /\ t >= 6
  BY Limits
<1>2. Thirds(t, n1, n2, n3)
  BY <1>1 DEF Thirds
<1>3. t = a + b
  OBVIOUS
<1> HIDE DEF t, n1, n2, n3
<1>4. /\ n1 \in Nat /\ n2 \in Nat /\ n3 \in Nat
      /\ n1 >= 2 /\ n2 >= 2 /\ n3 >= 2 /\ n1 <= n3 /\ n2 <= n3 /\ n3 <= n1 + 1
      /\ n3 <= n2 + 1 /\ n1 + n2 + n3 = t
  BY <1>1, <1>2, ThirdsFacts
<1>5. ASSUME a <= LeafLimit + 1, b <= LeafLimit
      PROVE  n1 <= LeafLimit /\ n2 <= LeafLimit /\ n3 <= LeafLimit
  BY <1>3, <1>4, <1>5, Limits
<1> QED BY <1>1, <1>2, <1>3, <1>4, <1>5

Both(n, o, l, r) == (n = l /\ o = r) \/ (n = r /\ o = l)

LEMMA LeafSplitKeeps ==
  ASSUME Shape, NEW p, NEW i, NEW l, NEW r, Adjacent(p, i, l, r), LeafNode(nodes[l]),
         NEW n, NEW o, Both(n, o, l, r), n # o, Overflows(n), Full(o), NumbersFor(1),
         AreThirdsOf(nodes', p, i),
         root' = root, call' = ParentCall(p), harm \subseteq harm', harm' \subseteq Harms
  PROVE  Shape'
<1>0. (n = l /\ o = r) \/ (n = r /\ o = l)
  BY DEF Both
<1>1. Tree(nodes, root)
  BY DEF Shape
<1>2. /\ p \in DOMAIN nodes /\ ~nodes[p].leaf /\ WellFormed(nodes[p])
      /\ l \in DOMAIN nodes \ {root} /\ r \in DOMAIN nodes \ {root} /\ l # r /\ p # l /\ p # r
      /\ nodes[l].leaf = nodes[r].leaf /\ WellFormed(nodes[l]) /\ WellFormed(nodes[r])
  BY <1>1, Neighbours
<1>3. NewNode \in Unused
  BY NewNodes
<1>4. /\ Count(nodes[n]) \in Nat /\ Count(nodes[n]) > MaxKeys
      /\ "stuck" \notin harm =>
           /\ \A m \in Leaves : m # root => Two(nodes[m])
           /\ \A m \in Leaves \ {n} : Small(nodes[m])
           /\ nodes[n].leaf => Count(nodes[n]) <= LeafLimit + 1
  BY Overflowing
<1>5. Count(nodes[o]) \in Nat /\ Count(nodes[o]) >= MaxKeys
  <2>1. WellFormed(nodes[o])
    BY <1>0, <1>2
  <2> QED BY <2>1, NodeFields, LenProperties DEF WellFormed, Count, Full
<1>6. PICK t \in Nat, n1 \in Nat, n2 \in Nat, n3 \in Nat :
        /\ t = Count(nodes[n]) + Count(nodes[o]) /\ Thirds(t, n1, n2, n3)
        /\ n1 >= 2 /\ n2 >= 2 /\ n3 >= 2
        /\ Count(nodes[n]) <= LeafLimit + 1 /\ Count(nodes[o]) <= LeafLimit =>
             n1 <= LeafLimit /\ n2 <= LeafLimit /\ n3 <= LeafLimit
  BY <1>4, <1>5, ThirdsFit
<1>7. KeysInBoth(l, r, t)
  <2>1. t = Count(nodes[l]) + Count(nodes[r])
    <3> QED BY <1>0, <1>4, <1>5, <1>6
  <2> QED BY <2>1 DEF KeysInBoth, Count
<1>8. Thirds(t, n1, n2, n3) /\ t \in Nat
  BY <1>6
<1> DEFINE g == nodes'
           m == NewNode
<1>9. AreThirdsOf(g, p, i)
  OBVIOUS
<1>10. g = nodes' /\ m = NewNode
  OBVIOUS
<1> HIDE DEF g, m
<1>11. /\ Tree(g, root) /\ (Adopted(nodes) => Adopted(g))
       /\ DOMAIN g = DOMAIN nodes \cup {m}
       /\ \A x \in DOMAIN nodes : g[x].leaf = nodes[x].leaf
       /\ \A x \in DOMAIN nodes \ {l, r} : nodes[x].leaf => g[x].keys = nodes[x].keys
       /\ Len(g[l].keys) = n1 /\ Len(g[m].keys) = n2 /\ Len(g[r].keys) = n3
       /\ OneMoreKey(g[p], nodes[p])
  <2>1. t \in Nat /\ KeysInBoth(l, r, t) /\ Thirds(t, n1, n2, n3)
    BY <1>7, <1>8
  <2>2. MoreLeaves(g, p, l, NewNode, r, n1, n2, n3)
    BY <1>1, <1>3, <2>1, <1>9, LeafThirdsKeeps
  <2>3. MoreLeaves(g, p, l, m, r, n1, n2, n3)
    BY <2>2, <1>10
  <2> QED BY <2>3 DEF MoreLeaves
<1>12. CallFits' /\ Quiet'
  BY <1>2, <1>10, <1>11, CallAfterSplit
<1>13. ASSUME "stuck" \notin harm', NEW x \in DOMAIN g, g[x].leaf
       PROVE  Small(g[x]) /\ (x # root => Two(g[x]))
  <2>1. n1 <= LeafLimit /\ n2 <= LeafLimit /\ n3 <= LeafLimit
    <3>1. "stuck" \notin harm
      BY <1>13
    <3>2. o \in Leaves \ {n} /\ nodes[n].leaf
      <4>1. nodes[l].leaf /\ nodes[r].leaf
        BY <1>2 DEF LeafNode
      <4> QED BY <4>1, <1>0, <1>2 DEF Leaves
    <3>3. Count(nodes[n]) <= LeafLimit + 1 /\ Count(nodes[o]) <= LeafLimit
      BY <3>1, <3>2, <1>4 DEF Small, Count
    <3> QED BY <3>3, <1>6
  <2>2. CASE x \in {l, m, r}
    BY <2>1, <2>2, <1>6, <1>11 DEF Small, Two
  <2>3. CASE x \notin {l, m, r}
    <3>1. x \in Leaves \ {l, r} /\ g[x].keys = nodes[x].keys
      BY <2>3, <1>11, <1>13 DEF Leaves
    <3>2. x # n /\ "stuck" \notin harm
      BY <3>1, <1>0, <1>13
    <3> QED BY <3>1, <3>2, <1>4 DEF Small, Two
  <2> QED BY <2>2, <2>3
<1>14. "stuck" \notin harm' => Fitting(nodes', root')
  BY <1>10, <1>13 DEF Fitting
<1>15. /\ Tree(nodes', root') /\ ("orphaned" \notin harm' => Adopted(nodes'))
       /\ \A x \in DOMAIN nodes' : WellFormed(nodes'[x])
  <2>1. Tree(nodes', root') /\ ("orphaned" \notin harm' => Adopted(nodes'))
    BY <1>10, <1>11 DEF Shape
  <2> QED BY <2>1 DEF Tree
<1>16. LeavesFit'
  BY <1>12, <1>14, <1>15, FitAfter
<1> QED BY <1>12, <1>15, <1>16 DEF Shape

LEMMA LeafSplitsRightKeeps ==
  ASSUME Shape, NEW n, LeafSplitsRight(n)
  PROVE  Shape'
<1> DEFINE p == nodes[n].parent
<1>1. /\ Overflows(n) /\ nodes[n].leaf /\ Known(n) /\ HasRight(n) /\ Full(Right(n))
      /\ NumbersFor(1)
      /\ nodes' = LeafThirds(p, Index(n), 2)
      /\ call' = ParentCall(p) /\ root' = root /\ harm' = harm
  BY DEF LeafSplitsRight, NoRoom
<1>2. Tree(nodes, root) /\ harm' \subseteq Harms
  BY <1>1 DEF Shape
<1>3. Adjacent(p, Index(n), n, Right(n))
  BY <1>1, <1>2, KnownIndex, RightOf
<1>4. Right(n) # n
  BY <1>2, <1>3, Neighbours
<1>5. Both(n, Right(n), n, Right(n)) /\ AreThirdsOf(nodes', p, Index(n))
  BY <1>1 DEF Both, AreThirdsOf
<1>6. LeafNode(nodes[n])
  BY <1>2, <1>3, <1>4, <1>1, Neighbours DEF LeafNode
<1> QED BY <1>1, <1>2, <1>3, <1>4, <1>5, <1>6, LeafSplitKeeps

LEMMA LeafSplitsLeftKeeps ==
  ASSUME Shape, NEW n, LeafSplitsLeft(n)
  PROVE  Shape'
<1> DEFINE p == nodes[n].parent
<1>1. /\ Overflows(n) /\ nodes[n].leaf /\ Known(n) /\ HasLeft(n) /\ Full(Left(n))
      /\ NumbersFor(1)
      /\ nodes' = LeafThirds(p, Index(n) - 1, 1)
      /\ call' = ParentCall(p) /\ root' = root /\ harm' = harm \cup {"misplaced"}
  BY DEF LeafSplitsLeft, NoRoom
<1>2. Tree(nodes, root) /\ harm \subseteq harm' /\ harm' \subseteq Harms
  BY <1>1 DEF Shape, Harms
<1>3. Adjacent(p, Index(n) - 1, Left(n), n)
  BY <1>1, <1>2, KnownIndex, LeftOf
<1>4. Left(n) # n /\ nodes[Left(n)].leaf
  <2>1. Left(n) # n /\ nodes[Left(n)].leaf = nodes[n].leaf
    BY <1>2, <1>3, Neighbours
  <2> QED BY <2>1, <1>1
<1>5. Both(n, Left(n), Left(n), n) /\ AreThirdsOf(nodes', p, Index(n) - 1)
  BY <1>1 DEF Both, AreThirdsOf
<1>6. LeafNode(nodes[Left(n)])
  BY <1>2, <1>3, <1>4, <1>1, Neighbours DEF LeafNode
<1> QED BY <1>1, <1>2, <1>3, <1>4, <1>5, <1>6, LeafSplitKeeps

InnerNode(N) == WellFormed(N) /\ ~N.leaf

LEMMA SharesExist ==
  ASSUME NEW a \in Nat, NEW b \in Nat, a > MaxKeys
  PROVE  \E t \in Nat : t = a + b /\ \E k1, k2, k3 : InnerShares(t + 1, k1, k2, k3)
<1> DEFINE t == a + b
<1>1. t \in Nat /\ t + 1 >= 2
  BY Limits
<1> HIDE DEF t
<1>2. \E k1, k2, k3 : InnerShares(t + 1, k1, k2, k3)
  BY <1>1 DEF InnerShares
<1> QED BY <1>1, <1>2 DEF t

LEMMA InnerSplitKeeps ==
  ASSUME Shape, NEW p, NEW i, NEW l, NEW r, Adjacent(p, i, l, r), InnerNode(nodes[l]),
         NEW n, NEW o, Both(n, o, l, r), Overflows(n), NumbersFor(1),
         NEW place, place \in 1 .. Len(nodes[p].kids) + 1,
         nodes' = InnerThirds(p, i, place),
         root' = root, call' = ParentCall(p),
         harm \cup Orphaned(p, i) \subseteq harm', harm' \subseteq Harms
  PROVE  Shape'
<1>0. (n = l /\ o = r) \/ (n = r /\ o = l)
  BY DEF Both
<1>1. Tree(nodes, root)
  BY DEF Shape
<1>2. /\ p \in DOMAIN nodes /\ ~nodes[p].leaf /\ WellFormed(nodes[p])
      /\ l \in DOMAIN nodes \ {root} /\ r \in DOMAIN nodes \ {root}
      /\ nodes[l].leaf = nodes[r].leaf /\ WellFormed(nodes[l]) /\ WellFormed(nodes[r])
  BY <1>1, Neighbours
<1>3. ~nodes[l].leaf /\ ~nodes[n].leaf
  <2>1. ~nodes[l].leaf
    BY DEF InnerNode
  <2> QED BY <2>1, <1>0, <1>2
<1>4. NewNode \in Unused
  BY NewNodes
<1>5. Count(nodes[n]) \in Nat /\ Count(nodes[n]) > MaxKeys
  BY Overflowing
<1>6. Count(nodes[o]) \in Nat
  <2>1. WellFormed(nodes[o])
    BY <1>0, <1>2
  <2> QED BY <2>1, NodeFields, LenProperties DEF WellFormed, Count
<1>7. PICK t \in Nat :
        /\ t = Count(nodes[n]) + Count(nodes[o])
        /\ \E k1, k2, k3 : InnerShares(t + 1, k1, k2, k3)
  BY <1>5, <1>6, SharesExist
<1>8. KeysInBoth(l, r, t)
  <2>1. t = Count(nodes[l]) + Count(nodes[r])
    BY <1>0, <1>5, <1>6, <1>7
  <2> QED BY <2>1 DEF KeysInBoth, Count
<1>9. PICK k1, k2, k3 : InnerShares(t + 1, k1, k2, k3)
  BY <1>7
<1> DEFINE g == nodes'
           m == NewNode
<1>10. g = nodes' /\ m = NewNode /\ g = InnerThirds(p, i, place)
  OBVIOUS
<1> HIDE DEF g, m
<1>11. MoreInners(g, p, i, m)
  <2>1. MoreInners(g, p, i, NewNode)
    BY <1>1, <1>3, <1>4, <1>8, <1>9, <1>10, InnerThirdsKeeps
  <2> QED BY <2>1, <1>10
<1>12. /\ Tree(g, root) /\ DOMAIN g = DOMAIN nodes \cup {m}
       /\ \A x \in DOMAIN nodes : g[x].leaf = nodes[x].leaf
       /\ ~g[m].leaf /\ OneMoreKey(g[p], nodes[p])
       /\ \A x \in DOMAIN nodes : nodes[x].leaf => g[x].keys = nodes[x].keys
       /\ Adopted(nodes) /\ ~HandsOver(p, i) => Adopted(g)
  BY <1>11 DEF MoreInners
<1>13. CallFits' /\ Quiet'
  BY <1>2, <1>10, <1>12, CallAfterSplit
<1>14. ASSUME "stuck" \notin harm', NEW x \in DOMAIN g, g[x].leaf
       PROVE  Small(g[x]) /\ (x # root => Two(g[x]))
  <2>1. x \in DOMAIN nodes /\ nodes[x].leaf /\ g[x].keys = nodes[x].keys
    BY <1>12, <1>14
  <2>2. Small(nodes[x]) /\ (x # root => Two(nodes[x]))
    <3>1. "stuck" \notin harm
      BY <1>14
    <3>2. Fitting(nodes, root)
      BY <3>1, <1>3, InnerOverflows
    <3> QED BY <2>1, <3>2 DEF Fitting
  <2> QED BY <2>1, <2>2 DEF Small, Two
<1>15. "stuck" \notin harm' => Fitting(nodes', root')
  BY <1>10, <1>14 DEF Fitting
<1>16. Tree(nodes', root') /\ \A x \in DOMAIN nodes' : WellFormed(nodes'[x])
  <2>1. Tree(nodes', root')
    BY <1>10, <1>12
  <2> QED BY <2>1 DEF Tree
<1>17. "orphaned" \notin harm' => Adopted(nodes')
  <2>1. "orphaned" \notin harm' => "orphaned" \notin harm /\ ~HandsOver(p, i)
    BY DEF Orphaned
  <2> QED BY <2>1, <1>10, <1>12 DEF Shape
<1>18. LeavesFit'
  BY <1>13, <1>15, <1>16, FitAfter
<1> QED BY <1>13, <1>16, <1>17, <1>18 DEF Shape

LEMMA InnerSplitsRightKeeps ==
  ASSUME Shape, NEW n, InnerSplitsRight(n)
  PROVE  Shape'
<1> DEFINE p == nodes[n].parent
<1>1. /\ Overflows(n) /\ ~nodes[n].leaf /\ Known(n) /\ HasRight(n) /\ NumbersFor(1)
      /\ nodes' = InnerThirds(p, Index(n), Index(n) + 1)
      /\ call' = ParentCall(p) /\ root' = root /\ harm' = harm \cup Orphaned(p, Index(n))
  BY DEF InnerSplitsRight, NoRoom
<1>2. /\ Tree(nodes, root) /\ harm' \subseteq Harms
      /\ harm \cup Orphaned(p, Index(n)) \subseteq harm'
  BY <1>1 DEF Shape, Orphaned, Harms
<1>3. Adjacent(p, Index(n), n, Right(n))
  BY <1>1, <1>2, KnownIndex, RightOf
<1>4. InnerNode(nodes[n])
  BY <1>1, <1>2, <1>3, Neighbours DEF InnerNode
<1>5. Both(n, Right(n), n, Right(n))
  BY DEF Both
<1>6. Index(n) + 1 \in 1 .. Len(nodes[p].kids) + 1
  BY <1>3 DEF Adjacent
<1> QED BY <1>1, <1>2, <1>3, <1>4, <1>5, <1>6, InnerSplitKeeps

LEMMA InnerSplitsLeftKeeps ==
  ASSUME Shape, NEW n, InnerSplitsLeft(n)
  PROVE  Shape'
<1> DEFINE p == nodes[n].parent
<1>1. /\ Overflows(n) /\ ~nodes[n].leaf /\ Known(n) /\ HasLeft(n) /\ NumbersFor(1)
      /\ nodes' = InnerThirds(p, Index(n) - 1, Index(n) + 1)
      /\ call' = ParentCall(p) /\ root' = root
      /\ harm' = harm \cup {"misplaced"} \cup Orphaned(p, Index(n) - 1)
  BY DEF InnerSplitsLeft, NoRoom
<1>2. /\ Tree(nodes, root) /\ harm' \subseteq Harms
      /\ harm \cup Orphaned(p, Index(n) - 1) \subseteq harm'
  BY <1>1 DEF Shape, Orphaned, Harms
<1>3. Adjacent(p, Index(n) - 1, Left(n), n) /\ ChildOf(n, p)
  BY <1>1, <1>2, KnownIndex, LeftOf
<1>4. InnerNode(nodes[Left(n)])
  <2>1. nodes[Left(n)].leaf = nodes[n].leaf /\ WellFormed(nodes[Left(n)])
    BY <1>2, <1>3, Neighbours
  <2> QED BY <2>1, <1>1 DEF InnerNode
<1>5. Both(n, Left(n), Left(n), n)
  BY DEF Both
<1>6. Index(n) + 1 \in 1 .. Len(nodes[p].kids) + 1
  BY <1>3 DEF ChildOf
<1> QED BY <1>1, <1>2, <1>3, <1>4, <1>5, <1>6, InnerSplitKeeps

\* A root that overflows has keys enough for two halves.
LEMMA RootOverflows ==
  ASSUME Shape, NEW n, Overflows(n), IsRoot(n)
  PROVE  /\ n = root /\ Count(nodes[root]) \in Nat /\ Count(nodes[root]) >= 4
         /\ RootHalf(Count(nodes[root]), Count(nodes[root]) \div 2)
<1>1. n \in DOMAIN nodes /\ Count(nodes[n]) \in Nat /\ Count(nodes[n]) > MaxKeys
  BY Overflowing
<1>2. n = root
  BY <1>1 DEF IsRoot, Shape, Tree, Rooted
<1>3. Count(nodes[root]) >= 4
  BY <1>1, <1>2, Limits
<1> QED BY <1>1, <1>2, <1>3 DEF RootHalf, Count

\* The tree after a split of the root, whatever the root was.
LEMMA TallerKeepsShape ==
  ASSUME Shape, NEW m, NEW t, m # t, TallerTree(nodes', m, t),
         root' = t, call' = NoCall, harm' = harm,
         "stuck" \notin harm =>
           \A x \in {root, m} : nodes'[x].leaf => Small(nodes'[x]) /\ Two(nodes'[x]),
         "stuck" \notin harm =>
           \A x \in Leaves \ {root} : Small(nodes[x]) /\ Two(nodes[x])
  PROVE  Shape'
<1>1. /\ Tree(nodes', t) /\ (Adopted(nodes) => Adopted(nodes'))
      /\ DOMAIN nodes' = DOMAIN nodes \cup {m, t}
      /\ \A n \in DOMAIN nodes : nodes'[n].leaf = nodes[n].leaf
      /\ ~nodes'[t].leaf
      /\ \A n \in DOMAIN nodes \ {root} : nodes[n].leaf => nodes'[n].keys = nodes[n].keys
  BY DEF TallerTree
<1>2. CallFits' /\ Quiet'
  BY DEF CallFits, Quiet
<1>3. ASSUME "stuck" \notin harm', NEW x \in DOMAIN nodes', nodes'[x].leaf
      PROVE  Small(nodes'[x]) /\ Two(nodes'[x])
  <2>1. CASE x \in {root, m}
    BY <2>1, <1>3
  <2>2. CASE x \notin {root, m}
    <3>1. x \in Leaves \ {root} /\ nodes'[x].keys = nodes[x].keys
      BY <2>2, <1>1, <1>3 DEF Leaves
    <3>2. Small(nodes[x]) /\ Two(nodes[x])
      BY <3>1, <1>3
    <3> QED BY <3>1, <3>2 DEF Small, Two
  <2> QED BY <2>1, <2>2
<1>4. "stuck" \notin harm' => Fitting(nodes', root')
  BY <1>3 DEF Fitting
<1>5. /\ Tree(nodes', root') /\ \A n \in DOMAIN nodes' : WellFormed(nodes'[n])
      /\ "orphaned" \notin harm' => Adopted(nodes')
  BY <1>1 DEF Tree, Shape
<1>6. LeavesFit'
  BY <1>2, <1>4, <1>5, FitAfter
<1> QED BY <1>2, <1>5, <1>6 DEF Shape

\* Three keys or more above half: those of the left half, of the right one,
\* and between them.
LEMMA HalfPositions ==
  ASSUME Shape, NEW n, Overflows(n), IsRoot(n),
         NEW ks, ks = nodes[root].keys, NEW c, c = Count(nodes[root]),
         NEW half, half = c \div 2
  PROVE  /\ ks \in Seq(Keys) /\ Len(ks) = c /\ c \in Nat
         /\ half \in Nat /\ half >= 2 /\ half + 2 <= c
         /\ half - 1 + 1 = half /\ c - (half + 1) + 1 = c - half
         /\ c - half >= 2 /\ c - half <= half + 1 /\ half <= c - half
         /\ ks[half + 1] \in Keys
<1>1. c \in Nat /\ RootHalf(c, half)
  BY RootOverflows
<1>2. /\ half \in Nat /\ half >= 2 /\ half + 2 <= c
      /\ half - 1 + 1 = half /\ c - (half + 1) + 1 = c - half
      /\ c - half >= 2 /\ c - half <= half + 1 /\ half <= c - half
  BY <1>1, HalfFacts
<1>3. WellFormed(nodes[root])
  BY TreeFacts DEF Shape
<1>4. ks \in Seq(Keys) /\ Len(ks) = c
  BY <1>3, NodeFields DEF WellFormed, Count
<1>5. ks[half + 1] \in Keys
  <2>1. half + 1 \in 1 .. c
    BY <1>1, <1>2
  <2>2. half + 1 \in 1 .. Len(ks)
    BY <2>1, <1>4
  <2> QED BY <2>2, <1>4, ElementOfSeq
<1> QED BY <1>1, <1>2, <1>4, <1>5

LEMMA LeafRootSplitsKeeps ==
  ASSUME Shape, NEW n, LeafRootSplits(n)
  PROVE  Shape'
<1> DEFINE ks == nodes[root].keys
           vs == nodes[root].vals
           x == nodes[root].next
           c == Count(nodes[root])
           half == c \div 2
           a == half + 1
           m == NewNode
           t == NewRoot
           key == ks[half + 1]
           A == Leaf(SubSeq(ks, 1, half), SubSeq(vs, 1, half), t, m)
           B == Leaf(SubSeq(ks, a, c), SubSeq(vs, a, c), t, x)
<1>1. /\ Overflows(n) /\ IsRoot(n) /\ LeafNode(nodes[n]) /\ NumbersFor(2)
      /\ root' = t /\ call' = NoCall /\ harm' = harm
  BY TreeFacts, Overflowing DEF LeafRootSplits, LeafNode, Shape
<1>2. n = root /\ Tree(nodes, root)
  BY <1>1, RootOverflows DEF Shape
<1>3. /\ ks \in Seq(Keys) /\ Len(ks) = c /\ c \in Nat
      /\ half \in Nat /\ half >= 2 /\ half + 2 <= c
      /\ half - 1 + 1 = half /\ c - a + 1 = c - half
      /\ c - half >= 2 /\ c - half <= half + 1 /\ half <= c - half
      /\ key \in Keys
  BY <1>1, HalfPositions
<1>4. Len(vs) = c
  BY <1>1, <1>2 DEF LeafNode, WellFormed, Count
<1>5. m \in Unused /\ t \in Unused /\ m # t
  BY <1>1, NewNodes
<1>6. nodes' = Put(Put([nodes EXCEPT ![root] = A], m, B), t, Inner(<<key>>, <<root, m>>, NullPage))
  <2>1. nodes' = Put(Put([nodes EXCEPT ![root] =
                            Leaf(SubSeq(ks, 1, Len(ks) \div 2), SubSeq(vs, 1, Len(ks) \div 2), t, m)],
                         m, Leaf(SubSeq(ks, Len(ks) \div 2 + 1, Len(ks)),
                                 SubSeq(vs, Len(ks) \div 2 + 1, Len(vs)), t, x)),
                     t, Inner(<<ks[Len(ks) \div 2 + 1]>>, <<root, m>>, NullPage))
    BY <1>2 DEF LeafRootSplits, Top
  <2> HIDE DEF ks, vs, x, m, t
  <2> QED BY <2>1, <1>3, <1>4
<1>7. Within(ks, 1, half) /\ Within(ks, a, c)
  <2> HIDE DEF ks, c, half
  <2>1. 1 <= half /\ half <= c /\ a \in Nat /\ 1 <= a /\ a <= c
    BY <1>3
  <2> HIDE DEF a
  <2> QED BY <2>1, <1>3 DEF Within
<1>8. LeafHalves(nodes', ks, vs, x, half, a, c, A, m, B, t, key)
  BY <1>3, <1>6, <1>7 DEF LeafHalves
<1>9. c >= 2 /\ ("stuck" \notin harm => c <= LeafLimit + 1)
  BY <1>1, <1>2, <1>3, Overflowing DEF LeafNode
<1> HIDE DEF ks, vs, x, c, half, a, m, t, key, A, B
<1>10. LeafNode(nodes[root])
  BY <1>1, <1>2
<1>11. /\ TallerTree(nodes', m, t)
       /\ Len(nodes'[root].keys) = half - 1 + 1 /\ Len(nodes'[m].keys) = c - a + 1
  <2>1. nodes[root].leaf
    BY <1>10 DEF LeafNode
  <2> QED BY <2>1, <1>2, <1>5, <1>8, LeafHalvesKeep
<1>12. ASSUME "stuck" \notin harm
       PROVE  \A y \in {root, m} : Small(nodes'[y]) /\ Two(nodes'[y])
  <2>1. Len(nodes'[root].keys) = half /\ Len(nodes'[m].keys) = c - half
    BY <1>3, <1>11
  <2>2. half <= LeafLimit /\ c - half <= LeafLimit
    BY <1>3, <1>9, <1>12, Limits
  <2> QED BY <2>1, <2>2, <1>3 DEF Small, Two
<1>13. ASSUME "stuck" \notin harm
       PROVE  \A y \in Leaves \ {root} : Small(nodes[y]) /\ Two(nodes[y])
  BY <1>1, <1>2, <1>13, Overflowing
<1> QED BY <1>1, <1>5, <1>11, <1>12, <1>13, TallerKeepsShape

LEMMA InnerRootSplitsKeeps ==
  ASSUME Shape, NEW n, InnerRootSplits(n)
  PROVE  Shape'
<1> DEFINE ks == nodes[root].keys
           cs == nodes[root].kids
           c == Count(nodes[root])
           half == c \div 2
           a == half + 2
           e == half + 1
           m == NewNode
           t == NewRoot
           key == ks[half + 1]
           y == SubSeq(cs, a, Len(cs))
           x == SubSeq(cs, 1, e)
           A == Inner(SubSeq(ks, 1, half), x, t)
           B == Inner(SubSeq(ks, a, c), y, t)
<1>1. /\ Overflows(n) /\ IsRoot(n) /\ InnerNode(nodes[n]) /\ NumbersFor(2)
      /\ root' = t /\ call' = NoCall /\ harm' = harm
  BY TreeFacts, Overflowing DEF InnerRootSplits, InnerNode, Shape
<1>2. n = root /\ Tree(nodes, root)
  BY <1>1, RootOverflows DEF Shape
<1>3. /\ ks \in Seq(Keys) /\ Len(ks) = c /\ c \in Nat
      /\ half \in Nat /\ half >= 2 /\ half + 2 <= c
      /\ key \in Keys
  BY <1>1, HalfPositions
<1>4. cs \in Seq(NodeId) /\ Len(cs) = c + 1 /\ IsInjective(cs)
  BY <1>1, <1>2, NodeFields DEF InnerNode, WellFormed, Count
<1>5. m \in Unused /\ t \in Unused /\ m # t
  BY <1>1, NewNodes
<1>6. nodes' = Put(Put([Reparent(nodes, Range(y), m) EXCEPT ![root] = A], m, B), t,
                   Inner(<<key>>, <<root, m>>, NullPage))
  <2>1. nodes' = Put(Put([Reparent(nodes, Range(SubSeq(cs, Len(ks) \div 2 + 2, Len(cs))), m)
                           EXCEPT ![root] = Inner(SubSeq(ks, 1, Len(ks) \div 2),
                                                  SubSeq(cs, 1, Len(ks) \div 2 + 1), t)],
                         m, Inner(SubSeq(ks, Len(ks) \div 2 + 2, Len(ks)),
                                  SubSeq(cs, Len(ks) \div 2 + 2, Len(cs)), t)),
                     t, Inner(<<ks[Len(ks) \div 2 + 1]>>, <<root, m>>, NullPage))
    BY <1>2 DEF InnerRootSplits, Top
  <2> HIDE DEF ks, cs, m, t
  <2> QED BY <2>1, <1>3
<1>7. a = e + 1 /\ e \in Nat /\ a \in Nat /\ e <= c + 1
  BY <1>3
<1>8. CutInTwo(cs, e, x, y)
  BY <1>4, <1>7 DEF CutInTwo
<1>9. KidsOf(NodeId, x, e) /\ KidsOf(NodeId, y, Len(cs) - e)
  BY <1>4, <1>8, TwoParts
<1>10. t \in NodeId \cup {NullPage}
  BY <1>5 DEF Unused
<1>11. AnInner(A, x, t)
  <2>1. 1 \in Nat /\ half \in Nat /\ 1 <= half + 1 /\ half <= Len(ks) /\ e = half - 1 + 2
    BY <1>3
  <2>2. x \in Seq(NodeId) /\ Len(x) = half - 1 + 2 /\ IsInjective(x)
    BY <2>1, <1>9 DEF KidsOf
  <2> HIDE DEF ks, x, t, c, half
  <2> QED BY <2>1, <2>2, <1>3, <1>10, InnerPart
<1>12. AnInner(B, y, t)
  <2>1. /\ a \in Nat /\ c \in Nat /\ 1 <= a /\ a <= c + 1 /\ c <= Len(ks)
        /\ Len(cs) - e = c - a + 2
    BY <1>3, <1>4, <1>7
  <2>2. y \in Seq(NodeId) /\ Len(y) = c - a + 2 /\ IsInjective(y)
    BY <2>1, <1>9 DEF KidsOf
  <2> HIDE DEF ks, y, t, c, half, a
  <2> QED BY <2>1, <2>2, <1>3, <1>10, InnerPart
<1>13. InnerHalves(nodes', cs, e, x, y, A, m, B, t, key)
  BY <1>3, <1>6, <1>8, <1>11, <1>12 DEF InnerHalves
<1> HIDE DEF ks, cs, c, half, a, e, m, t, key, y, x, A, B
<1>14. InnerNode(nodes[root])
  BY <1>1, <1>2
<1>15. TallerTree(nodes', m, t)
  <2>1. ~nodes[root].leaf
    BY <1>14 DEF InnerNode
  <2> QED BY <2>1, <1>2, <1>5, <1>13, InnerHalvesKeep
<1>16. ~nodes'[root].leaf /\ ~nodes'[m].leaf
  <2>1. ~nodes[root].leaf /\ root \in DOMAIN nodes
    BY <1>14, <1>2, TreeFacts DEF InnerNode
  <2> QED BY <2>1, <1>15 DEF TallerTree
<1>17. ASSUME "stuck" \notin harm
       PROVE  \A z \in Leaves \ {root} : Small(nodes[z]) /\ Two(nodes[z])
  BY <1>1, <1>2, <1>17, Overflowing
<1> QED BY <1>1, <1>5, <1>15, <1>16, <1>17, TallerKeepsShape

-----------------------------------------------------------------------------
(* The actions that merge nodes, and those that end a call *)

\* Two leaves that merge fill one.
CanMerge(l, r) ==
  nodes[l].leaf => /\ Count(nodes[l]) + Count(nodes[r]) <= LeafLimit
                   /\ Count(nodes[l]) + Count(nodes[r]) >= 2

LEMMA MergedFits ==
  ASSUME NEW g, NEW p, NEW l, NEW r, MergedInto(g, p, l, r), CanMerge(l, r), OthersFit({l, r})
  PROVE  \A x \in DOMAIN g : g[x].leaf => Small(g[x]) /\ (x # root => Two(g[x]))
<1> SUFFICES ASSUME NEW x \in DOMAIN g, g[x].leaf
             PROVE  Small(g[x]) /\ (x # root => Two(g[x]))
  OBVIOUS
<1>1. /\ DOMAIN g = DOMAIN nodes \ {r}
      /\ \A n \in DOMAIN g : g[n].leaf = nodes[n].leaf
      /\ \A n \in DOMAIN g \ {l} : nodes[n].leaf => g[n].keys = nodes[n].keys
      /\ nodes[l].leaf => Count(g[l]) = Count(nodes[l]) + Count(nodes[r])
  BY DEF MergedInto, Count
<1>2. CASE x = l
  <2>1. Count(g[l]) = Count(nodes[l]) + Count(nodes[r])
    BY <1>1, <1>2
  <2>2. Count(g[l]) <= LeafLimit /\ Count(g[l]) >= 2
    BY <2>1, <1>1, <1>2 DEF CanMerge
  <2> QED BY <2>2, <1>2 DEF Count, Small, Two
<1>3. CASE x # l
  <2>1. x \in Leaves \ {l, r} /\ g[x].keys = nodes[x].keys
    BY <1>1, <1>3 DEF Leaves
  <2> QED BY <2>1 DEF OthersFit, Small, Two
<1> QED BY <1>2, <1>3

LEMMA MergeKeepsShape ==
  ASSUME Shape, NEW p, NEW i, NEW l, NEW r, Adjacent(p, i, l, r), Merge(p, i), harm' = harm,
         "stuck" \notin harm => CanMerge(l, r) /\ OthersFit({l, r})
  PROVE  Shape'
<1> DEFINE g == Merged(p, i)
<1>1. Tree(nodes, root) /\ g = Merged(p, i) /\ l = nodes[p].kids[i] /\ p \in DOMAIN nodes
  BY DEF Shape, Adjacent
<1>2. /\ IsRoot(p) =>
           /\ IF g[p].keys = << >> THEN nodes' = Collapsed(g, p, l) /\ root' = l
              ELSE nodes' = g /\ root' = root
           /\ call' = NoCall
      /\ ~IsRoot(p) =>
           /\ nodes' = g /\ root' = root
           /\ call' = IF Len(g[p].keys) < MinKeys THEN Underflow(p) ELSE NoCall
  BY <1>1 DEF Merge, Collapsed
<1> HIDE DEF g
<1>3. MergedInto(g, p, l, r)
  BY <1>1, MergedKeeps
<1>4. /\ Tree(g, root) /\ (Adopted(nodes) => Adopted(g))
      /\ p \in DOMAIN g /\ l \in Kids(g, p) /\ ~g[p].leaf
  BY <1>3 DEF MergedInto
<1>5. "stuck" \notin harm =>
        \A x \in DOMAIN g : g[x].leaf => Small(g[x]) /\ (x # root => Two(g[x]))
  BY <1>3, MergedFits
<1>6. CASE nodes' = g /\ root' = root
  <2>1. CallFits' /\ Quiet'
    <3>1. p # root' \/ call' = NoCall
      <4>1. IsRoot(p) <=> p = root
        BY <1>1 DEF IsRoot, Tree, Rooted
      <4> QED BY <4>1, <1>2, <1>6
    <3>2. call' = NoCall \/ (call' = Underflow(p) /\ p # root')
      BY <3>1, <1>2
    <3> QED BY <3>2, <1>4, <1>6 DEF CallFits, Quiet
  <2>2. "stuck" \notin harm' => Fitting(nodes', root')
    BY <1>5, <1>6 DEF Fitting
  <2>3. /\ Tree(nodes', root') /\ \A n \in DOMAIN nodes' : WellFormed(nodes'[n])
        /\ "orphaned" \notin harm' => Adopted(nodes')
    BY <1>4, <1>6 DEF Tree, Shape
  <2>4. LeavesFit'
    BY <2>1, <2>2, <2>3, FitAfter
  <2> QED BY <2>1, <2>3, <2>4 DEF Shape
<1>7. CASE /\ p = root /\ g[p].keys = << >>
           /\ nodes' = Collapsed(g, p, l) /\ root' = l /\ call' = NoCall
  <2>1. /\ Tree(nodes', l) /\ (Adopted(g) => Adopted(nodes'))
        /\ DOMAIN nodes' = DOMAIN g \ {p}
        /\ \A n \in DOMAIN nodes' : nodes'[n].leaf = g[n].leaf /\ nodes'[n].keys = g[n].keys
    <3>1. Emptied(g[p]) /\ Tree(g, p) /\ l \in Kids(g, p)
      BY <1>4, <1>7 DEF Emptied
    <3>2. ShorterTree(nodes', g, p, l)
      BY <1>7, <3>1, CollapseKeeps
    <3> QED BY <3>2 DEF ShorterTree
  <2>2. CallFits' /\ Quiet'
    BY <1>7 DEF CallFits, Quiet
  <2>3. "stuck" \notin harm' => Fitting(nodes', root')
    BY <1>5, <1>7, <2>1 DEF Fitting, Small, Two
  <2>4. /\ Tree(nodes', root') /\ \A n \in DOMAIN nodes' : WellFormed(nodes'[n])
        /\ "orphaned" \notin harm' => Adopted(nodes')
    BY <1>4, <1>7, <2>1 DEF Tree, Shape
  <2>5. LeavesFit'
    BY <2>2, <2>3, <2>4, FitAfter
  <2> QED BY <2>2, <2>4, <2>5 DEF Shape
<1>8. IsRoot(p) <=> p = root
  BY <1>1 DEF IsRoot, Tree, Rooted
<1> QED BY <1>2, <1>6, <1>7, <1>8

\* A leaf that underflows fits into a neighbour that has no key to spare.
LEMMA UnderflowMerges ==
  ASSUME Shape, NEW n, Underflows(n), NEW o \in DOMAIN nodes \ {root}, o # n,
         nodes[o].leaf = nodes[n].leaf, ~Spares(o), "stuck" \notin harm
  PROVE  /\ CanMerge(n, o) /\ CanMerge(o, n)
         /\ OthersFit({n, o}) /\ OthersFit({o, n})
<1>1. /\ n \in DOMAIN nodes /\ Count(nodes[n]) \in Nat
      /\ \A m \in Leaves : Small(nodes[m])
      /\ \A m \in Leaves \ {n} : m # root => Two(nodes[m])
      /\ nodes[n].leaf => Count(nodes[n]) >= 1 /\ Count(nodes[n]) < MinKeys
  BY Underflowing
<1>2. Count(nodes[o]) \in Nat /\ Count(nodes[o]) <= MinKeys
  <2>1. Count(nodes[o]) \in Nat
    BY TreeFacts, NodeFields, LenProperties DEF Shape, WellFormed, Count
  <2>2. ~(Count(nodes[o]) > MinKeys)
    BY DEF Spares, Count
  <2> QED BY <2>1, <2>2, Limits
<1>3. ASSUME nodes[n].leaf
      PROVE  /\ Count(nodes[n]) + Count(nodes[o]) <= LeafLimit
             /\ Count(nodes[n]) + Count(nodes[o]) >= 2
             /\ Count(nodes[o]) + Count(nodes[n]) = Count(nodes[n]) + Count(nodes[o])
  <2>1. Count(nodes[n]) >= 1 /\ Count(nodes[n]) < MinKeys
    BY <1>1, <1>3
  <2>2. Count(nodes[o]) >= 2
    BY <1>1, <1>3 DEF Leaves, Two, Count
  <2> QED BY <1>1, <1>2, <2>1, <2>2, Limits
<1>4. CanMerge(n, o) /\ CanMerge(o, n)
  BY <1>3 DEF CanMerge
<1>5. \A m \in Leaves : m # n => Small(nodes[m]) /\ (m # root => Two(nodes[m]))
  BY <1>1
<1> QED BY <1>4, <1>5 DEF OthersFit

LEMMA MergeWithLeftKeeps ==
  ASSUME Shape, NEW n, mergeWithLeft(n)
  PROVE  Shape'
<1> DEFINE p == nodes[n].parent
<1>1. /\ Underflows(n) /\ Known(n) /\ HasLeft(n) /\ ~Spares(Left(n))
      /\ Merge(p, Index(n) - 1) /\ harm' = harm
  BY DEF mergeWithLeft
<1>2. Tree(nodes, root)
  BY DEF Shape
<1>3. Adjacent(p, Index(n) - 1, Left(n), n)
  BY <1>1, <1>2, KnownIndex, LeftOf
<1>4. Left(n) \in DOMAIN nodes \ {root} /\ Left(n) # n /\ nodes[Left(n)].leaf = nodes[n].leaf
  BY <1>2, <1>3, Neighbours
<1>5. "stuck" \notin harm => CanMerge(Left(n), n) /\ OthersFit({Left(n), n})
  BY <1>1, <1>4, UnderflowMerges
<1> QED BY <1>1, <1>3, <1>5, MergeKeepsShape

LEMMA MergeWithRightKeeps ==
  ASSUME Shape, NEW n, mergeWithRight(n)
  PROVE  Shape'
<1> DEFINE p == nodes[n].parent
<1>1. /\ Underflows(n) /\ Known(n) /\ HasRight(n) /\ ~Spares(Right(n))
      /\ Merge(p, Index(n)) /\ harm' = harm
  BY DEF mergeWithRight
<1>2. Tree(nodes, root)
  BY DEF Shape
<1>3. Adjacent(p, Index(n), n, Right(n))
  BY <1>1, <1>2, KnownIndex, RightOf
<1>4. Right(n) \in DOMAIN nodes \ {root} /\ Right(n) # n /\ nodes[Right(n)].leaf = nodes[n].leaf
  BY <1>2, <1>3, Neighbours
<1>5. "stuck" \notin harm => CanMerge(n, Right(n)) /\ OthersFit({n, Right(n)})
  BY <1>1, <1>4, UnderflowMerges
<1> QED BY <1>1, <1>3, <1>5, MergeKeepsShape

\* An exception ends the call: from then on nothing is said of sizes.
LEMMA StuckKeeps ==
  ASSUME Shape, nodes' = nodes, root' = root, call' = NoCall, harm' = harm \cup {"stuck"}
  PROVE  Shape'
<1>1. harm \subseteq harm' /\ harm' \subseteq Harms
  BY DEF Shape, Harms
<1>2. "stuck" \notin harm' => Fitting(nodes, root) \/ LeavesFit'
  OBVIOUS
<1> QED BY <1>1, <1>2, EndsCall

LEMMA MergeWithNobodyKeeps ==
  ASSUME Shape, NEW n, mergeWithNobody(n)
  PROVE  Shape'
<1>1. /\ Underflows(n) /\ nodes' = nodes /\ root' = root /\ call' = NoCall
      /\ harm' = harm \cup {"outside"}
  BY DEF mergeWithNobody
<1>2. harm \subseteq harm' /\ harm' \subseteq Harms /\ ub'
  BY <1>1 DEF Shape, Harms, ub
<1>3. /\ n \in DOMAIN nodes /\ n # root
      /\ "stuck" \notin harm =>
           /\ \A m \in Leaves : Small(nodes[m])
           /\ \A m \in Leaves \ {n} : m # root => Two(nodes[m])
           /\ nodes[n].leaf => Count(nodes[n]) >= 1 /\ Count(nodes[n]) < MinKeys
  BY <1>1, Underflowing
<1>4. ASSUME "stuck" \notin harm', NEW m \in Leaves'
      PROVE  /\ Len(nodes'[m].keys) <= IF call' = Overflow(m) THEN LeafLimit + 1 ELSE LeafLimit
             /\ m # root' => Len(nodes'[m].keys) >= IF call' = Underflow(m) \/ ub' THEN 1 ELSE 2
             /\ call' = Underflow(m) => Len(nodes'[m].keys) < MinKeys
  <2>1. m \in Leaves /\ nodes[m].leaf /\ m \in DOMAIN nodes /\ "stuck" \notin harm
    BY <1>1, <1>4 DEF Leaves
  <2>2. call' # Overflow(m) /\ call' # Underflow(m)
    BY <1>1, Calls
  <2>3. Len(nodes[m].keys) \in Nat
    BY <2>1, TreeFacts, NodeFields, LenProperties DEF Shape, WellFormed
  <2>4. Len(nodes[m].keys) <= LeafLimit
    BY <2>1, <1>3 DEF Small
  <2>5. m # root => Len(nodes[m].keys) >= 1
    BY <2>1, <2>3, <1>3 DEF Two, Count
  <2> QED BY <1>1, <1>2, <2>2, <2>4, <2>5
<1>5. LeavesFit'
  BY <1>4 DEF LeavesFit
<1> QED BY <1>1, <1>2, <1>5, EndsCall

-----------------------------------------------------------------------------
(* A key comes into a leaf, or leaves it *)

\* In g the leaf n has the keys ks, and nothing else has changed.
OnlyLeaf(g, n, ks) ==
  /\ Tree(g, root) /\ (Adopted(nodes) => Adopted(g)) /\ DOMAIN g = DOMAIN nodes
  /\ n \in Leaves /\ g[n].keys = ks
  /\ \A m \in DOMAIN nodes : g[m].leaf = nodes[m].leaf
  /\ \A m \in DOMAIN nodes \ {n} : g[m].keys = nodes[m].keys

Filled(g, n, ks, vs) == g = [nodes EXCEPT ![n] = WithVals(nodes[n], ks, vs)]

LEMMA FilledLeaf ==
  ASSUME Tree(nodes, root), NEW n \in Leaves,
         NEW ks \in Seq(Keys), NEW vs \in Seq(RowIds), Len(ks) = Len(vs),
         NEW g, Filled(g, n, ks, vs)
  PROVE  OnlyLeaf(g, n, ks)
<1> DEFINE N == nodes[n]
           M == WithVals(N, ks, vs)
<1>1. n \in DOMAIN nodes /\ LeafNode(nodes[n]) /\ \A m \in DOMAIN nodes : WellFormed(nodes[m])
  BY TreeFacts DEF Leaves, LeafNode
<1>2. /\ WellFormed(M) /\ M.leaf = N.leaf /\ M.keys = ks
      /\ M.kids = N.kids /\ M.parent = N.parent
  <2>1. LeafNode(N)
    BY <1>1
  <2> HIDE DEF N
  <2> QED BY <2>1, LeafWith
<1>3. g = [nodes EXCEPT ![n] = M]
  BY DEF Filled
<1> HIDE DEF M
<1>4. DOMAIN g = DOMAIN nodes /\ g[n] = M /\ \A m \in DOMAIN nodes \ {n} : g[m] = nodes[m]
  BY <1>1, <1>3
<1>5. \A m \in DOMAIN nodes : /\ g[m].kids = nodes[m].kids /\ g[m].leaf = nodes[m].leaf
                              /\ g[m].parent = nodes[m].parent /\ WellFormed(g[m])
  BY <1>1, <1>2, <1>4
<1>6. Tree(g, root) /\ (Adopted(nodes) => Adopted(g))
  BY <1>4, <1>5, SameKids
<1>7. g[n].keys = ks /\ \A m \in DOMAIN nodes \ {n} : g[m].keys = nodes[m].keys
  BY <1>2, <1>4
<1>8. \A m \in DOMAIN nodes : g[m].leaf = nodes[m].leaf
  BY <1>5
<1> QED BY <1>4, <1>6, <1>7, <1>8 DEF OnlyLeaf

\* The leaf n may have c keys after the step.
MayHave(n, c) ==
  /\ call' = NoCall \/ call' = Overflow(n) \/ call' = Underflow(n)
  /\ call' = Overflow(n) => c > MaxKeys
  /\ call' = Underflow(n) => n # root
  /\ "stuck" \notin harm =>
       /\ c <= IF call' = Overflow(n) THEN LeafLimit + 1 ELSE LeafLimit
       /\ n # root => c >= IF call' = Underflow(n) THEN 1 ELSE 2
       /\ call' = Underflow(n) => c < MinKeys

LEMMA LeafChangeKeepsShape ==
  ASSUME Shape, call = NoCall, ~ub, NEW n, NEW ks, OnlyLeaf(nodes', n, ks),
         MayHave(n, Len(ks)), root' = root, harm' = harm
  PROVE  Shape'
<1>1. /\ Tree(nodes', root') /\ (Adopted(nodes) => Adopted(nodes'))
      /\ DOMAIN nodes' = DOMAIN nodes
      /\ n \in Leaves /\ n \in DOMAIN nodes /\ nodes'[n].keys = ks
      /\ \A m \in DOMAIN nodes : nodes'[m].leaf = nodes[m].leaf
      /\ \A m \in DOMAIN nodes \ {n} : nodes'[m].keys = nodes[m].keys
  BY DEF OnlyLeaf, Leaves
<1>2. CallFits'
  BY <1>1 DEF MayHave, CallFits
<1>3. Leaves' = Leaves /\ ~ub'
  BY <1>1 DEF Leaves, ub
<1>4. LeavesFit'
  <2> SUFFICES ASSUME "stuck" \notin harm, NEW m \in Leaves
               PROVE  /\ Len(nodes'[m].keys) <= IF call' = Overflow(m) THEN LeafLimit + 1 ELSE LeafLimit
                      /\ m # root => Len(nodes'[m].keys) >= IF call' = Underflow(m) \/ ub' THEN 1 ELSE 2
                      /\ call' = Underflow(m) => Len(nodes'[m].keys) < MinKeys
    BY <1>3 DEF LeavesFit
  <2>1. CASE m = n
    BY <2>1, <1>1, <1>3 DEF MayHave
  <2>2. CASE m # n
    <3>1. Small(nodes[m]) /\ (m # root => Two(nodes[m]))
      BY Idle DEF Fitting, Leaves
    <3>2. nodes'[m].keys = nodes[m].keys
      BY <1>1, <2>2 DEF Leaves
    <3>3. call' # Overflow(m) /\ call' # Underflow(m)
      BY <2>2, Calls DEF MayHave
    <3> QED BY <3>1, <3>2, <3>3, <1>3 DEF Small, Two
  <2> QED BY <2>1, <2>2
<1> QED BY <1>1, <1>2, <1>4 DEF Shape

\* What the keys and the row ids of a leaf look like.
LEMMA LeafFields ==
  ASSUME Shape, NEW n \in Leaves
  PROVE  /\ n \in DOMAIN nodes /\ nodes[n].leaf
         /\ nodes[n].keys \in Seq(Keys) /\ nodes[n].vals \in Seq(RowIds)
         /\ Len(nodes[n].vals) = Len(nodes[n].keys) /\ Len(nodes[n].keys) \in Nat
<1>1. n \in DOMAIN nodes /\ nodes[n].leaf /\ WellFormed(nodes[n])
  BY TreeFacts DEF Leaves, Shape
<1>2. nodes[n].keys \in Seq(Keys) /\ nodes[n].vals \in Seq(RowIds)
  BY <1>1, NodeFields DEF WellFormed
<1>3. Len(nodes[n].vals) = Len(nodes[n].keys)
  BY <1>1 DEF WellFormed
<1> QED BY <1>1, <1>2, <1>3, LenProperties

LEMMA InsertKeeps ==
  ASSUME Shape, NEW e \in Entries, Insert(e[1], e[2])
  PROVE  Shape'
<1> DEFINE k == e[1]
           r == e[2]
           n == findLeaf(k)
           i == lowerBound(nodes[n].keys, k)
           ks == InsertAt(nodes[n].keys, i, k)
           vs == InsertAt(nodes[n].vals, i, r)
<1>1. /\ call = NoCall /\ ~ub /\ root' = root /\ harm' = harm
      /\ nodes' = [nodes EXCEPT ![n].keys = InsertAt(@, i, k), ![n].vals = InsertAt(@, i, r)]
      /\ call' = IF Len(nodes[n].keys) + 1 > MaxKeys THEN Overflow(n) ELSE NoCall
  BY DEF Insert
<1>2. n \in Leaves /\ Tree(nodes, root)
  BY FindsALeaf DEF Shape
<1>3. k \in Keys /\ r \in RowIds
  BY DEF Keys, RowIds
<1> HIDE DEF n
<1>4. /\ n \in DOMAIN nodes /\ nodes[n].keys \in Seq(Keys) /\ nodes[n].vals \in Seq(RowIds)
      /\ Len(nodes[n].vals) = Len(nodes[n].keys) /\ Len(nodes[n].keys) \in Nat
  BY <1>2, LeafFields
<1>5. nodes' = [nodes EXCEPT ![n] = WithVals(nodes[n], ks, vs)]
  <2>1. nodes' = [nodes EXCEPT ![n].keys = InsertAt(@, i, k), ![n].vals = InsertAt(@, i, r)]
    BY <1>1
  <2> HIDE DEF i, k, r
  <2>2. ks = InsertAt(nodes[n].keys, i, k) /\ vs = InsertAt(nodes[n].vals, i, r)
    OBVIOUS
  <2> HIDE DEF ks, vs
  <2>3. nodes' = [nodes EXCEPT ![n].keys = ks, ![n].vals = vs]
    BY <2>1, <2>2
  <2> QED BY <2>3, <1>4 DEF WithVals
<1> DEFINE s == nodes[n].keys
           t == nodes[n].vals
<1>6. i \in 1 .. Len(s) + 1
  BY <1>4, PlaceFound
<1> HIDE DEF i, k, r, s, t
<1>7. ks = InsertAt(s, i, k) /\ vs = InsertAt(t, i, r)
  BY DEF s, t
<1>8. s \in Seq(Keys) /\ t \in Seq(RowIds) /\ Len(t) = Len(s) /\ i \in 1 .. Len(t) + 1
  BY <1>4, <1>6 DEF s, t
<1>9. /\ ks \in Seq(Keys) /\ Len(ks) = Len(s) + 1
  BY <1>3, <1>6, <1>7, <1>8, InsertAtFacts
<1>10. /\ vs \in Seq(RowIds) /\ Len(vs) = Len(t) + 1
  BY <1>3, <1>7, <1>8, InsertAtFacts
<1> HIDE DEF ks, vs
<1>11. OnlyLeaf(nodes', n, ks)
  <2>1. Len(ks) = Len(vs)
    BY <1>8, <1>9, <1>10
  <2>2. Filled(nodes', n, ks, vs)
    BY <1>5 DEF Filled
  <2> QED BY <1>2, <1>9, <1>10, <2>1, <2>2, FilledLeaf
<1>12. MayHave(n, Len(ks))
  <2> DEFINE c == Count(nodes[n])
  <2>1. c \in Nat /\ Len(ks) = c + 1
    BY <1>4, <1>9 DEF s, Count
  <2>2. "stuck" \notin harm => c <= LeafLimit /\ (n # root => c >= 2)
    BY <1>1, <1>2, <1>4, Idle DEF Fitting, Small, Two, Count, Leaves
  <2>3. call' = IF c + 1 > MaxKeys THEN Overflow(n) ELSE NoCall
    BY <1>1 DEF Count
  <2> HIDE DEF c
  <2>4. call' # Underflow(n) /\ (call' = Overflow(n) <=> c + 1 > MaxKeys)
    BY <2>3, Calls
  <2>5. c + 1 <= MaxKeys => c + 1 <= LeafLimit
    BY <2>1, Limits
  <2>6. "stuck" \notin harm => c + 1 <= IF call' = Overflow(n) THEN LeafLimit + 1 ELSE LeafLimit
    BY <2>1, <2>2, <2>4, <2>5, Limits
  <2>7. "stuck" \notin harm /\ n # root => c + 1 >= 2
    BY <2>1, <2>2
  <2> QED BY <2>1, <2>3, <2>4, <2>6, <2>7 DEF MayHave
<1> QED BY <1>1, <1>11, <1>12, LeafChangeKeepsShape

LEMMA EraseKeeps ==
  ASSUME Shape, NEW k \in Keys, Erase(k)
  PROVE  Shape'
<1> DEFINE n == findLeaf(k)
           hits == {i \in DOMAIN nodes[n].keys : nodes[n].keys[i] = k}
           i == CHOOSE h \in hits : \A j \in hits : h <= j
           ks == RemoveAt(nodes[n].keys, i)
           vs == RemoveAt(nodes[n].vals, i)
<1>1. /\ call = NoCall /\ ~ub /\ root' = root /\ harm' = harm /\ hits # {}
      /\ nodes' = [nodes EXCEPT ![n].keys = RemoveAt(@, i), ![n].vals = RemoveAt(@, i)]
      /\ call' = IF n # root /\ Len(nodes[n].keys) - 1 < MinKeys THEN Underflow(n) ELSE NoCall
  BY DEF Erase
<1>2. n \in Leaves /\ Tree(nodes, root)
  BY FindsALeaf DEF Shape
<1> HIDE DEF n
<1>4. /\ n \in DOMAIN nodes /\ nodes[n].keys \in Seq(Keys) /\ nodes[n].vals \in Seq(RowIds)
      /\ Len(nodes[n].vals) = Len(nodes[n].keys) /\ Len(nodes[n].keys) \in Nat
  BY <1>2, LeafFields
<1>5. nodes' = [nodes EXCEPT ![n] = WithVals(nodes[n], ks, vs)]
  <2>1. nodes' = [nodes EXCEPT ![n].keys = RemoveAt(@, i), ![n].vals = RemoveAt(@, i)]
    BY <1>1
  <2> HIDE DEF i
  <2>2. ks = RemoveAt(nodes[n].keys, i) /\ vs = RemoveAt(nodes[n].vals, i)
    OBVIOUS
  <2> HIDE DEF ks, vs
  <2>3. nodes' = [nodes EXCEPT ![n].keys = ks, ![n].vals = vs]
    BY <2>1, <2>2
  <2> QED BY <2>3, <1>4 DEF WithVals
<1> DEFINE s == nodes[n].keys
           t == nodes[n].vals
<1>6. i \in 1 .. Len(s)
  <2>1. hits \in SUBSET Nat /\ hits \subseteq 1 .. Len(s)
    BY <1>4, LenProperties
  <2> HIDE DEF hits
  <2>2. \E h \in hits : \A j \in hits : h <= j
    BY <1>1, <2>1, LeastOf
  <2>3. i \in hits
    BY <2>2
  <2> QED BY <2>1, <2>3
<1> HIDE DEF i, s, t
<1>7. ks = RemoveAt(s, i) /\ vs = RemoveAt(t, i)
  BY DEF s, t
<1>8. s \in Seq(Keys) /\ t \in Seq(RowIds) /\ Len(t) = Len(s) /\ i \in 1 .. Len(t)
  BY <1>4, <1>6 DEF s, t
<1>9. /\ ks \in Seq(Keys) /\ Len(ks) = Len(s) - 1
  BY <1>6, <1>7, <1>8, RemoveAtFacts
<1>10. /\ vs \in Seq(RowIds) /\ Len(vs) = Len(t) - 1
  BY <1>7, <1>8, RemoveAtFacts
<1> HIDE DEF ks, vs
<1>11. OnlyLeaf(nodes', n, ks)
  <2>1. Len(ks) = Len(vs)
    BY <1>8, <1>9, <1>10
  <2>2. Filled(nodes', n, ks, vs)
    BY <1>5 DEF Filled
  <2> QED BY <1>2, <1>9, <1>10, <2>1, <2>2, FilledLeaf
<1>12. MayHave(n, Len(ks))
  <2> DEFINE c == Count(nodes[n])
  <2>1. c \in Nat /\ Len(ks) = c - 1
    BY <1>4, <1>9 DEF s, Count
  <2>2. "stuck" \notin harm => c <= LeafLimit /\ (n # root => c >= 2)
    BY <1>1, <1>2, <1>4, Idle DEF Fitting, Small, Two, Count, Leaves
  <2>3. call' = IF n # root /\ c - 1 < MinKeys THEN Underflow(n) ELSE NoCall
    BY <1>1 DEF Count
  <2> HIDE DEF c
  <2>4. call' # Overflow(n) /\ (call' = Underflow(n) <=> n # root /\ c - 1 < MinKeys)
    BY <2>3, Calls
  <2>5. "stuck" \notin harm => c - 1 <= LeafLimit
    BY <2>1, <2>2, Limits
  <2>6. "stuck" \notin harm /\ n # root => c - 1 >= IF call' = Underflow(n) THEN 1 ELSE 2
    BY <2>1, <2>2, <2>4, Limits
  <2> QED BY <2>1, <2>3, <2>4, <2>5, <2>6 DEF MayHave
<1> QED BY <1>1, <1>11, <1>12, LeafChangeKeepsShape

-----------------------------------------------------------------------------
(* The tree keeps its shape *)

\* The empty leaf the constructor makes is a tree.
LEMMA InitShape ==
  ASSUME Init
  PROVE  Shape
<1> DEFINE N == Leaf(<< >>, << >>, NullPage, NullPage)
<1>1. /\ DOMAIN nodes = {0} /\ nodes[0] = N /\ root = 0 /\ call = NoCall /\ harm = {}
  BY DEF Init
<1>2. WellFormed(N) /\ N.leaf /\ N.kids = << >> /\ N.keys = << >> /\ N.parent = NullPage
  <2>1. << >> \in Seq(Keys) /\ << >> \in Seq(RowIds) /\ << >> \in Seq(NodeId)
    OBVIOUS
  <2> QED BY <2>1 DEF Leaf, WellFormed, Node
<1> HIDE DEF N
<1>3. 0 \in NodeId
  BY BTreeAssumption DEF NodeId
<1>4. Kids(nodes, 0) = {}
  BY <1>1, <1>2 DEF Kids, Range
<1>5. Linked(nodes, root)
  BY <1>1, <1>4 DEF Linked
<1>6. Rooted(nodes, root)
  BY <1>1, <1>2 DEF Rooted
<1>7. Level(nodes, [n \in DOMAIN nodes |-> 0])
  BY <1>1, <1>2, <1>4 DEF Level
<1>8. Tree(nodes, root)
  BY <1>1, <1>2, <1>3, <1>5, <1>6, <1>7 DEF Tree
<1>9. Adopted(nodes)
  BY <1>1, <1>4 DEF Adopted
<1>10. CallFits
  BY <1>1 DEF CallFits
<1>11. LeavesFit
  <2>1. \A n \in DOMAIN nodes : nodes[n].keys = << >> /\ n = root /\ call # Underflow(n)
    BY <1>1, <1>2, Calls
  <2>2. Len(<< >>) = 0 /\ LeafLimit \in Nat
    BY Limits
  <2> QED BY <2>1, <2>2 DEF LeavesFit, Leaves
<1> QED BY <1>1, <1>8, <1>9, <1>10, <1>11 DEF Shape

\* A step that changes nothing keeps every property of states.
LEMMA StutterKeeps ==
  ASSUME Shape, UNCHANGED vars
  PROVE  Shape'
<1>1. nodes' = nodes /\ root' = root /\ call' = call /\ harm' = harm
  BY DEF vars
<1>2. Tree(nodes', root') /\ CallFits' /\ harm' \subseteq Harms
      /\ ("orphaned" \notin harm' => Adopted(nodes'))
  BY <1>1 DEF Shape, CallFits
<1>3. LeavesFit'
  BY <1>1 DEF Shape, LeavesFit, Leaves, ub
<1> QED BY <1>2, <1>3 DEF Shape

LEMMA SplitsWithNobodyKeeps ==
  ASSUME Shape, NEW n, SplitsWithNobody(n)
  PROVE  Shape'
BY StuckKeeps DEF SplitsWithNobody

LEMMA ParentUnawareKeeps ==
  ASSUME Shape, NEW n, ParentUnaware(n)
  PROVE  Shape'
BY StuckKeeps DEF ParentUnaware

LEMMA NextKeepsShape ==
  ASSUME Shape, [Next]_vars
  PROVE  Shape'
<1>1. ASSUME NEW e \in Entries, Insert(e[1], e[2]) PROVE Shape'
  BY <1>1, InsertKeeps
<1>2. ASSUME NEW k \in Keys, Erase(k) PROVE Shape'
  BY <1>2, EraseKeeps
<1>3. ASSUME NEW n \in DOMAIN nodes,
             LeafRootSplits(n) \/ InnerRootSplits(n)
      PROVE  Shape'
  BY <1>3, LeafRootSplitsKeeps, InnerRootSplitsKeeps
<1>4. ASSUME NEW n \in DOMAIN nodes,
             \/ LeafGivesLeft(n) \/ LeafGivesRight(n)
             \/ LeafSplitsRight(n) \/ LeafSplitsLeft(n)
      PROVE  Shape'
  BY <1>4, LeafGivesLeftKeeps, LeafGivesRightKeeps, LeafSplitsRightKeeps, LeafSplitsLeftKeeps
<1>5. ASSUME NEW n \in DOMAIN nodes,
             \/ InnerTakesLeft(n) \/ InnerTakesRight(n)
             \/ InnerSplitsRight(n) \/ InnerSplitsLeft(n)
      PROVE  Shape'
  BY <1>5, InnerTakesLeftKeeps, InnerTakesRightKeeps, InnerSplitsRightKeeps, InnerSplitsLeftKeeps
<1>6. ASSUME NEW n \in DOMAIN nodes, SplitsWithNobody(n) \/ ParentUnaware(n)
      PROVE  Shape'
  BY <1>6, SplitsWithNobodyKeeps, ParentUnawareKeeps
<1>7. ASSUME NEW n \in DOMAIN nodes, tryBorrowLeft(n) \/ tryBorrowRight(n)
      PROVE  Shape'
  BY <1>7, BorrowLeftKeeps, BorrowRightKeeps
<1>8. ASSUME NEW n \in DOMAIN nodes,
             mergeWithLeft(n) \/ mergeWithRight(n) \/ mergeWithNobody(n)
      PROVE  Shape'
  BY <1>8, MergeWithLeftKeeps, MergeWithRightKeeps, MergeWithNobodyKeeps
<1>9. CASE UNCHANGED vars
  BY <1>9, StutterKeeps
<1>10. CASE Next
  <2>1. Client \/ Rebalance
    BY <1>10 DEF Next
  <2>2. Client => Shape'
    BY <1>1, <1>2 DEF Client
  <2>3. Rebalance => Shape'
    BY <1>3, <1>4, <1>5, <1>6, <1>7, <1>8 DEF Rebalance
  <2> QED BY <2>1, <2>2, <2>3
<1> QED BY <1>9, <1>10

\* Whatever is inserted and erased, the nodes form a tree of even depth, and
\* its leaves are neither too large nor too small (BTree, all operations).
THEOREM ShapeInvariant == Spec => []Shape
<1>1. Init => Shape
  BY InitShape
<1>2. Shape /\ [Next]_vars => Shape'
  BY NextKeepsShape
<1> QED BY <1>1, <1>2, PTL DEF Spec

\* The declared types of the tree's members hold in every state.
THEOREM TypeCorrect == Spec => []TypeOK
<1>1. Shape => TypeOK
  <2> SUFFICES ASSUME Shape PROVE TypeOK
    OBVIOUS
  <2>1. DOMAIN nodes \subseteq NodeId /\ root \in NodeId
    BY TreeFacts DEF Shape
  <2>2. ASSUME NEW n \in DOMAIN nodes
        PROVE  /\ nodes[n].leaf \in BOOLEAN
               /\ nodes[n].keys \in Seq(Keys) /\ nodes[n].vals \in Seq(RowIds)
               /\ nodes[n].kids \in Seq(NodeId)
               /\ nodes[n].parent \in NodeId \cup {NullPage}
               /\ nodes[n].next \in NodeId \cup {NullPage}
    <3>1. nodes[n] \in Node
      BY TreeFacts DEF Shape, WellFormed
    <3> QED BY <3>1, NodeFields
  <2>3. call = NoCall \/ \E n \in DOMAIN nodes : call = Overflow(n) \/ call = Underflow(n)
    BY DEF Shape, CallFits
  <2>4. call.fn \in {"none", "overflow", "underflow"} /\ call.node \in NodeId \cup {NullPage}
    <3>1. CASE call = NoCall
      BY <3>1 DEF NoCall
    <3>2. ASSUME NEW n \in DOMAIN nodes, call = Overflow(n) \/ call = Underflow(n)
          PROVE  call.fn \in {"none", "overflow", "underflow"}
                 /\ call.node \in NodeId \cup {NullPage}
      BY <2>1, <3>2 DEF Overflow, Underflow
    <3> QED BY <2>3, <3>1, <3>2
  <2>5. harm \subseteq Harms
    BY DEF Shape
  <2> QED BY <2>1, <2>2, <2>4, <2>5 DEF TypeOK
<1> QED BY <1>1, ShapeInvariant, PTL

\* No leaf but the root is ever empty, and none outgrows two merged siblings
\* once the splits and merges of a call are done (redistributeOrSplitLeaf,
\* fixUnderflow).
THEOREM LeafSizesHold == Spec => []LeafSizes
<1>1. Shape => LeafSizes
  <2> SUFFICES ASSUME Shape, "stuck" \notin harm, NEW n \in Leaves
               PROVE  /\ n # root => nodes[n].keys # << >>
                      /\ call = NoCall => Len(nodes[n].keys) <= LeafLimit
    BY DEF LeafSizes, LeafLimit
  <2>1. /\ Len(nodes[n].keys) <= IF call = Overflow(n) THEN LeafLimit + 1 ELSE LeafLimit
        /\ n # root => Len(nodes[n].keys) >= IF call = Underflow(n) \/ ub THEN 1 ELSE 2
    BY DEF Shape, LeavesFit
  <2>2. call = NoCall => Len(nodes[n].keys) <= LeafLimit
    BY <2>1, Calls
  <2>3. n # root => Len(nodes[n].keys) >= 1
    BY <2>1
  <2>4. Len(<< >>) = 0
    OBVIOUS
  <2> QED BY <2>2, <2>3, <2>4
<1> QED BY <1>1, ShapeInvariant, PTL

\* The nodes that list a node are at most one.
LEMMA OneLister ==
  ASSUME Tree(nodes, root), NEW n \in DOMAIN nodes
  PROVE  /\ n = root => Listers(n) = {}
         /\ n # root => \E p \in DOMAIN nodes : Listers(n) = {p} /\ n \in Kids(nodes, p)
<1>1. /\ \A p \in DOMAIN nodes : Kids(nodes, p) \subseteq DOMAIN nodes \ {root}
      /\ \A m \in DOMAIN nodes \ {root} : \E p \in DOMAIN nodes : m \in Kids(nodes, p)
      /\ \A p, q \in DOMAIN nodes : p # q => Kids(nodes, p) \cap Kids(nodes, q) = {}
  BY DEF Tree, Linked
<1>2. Listers(n) = {p \in DOMAIN nodes : n \in Kids(nodes, p)}
  BY DEF Listers, Kids
<1>3. CASE n = root
  BY <1>1, <1>2, <1>3
<1>4. CASE n # root
  <2>1. PICK p \in DOMAIN nodes : n \in Kids(nodes, p)
    BY <1>1, <1>4
  <2>2. \A q \in DOMAIN nodes : n \in Kids(nodes, q) => q = p
    BY <1>1, <2>1
  <2> QED BY <1>2, <2>1, <2>2, <1>4
<1> QED BY <1>3, <1>4

\* A node lies as deep as it lies below the root.
LEMMA DepthIs ==
  ASSUME Tree(nodes, root), NEW h, Level(nodes, h), NEW n \in DOMAIN nodes
  PROVE  Depth(n) = h[root] - h[n]
<1> DEFINE D == DOMAIN nodes
           up(m) == CHOOSE p \in Listers(m) : TRUE
           Depths(g) == g = [m \in D |-> IF Listers(m) = {} THEN 0 ELSE g[up(m)] + 1]
           e == [m \in D |-> h[root] - h[m]]
<1>1. /\ h \in [D -> Nat] /\ root \in D /\ D \subseteq NodeId
      /\ \A m \in D : \A c \in Kids(nodes, m) : h[m] = h[c] + 1
  BY TreeFacts DEF Level
<1>2. ASSUME NEW m \in D
      PROVE  /\ Listers(m) = {} <=> m = root
             /\ m # root => up(m) \in D /\ h[up(m)] = h[m] + 1
  <2>1. m = root => Listers(m) = {}
    BY OneLister
  <2>2. ASSUME m # root PROVE Listers(m) # {} /\ up(m) \in D /\ h[up(m)] = h[m] + 1
    <3>1. PICK p \in D : Listers(m) = {p} /\ m \in Kids(nodes, p)
      BY <2>2, OneLister
    <3>2. up(m) = p
      BY <3>1
    <3> QED BY <3>1, <3>2, <1>1
  <2> QED BY <2>1, <2>2
<1>3. Depths(e)
  <2>1. ASSUME NEW m \in D
        PROVE  e[m] = IF Listers(m) = {} THEN 0 ELSE e[up(m)] + 1
    <3>1. CASE m = root
      BY <3>1, <1>1, <1>2
    <3>2. CASE m # root
      <4>1. up(m) \in D /\ h[up(m)] = h[m] + 1 /\ Listers(m) # {}
        BY <3>2, <1>2
      <4>2. e[m] = h[root] - h[m] /\ e[up(m)] = h[root] - h[up(m)]
        BY <4>1
      <4>3. h[m] \in Nat /\ h[root] \in Nat
        BY <1>1
      <4> HIDE DEF up, e
      <4> QED BY <4>1, <4>2, <4>3
    <3> QED BY <3>1, <3>2
  <2> QED BY <2>1
<1> HIDE DEF e
<1>4. ASSUME NEW d, Depths(d)
      PROVE  d[n] = h[root] - h[n]
  <2>1. PICK b \in Nat : \A m \in D : h[m] <= b
    BY <1>1, HeightBound
  <2> DEFINE Bad == {b - h[m] : m \in {x \in D : d[x] # h[root] - h[x]}}
  <2>2. Bad \in SUBSET Nat
    BY <1>1, <2>1
  <2>3. Bad = {}
    <3> SUFFICES ASSUME Bad # {} PROVE FALSE
      OBVIOUS
    <3>1. PICK k \in Bad : \A j \in Bad : k <= j
      BY <2>2, LeastOf
    <3>2. PICK m \in D : d[m] # h[root] - h[m] /\ b - h[m] = k
      BY <3>1
    <3>3. d[m] = IF Listers(m) = {} THEN 0 ELSE d[up(m)] + 1
      BY <1>4
    <3>4. h[m] \in Nat /\ h[root] \in Nat
      BY <1>1
    <3>5. m # root
      <4>1. m = root => d[m] = 0
        BY <3>3, <1>2
      <4> QED BY <4>1, <3>2, <3>4
    <3> DEFINE p == up(m)
    <3>6. p \in D /\ h[p] = h[m] + 1 /\ d[m] = d[p] + 1
      BY <3>3, <3>5, <1>2
    <3> HIDE DEF p
    <3>7. d[p] # h[root] - h[p]
      BY <3>2, <3>4, <3>6
    <3>8. b - h[p] \in Bad
      BY <3>6, <3>7
    <3>9. b - h[p] < k
      BY <3>2, <3>4, <3>6, <2>1
    <3>10. k <= b - h[p]
      BY <3>1, <3>8
    <3>11. k \in Nat /\ b - h[p] \in Int
      BY <2>2, <3>1, <3>4, <3>6
    <3> QED BY <3>9, <3>10, <3>11
  <2> QED BY <2>3
<1>5. Depth(n) = (CHOOSE g : Depths(g))[n]
  BY DEF Depth
<1>6. Depths(CHOOSE g : Depths(g))
  BY <1>3
<1> QED BY <1>4, <1>5, <1>6

\* Every path from the root to a leaf is equally long, whatever order the
\* splits and merges come in.
THEOREM EvenlyDeep == Spec => []EvenDepth
<1>1. Shape => EvenDepth
  <2> SUFFICES ASSUME Shape PROVE EvenDepth
    OBVIOUS
  <2>1. Tree(nodes, root)
    BY DEF Shape
  <2>2. PICK h : Level(nodes, h)
    BY <2>1 DEF Tree
  <2>3. \A n \in Leaves : Depth(n) = h[root]
    <3> TAKE n \in Leaves
    <3>1. n \in DOMAIN nodes /\ nodes[n].leaf
      BY DEF Leaves
    <3>2. h[n] = 0 /\ h[root] \in Nat
      BY <2>1, <2>2, <3>1, TreeFacts DEF Level
    <3>3. Depth(n) = h[root] - h[n]
      BY <2>1, <2>2, <3>1, DepthIs
    <3> QED BY <3>2, <3>3
  <2>4. Leaves # {}
    BY <2>1, FindsALeaf
  <2>5. h[root] \in {Depth(n) : n \in Leaves}
    BY <2>3, <2>4
  <2> QED BY <2>3, <2>5 DEF EvenDepth
<1> QED BY <1>1, ShapeInvariant, PTL

=============================================================================
