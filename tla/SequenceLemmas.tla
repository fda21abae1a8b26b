--------------------------- MODULE SequenceLemmas ---------------------------
(***************************************************************************)
(* What the proofs need to know of sequences, whatever they are about, and *)
(* of functions that recurse: f goes from each argument to a lower one     *)
(* until it comes to one whose value is given.  That there is such an f,   *)
(* and that what is true where it ends is true of all its values, is       *)
(* proved once here by induction over a bound of the descent.              *)
(***************************************************************************)
EXTENDS Integers, Sequences, SequencesExt, FiniteSetTheorems, SequenceTheorems,
        WellFoundedInduction, TLAPS

-----------------------------------------------------------------------------
(* Lemmas about sequences *)

\* What SubSeq takes out of a sequence.
LEMMA SubFacts ==
  ASSUME NEW S, NEW s \in Seq(S), NEW a \in Int, NEW b \in Int,
         1 <= a, a <= b + 1, b <= Len(s)
  PROVE  /\ SubSeq(s, a, b) \in Seq(S)
         /\ Len(SubSeq(s, a, b)) = b - a + 1
         /\ \A i \in 1 .. b - a + 1 : SubSeq(s, a, b)[i] = s[a + i - 1]
<1>1. \A i \in a .. b : s[i] \in S
  BY ElementOfSeq
<1>2. /\ SubSeq(s, a, b) \in Seq(S)
      /\ Len(SubSeq(s, a, b)) = IF a <= b THEN b - a + 1 ELSE 0
      /\ \A i \in 1 .. b - a + 1 : SubSeq(s, a, b)[i] = s[a + i - 1]
  BY <1>1, SubSeqProperties
<1> QED BY <1>2

\* Taking the last element away.
LEMMA FrontFacts ==
  ASSUME NEW S, NEW s \in Seq(S), s # << >>
  PROVE  /\ Front(s) \in Seq(S) /\ Len(Front(s)) = Len(s) - 1
         /\ \A i \in 1 .. Len(s) - 1 : Front(s)[i] = s[i]
         /\ Last(s) \in S /\ Last(s) = s[Len(s)]
<1> DEFINE b == Len(s) - 1
<1>1. Len(s) \in Nat \ {0}
  BY EmptySeq
<1>2. b \in Int /\ 1 <= b + 1 /\ b <= Len(s) /\ b - 1 + 1 = b /\ b + 1 = Len(s)
  BY <1>1
<1>3. s[Len(s)] \in S
  BY <1>1, ElementOfSeq
<1> HIDE DEF b
<1>4. /\ SubSeq(s, 1, b) \in Seq(S)
      /\ Len(SubSeq(s, 1, b)) = b
      /\ \A i \in 1 .. b : SubSeq(s, 1, b)[i] = s[1 + i - 1]
  BY <1>2, SubFacts
<1>5. \A i \in 1 .. b : SubSeq(s, 1, b)[i] = s[i]
  BY <1>2, <1>4
<1> QED BY <1>1, <1>3, <1>4, <1>5 DEF Front, Last, b

\* Putting an element before the first.
LEMMA PushFacts ==
  ASSUME NEW S, NEW s \in Seq(S), NEW e \in S
  PROVE  /\ <<e>> \o s \in Seq(S) /\ Len(<<e>> \o s) = Len(s) + 1
         /\ (<<e>> \o s)[1] = e
         /\ \A i \in 2 .. Len(s) + 1 : (<<e>> \o s)[i] = s[i - 1]
<1>1. <<e>> \in Seq(S) /\ Len(<<e>>) = 1 /\ <<e>>[1] = e
  OBVIOUS
<1>2. /\ <<e>> \o s \in Seq(S)
      /\ Len(<<e>> \o s) = 1 + Len(s)
      /\ \A i \in 1 .. 1 + Len(s) : (<<e>> \o s)[i] = IF i <= 1 THEN <<e>>[i] ELSE s[i - 1]
  BY <1>1, ConcatProperties
<1>3. Len(s) \in Nat
  BY LenProperties
<1> QED BY <1>1, <1>2, <1>3

\* Putting an element at position i.
LEMMA InsertAtFacts ==
  ASSUME NEW S, NEW s \in Seq(S), NEW e \in S, NEW i \in 1 .. Len(s) + 1
  PROVE  /\ InsertAt(s, i, e) \in Seq(S) /\ Len(InsertAt(s, i, e)) = Len(s) + 1
         /\ \A j \in 1 .. i - 1 : InsertAt(s, i, e)[j] = s[j]
         /\ InsertAt(s, i, e)[i] = e
         /\ \A j \in i + 1 .. Len(s) + 1 : InsertAt(s, i, e)[j] = s[j - 1]
<1> DEFINE a == SubSeq(s, 1, i - 1)
           c == SubSeq(s, i, Len(s))
           ae == a \o <<e>>
<1>0. Len(s) \in Nat
  BY LenProperties
<1>1. /\ a \in Seq(S) /\ Len(a) = i - 1 - 1 + 1
      /\ \A j \in 1 .. i - 1 - 1 + 1 : a[j] = s[1 + j - 1]
  BY <1>0, SubFacts
<1>2. /\ c \in Seq(S) /\ Len(c) = Len(s) - i + 1
      /\ \A j \in 1 .. Len(s) - i + 1 : c[j] = s[i + j - 1]
  BY <1>0, SubFacts
<1>3. <<e>> \in Seq(S) /\ Len(<<e>>) = 1 /\ <<e>>[1] = e
  OBVIOUS
<1> HIDE DEF a, c
<1>4. /\ ae \in Seq(S) /\ Len(ae) = Len(a) + 1
      /\ \A j \in 1 .. Len(a) + 1 : ae[j] = IF j <= Len(a) THEN a[j] ELSE <<e>>[j - Len(a)]
  BY <1>1, <1>3, ConcatProperties
<1> HIDE DEF ae
<1>5. /\ ae \o c \in Seq(S) /\ Len(ae \o c) = Len(ae) + Len(c)
      /\ \A j \in 1 .. Len(ae) + Len(c) :
           (ae \o c)[j] = IF j <= Len(ae) THEN ae[j] ELSE c[j - Len(ae)]
  BY <1>2, <1>4, ConcatProperties
<1>6. InsertAt(s, i, e) = ae \o c
  BY DEF InsertAt, ae, a, c
<1> HIDE DEF InsertAt
<1>7. Len(a) = i - 1 /\ Len(ae) = i /\ Len(c) = Len(s) - i + 1
  BY <1>0, <1>1, <1>2, <1>4
<1>8. ASSUME NEW j \in 1 .. i - 1
      PROVE  (ae \o c)[j] = s[j]
  <2>1. j \in 1 .. Len(a) + 1 /\ j <= Len(a) /\ j \in 1 .. Len(ae) + Len(c) /\ j <= Len(ae)
    BY <1>0, <1>7
  <2>2. a[j] = s[j]
    BY <1>0, <1>1
  <2> QED BY <2>1, <2>2, <1>4, <1>5
<1>9. (ae \o c)[i] = e
  BY <1>0, <1>3, <1>4, <1>5, <1>7
<1>10. \A j \in i + 1 .. Len(s) + 1 : (ae \o c)[j] = s[j - 1]
  BY <1>0, <1>2, <1>5, <1>7
<1> QED BY <1>0, <1>5, <1>6, <1>7, <1>8, <1>9, <1>10

\* Taking out the element at position i.
LEMMA RemoveAtFacts ==
  ASSUME NEW S, NEW s \in Seq(S), NEW i \in 1 .. Len(s)
  PROVE  /\ RemoveAt(s, i) \in Seq(S) /\ Len(RemoveAt(s, i)) = Len(s) - 1
         /\ \A j \in 1 .. i - 1 : RemoveAt(s, i)[j] = s[j]
         /\ \A j \in i .. Len(s) - 1 : RemoveAt(s, i)[j] = s[j + 1]
<1> DEFINE a == SubSeq(s, 1, i - 1)
           c == SubSeq(s, i + 1, Len(s))
<1>0. Len(s) \in Nat
  BY LenProperties
<1>1. /\ a \in Seq(S) /\ Len(a) = i - 1 - 1 + 1
      /\ \A j \in 1 .. i - 1 - 1 + 1 : a[j] = s[1 + j - 1]
  BY <1>0, SubFacts
<1>2. /\ c \in Seq(S) /\ Len(c) = Len(s) - (i + 1) + 1
      /\ \A j \in 1 .. Len(s) - (i + 1) + 1 : c[j] = s[i + 1 + j - 1]
  BY <1>0, SubFacts
<1> HIDE DEF a, c
<1>5. /\ a \o c \in Seq(S) /\ Len(a \o c) = Len(a) + Len(c)
      /\ \A j \in 1 .. Len(a) + Len(c) :
           (a \o c)[j] = IF j <= Len(a) THEN a[j] ELSE c[j - Len(a)]
  BY <1>1, <1>2, ConcatProperties
<1>6. RemoveAt(s, i) = a \o c
  BY DEF RemoveAt, a, c
<1> HIDE DEF RemoveAt
<1>7. Len(a) = i - 1 /\ Len(c) = Len(s) - i
  BY <1>0, <1>1, <1>2
<1>8. \A j \in 1 .. i - 1 : (a \o c)[j] = s[j]
  BY <1>0, <1>1, <1>5, <1>7
<1>10. \A j \in i .. Len(s) - 1 : (a \o c)[j] = s[j + 1]
  BY <1>0, <1>2, <1>5, <1>7
<1>11. Len(a) + Len(c) = Len(s) - 1
  BY <1>0, <1>7
<1> QED BY <1>5, <1>6, <1>8, <1>10, <1>11

\* Range and injectivity of a sequence, by its positions.
LEMMA Positions ==
  ASSUME NEW S, NEW s \in Seq(S)
  PROVE  /\ Range(s) = {s[i] : i \in 1 .. Len(s)}
         /\ Range(s) \subseteq S
         /\ IsInjective(s) <=> \A i, j \in 1 .. Len(s) : s[i] = s[j] => i = j
<1>1. DOMAIN s = 1 .. Len(s)
  BY LenProperties
<1>2. \A i \in 1 .. Len(s) : s[i] \in S
  BY ElementOfSeq
<1>3. Range(s) = {s[i] : i \in 1 .. Len(s)}
  BY <1>1 DEF Range
<1> QED BY <1>1, <1>2, <1>3 DEF IsInjective

\* The elements of a sequence without its last one.
LEMMA FrontKids ==
  ASSUME NEW S, NEW s \in Seq(S), s # << >>, IsInjective(s)
  PROVE  /\ Range(Front(s)) = Range(s) \ {Last(s)} /\ Last(s) \in Range(s)
         /\ IsInjective(Front(s))
<1>1. /\ Front(s) \in Seq(S) /\ Len(Front(s)) = Len(s) - 1
      /\ \A i \in 1 .. Len(s) - 1 : Front(s)[i] = s[i]
      /\ Last(s) = s[Len(s)] /\ Len(s) \in Nat \ {0}
  BY FrontFacts, EmptySeq
<1>2. /\ Range(s) = {s[i] : i \in 1 .. Len(s)}
      /\ \A i, j \in 1 .. Len(s) : s[i] = s[j] => i = j
  BY Positions
<1>3. /\ Range(Front(s)) = {Front(s)[i] : i \in 1 .. Len(Front(s))}
      /\ IsInjective(Front(s))
           <=> \A i, j \in 1 .. Len(Front(s)) : Front(s)[i] = Front(s)[j] => i = j
  BY <1>1, Positions
<1> QED BY <1>1, <1>2, <1>3

\* The elements of two sequences, one after the other.
LEMMA CatKids ==
  ASSUME NEW S, NEW s \in Seq(S), NEW t \in Seq(S), IsInjective(s), IsInjective(t),
         Range(s) \cap Range(t) = {}
  PROVE  /\ s \o t \in Seq(S) /\ Len(s \o t) = Len(s) + Len(t)
         /\ Range(s \o t) = Range(s) \cup Range(t)
         /\ IsInjective(s \o t)
<1>1. /\ s \o t \in Seq(S) /\ Len(s \o t) = Len(s) + Len(t)
      /\ \A i \in 1 .. Len(s) + Len(t) :
           (s \o t)[i] = IF i <= Len(s) THEN s[i] ELSE t[i - Len(s)]
      /\ Len(s) \in Nat /\ Len(t) \in Nat
  BY ConcatProperties, LenProperties
<1>2. /\ Range(s) = {s[i] : i \in 1 .. Len(s)}
      /\ \A i, j \in 1 .. Len(s) : s[i] = s[j] => i = j
  BY Positions
<1>3. /\ Range(t) = {t[i] : i \in 1 .. Len(t)}
      /\ \A i, j \in 1 .. Len(t) : t[i] = t[j] => i = j
  BY Positions
<1>4. IsInjective(s \o t)
        <=> \A i, j \in 1 .. Len(s \o t) : (s \o t)[i] = (s \o t)[j] => i = j
  BY <1>1, Positions
<1>5. ASSUME NEW i \in 1 .. Len(s) + Len(t), NEW j \in 1 .. Len(s) + Len(t),
             (s \o t)[i] = (s \o t)[j]
      PROVE  i = j
  <2>1. CASE i <= Len(s) /\ j <= Len(s)
    BY <2>1, <1>1, <1>2, <1>5
  <2>2. CASE i > Len(s) /\ j > Len(s)
    <3>1. i - Len(s) \in 1 .. Len(t) /\ j - Len(s) \in 1 .. Len(t)
      BY <2>2, <1>1
    <3>2. t[i - Len(s)] = t[j - Len(s)]
      BY <2>2, <1>1, <1>5
    <3>3. i - Len(s) = j - Len(s)
      BY <3>1, <3>2, <1>3
    <3> QED BY <3>3, <1>1
  <2>3. CASE i <= Len(s) /\ j > Len(s)
    <3>1. (s \o t)[i] \in Range(s) /\ (s \o t)[j] \in Range(t)
      <4>1. i \in 1 .. Len(s) /\ j - Len(s) \in 1 .. Len(t)
        BY <2>3, <1>1
      <4> QED BY <4>1, <2>3, <1>1, <1>2, <1>3
    <3> QED BY <3>1, <1>5
  <2>4. CASE i > Len(s) /\ j <= Len(s)
    <3>1. (s \o t)[j] \in Range(s) /\ (s \o t)[i] \in Range(t)
      <4>1. j \in 1 .. Len(s) /\ i - Len(s) \in 1 .. Len(t)
        BY <2>4, <1>1
      <4> QED BY <4>1, <2>4, <1>1, <1>2, <1>3
    <3> QED BY <3>1, <1>5
  <2> QED BY <2>1, <2>2, <2>3, <2>4, <1>1
<1>6. Range(s \o t) = Range(s) \cup Range(t)
  BY RangeConcatenation
<1> QED BY <1>1, <1>4, <1>5, <1>6

\* One element alone.
LEMMA OneKid ==
  ASSUME NEW S, NEW e \in S
  PROVE  <<e>> \in Seq(S) /\ Len(<<e>>) = 1 /\ Range(<<e>>) = {e} /\ IsInjective(<<e>>)
<1>1. <<e>> \in Seq(S) /\ Len(<<e>>) = 1 /\ <<e>>[1] = e
  OBVIOUS
<1>2. /\ Range(<<e>>) = {<<e>>[i] : i \in 1 .. Len(<<e>>)}
      /\ IsInjective(<<e>>) <=> \A i, j \in 1 .. Len(<<e>>) : <<e>>[i] = <<e>>[j] => i = j
  BY <1>1, Positions
<1> QED BY <1>1, <1>2

\* The elements of a sequence with one put before the first.
LEMMA PushKids ==
  ASSUME NEW S, NEW s \in Seq(S), NEW e \in S, IsInjective(s), e \notin Range(s)
  PROVE  /\ <<e>> \o s \in Seq(S) /\ Len(<<e>> \o s) = Len(s) + 1
         /\ Range(<<e>> \o s) = Range(s) \cup {e} /\ IsInjective(<<e>> \o s)
<1> DEFINE one == <<e>>
<1>1. one \in Seq(S) /\ Len(one) = 1 /\ Range(one) = {e} /\ IsInjective(one)
  BY OneKid
<1> HIDE DEF one
<1>3. Range(one) \cap Range(s) = {}
  BY <1>1
<1>4. /\ one \o s \in Seq(S) /\ Len(one \o s) = Len(one) + Len(s)
      /\ Range(one \o s) = Range(one) \cup Range(s) /\ IsInjective(one \o s)
  BY <1>1, <1>3, CatKids
<1>6. Len(s) \in Nat
  BY LenProperties
<1>7. /\ one \o s \in Seq(S) /\ Len(one \o s) = Len(s) + 1
      /\ Range(one \o s) = Range(s) \cup {e} /\ IsInjective(one \o s)
  BY <1>1, <1>4, <1>6
<1> QED BY <1>7 DEF one

\* The elements of a sequence with one put after the last.  (The provers
\* match a lemma about this name where they take Append apart.)
AtEnd(s, e) == Append(s, e)
LEMMA AppendKids ==
  ASSUME NEW S, NEW s \in Seq(S), NEW e \in S, IsInjective(s), e \notin Range(s)
  PROVE  /\ AtEnd(s, e) \in Seq(S) /\ Len(AtEnd(s, e)) = Len(s) + 1
         /\ Range(AtEnd(s, e)) = Range(s) \cup {e} /\ IsInjective(AtEnd(s, e))
<1> DEFINE one == <<e>>
<1>1. one \in Seq(S) /\ Len(one) = 1 /\ Range(one) = {e} /\ IsInjective(one)
  BY OneKid
<1>2. AtEnd(s, e) = s \o one
  BY AppendIsConcat DEF AtEnd
<1> HIDE DEF one
<1>3. Range(s) \cap Range(one) = {}
  BY <1>1
<1>4. /\ s \o one \in Seq(S) /\ Len(s \o one) = Len(s) + Len(one)
      /\ Range(s \o one) = Range(s) \cup Range(one) /\ IsInjective(s \o one)
  BY <1>1, <1>3, CatKids
<1>6. Len(s) \in Nat
  BY LenProperties
<1>7. /\ s \o one \in Seq(S) /\ Len(s \o one) = Len(s) + 1
      /\ Range(s \o one) = Range(s) \cup {e} /\ IsInjective(s \o one)
  BY <1>1, <1>4, <1>6
<1> QED BY <1>2, <1>7

\* A part of a sequence has some of its elements.
LEMMA SubKids ==
  ASSUME NEW S, NEW s \in Seq(S), NEW a \in Int, NEW b \in Int,
         1 <= a, a <= b + 1, b <= Len(s), IsInjective(s)
  PROVE  /\ Range(SubSeq(s, a, b)) = {s[i] : i \in a .. b}
         /\ IsInjective(SubSeq(s, a, b))
<1> DEFINE t == SubSeq(s, a, b)
<1>1. /\ t \in Seq(S) /\ Len(t) = b - a + 1 /\ Len(s) \in Nat
      /\ \A i \in 1 .. b - a + 1 : t[i] = s[a + i - 1]
  BY SubFacts, LenProperties
<1> HIDE DEF t
<1>2. \A i, j \in 1 .. Len(s) : s[i] = s[j] => i = j
  BY Positions
<1>3. /\ Range(t) = {t[i] : i \in 1 .. Len(t)}
      /\ IsInjective(t) <=> \A i, j \in 1 .. Len(t) : t[i] = t[j] => i = j
  BY <1>1, Positions
<1>4. \A i \in 1 .. b - a + 1 : a + i - 1 \in a .. b /\ t[i] = s[a + i - 1]
  <2>1. \A i \in 1 .. b - a + 1 : a + i - 1 \in a .. b
    OBVIOUS
  <2> QED BY <2>1, <1>1
<1>5. \A i \in a .. b : i - a + 1 \in 1 .. b - a + 1 /\ t[i - a + 1] = s[i]
  <2> TAKE i \in a .. b
  <2>1. i - a + 1 \in 1 .. b - a + 1 /\ a + (i - a + 1) - 1 = i
    OBVIOUS
  <2> QED BY <2>1, <1>4
<1>6. Range(t) = {s[i] : i \in a .. b}
  <2>1. Range(t) = {t[i] : i \in 1 .. b - a + 1}
    BY <1>1, <1>3
  <2>2. {t[i] : i \in 1 .. b - a + 1} \subseteq {s[i] : i \in a .. b}
    BY <1>4
  <2>3. {s[i] : i \in a .. b} \subseteq {t[i] : i \in 1 .. b - a + 1}
    BY <1>5
  <2> QED BY <2>1, <2>2, <2>3
<1>7. ASSUME NEW i \in 1 .. Len(t), NEW j \in 1 .. Len(t), t[i] = t[j]
      PROVE  i = j
  <2>1. /\ a + i - 1 \in 1 .. Len(s) /\ a + j - 1 \in 1 .. Len(s)
        /\ s[a + i - 1] = s[a + j - 1]
    BY <1>1, <1>4, <1>7
  <2>2. a + i - 1 = a + j - 1
    BY <2>1, <1>2
  <2> QED BY <2>2
<1> QED BY <1>3, <1>6, <1>7 DEF t

\* The elements of a sequence without its first one.
LEMMA TailKids ==
  ASSUME NEW S, NEW s \in Seq(S), s # << >>, IsInjective(s)
  PROVE  /\ Tail(s) \in Seq(S) /\ Len(Tail(s)) = Len(s) - 1
         /\ Range(Tail(s)) = Range(s) \ {Head(s)} /\ Head(s) \in Range(s)
         /\ IsInjective(Tail(s))
<1>1. /\ Tail(s) \in Seq(S) /\ Len(Tail(s)) = Len(s) - 1
      /\ Head(s) = s[1] /\ Len(s) \in Nat \ {0}
  BY HeadTailProperties, EmptySeq
<1>2. /\ Range(s) = {s[i] : i \in 1 .. Len(s)}
      /\ \A i, j \in 1 .. Len(s) : s[i] = s[j] => i = j
  BY Positions
<1>3. Tail(s) = SubSeq(s, 2, Len(s))
  BY TailIsSubSeq
<1>4. /\ Range(SubSeq(s, 2, Len(s))) = {s[i] : i \in 2 .. Len(s)}
      /\ IsInjective(SubSeq(s, 2, Len(s)))
  <2>1. 2 \in Int /\ Len(s) \in Int /\ 1 <= 2 /\ 2 <= Len(s) + 1 /\ Len(s) <= Len(s)
    BY <1>1
  <2> QED BY <2>1, SubKids
<1>5. {s[i] : i \in 2 .. Len(s)} = {s[i] : i \in 1 .. Len(s)} \ {s[1]}
  <2>1. \A i \in 2 .. Len(s) : i \in 1 .. Len(s) /\ i # 1 /\ 1 \in 1 .. Len(s)
    BY <1>1
  <2>2. \A i \in 1 .. Len(s) : i = 1 \/ i \in 2 .. Len(s)
    BY <1>1
  <2> QED BY <2>1, <2>2, <1>2
<1>6. s[1] \in Range(s)
  BY <1>1, <1>2
<1> QED BY <1>1, <1>2, <1>3, <1>4, <1>5, <1>6

\* The elements of a sequence with one put at position i.
LEMMA InsertKids ==
  ASSUME NEW S, NEW s \in Seq(S), NEW e \in S, NEW i \in 1 .. Len(s) + 1,
         IsInjective(s), e \notin Range(s)
  PROVE  /\ Range(InsertAt(s, i, e)) = Range(s) \cup {e}
         /\ IsInjective(InsertAt(s, i, e))
<1> DEFINE a == SubSeq(s, 1, i - 1)
           c == SubSeq(s, i, Len(s))
<1>0. Len(s) \in Nat
  BY LenProperties
<1>1. /\ 1 \in Int /\ i - 1 \in Int /\ i \in Int /\ Len(s) \in Int
      /\ 1 <= 1 /\ 1 <= i - 1 + 1 /\ i - 1 <= Len(s)
      /\ 1 <= i /\ i <= Len(s) + 1 /\ Len(s) <= Len(s)
  BY <1>0
<1>2. /\ a \in Seq(S) /\ Range(a) = {s[j] : j \in 1 .. i - 1} /\ IsInjective(a)
  <2>1. a \in Seq(S)
    BY <1>1, SubFacts
  <2>2. Range(a) = {s[j] : j \in 1 .. i - 1} /\ IsInjective(a)
    BY <1>1, SubKids
  <2> QED BY <2>1, <2>2
<1>3. /\ c \in Seq(S) /\ Range(c) = {s[j] : j \in i .. Len(s)} /\ IsInjective(c)
  <2>1. c \in Seq(S)
    BY <1>1, SubFacts
  <2>2. Range(c) = {s[j] : j \in i .. Len(s)} /\ IsInjective(c)
    BY <1>1, SubKids
  <2> QED BY <2>1, <2>2
<1>4. /\ Range(s) = {s[j] : j \in 1 .. Len(s)}
      /\ \A j, k \in 1 .. Len(s) : s[j] = s[k] => j = k
  BY Positions
<1>5. /\ \A j \in 1 .. i - 1 : j \in 1 .. Len(s) /\ j \notin i .. Len(s)
      /\ \A j \in i .. Len(s) : j \in 1 .. Len(s) /\ j \notin 1 .. i - 1
      /\ \A j \in 1 .. Len(s) : j \in 1 .. i - 1 \/ j \in i .. Len(s)
  BY <1>0
<1>6. Range(a) \cap Range(c) = {} /\ Range(a) \cup Range(c) = Range(s)
  <2> HIDE DEF a, c
  <2> QED BY <1>2, <1>3, <1>4, <1>5
<1> HIDE DEF a, c
<1>7. <<e>> \in Seq(S) /\ Range(<<e>>) = {e} /\ IsInjective(<<e>>)
  BY OneKid
<1> DEFINE one == <<e>>
           ae == a \o one
<1>8. one \in Seq(S) /\ Range(one) = {e} /\ IsInjective(one) /\ Range(a) \cap Range(one) = {}
  BY <1>6, <1>7
<1> HIDE DEF one
<1>9. ae \in Seq(S) /\ Range(ae) = Range(a) \cup Range(one) /\ IsInjective(ae)
  <2>1. /\ a \in Seq(S) /\ IsInjective(a)
        /\ one \in Seq(S) /\ IsInjective(one) /\ Range(a) \cap Range(one) = {}
    BY <1>2, <1>8
  <2> HIDE DEF a
  <2> QED BY <2>1, CatKids DEF ae
<1> HIDE DEF ae
<1>10. Range(ae) \cap Range(c) = {}
  BY <1>6, <1>8, <1>9
<1>11. Range(ae \o c) = Range(ae) \cup Range(c) /\ IsInjective(ae \o c)
  BY <1>3, <1>9, <1>10, CatKids
<1>12. InsertAt(s, i, e) = ae \o c
  BY DEF InsertAt, a, c, ae, one
<1> QED BY <1>6, <1>8, <1>9, <1>11, <1>12

\* The elements of a sequence without the one at position i.
LEMMA RemoveKids ==
  ASSUME NEW S, NEW s \in Seq(S), NEW i \in 1 .. Len(s), IsInjective(s)
  PROVE  /\ Range(RemoveAt(s, i)) = Range(s) \ {s[i]}
         /\ IsInjective(RemoveAt(s, i))
<1> DEFINE a == SubSeq(s, 1, i - 1)
           c == SubSeq(s, i + 1, Len(s))
<1>0. Len(s) \in Nat
  BY LenProperties
<1>1. /\ 1 \in Int /\ i - 1 \in Int /\ i + 1 \in Int /\ Len(s) \in Int
      /\ 1 <= 1 /\ 1 <= i - 1 + 1 /\ i - 1 <= Len(s)
      /\ 1 <= i + 1 /\ i + 1 <= Len(s) + 1 /\ Len(s) <= Len(s)
  BY <1>0
<1>2. /\ a \in Seq(S) /\ Range(a) = {s[j] : j \in 1 .. i - 1} /\ IsInjective(a)
  <2>1. a \in Seq(S)
    BY <1>1, SubFacts
  <2>2. Range(a) = {s[j] : j \in 1 .. i - 1} /\ IsInjective(a)
    BY <1>1, SubKids
  <2> QED BY <2>1, <2>2
<1>3. /\ c \in Seq(S) /\ Range(c) = {s[j] : j \in i + 1 .. Len(s)} /\ IsInjective(c)
  <2>1. c \in Seq(S)
    BY <1>1, SubFacts
  <2>2. Range(c) = {s[j] : j \in i + 1 .. Len(s)} /\ IsInjective(c)
    BY <1>1, SubKids
  <2> QED BY <2>1, <2>2
<1>4. /\ Range(s) = {s[j] : j \in 1 .. Len(s)}
      /\ \A j, k \in 1 .. Len(s) : s[j] = s[k] => j = k
  BY Positions
<1>5. /\ \A j \in 1 .. i - 1 : j \in 1 .. Len(s) /\ j # i /\ j \notin i + 1 .. Len(s)
      /\ \A j \in i + 1 .. Len(s) : j \in 1 .. Len(s) /\ j # i /\ j \notin 1 .. i - 1
      /\ \A j \in 1 .. Len(s) : j \in 1 .. i - 1 \/ j = i \/ j \in i + 1 .. Len(s)
  BY <1>0
<1> HIDE DEF a, c
<1>6. Range(a) \cap Range(c) = {} /\ Range(a) \cup Range(c) = Range(s) \ {s[i]}
  BY <1>2, <1>3, <1>4, <1>5
<1>7. Range(a \o c) = Range(a) \cup Range(c) /\ IsInjective(a \o c)
  <2>1. /\ a \in Seq(S) /\ c \in Seq(S) /\ IsInjective(a) /\ IsInjective(c)
        /\ Range(a) \cap Range(c) = {}
    BY <1>2, <1>3, <1>6
  <2> QED BY <2>1, CatKids
<1>8. RemoveAt(s, i) = a \o c
  BY DEF RemoveAt, a, c
<1> QED BY <1>6, <1>7, <1>8

\* n different members of S.
KidsOf(S, x, n) == x \in Seq(S) /\ Len(x) = n /\ IsInjective(x)

\* A sequence cut in two, after a members.
CutInTwo(s, a, x, z) ==
  a \in Nat /\ a <= Len(s) /\ x = SubSeq(s, 1, a) /\ z = SubSeq(s, a + 1, Len(s))

SharedByTwo(s, x, z) == Range(x) \cap Range(z) = {} /\ Range(x) \cup Range(z) = Range(s)

LEMMA TwoParts ==
  ASSUME NEW S, NEW s, s \in Seq(S), IsInjective(s),
         NEW a, NEW x, NEW z, CutInTwo(s, a, x, z)
  PROVE  KidsOf(S, x, a) /\ KidsOf(S, z, Len(s) - a) /\ SharedByTwo(s, x, z)
<1>0. /\ Len(s) \in Nat /\ a \in Nat /\ a <= Len(s)
      /\ x = SubSeq(s, 1, a) /\ z = SubSeq(s, a + 1, Len(s))
  BY LenProperties DEF CutInTwo
<1>1. /\ 1 \in Int /\ a \in Int /\ a + 1 \in Int /\ Len(s) \in Int
      /\ 1 <= 1 /\ 1 <= a + 1 /\ a <= Len(s) /\ a + 1 <= Len(s) + 1 /\ Len(s) <= Len(s)
  BY <1>0
<1>2. /\ x \in Seq(S) /\ Len(x) = a - 1 + 1 /\ IsInjective(x)
      /\ Range(x) = {s[i] : i \in 1 .. a}
  BY <1>0, <1>1, SubFacts, SubKids
<1>3. /\ z \in Seq(S) /\ Len(z) = Len(s) - (a + 1) + 1 /\ IsInjective(z)
      /\ Range(z) = {s[i] : i \in a + 1 .. Len(s)}
  BY <1>0, <1>1, SubFacts, SubKids
<1>4. /\ Range(s) = {s[i] : i \in 1 .. Len(s)}
      /\ \A i, j \in 1 .. Len(s) : s[i] = s[j] => i = j
  BY Positions
<1>5. /\ \A i \in 1 .. a : i \in 1 .. Len(s) /\ i \notin a + 1 .. Len(s)
      /\ \A i \in a + 1 .. Len(s) : i \in 1 .. Len(s)
      /\ \A i \in 1 .. Len(s) : i \in 1 .. a \/ i \in a + 1 .. Len(s)
  BY <1>0
<1>6. Range(x) \cap Range(z) = {} /\ Range(x) \cup Range(z) = Range(s)
  BY <1>2, <1>3, <1>4, <1>5
<1>7. Len(x) = a /\ Len(z) = Len(s) - a
  BY <1>0, <1>2, <1>3
<1> QED BY <1>2, <1>3, <1>6, <1>7 DEF KidsOf, SharedByTwo

\* A sequence cut in three, after a and after b members.
CutInThree(s, a, b, x, y, z) ==
  /\ a \in Nat /\ b \in Nat /\ a <= b /\ b <= Len(s)
  /\ x = SubSeq(s, 1, a) /\ y = SubSeq(s, a + 1, b) /\ z = SubSeq(s, b + 1, Len(s))

SharedByThree(s, x, y, z) ==
  /\ Range(x) \cup Range(y) \cup Range(z) = Range(s)
  /\ Range(x) \cap Range(y) = {} /\ Range(x) \cap Range(z) = {} /\ Range(y) \cap Range(z) = {}

LEMMA ThreeParts ==
  ASSUME NEW S, NEW s, s \in Seq(S), IsInjective(s),
         NEW a, NEW b, NEW x, NEW y, NEW z, CutInThree(s, a, b, x, y, z)
  PROVE  /\ KidsOf(S, x, a) /\ KidsOf(S, y, b - a) /\ KidsOf(S, z, Len(s) - b)
         /\ SharedByThree(s, x, y, z)
<1>0. /\ Len(s) \in Nat /\ a \in Nat /\ b \in Nat /\ a <= b /\ b <= Len(s)
      /\ x = SubSeq(s, 1, a) /\ y = SubSeq(s, a + 1, b) /\ z = SubSeq(s, b + 1, Len(s))
  BY LenProperties DEF CutInThree
<1>1. /\ 1 \in Int /\ a \in Int /\ a + 1 \in Int /\ b \in Int /\ b + 1 \in Int /\ Len(s) \in Int
      /\ 1 <= 1 /\ 1 <= a + 1 /\ a <= Len(s) /\ a + 1 <= b + 1 /\ 1 <= b + 1
      /\ b + 1 <= Len(s) + 1 /\ Len(s) <= Len(s)
  BY <1>0
<1>2. /\ x \in Seq(S) /\ Len(x) = a - 1 + 1 /\ IsInjective(x)
      /\ Range(x) = {s[i] : i \in 1 .. a}
  BY <1>0, <1>1, SubFacts, SubKids
<1>3. /\ y \in Seq(S) /\ Len(y) = b - (a + 1) + 1 /\ IsInjective(y)
      /\ Range(y) = {s[i] : i \in a + 1 .. b}
  BY <1>0, <1>1, SubFacts, SubKids
<1>4. /\ z \in Seq(S) /\ Len(z) = Len(s) - (b + 1) + 1 /\ IsInjective(z)
      /\ Range(z) = {s[i] : i \in b + 1 .. Len(s)}
  BY <1>0, <1>1, SubFacts, SubKids
<1>5. /\ Range(s) = {s[i] : i \in 1 .. Len(s)}
      /\ \A i, j \in 1 .. Len(s) : s[i] = s[j] => i = j
  BY Positions
<1>6. /\ \A i \in 1 .. a : i \in 1 .. Len(s) /\ i \notin a + 1 .. b /\ i \notin b + 1 .. Len(s)
      /\ \A i \in a + 1 .. b : i \in 1 .. Len(s) /\ i \notin b + 1 .. Len(s)
      /\ \A i \in b + 1 .. Len(s) : i \in 1 .. Len(s)
      /\ \A i \in 1 .. Len(s) : i \in 1 .. a \/ i \in a + 1 .. b \/ i \in b + 1 .. Len(s)
  BY <1>0
<1>7. Range(x) \cap Range(y) = {} /\ Range(x) \cap Range(z) = {} /\ Range(y) \cap Range(z) = {}
  <2>1. Range(x) \cap Range(y) = {}
    BY <1>2, <1>3, <1>5, <1>6
  <2>2. Range(x) \cap Range(z) = {}
    BY <1>2, <1>4, <1>5, <1>6
  <2>3. Range(y) \cap Range(z) = {}
    <3>1. ASSUME NEW i \in a + 1 .. b, NEW j \in b + 1 .. Len(s), s[i] = s[j]
          PROVE  FALSE
      <4>1. i \in 1 .. Len(s) /\ j \in 1 .. Len(s) /\ i \notin b + 1 .. Len(s)
        BY <1>6
      <4>2. i = j
        BY <3>1, <4>1, <1>5
      <4> QED BY <4>1, <4>2
    <3> QED BY <3>1, <1>3, <1>4
  <2> QED BY <2>1, <2>2, <2>3
<1>8. Range(x) \cup Range(y) \cup Range(z) = Range(s)
  <2>1. Range(x) \cup Range(y) \cup Range(z) \subseteq Range(s)
    BY <1>2, <1>3, <1>4, <1>5, <1>6
  <2>2. \A e \in Range(s) : e \in Range(x) \/ e \in Range(y) \/ e \in Range(z)
    <3> TAKE e \in Range(s)
    <3>1. PICK i \in 1 .. Len(s) : e = s[i]
      BY <1>5
    <3>2. i \in 1 .. a \/ i \in a + 1 .. b \/ i \in b + 1 .. Len(s)
      BY <1>6
    <3> QED BY <3>1, <3>2, <1>2, <1>3, <1>4
  <2> QED BY <2>1, <2>2
<1>9. Len(x) = a /\ Len(y) = b - a /\ Len(z) = Len(s) - b
  BY <1>0, <1>2, <1>3, <1>4
<1> QED BY <1>2, <1>3, <1>4, <1>7, <1>8, <1>9 DEF KidsOf, SharedByThree

\* A set of numbers that is not empty has a least one.
LEMMA LeastOf ==
  ASSUME NEW S \in SUBSET Nat, S # {}
  PROVE  \E n \in S : \A m \in S : n <= m
<1>1. PICK n \in S : \A m \in S : ~(<<m, n>> \in OpToRel(<, Nat))
  BY NatLessThanWellFounded, WFMin
<1>2. \A m \in S : ~(m < n)
  BY <1>1 DEF OpToRel
<1> QED BY <1>2

-----------------------------------------------------------------------------
(* Functions that go down a well-founded order *)

\* nx leads from every member of D outside B to one that h puts lower.
Downward(D, B, nx, h, b) ==
  /\ b \in Nat /\ h \in [D -> 0 .. b] /\ nx \in [D -> D]
  /\ \A n \in D \ B : h[nx[n]] < h[n]

\* f is the value v where nx leads to in B.
Descends(f, D, B, nx, v) == f = [n \in D |-> IF n \in B THEN v[n] ELSE f[nx[n]]]

LEMMA DescentExists ==
  ASSUME NEW D, NEW B, NEW nx, NEW h, NEW b, Downward(D, B, nx, h, b), NEW v
  PROVE  \E f : Descends(f, D, B, nx, v)
<1> DEFINE Upto(f, k) == \A n \in D : h[n] <= k => f[n] = IF n \in B THEN v[n] ELSE f[nx[n]]
           Can(k) == \E f : DOMAIN f = D /\ Upto(f, k)
           Bad == {k \in Nat : ~Can(k)}
<1>1. /\ b \in Nat /\ \A n \in D : h[n] \in Nat /\ h[n] <= b
      /\ \A n \in D : nx[n] \in D
      /\ \A n \in D \ B : h[nx[n]] < h[n]
  BY DEF Downward
<1>2. Can(0)
  <2> DEFINE f == [n \in D |-> v[n]]
  <2>1. Upto(f, 0)
    BY <1>1
  <2> QED BY <2>1
<1>3. ASSUME NEW k \in Nat, Can(k)
      PROVE  Can(k + 1)
  <2>1. PICK f : DOMAIN f = D /\ Upto(f, k)
    BY <1>3
  <2> DEFINE g == [n \in D |-> IF h[n] <= k \/ n \in B THEN (IF n \in B THEN v[n] ELSE f[n]) ELSE f[nx[n]]]
  <2>2. ASSUME NEW n \in D, h[n] <= k
        PROVE  g[n] = f[n]
    BY <2>1, <2>2
  <2>3. ASSUME NEW n \in D, h[n] <= k + 1
        PROVE  g[n] = IF n \in B THEN v[n] ELSE g[nx[n]]
    <3>1. CASE n \in B
      BY <3>1
    <3>2. CASE n \notin B
      <4>1. nx[n] \in D /\ h[nx[n]] <= k
        BY <1>1, <1>3, <2>3, <3>2
      <4>2. g[nx[n]] = f[nx[n]]
        BY <2>2, <4>1
      <4>3. CASE h[n] <= k
        <5>1. f[n] = f[nx[n]]
          BY <2>1, <3>2, <4>3
        <5> QED BY <2>2, <4>2, <4>3, <5>1, <3>2
      <4>4. CASE ~(h[n] <= k)
        BY <3>2, <4>2, <4>4
      <4> QED BY <4>3, <4>4
    <3> QED BY <3>1, <3>2
  <2> HIDE DEF g
  <2>4. DOMAIN g = D
    BY DEF g
  <2> QED BY <2>3, <2>4
<1> HIDE DEF Can
<1>4. Bad = {}
  <2> SUFFICES ASSUME Bad # {} PROVE FALSE
    OBVIOUS
  <2>1. PICK k \in Bad : \A j \in Bad : k <= j
    BY LeastOf
  <2>2. k \in Nat /\ k # 0 /\ ~Can(k)
    BY <2>1, <1>2
  <2>3. k - 1 \in Nat /\ k - 1 < k /\ k - 1 + 1 = k
    BY <2>2
  <2>4. Can(k - 1)
    BY <2>1, <2>3
  <2>5. Can(k - 1 + 1)
    BY <2>3, <2>4, <1>3
  <2> QED BY <2>2, <2>3, <2>5
<1>5. PICK f : DOMAIN f = D /\ Upto(f, b)
  BY <1>1, <1>4 DEF Can
<1> DEFINE g == [n \in D |-> f[n]]
<1>6. Descends(g, D, B, nx, v)
  BY <1>1, <1>5 DEF Descends
<1> QED BY <1>6

LEMMA DescentEnds ==
  ASSUME NEW D, NEW B, NEW nx, NEW h, NEW b, Downward(D, B, nx, h, b), NEW v, NEW P,
         \A n \in D \cap B : v[n] \in P,
         NEW f, Descends(f, D, B, nx, v)
  PROVE  \A n \in D : f[n] \in P
<1> DEFINE Bad == {h[n] : n \in {m \in D : f[m] \notin P}}
<1>1. /\ \A n \in D : h[n] \in Nat /\ nx[n] \in D
      /\ \A n \in D \ B : h[nx[n]] < h[n]
  BY DEF Downward
<1>2. \A n \in D : f[n] = IF n \in B THEN v[n] ELSE f[nx[n]]
  BY DEF Descends
<1>3. Bad = {}
  <2> SUFFICES ASSUME Bad # {} PROVE FALSE
    OBVIOUS
  <2>1. PICK k \in Bad : \A j \in Bad : k <= j
    BY <1>1, LeastOf
  <2>2. PICK n \in D : f[n] \notin P /\ h[n] = k
    BY <2>1
  <2>3. n \notin B /\ f[nx[n]] \notin P
    BY <1>2, <2>2
  <2>4. h[nx[n]] \in Bad /\ h[nx[n]] < k /\ h[nx[n]] \in Nat /\ k \in Nat
    BY <1>1, <2>2, <2>3
  <2> QED BY <2>1, <2>4
<1> QED BY <1>3

\* A descent that starts in a part of the domain it does not leave ends
\* where that part ends.
LEMMA DescentStays ==
  ASSUME NEW D, NEW B, NEW nx, NEW h, NEW b, Downward(D, B, nx, h, b), NEW v, NEW P,
         NEW E, E \subseteq D, \A n \in E \ B : nx[n] \in E,
         \A n \in E \cap B : v[n] \in P,
         NEW f, Descends(f, D, B, nx, v)
  PROVE  \A n \in E : f[n] \in P
<1> DEFINE Bad == {h[n] : n \in {m \in E : f[m] \notin P}}
<1>1. /\ \A n \in D : h[n] \in Nat /\ nx[n] \in D
      /\ \A n \in D \ B : h[nx[n]] < h[n]
  BY DEF Downward
<1>2. \A n \in D : f[n] = IF n \in B THEN v[n] ELSE f[nx[n]]
  BY DEF Descends
<1>3. Bad = {}
  <2> SUFFICES ASSUME Bad # {} PROVE FALSE
    OBVIOUS
  <2>1. PICK k \in Bad : \A j \in Bad : k <= j
    BY <1>1, LeastOf
  <2>2. PICK n \in E : f[n] \notin P /\ h[n] = k
    BY <2>1
  <2>3. n \notin B /\ f[nx[n]] \notin P /\ nx[n] \in E
    BY <1>2, <2>2
  <2>4. h[nx[n]] \in Bad /\ h[nx[n]] < k /\ h[nx[n]] \in Nat /\ k \in Nat
    BY <1>1, <2>2, <2>3
  <2>5. k <= h[nx[n]]
    BY <2>1, <2>4
  <2> HIDE DEF Bad
  <2> QED BY <2>4, <2>5
<1> QED BY <1>3

=============================================================================
