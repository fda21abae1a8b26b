------------------------- MODULE TableEngineProofs -------------------------
(***************************************************************************)
(* Proofs about TableEngine, for every schema, every set of statements and *)
(* every bound.                                                            *)
(***************************************************************************)
EXTENDS TableEngine, FiniteSetTheorems, SequenceTheorems, WellFoundedInduction, TLAPS

-----------------------------------------------------------------------------
(* Lemmas about the operators of TableEngine *)

\* A set of positions of a list has a last one: the item of a SET list that
\* wins exists.
LEMMA LastPosition ==
  ASSUME NEW n \in Nat, NEW S \in SUBSET (1 .. n), S # {}
  PROVE  \E m \in S : \A i \in S : i <= m
<1> DEFINE from(i) == {j \in S : i <= j}
           T == {from(i) : i \in S}
           R == StrictSubsetOrdering(S)
<1>1. IsFiniteSet(S)
  <2>1. IsFiniteSet(1 .. n)
    BY FS_Interval
  <2> QED BY <2>1, FS_Subset
<1>2. FiniteSubsetsOf(S) = SUBSET S
  BY <1>1, FS_FiniteSubsetsOfFinite
<1>3. IsWellFoundedOn(R, SUBSET S)
  BY <1>2, FS_StrictSubsetOrderingWellFounded
<1>4. T \subseteq SUBSET S /\ T # {}
  OBVIOUS
<1>5. PICK x \in T : \A y \in T : ~ (<<y, x>> \in R)
  <2> HIDE DEF T, R
  <2> QED BY <1>3, <1>4, WFMin
<1>6. PICK m \in S : x = from(m)
  BY <1>5
<1>7. ASSUME NEW i \in S, ~(i <= m)
      PROVE FALSE
  <2>0. m <= m /\ ~(i <= m) /\ \A j \in S : i <= j => m <= j
    BY <1>7
  <2>1. from(i) \subseteq from(m) /\ m \in from(m) /\ m \notin from(i)
    BY <2>0
  <2>3. from(i) \in T
    OBVIOUS
  <2>2. <<from(i), from(m)>> \in R
    BY <2>1 DEF StrictSubsetOrdering
  <2> QED BY <2>2, <2>3, <1>5, <1>6
<1> QED BY <1>6, <1>7

\* The row an INSERT builds from a source row is a row of the table.
LEMMA FullRowType ==
  ASSUME NEW src \in SourceRow, src # Malformed
  PROVE  FullRow(src) \in Row
<1>1. PICK S \in SUBSET Cols : src \in [S -> Val]
  <2>1. src \in PartialRow
    BY DEF SourceRow
  <2> QED BY <2>1 DEF PartialRow
<1>2. \A c \in Cols : (IF c \in DOMAIN src THEN src[c] ELSE Default[c]) \in Val
  BY <1>1, SchemaAssumption
<1> QED BY <1>2 DEF FullRow, Row

\* The value UPDATE gives to a column is the old one or that of an item of
\* the SET list, and the new row has the types the schema asks for.
LEMMA NewRowType ==
  ASSUME NEW row \in Row, set \in Seq(SetItem)
  PROVE  /\ NewRow(row) \in Row
         /\ \A c \in Cols : \/ NewRow(row)[c] = row[c]
                            \/ \E i \in 1 .. Len(set) :
                                 set[i][1] = c /\ NewRow(row)[c] = set[i][2]
<1>1. \A i \in 1 .. Len(set) : set[i][2] \in Val
  BY DEF SetItem
<1>2. ASSUME NEW c \in Cols, ItemsOf(c) # {}
      PROVE  \E i \in 1 .. Len(set) : set[i][1] = c /\ NewRow(row)[c] = set[i][2]
  <2>1. Len(set) \in Nat /\ ItemsOf(c) \in SUBSET (1 .. Len(set))
    BY DEF ItemsOf
  <2>2. \E m \in ItemsOf(c) : \A j \in ItemsOf(c) : j <= m
    BY <1>2, <2>1, LastPosition
  <2> DEFINE w == CHOOSE i \in ItemsOf(c) : \A j \in ItemsOf(c) : j <= i
  <2>3. w \in ItemsOf(c)
    BY <2>2
  <2>4. NewRow(row)[c] = set[w][2]
    BY <1>2 DEF NewRow
  <2> HIDE DEF w
  <2> QED BY <2>1, <2>3, <2>4 DEF ItemsOf
<1>3. \A c \in Cols : ItemsOf(c) = {} => NewRow(row)[c] = row[c]
  BY DEF NewRow
<1>4. \A c \in Cols : NewRow(row)[c] \in Val
  BY <1>1, <1>2, <1>3 DEF Row
<1>5. NewRow(row) = [c \in Cols |-> NewRow(row)[c]]
  BY DEF NewRow
<1>6. NewRow(row) \in Row
  BY <1>4, <1>5 DEF Row
<1> QED BY <1>2, <1>3, <1>6

\* A row written at the end of the file.
LEMMA AppendSlot ==
  ASSUME NEW h \in Seq(Row \cup {Deleted}), NEW row \in Row
  PROVE  /\ Append(h, row) \in Seq(Row \cup {Deleted})
         /\ Len(Append(h, row)) = Len(h) + 1
         /\ Live(Append(h, row)) = Live(h) \cup {Len(h) + 1}
         /\ \A i \in 1 .. Len(h) : Append(h, row)[i] = h[i]
         /\ Append(h, row)[Len(h) + 1] = row
<1>1. /\ Append(h, row) \in Seq(Row \cup {Deleted})
      /\ Len(Append(h, row)) = Len(h) + 1
      /\ \A i \in 1 .. Len(h) : Append(h, row)[i] = h[i]
      /\ Append(h, row)[Len(h) + 1] = row
  OBVIOUS
<1>2. row # Deleted /\ Len(h) \in Nat
  BY ValueAssumption
<1> HIDE DEF Row
<1>3. Live(Append(h, row)) = Live(h) \cup {Len(h) + 1}
  BY <1>1, <1>2 DEF Live
<1> QED BY <1>1, <1>3

\* A slot marked as deleted.
LEMMA DeleteSlot ==
  ASSUME NEW h \in Seq(Row \cup {Deleted}), NEW r \in Live(h)
  PROVE  LET g == [h EXCEPT ![r] = Deleted]
         IN  /\ g \in Seq(Row \cup {Deleted})
             /\ Len(g) = Len(h)
             /\ Live(g) = Live(h) \ {r}
             /\ \A i \in 1 .. Len(h) : i # r => g[i] = h[i]
<1> DEFINE g == [h EXCEPT ![r] = Deleted]
<1>1. r \in 1 .. Len(h)
  BY DEF Live
<1>2. g \in Seq(Row \cup {Deleted}) /\ Len(g) = Len(h)
  BY <1>1, ExceptSeq
<1>3. \A i \in 1 .. Len(h) : g[i] = IF i = r THEN Deleted ELSE h[i]
  BY <1>1, ExceptSeq
<1> HIDE DEF g
<1>4. Live(g) = Live(h) \ {r}
  BY <1>1, <1>2, <1>3 DEF Live
<1> QED BY <1>2, <1>3, <1>4 DEF g

\* What there is to do in a scan from one position on.
LEMMA ScanAhead ==
  ASSUME Len(work) \in Nat, NEW p \in Nat \ {0}
  PROVE  /\ Cardinality(Rest(p)) \in Nat /\ Cardinality(Rest(p + 1)) \in Nat
         /\ p \in Live(work) => Cardinality(Rest(p)) = Cardinality(Rest(p + 1)) + 1
         /\ p \notin Live(work) => Cardinality(Rest(p)) = Cardinality(Rest(p + 1))
<1>1. IsFiniteSet(1 .. Len(work))
  BY FS_Interval
<1>2. Rest(p) \in SUBSET (1 .. Len(work)) /\ Rest(p + 1) \in SUBSET (1 .. Len(work))
  BY DEF Live, Rest
<1>3. IsFiniteSet(Rest(p)) /\ IsFiniteSet(Rest(p + 1))
  BY <1>1, <1>2, FS_Subset
<1>4. Rest(p + 1) = Rest(p) \ {p} /\ (p \in Rest(p) <=> p \in Live(work))
  BY <1>2 DEF Live, Rest
<1>5. Cardinality(Rest(p)) \in Nat /\ Cardinality(Rest(p + 1)) \in Nat
  BY <1>3, FS_CardinalityType
<1>6. Cardinality(Rest(p) \ {p}) =
        IF p \in Rest(p) THEN Cardinality(Rest(p)) - 1 ELSE Cardinality(Rest(p))
  BY <1>3, FS_RemoveElement
<1>7. ASSUME p \in Live(work)
      PROVE  Cardinality(Rest(p)) = Cardinality(Rest(p + 1)) + 1
  <2>1. Cardinality(Rest(p + 1)) = Cardinality(Rest(p)) - 1
    BY <1>7, <1>4, <1>6
  <2> QED BY <2>1, <1>5
<1>8. ASSUME p \notin Live(work)
      PROVE  Cardinality(Rest(p)) = Cardinality(Rest(p + 1))
  BY <1>8, <1>4, <1>6
<1> QED BY <1>5, <1>7, <1>8

-----------------------------------------------------------------------------
(* Types, the locals of a statement, and the types of stored rows *)

Typed == TypeOK /\ Phases /\ Room

\* The locals of no statement have their types.
LEMMA NoCurType ==
  NoRow \in Row /\ NoCur \in [rid : 0 .. MaxSlots, old : Row, new : Row]
<1>1. NoRow \in Row
  BY DEF NoRow, Row, Val
<1> QED BY <1>1, BoundsAssumption DEF NoCur

\* However a statement ends, its locals are as before it began.
LEMMA EndTyped ==
  ASSUME Typed, NEW r \in {"ok", "error"}, EndStatement(r),
         UNCHANGED <<heap, index, disk, crashes, intact, behind>>
  PROVE  Typed'
<1> USE DEF Typed, EndStatement, index
<1>1. TypeOK'
  BY NoCurType, BoundsAssumption DEF TypeOK
<1>2. Phases'
  BY DEF Phases, Inserting, Updating, Scanning
<1>3. Room'
  BY DEF Room
<1> QED BY <1>1, <1>2, <1>3

\* INSERT takes its rows from the statement.
LEMMA BeginInsertTyped ==
  ASSUME Typed, NEW rows \in Inserts, BeginInsert(rows)
  PROVE  Typed'
<1> USE DEF Typed, BeginInsert, index
<1>0. rows \in Seq(SourceRow) /\ rows \in Seq(SourceRow \cup Row \cup {Deleted})
  BY StatementAssumption
<1>1. TypeOK'
  BY <1>0 DEF TypeOK
<1>2. Phases'
  BY <1>0 DEF Phases, Inserting, Updating, Scanning
<1>3. Room'
  BY <1>0 DEF TypeOK, Room
<1> QED BY <1>1, <1>2, <1>3

\* A source row that passes the checks becomes a row of the table.
LEMMA InsertAcceptTyped ==
  ASSUME Typed, InsertAccept
  PROVE  Typed'
<1> USE DEF Typed, InsertAccept, index
<1>0. work \in Seq(SourceRow) /\ pos \in 1 .. Len(work)
  BY DEF TypeOK, Phases, Inserting
<1>1. FullRow(work[pos]) \in Row
  BY <1>0, FullRowType DEF Acceptable
<1>2. Conforms(FullRow(work[pos]))
  BY DEF Acceptable, Violates, Conforms
<1>3. TypeOK'
  BY <1>0, <1>1, NoCurType, BoundsAssumption DEF TypeOK
<1>4. Phases'
  BY <1>0, <1>2 DEF Phases, Inserting, Updating, Scanning
<1>5. Room'
  BY <1>0 DEF TypeOK, Room
<1> QED BY <1>3, <1>4, <1>5

\* UPDATE and DELETE take the scan of the file as it stands.
LEMMA BeginUpdateTyped ==
  ASSUME Typed, NEW items \in Updates, BeginUpdate(items)
  PROVE  Typed'
<1> USE DEF Typed, BeginUpdate, index
<1>0. items \in Seq(SetItem)
  BY StatementAssumption
<1>1. heap \in Seq(SourceRow \cup Row \cup {Deleted}) /\ Len(heap) \in Nat
  BY DEF TypeOK
<1>2. TypeOK'
  BY <1>0, <1>1 DEF TypeOK
<1>3. Phases'
  BY <1>0, <1>1 DEF TypeOK, Phases, Inserting, Updating, Scanning
<1>4. Room'
  <2>1. Rest(pos)' = Live(heap)
    BY <1>1 DEF Live, Rest
  <2> QED BY <2>1 DEF Room
<1> QED BY <1>2, <1>3, <1>4

\* The same of DELETE.
LEMMA BeginDeleteTyped ==
  ASSUME Typed, BeginDelete
  PROVE  Typed'
<1> USE DEF Typed, BeginDelete, index
<1>1. heap \in Seq(SourceRow \cup Row \cup {Deleted}) /\ Len(heap) \in Nat
  BY DEF TypeOK
<1>2. TypeOK'
  BY <1>1 DEF TypeOK
<1>3. Phases'
  BY <1>1 DEF TypeOK, Phases, Inserting, Updating, Scanning
<1>4. Room'
  BY DEF Room
<1> QED BY <1>2, <1>3, <1>4

\* A row the scan found is a row of the file, in the same slot.
LEMMA ScannedRow ==
  ASSUME Typed, pc \in Scanning, pos \in Live(work)
  PROVE  /\ pos \in 1 .. Len(work) /\ work[pos] \in Row
         /\ pos \in Live(heap) /\ heap[pos] = work[pos]
         /\ pos \in 0 .. MaxSlots
<1>1. /\ work \in Seq(Row \cup {Deleted}) /\ Len(work) <= Len(heap)
      /\ \A i \in pos .. Len(work) : work[i] = heap[i]
      /\ Len(heap) \in Nat /\ Len(heap) <= MaxSlots
  BY DEF Typed, TypeOK, Phases
<1>2. pos \in 1 .. Len(work) /\ work[pos] # Deleted
  BY DEF Live
<1>3. heap[pos] = work[pos] /\ pos \in 1 .. Len(heap)
  BY <1>1, <1>2
<1>4. work[pos] \in Row
  BY <1>1, <1>2
<1> QED BY <1>1, <1>2, <1>3, <1>4, BoundsAssumption DEF Live

\* The row at hand is one the file holds, and its new version is typed.
LEMMA UpdateAcceptTyped ==
  ASSUME Typed, RowsConform, UpdateAccept
  PROVE  Typed'
<1> USE DEF Typed, UpdateAccept, index
<1>1. /\ pos \in 1 .. Len(work) /\ work[pos] \in Row
      /\ pos \in Live(heap) /\ heap[pos] = work[pos]
      /\ pos \in 0 .. MaxSlots
  BY ScannedRow DEF Scanning, Updating
<1>2. set \in Seq(SetItem) /\ WellTyped(set)
  BY DEF TypeOK, Phases, Updating
<1>3. NewRow(work[pos]) \in Row
  BY <1>1, <1>2, NewRowType
<1>4. Conforms(NewRow(work[pos]))
  <2>1. Conforms(work[pos])
    BY <1>1 DEF RowsConform, Conforms
  <2>2. \A c \in Cols : \/ NewRow(work[pos])[c] = work[pos][c]
                        \/ \E i \in 1 .. Len(set) :
                             set[i][1] = c /\ NewRow(work[pos])[c] = set[i][2]
    BY <1>1, <1>2, NewRowType
  <2> QED BY <2>1, <2>2, <1>2 DEF Conforms, WellTyped
<1>5. TypeOK'
  BY <1>1, <1>3, BoundsAssumption DEF TypeOK
<1>6. Phases'
  BY <1>1, <1>4 DEF TypeOK, Phases, Inserting, Updating, Scanning
<1>7. Room'
  <2>0. Len(work) \in Nat /\ pos \in Nat \ {0}
    BY DEF TypeOK
  <2>1. /\ Cardinality(Rest(pos)) = Cardinality(Rest(pos + 1)) + 1
        /\ Cardinality(Rest(pos + 1)) \in Nat
    BY <2>0, ScanAhead, Zenon
  <2>2. Rest(pos)' = Rest(pos + 1)
    BY DEF Rest
  <2> QED BY <2>1, <2>2, BoundsAssumption DEF TypeOK, Room
<1> QED BY <1>5, <1>6, <1>7

\* The same of DELETE, which makes no new version.
LEMMA DeleteAcceptTyped ==
  ASSUME Typed, DeleteAccept
  PROVE  Typed'
<1> USE DEF Typed, DeleteAccept, index
<1>1. /\ pos \in 1 .. Len(work) /\ work[pos] \in Row
      /\ pos \in Live(heap) /\ heap[pos] = work[pos]
      /\ pos \in 0 .. MaxSlots
  BY ScannedRow DEF Scanning, Updating
<1>2. TypeOK'
  BY <1>1, NoCurType, BoundsAssumption DEF TypeOK
<1>3. Phases'
  BY <1>1 DEF TypeOK, Phases, Inserting, Updating, Scanning
<1>4. Room'
  BY DEF Room
<1> QED BY <1>2, <1>3, <1>4

\* Passing over a slot uses none of the room.
LEMMA SkipRowTyped ==
  ASSUME Typed, SkipRow
  PROVE  Typed'
<1> USE DEF Typed, SkipRow, index
<1>1. TypeOK'
  BY DEF TypeOK
<1>2. Phases'
  BY DEF TypeOK, Phases, Inserting, Updating, Scanning
<1>3. Room'
  <2>1. Len(work) \in Nat /\ pos \in Nat \ {0}
    BY DEF TypeOK
  <2>2. /\ Cardinality(Rest(pos)) \in Nat /\ Cardinality(Rest(pos + 1)) \in Nat
        /\ \/ Cardinality(Rest(pos)) = Cardinality(Rest(pos + 1)) + 1
           \/ Cardinality(Rest(pos)) = Cardinality(Rest(pos + 1))
    BY <2>1, ScanAhead, Zenon
  <2>3. Rest(pos)' = Rest(pos + 1)
    BY DEF Rest
  <2> QED BY <2>2, <2>3, BoundsAssumption DEF TypeOK, Room
<1> QED BY <1>1, <1>2, <1>3

\* One entry of one index changes.
LEMMA EntryType ==
  ASSUME NEW f \in [Indexed -> [Val -> 0 .. MaxSlots]], NEW c \in Indexed,
         NEW v \in Val, NEW r \in 0 .. MaxSlots
  PROVE  [f EXCEPT ![c][v] = r] \in [Indexed -> [Val -> 0 .. MaxSlots]]
OBVIOUS

\* The loop over the indexes stays within the schema.
LEMMA EraseKeyTyped ==
  ASSUME Typed, EraseKey
  PROVE  Typed'
<1> USE DEF Typed, EraseKey
<1>1. TypeOK'
  <2>1. cur.old[col] \in Val /\ cur.rid \in 0 .. MaxSlots /\ open \subseteq Indexed
    BY DEF TypeOK, Row
  <2>2. idx' \in [Indexed -> [Val -> 0 .. MaxSlots]]
    <3>1. /\ idx \in [Indexed -> [Val -> 0 .. MaxSlots]]
          /\ idx' = IF col \in open THEN [idx EXCEPT ![col][cur.old[col]] = 0] ELSE idx
      BY DEF TypeOK
    <3> QED BY <2>1, <3>1, BoundsAssumption, EntryType
  <2>3. dirty' \in [Indexed -> BOOLEAN]
    BY DEF TypeOK
  <2>4. col' \in 1 .. NCols + 1
    BY BoundsAssumption DEF Cols
  <2> QED BY <2>2, <2>3, <2>4 DEF TypeOK
<1>2. Phases'
  BY DEF Phases, Inserting, Updating, Scanning
<1>3. Room'
  BY DEF Room, Rest
<1> QED BY <1>1, <1>2, <1>3

\* The same when keys are put in.
LEMMA InsertKeyTyped ==
  ASSUME Typed, InsertKey
  PROVE  Typed'
<1> USE DEF Typed, InsertKey
<1>1. TypeOK'
  <2>1. cur.new[col] \in Val /\ cur.rid \in 0 .. MaxSlots /\ open \subseteq Indexed
    BY DEF TypeOK, Row
  <2>2. idx' \in [Indexed -> [Val -> 0 .. MaxSlots]]
    <3>1. /\ idx \in [Indexed -> [Val -> 0 .. MaxSlots]]
          /\ idx' = IF col \in open THEN [idx EXCEPT ![col][cur.new[col]] = cur.rid] ELSE idx
      BY DEF TypeOK
    <3> QED BY <2>1, <3>1, BoundsAssumption, EntryType
  <2>3. dirty' \in [Indexed -> BOOLEAN]
    BY DEF TypeOK
  <2>4. col' \in 1 .. NCols + 1
    BY BoundsAssumption DEF Cols
  <2> QED BY <2>2, <2>3, <2>4 DEF TypeOK
<1>2. Phases'
  BY DEF Phases, Inserting, Updating, Scanning
<1>3. Room'
  BY DEF Room, Rest
<1> QED BY <1>1, <1>2, <1>3

\* Only the row at hand leaves the file; the rest of the scan is untouched.
LEMMA RemoveRowTyped ==
  ASSUME Typed, RemoveRow
  PROVE  Typed'
<1> USE DEF Typed, RemoveRow, index
<1>1. /\ heap \in Seq(Row \cup {Deleted}) /\ cur.rid \in Live(heap)
      /\ heap' = [heap EXCEPT ![cur.rid] = Deleted]
  BY DEF TypeOK, Phases
<1>2. /\ heap' \in Seq(Row \cup {Deleted}) /\ Len(heap') = Len(heap)
      /\ \A i \in 1 .. Len(heap) : i # cur.rid => heap'[i] = heap[i]
  BY <1>1, DeleteSlot
<1>3. TypeOK'
  BY <1>2 DEF TypeOK, RowsChanged
<1>4. Phases'
  BY <1>2 DEF TypeOK, Phases, Inserting, Updating, Scanning
<1>5. Room'
  BY <1>2 DEF Room, Rest
<1> QED BY <1>3, <1>4, <1>5

\* The row lands beyond the scan, in the room kept for it.
LEMMA WriteRowTyped ==
  ASSUME Typed, WriteRow
  PROVE  Typed'
<1> USE DEF Typed, WriteRow, index
<1>1. heap \in Seq(Row \cup {Deleted}) /\ cur.new \in Row /\ Len(heap) \in Nat
  BY DEF TypeOK
<1>2. /\ heap' \in Seq(Row \cup {Deleted}) /\ Len(heap') = Len(heap) + 1
      /\ Live(heap') = Live(heap) \cup {Len(heap) + 1}
      /\ \A i \in 1 .. Len(heap) : heap'[i] = heap[i]
      /\ heap'[Len(heap) + 1] = cur.new
  BY <1>1, AppendSlot
<1>3. Cardinality(Rest(pos)) \in Nat /\ Rest(pos)' = Rest(pos)
  <2>1. Len(work) \in Nat /\ pos \in Nat \ {0}
    BY DEF TypeOK
  <2> QED BY <2>1, ScanAhead DEF Rest
<1> DEFINE ahead == Cardinality(Rest(pos))
<1>a. /\ Len(work) \in Nat /\ pos \in 1 .. Len(work) + 1 /\ MaxSlots \in Nat
      /\ cur \in [rid : 0 .. MaxSlots, old : Row, new : Row]
  BY BoundsAssumption DEF TypeOK
<1>b. /\ pc = "insWrite" => Len(heap) + Len(work) + 2 - pos <= MaxSlots
      /\ pc = "updWrite" => Len(heap) + ahead + 1 <= MaxSlots
  BY DEF Room
<1>c. ahead \in Nat
  BY <1>3
<1> HIDE DEF ahead
<1>4. Len(heap) + 1 <= MaxSlots
  BY <1>1, <1>a, <1>b, <1>c
<1>5. TypeOK'
  <2>1. cur' \in [rid : 0 .. MaxSlots, old : Row, new : Row]
    <3>1. Len(heap) + 1 \in 0 .. MaxSlots
      BY <1>1, <1>4, <1>a
    <3> QED BY <3>1, <1>a
  <2>2. intact' \in BOOLEAN /\ behind' \in BOOLEAN
    BY DEF TypeOK, RowsChanged
  <2>3. Len(heap') <= MaxSlots /\ col' \in 1 .. NCols + 1
    BY <1>2, <1>4, BoundsAssumption
  <2> QED BY <1>2, <2>1, <2>2, <2>3 DEF TypeOK
<1>6. Phases'
  BY <1>1, <1>2 DEF TypeOK, Phases, Inserting, Updating, Scanning
<1>7. Room'
  <2>1. ahead' = ahead
    BY <1>3 DEF ahead
  <2>2. /\ pc' = "insKeys" => Len(heap') + Len(work') + 1 - pos' <= MaxSlots
        /\ pc' = "updKeys" => Len(heap') + ahead <= MaxSlots
    BY <1>1, <1>2, <1>a, <1>b, <1>c
  <2> QED BY <2>1, <2>2 DEF Room, ahead
<1> QED BY <1>5, <1>6, <1>7

\* The statement goes on to its next row.
LEMMA NextRowTyped ==
  ASSUME Typed, NextRow
  PROVE  Typed'
<1> USE DEF Typed, NextRow, index
<1>1. TypeOK'
  BY DEF TypeOK
<1>2. Phases'
  BY DEF TypeOK, Phases, Inserting, Updating, Scanning
<1>3. Room'
  BY DEF Room, Rest
<1> QED BY <1>1, <1>2, <1>3

\* USE touches no statement, and loads what the .idx files hold.
LEMMA UseTyped ==
  ASSUME Typed, Use
  PROVE  Typed'
<1> USE DEF Typed, Use, stmt
<1>1. UseOpens \subseteq Indexed
  BY DEF UseOpens
<1>2. TypeOK'
  <2>1. \A c \in Indexed : disk[c].map \in [Val -> 0 .. MaxSlots]
    BY DEF TypeOK, IndexFile
  <2>2. idx' \in [Indexed -> [Val -> 0 .. MaxSlots]]
    BY <2>1 DEF TypeOK
  <2>3. dirty' \in [Indexed -> BOOLEAN]
    <3>1. \A c \in Indexed :
            (IF c \in UseOpens THEN disk[c].state = "absent" ELSE dirty[c]) \in BOOLEAN
      BY DEF TypeOK
    <3> QED BY <3>1
  <2>4. open' \subseteq Indexed /\ missing' \in [Indexed -> SUBSET Val]
    BY <1>1 DEF TypeOK, IndexFile
  <2>5. reply' \in {"ok", "error"}
    OBVIOUS
  <2> QED BY <2>2, <2>3, <2>4, <2>5 DEF TypeOK
<1>3. Phases'
  BY DEF Phases, Inserting, Updating, Scanning
<1>4. Room'
  BY DEF Room, Rest
<1> QED BY <1>2, <1>3, <1>4

\* Whatever the process was doing, nothing of it is left in memory.
LEMMA GoneTyped ==
  ASSUME Typed, ProcessGone, UNCHANGED heap,
         disk' \in [Indexed -> IndexFile], crashes' \in 0 .. MaxCrashes,
         intact' \in BOOLEAN, behind' \in BOOLEAN
  PROVE  Typed'
<1> USE DEF Typed, ProcessGone
<1>1. TypeOK'
  <2>1. /\ idx' \in [Indexed -> [Val -> 0 .. MaxSlots]]
        /\ missing' \in [Indexed -> SUBSET Val]
    BY BoundsAssumption DEF NoKeys
  <2> QED BY <2>1, NoCurType, BoundsAssumption DEF TypeOK
<1>2. Phases'
  BY DEF Phases, Inserting, Updating, Scanning
<1>3. Room'
  BY DEF Room
<1> QED BY <1>1, <1>2, <1>3

\* The file a flush leaves that does not end holds entries of the index.
LEMMA CutFilesTyped ==
  ASSUME TypeOK, NEW c \in Indexed
  PROVE  /\ CutFiles(c) \subseteq IndexFile
         /\ \A file \in CutFiles(c), v \in Val : file.map[v] \in {0, idx[c][v]}
<1>1. NoFile \in IndexFile /\ \A v \in Val : NoFile.map[v] = 0
  BY BoundsAssumption DEF NoFile, NoKeys, IndexFile
<1>2. /\ [NoFile EXCEPT !.state = "corrupt"] \in IndexFile
      /\ \A v \in Val : [NoFile EXCEPT !.state = "corrupt"].map[v] = 0
  BY BoundsAssumption DEF NoFile, NoKeys, IndexFile
<1>3. ASSUME NEW cut \in Cuts, NEW file,
             file = [state |-> "ok", lost |-> missing[c] \cup cut,
                     map |-> [v \in Val |-> IF v \in cut THEN 0 ELSE idx[c][v]]]
      PROVE  file \in IndexFile /\ \A v \in Val : file.map[v] \in {0, idx[c][v]}
  <2>1. missing[c] \cup cut \in SUBSET Val
    BY ValueAssumption DEF TypeOK
  <2>2. [v \in Val |-> IF v \in cut THEN 0 ELSE idx[c][v]] \in [Val -> 0 .. MaxSlots]
    BY BoundsAssumption DEF TypeOK
  <2>3. file.map = [v \in Val |-> IF v \in cut THEN 0 ELSE idx[c][v]]
    BY <1>3
  <2>4. file \in IndexFile
    BY <1>3, <2>1, <2>2 DEF IndexFile
  <2> QED BY <2>3, <2>4
<1> QED BY <1>1, <1>2, <1>3 DEF CutFiles

\* A key is lost on the way while the tree is rebalanced: the index keeps
\* some of its entries, and the entry of the row at hand.
LEMMA RebalanceKeeps ==
  ASSUME TypeOK, RebalanceThrows
  PROVE  /\ idx' \in [Indexed -> [Val -> 0 .. MaxSlots]]
         /\ missing' \in [Indexed -> SUBSET Val]
         /\ dirty' \in [Indexed -> BOOLEAN]
         /\ \A c \in Indexed, v \in Val :
              \/ idx'[c][v] \in {0, idx[c][v]}
              \/ /\ pc \in {"insKeys", "updKeys"} /\ c = col
                 /\ v = cur.new[col] /\ idx'[c][v] = cur.rid
<1>1. /\ idx \in [Indexed -> [Val -> 0 .. MaxSlots]] /\ missing \in [Indexed -> SUBSET Val]
      /\ dirty \in [Indexed -> BOOLEAN] /\ col \in Indexed /\ cur.rid \in 0 .. MaxSlots
      /\ dirty' = [dirty EXCEPT ![col] = TRUE] /\ 0 \in 0 .. MaxSlots
  BY BoundsAssumption DEF RebalanceThrows, TypeOK
<1> DEFINE full == IF pc \in {"insKeys", "updKeys"}
                     THEN [idx[col] EXCEPT ![cur.new[col]] = cur.rid] ELSE idx[col]
<1>2. /\ full \in [Val -> 0 .. MaxSlots]
      /\ \A v \in Val : \/ full[v] = idx[col][v]
                        \/ /\ pc \in {"insKeys", "updKeys"} /\ v = cur.new[col]
                           /\ full[v] = cur.rid
  BY <1>1
<1>3. PICK gone \in SUBSET {v \in Val : full[v] # 0}, more \in {{}} \cup Cuts :
        /\ idx' = [idx EXCEPT ![col] =
                     [v \in Val |-> IF v \in gone \cup more THEN 0 ELSE full[v]]]
        /\ missing' = [missing EXCEPT ![col] = @ \cup more]
  BY DEF RebalanceThrows
<1> HIDE DEF full
<1>4. more \subseteq Val
  BY ValueAssumption
<1>5. [v \in Val |-> IF v \in gone \cup more THEN 0 ELSE full[v]] \in [Val -> 0 .. MaxSlots]
  BY <1>1, <1>2
<1>6. ASSUME NEW c \in Indexed, NEW v \in Val
      PROVE  \/ idx'[c][v] \in {0, idx[c][v]}
             \/ /\ pc \in {"insKeys", "updKeys"} /\ c = col
                /\ v = cur.new[col] /\ idx'[c][v] = cur.rid
  <2>1. CASE c # col
    BY <1>1, <1>3, <2>1
  <2>2. CASE c = col
    <3>1. idx'[c][v] \in {0, full[v]}
      BY <1>1, <1>3, <2>2
    <3> QED BY <1>2, <2>2, <3>1
  <2> QED BY <2>1, <2>2
<1> QED BY <1>1, <1>3, <1>4, <1>5, <1>6

\* The statement ends there with an error.
LEMMA RebalanceTyped ==
  ASSUME Typed, RebalanceThrows
  PROVE  Typed'
<1>1. /\ EndStatement("error") /\ UNCHANGED <<heap, open, disk, crashes, intact, behind>>
  BY DEF RebalanceThrows
<1>2. TypeOK'
  BY <1>1, RebalanceKeeps, NoCurType, BoundsAssumption DEF Typed, TypeOK, EndStatement
<1>3. Phases' /\ Room'
  BY <1>1 DEF EndStatement, Phases, Inserting, Updating, Scanning, Room
<1> QED BY <1>2, <1>3 DEF Typed

\* The steps between statements.
LEMMA SessionTyped ==
  ASSUME Typed, Session
  PROVE  Typed'
<1> USE DEF Typed, index
<1>1. CASE Use
  BY <1>1, UseTyped
<1>2. CASE Exit
  BY <1>2 DEF Exit, TypeOK, Phases, Inserting, Updating, Scanning, Room
<1>3. CASE ExitDone
  BY <1>3, GoneTyped DEF ExitDone, TypeOK
<1>4. CASE Crash
  <2>1. crashes' \in 0 .. MaxCrashes
    BY <1>4, BoundsAssumption DEF Crash, TypeOK
  <2> QED BY <1>4, <2>1, GoneTyped DEF Crash, TypeOK
<1>5. CASE Start
  BY <1>5 DEF Start, TypeOK, Phases, Inserting, Updating, Scanning, Room
<1>6. ASSUME NEW c \in Indexed, ExitFlush(c)
      PROVE  Typed'
  <2>1. disk' \in [Indexed -> IndexFile]
    <3>1. Flushed(c) \in IndexFile
      BY DEF Flushed, TypeOK, IndexFile
    <3> QED BY <1>6, <3>1 DEF ExitFlush, TypeOK
  <2>2. TypeOK'
    BY <1>6, <2>1 DEF ExitFlush, TypeOK, stmt
  <2>3. Phases' /\ Room'
    BY <1>6 DEF ExitFlush, stmt, Phases, Inserting, Updating, Scanning, Room
  <2> QED BY <2>2, <2>3
<1>7. ASSUME NEW c \in Indexed, CrashInFlush(c)
      PROVE  Typed'
  <2>1. disk' \in [Indexed -> IndexFile]
    <3>1. CutFiles(c) \subseteq IndexFile
      BY CutFilesTyped
    <3> QED BY <1>7, <3>1 DEF CrashInFlush, TypeOK
  <2>2. crashes' \in 0 .. MaxCrashes
    BY <1>7, BoundsAssumption DEF CrashInFlush, TypeOK
  <2> QED BY <1>7, <2>1, <2>2, GoneTyped DEF CrashInFlush
<1> QED BY <1>1, <1>2, <1>3, <1>4, <1>5, <1>6, <1>7 DEF Session

\* Every step but one of the session is one of a statement.
LEMMA NextTyped ==
  ASSUME Typed, RowsConform, [Next]_vars
  PROVE  Typed'
<1>1. CASE Fail
  BY <1>1, EndTyped DEF Fail
<1>2. ASSUME NEW rows \in Inserts, BeginInsert(rows)
      PROVE  Typed'
  BY <1>2, BeginInsertTyped
<1>3. ASSUME NEW items \in Updates, BeginUpdate(items) \/ RefuseUpdate(items)
      PROVE  Typed'
  BY <1>1, <1>3, BeginUpdateTyped DEF RefuseUpdate
<1>4. CASE BeginDelete
  BY <1>4, BeginDeleteTyped
<1>5. CASE InsertAccept \/ InsertReject
  BY <1>1, <1>5, InsertAcceptTyped DEF InsertReject
<1>6. CASE UpdateAccept \/ UpdateReject
  BY <1>1, <1>6, UpdateAcceptTyped DEF UpdateReject
<1>7. CASE DeleteAccept \/ SkipRow \/ WhereThrows
  BY <1>1, <1>7, DeleteAcceptTyped, SkipRowTyped DEF WhereThrows
<1>8. CASE EraseKey \/ RemoveRow
  BY <1>8, EraseKeyTyped, RemoveRowTyped
<1>9. CASE WriteRow \/ WriteThrows
  BY <1>1, <1>9, WriteRowTyped DEF WriteThrows
<1>10. CASE InsertKey \/ KeyThrows \/ RebalanceThrows \/ NextRow
  BY <1>1, <1>10, InsertKeyTyped, RebalanceTyped, NextRowTyped DEF KeyThrows
<1>11. CASE Finish
  BY <1>11, EndTyped DEF Finish
<1>12. CASE Session
  BY <1>12, SessionTyped
<1>13. CASE UNCHANGED vars
  BY <1>13 DEF vars, index, stmt, Typed, TypeOK, Phases, Inserting, Updating, Scanning, Room, Rest
<1> QED
  BY <1>2, <1>3, <1>4, <1>5, <1>6, <1>7, <1>8, <1>9, <1>10, <1>11, <1>12, <1>13
  DEF Next, Begin, Step

\* The statements leave rows of the types of the schema in the file.
LEMMA NextConforms ==
  ASSUME Typed, RowsConform, [Next]_vars
  PROVE  RowsConform'
<1>1. CASE UNCHANGED heap
  BY <1>1 DEF RowsConform
<1>2. CASE RemoveRow
  <2>1. heap \in Seq(Row \cup {Deleted}) /\ cur.rid \in Live(heap)
    BY <1>2 DEF RemoveRow, Typed, TypeOK, Phases
  <2>2. heap' = [heap EXCEPT ![cur.rid] = Deleted]
    BY <1>2 DEF RemoveRow
  <2>3. Live(heap') = Live(heap) \ {cur.rid} /\ \A r \in Live(heap') : heap'[r] = heap[r]
    BY <2>1, <2>2, DeleteSlot DEF Live
  <2> QED BY <2>3 DEF RowsConform
<1>3. CASE WriteRow
  <2>1. /\ heap \in Seq(Row \cup {Deleted}) /\ cur.new \in Row /\ Conforms(cur.new)
        /\ heap' = Append(heap, cur.new)
    BY <1>3 DEF WriteRow, Typed, TypeOK, Phases
  <2>2. /\ Live(heap') = Live(heap) \cup {Len(heap) + 1}
        /\ \A r \in Live(heap) : heap'[r] = heap[r]
        /\ heap'[Len(heap) + 1] = cur.new
    BY <2>1, AppendSlot DEF Live
  <2> QED BY <2>1, <2>2 DEF RowsConform, Conforms
<1> QED
  BY <1>1, <1>2, <1>3
  DEF Next, Begin, Step, Session, vars, Fail, Finish, BeginInsert, BeginUpdate, RefuseUpdate,
      BeginDelete, InsertAccept, InsertReject, UpdateAccept, UpdateReject, DeleteAccept,
      SkipRow, WhereThrows, EraseKey, WriteThrows, InsertKey, KeyThrows,
      RebalanceThrows, NextRow, Use,
      Exit, ExitDone, Crash, Start, ExitFlush, CrashInFlush

\* A new table.
LEMMA InitTyped == Init => Typed /\ RowsConform
<1> SUFFICES ASSUME Init PROVE Typed /\ RowsConform
  OBVIOUS
<1> USE DEF Init
<1>1. TypeOK
  <2>1. /\ idx \in [Indexed -> [Val -> 0 .. MaxSlots]]
        /\ disk \in [Indexed -> IndexFile]
    BY BoundsAssumption DEF NoKeys, NoFile, IndexFile
  <2>2. heap \in Seq(Row \cup {Deleted}) /\ Len(heap) = 0 /\ Len(work) = 0
    OBVIOUS
  <2>3. dirty \in [Indexed -> BOOLEAN]
    OBVIOUS
  <2>4. work \in Seq(SourceRow \cup Row \cup {Deleted}) /\ set \in Seq(SetItem)
    OBVIOUS
  <2>5. /\ pos \in 1 .. Len(work) + 1 /\ col \in 1 .. NCols + 1
        /\ crashes \in 0 .. MaxCrashes /\ Len(heap) <= MaxSlots
    BY <2>2, BoundsAssumption
  <2>6. cur \in [rid : 0 .. MaxSlots, old : Row, new : Row]
    BY NoCurType
  <2>7. /\ open \subseteq Indexed /\ missing \in [Indexed -> SUBSET Val]
        /\ pc = "idle" /\ reply = "none" /\ intact \in BOOLEAN /\ behind \in BOOLEAN
    OBVIOUS
  <2> QED BY <2>1, <2>2, <2>3, <2>4, <2>5, <2>6, <2>7 DEF TypeOK
<1>2. Phases /\ Room
  BY DEF Phases, Inserting, Updating, Scanning, Room
<1>3. RowsConform
  BY DEF RowsConform, Live
<1> QED BY <1>1, <1>2, <1>3 DEF Typed

\* The inductive invariant of types, locals and stored rows.
LEMMA TypedAlways == Spec => [](Typed /\ RowsConform)
<1>1. Typed /\ RowsConform /\ [Next]_vars => (Typed /\ RowsConform)'
  BY NextTyped, NextConforms
<1> QED BY InitTyped, <1>1, PTL DEF Spec

\* Every variable keeps its type, through errors, crashes and restarts.
THEOREM TypeCorrect == Spec => []TypeOK
<1>1. Typed /\ RowsConform => TypeOK
  BY DEF Typed
<1> QED BY TypedAlways, <1>1, PTL

\* No statement, INSERT or UPDATE, stores a value of another type than its
\* column's.
THEOREM RowsAlwaysConform == Spec => []RowsConform
<1>1. Typed /\ RowsConform => RowsConform
  OBVIOUS
<1> QED BY TypedAlways, <1>1, PTL

\* What is left of the scan of an UPDATE or DELETE is what the file holds:
\* rows the statement itself removed or wrote are behind it or beyond it.
THEOREM SnapshotStaysCurrent == Spec => []SnapshotCurrent
<1>1. Typed /\ RowsConform => SnapshotCurrent
  BY DEF Typed, Phases, SnapshotCurrent, Scanning, Updating
<1> QED BY TypedAlways, <1>1, PTL

-----------------------------------------------------------------------------
(* Entries of an index, stale ones included *)

\* The entries of a map of column c lie within the file, and those of live
\* rows are under the key of their row.
Entries(map, c) ==
  \A v \in Val : /\ map[v] \in 0 .. Len(heap)
                 /\ map[v] \in Live(heap) => heap[map[v]][c] = v

Rooted == \A c \in Indexed : Entries(idx[c], c) /\ Entries(disk[c].map, c)

\* An empty index has no entry to go wrong.
LEMMA NoKeysRooted ==
  ASSUME Typed, NEW c \in Indexed
  PROVE  Entries(NoKeys, c)
BY DEF Typed, TypeOK, Entries, NoKeys, Live

\* A row is removed or written: no entry is affected.
LEMMA EntriesStable ==
  ASSUME Typed, NEW c \in Indexed, NEW map, Entries(map, c), RemoveRow \/ WriteRow
  PROVE  \A v \in Val : /\ map[v] \in 0 .. Len(heap')
                        /\ map[v] \in Live(heap') => heap'[map[v]][c] = v
<1>0. heap \in Seq(Row \cup {Deleted}) /\ cur.new \in Row /\ Len(heap) \in Nat
  BY DEF Typed, TypeOK
<1>1. CASE RemoveRow
  <2>1. cur.rid \in Live(heap) /\ heap' = [heap EXCEPT ![cur.rid] = Deleted]
    BY <1>1 DEF RemoveRow, Typed, Phases
  <2>2. /\ Len(heap') = Len(heap)
        /\ Live(heap') = Live(heap) \ {cur.rid}
        /\ \A i \in 1 .. Len(heap) : i # cur.rid => heap'[i] = heap[i]
    BY <1>0, <2>1, DeleteSlot
  <2>3. \A i \in Live(heap') : i \in Live(heap) /\ heap'[i] = heap[i]
    BY <2>2 DEF Live
  <2> QED BY <2>2, <2>3 DEF Entries
<1>2. CASE WriteRow
  <2>1. /\ Len(heap') = Len(heap) + 1
        /\ Live(heap') = Live(heap) \cup {Len(heap) + 1}
        /\ \A i \in 1 .. Len(heap) : heap'[i] = heap[i]
    BY <1>0, <1>2, AppendSlot DEF WriteRow
  <2>2. \A i \in 0 .. Len(heap) : i \in Live(heap') => i \in Live(heap) /\ heap'[i] = heap[i]
    BY <1>0, <2>1 DEF Live
  <2>3. 0 .. Len(heap) \subseteq 0 .. Len(heap')
    BY <1>0, <2>1
  <2>4. ASSUME NEW v \in Val
        PROVE  /\ map[v] \in 0 .. Len(heap')
               /\ map[v] \in Live(heap') => heap'[map[v]][c] = v
    <3>1. map[v] \in 0 .. Len(heap) /\ (map[v] \in Live(heap) => heap[map[v]][c] = v)
      BY DEF Entries
    <3> QED BY <2>2, <2>3, <3>1
  <2> QED BY <2>4
<1> QED BY <1>1, <1>2

\* No step makes an entry lead to a row with another key.
LEMMA NextRooted ==
  ASSUME Typed, Typed', Rooted, [Next]_vars
  PROVE  Rooted'
<1> USE DEF Rooted, index
<1>1. CASE UNCHANGED <<heap, idx, disk>>
  BY <1>1 DEF Entries
<1>2. CASE RemoveRow \/ WriteRow
  <2>1. UNCHANGED <<idx, disk>>
    BY <1>2 DEF RemoveRow, WriteRow
  <2> QED BY <1>2, <2>1, EntriesStable DEF Entries
<1>3. CASE EraseKey
  <2>1. UNCHANGED <<heap, disk>>
    BY <1>3 DEF EraseKey
  <2>2. \A c \in Indexed, v \in Val : idx'[c][v] = idx[c][v] \/ idx'[c][v] = 0
    <3>1. idx \in [Indexed -> [Val -> 0 .. MaxSlots]]
      BY DEF Typed, TypeOK
    <3>2. \/ idx' = [idx EXCEPT ![col][cur.old[col]] = 0]
          \/ idx' = idx
      BY <1>3 DEF EraseKey
    <3> QED BY <3>1, <3>2
  <2>3. 0 \in 0 .. Len(heap) /\ 0 \notin Live(heap)
    BY DEF Typed, TypeOK, Live
  <2> QED BY <2>1, <2>2, <2>3 DEF Entries
<1>4. CASE InsertKey
  <2>1. UNCHANGED <<heap, disk>>
    BY <1>4 DEF InsertKey
  <2>2. cur.rid \in Live(heap) /\ heap[cur.rid] = cur.new
    BY <1>4 DEF InsertKey, Typed, Phases
  <2>3. \A c \in Indexed, v \in Val :
          \/ idx'[c][v] = idx[c][v]
          \/ c = col /\ v = cur.new[col] /\ idx'[c][v] = cur.rid
    <3>1. idx \in [Indexed -> [Val -> 0 .. MaxSlots]]
      BY DEF Typed, TypeOK
    <3>2. \/ idx' = [idx EXCEPT ![col][cur.new[col]] = cur.rid]
          \/ idx' = idx
      BY <1>4 DEF InsertKey
    <3> QED BY <3>1, <3>2
  <2>4. cur.rid \in 0 .. Len(heap)
    BY <2>2 DEF Live
  <2> QED BY <2>1, <2>2, <2>3, <2>4 DEF Entries
<1>5. CASE Use
  <2>1. UNCHANGED <<heap, disk>>
    BY <1>5 DEF Use
  <2>2. \A c \in Indexed : idx'[c] = disk[c].map \/ idx'[c] = idx[c]
    BY <1>5 DEF Use
  <2> QED BY <2>1, <2>2 DEF Entries
<1>6. CASE ProcessGone /\ UNCHANGED heap /\ UNCHANGED disk
  <2>1. \A c \in Indexed : idx'[c] = NoKeys
    BY <1>6 DEF ProcessGone
  <2>2. \A c \in Indexed : Entries(NoKeys, c)
    BY NoKeysRooted
  <2> QED BY <1>6, <2>1, <2>2 DEF Entries
<1>7. ASSUME NEW d \in Indexed, ExitFlush(d)
      PROVE  Rooted'
  <2>1. UNCHANGED <<heap, idx>>
    BY <1>7 DEF ExitFlush
  <2>2. \A c \in Indexed : disk'[c].map = disk[c].map \/ disk'[c].map = idx[c]
    BY <1>7 DEF ExitFlush, Flushed, Typed, TypeOK
  <2> QED BY <2>1, <2>2 DEF Entries
<1>8. ASSUME NEW d \in Indexed, CrashInFlush(d)
      PROVE  Rooted'
  <2>1. UNCHANGED heap
    BY <1>8 DEF CrashInFlush
  <2>2. \A c \in Indexed, v \in Val : disk'[c].map[v] \in {0, disk[c].map[v], idx[c][v]}
    <3>1. PICK file \in CutFiles(d) : disk' = [disk EXCEPT ![d] = file]
      BY <1>8 DEF CrashInFlush
    <3>2. \A v \in Val : file.map[v] \in {0, idx[d][v]}
      BY CutFilesTyped DEF Typed
    <3> QED BY <3>1, <3>2 DEF Typed, TypeOK
  <2>3. \A c \in Indexed : idx'[c] = NoKeys
    BY <1>8 DEF CrashInFlush, ProcessGone
  <2>4. \A c \in Indexed : Entries(NoKeys, c)
    BY NoKeysRooted
  <2>5. 0 \in 0 .. Len(heap) /\ 0 \notin Live(heap)
    BY DEF Typed, TypeOK, Live
  <2>6. \A c \in Indexed : Entries(disk[c].map, c) /\ Entries(idx[c], c)
    OBVIOUS
  <2>7. ASSUME NEW c \in Indexed, NEW v \in Val
        PROVE  /\ disk'[c].map[v] \in 0 .. Len(heap)
               /\ disk'[c].map[v] \in Live(heap) => heap[disk'[c].map[v]][c] = v
    <3>1. /\ disk[c].map[v] \in 0 .. Len(heap)
          /\ disk[c].map[v] \in Live(heap) => heap[disk[c].map[v]][c] = v
          /\ idx[c][v] \in 0 .. Len(heap)
          /\ idx[c][v] \in Live(heap) => heap[idx[c][v]][c] = v
      BY <2>6 DEF Entries
    <3>2. disk'[c].map[v] \in {0, disk[c].map[v], idx[c][v]}
      BY <2>2
    <3> QED BY <2>5, <3>1, <3>2
  <2>8. \A c \in Indexed : Entries(disk[c].map, c)'
    BY <2>1, <2>7 DEF Entries
  <2>9. \A c \in Indexed : Entries(idx[c], c)'
    BY <2>1, <2>3, <2>4 DEF Entries
  <2> QED BY <2>8, <2>9
<1>9. CASE ExitDone \/ Crash
  BY <1>6, <1>9 DEF ExitDone, Crash
<1>10. CASE RebalanceThrows
  <2>1. UNCHANGED <<heap, disk>>
    BY <1>10 DEF RebalanceThrows
  <2>2. pc \in {"insKeys", "updKeys"} => /\ cur.rid \in Live(heap) /\ heap[cur.rid] = cur.new
                                         /\ cur.rid \in 0 .. Len(heap)
    BY DEF Typed, Phases, Live
  <2>3. 0 \in 0 .. Len(heap) /\ 0 \notin Live(heap)
    BY DEF Typed, TypeOK, Live
  <2>4. \A c \in Indexed, v \in Val :
          \/ idx'[c][v] \in {0, idx[c][v]}
          \/ /\ pc \in {"insKeys", "updKeys"} /\ c = col
             /\ v = cur.new[col] /\ idx'[c][v] = cur.rid
    BY <1>10, RebalanceKeeps DEF Typed
  <2> QED BY <2>1, <2>2, <2>3, <2>4 DEF Entries
<1> QED
  BY <1>1, <1>2, <1>3, <1>4, <1>5, <1>7, <1>8, <1>9, <1>10
  DEF Next, Begin, Step, Session, vars, Fail, Finish, BeginInsert, BeginUpdate, RefuseUpdate,
      BeginDelete, InsertAccept, InsertReject, UpdateAccept, UpdateReject, DeleteAccept,
      SkipRow, WhereThrows, WriteThrows, KeyThrows, NextRow, Exit, Start

\* No entry of an index, in memory or in its file, current or stale after a
\* crash, leads to a live row with another key: RowIds are not reused.
THEOREM IndexAlwaysSound == Spec => []IndexSound
<1>1. Init => Rooted
  BY NoKeysRooted, InitTyped DEF Init, Rooted, NoFile
<1>2. Typed /\ RowsConform /\ Rooted /\ [Next]_vars => Rooted'
  BY NextTyped, NextRooted
<1>3. Rooted => IndexSound
  <2> SUFFICES ASSUME Rooted, NEW c \in Indexed, NEW v \in Val,
                      NEW r \in {idx[c][v], disk[c].map[v]} \cap Live(heap)
               PROVE  heap[r][c] = v
    BY DEF IndexSound
  <2>1. Entries(idx[c], c) /\ Entries(disk[c].map, c)
    BY DEF Rooted
  <2> QED BY <2>1 DEF Entries
<1> QED BY <1>1, <1>2, <1>3, TypedAlways, PTL DEF Spec

-----------------------------------------------------------------------------
(* Uniqueness *)

\* The part of Trustworthy that is about one column.
Sound(c) ==
  /\ disk[c].state \in {"absent", "ok"}
  /\ missing[c] = {} /\ disk[c].lost = {}
  /\ c \in open => Coherent(c) /\ (dirty[c] \/ disk[c].map = idx[c])
  /\ c \notin open \/ ~behind => Exact(disk[c].map, c)

\* A step that only moves the control, between places where no row is half
\* indexed.
LEMMA QuietStep ==
  ASSUME Trustworthy, \A c \in Indexed : ~Pending(c),
         UNCHANGED <<heap, index, disk, intact, behind>>,
         pc' \in {"idle", "ins", "upd", "del", "exit"}
  PROVE  Trustworthy'
<1> USE DEF index
<1>1. ASSUME NEW c \in Indexed, Sound(c)
      PROVE  Sound(c)'
  <2>1. ~Pending(c) /\ ~Pending(c)'
    BY DEF Pending
  <2>2. Coherent(c) => Coherent(c)'
    BY <2>1 DEF Coherent
  <2> QED BY <1>1, <2>2 DEF Sound, Exact
<1> QED BY <1>1 DEF Trustworthy, Sound

\* Outside the loops over the indexes no row is half indexed.
LEMMA NotPending ==
  ASSUME pc \notin {"updErase", "delErase", "insKeys", "updKeys"}
  PROVE  \A c \in Indexed : ~Pending(c)
BY DEF Pending

\* Then an open index holds exactly the keys of the live rows.
LEMMA Settled ==
  ASSUME Trustworthy, intact, NEW c \in Indexed, c \in open, ~Pending(c)
  PROVE  Exact(idx[c], c)
BY DEF Trustworthy, Coherent, Exact

\* The checks of INSERT and UPDATE suffice: an index never throws on a
\* statement that passed them.
LEMMA NoKeyThrows ==
  ASSUME Typed, Trustworthy, intact
  PROVE  ~KeyThrows /\ ~RebalanceThrows
<1>0. ~RebalanceThrows
  BY DEF RebalanceThrows, Trustworthy, Typed, TypeOK
<1> SUFFICES ASSUME KeyThrows PROVE FALSE
  BY <1>0
<1>1. col \in Indexed /\ missing[col] = {}
  BY DEF KeyThrows, Trustworthy
<1>2. pc \in {"insKeys", "updKeys"} /\ col \in open /\ idx[col][cur.new[col]] # 0
  BY <1>1 DEF KeyThrows, Find
<1>3. cur.rid \in Live(heap) /\ heap[cur.rid] = cur.new
  BY <1>2 DEF Typed, Phases
<1>4. Pending(col) /\ cur.new[col] \in Val
  BY <1>1, <1>2 DEF Pending, Typed, TypeOK, Row, Indexed
<1>5. Coherent(col)
  BY <1>1, <1>2 DEF Trustworthy
<1>6. idx[col][cur.new[col]] # cur.rid
  BY <1>2, <1>4, <1>5 DEF Coherent
<1> QED BY <1>2, <1>3, <1>5, <1>6 DEF Coherent

\* An error outside the loops over the indexes leaves them exact.
LEMMA FailTrustworthy ==
  ASSUME Typed, Trustworthy, Fail, pc \in {"idle", "ins", "insWrite", "upd", "updWrite", "del"}
  PROVE  Trustworthy'
BY NotPending, QuietStep DEF Fail, EndStatement

\* A row that INSERT accepts has a free key in every index.
LEMMA InsertAcceptTrustworthy ==
  ASSUME Typed, Trustworthy, InsertAccept
  PROVE  Trustworthy'
<1> USE DEF InsertAccept, index
<1>1. ASSUME NEW c \in Indexed, Sound(c)
      PROVE  Sound(c)'
  <2>1. ~Pending(c) /\ ~Pending(c)'
    BY DEF Pending
  <2>2. c \in open => idx[c][cur'.new[c]] = 0
    BY DEF Acceptable, Violates, Find, Indexed
  <2>3. c \in open /\ Coherent(c) => Coherent(c)'
    BY <2>1, <2>2 DEF Coherent
  <2> QED BY <1>1, <2>3 DEF Sound, Exact
<1> QED BY <1>1 DEF Trustworthy, Sound

\* A row that UPDATE accepts has a key that is free or the row's own.
LEMMA UpdateAcceptTrustworthy ==
  ASSUME Typed, Trustworthy, UpdateAccept
  PROVE  Trustworthy'
<1> USE DEF UpdateAccept, index
<1>0. /\ work[pos] \in Row /\ pos \in Live(heap) /\ heap[pos] = work[pos]
      /\ set \in Seq(SetItem)
  BY ScannedRow DEF Scanning, Updating, Typed, TypeOK
<1>1. ASSUME intact, NEW c \in Indexed, Sound(c)
      PROVE  Sound(c)'
  <2>1. ~Pending(c) /\ ~Pending(c)'
    BY DEF Pending, Indexed, Cols
  <2>2. ASSUME c \in open
        PROVE  idx[c][cur'.new[c]] \in {0, cur'.rid}
    <3> DEFINE new == NewRow(work[pos])
    <3>1. c \in Cols
      BY DEF Indexed
    <3>2. \/ new[c] = work[pos][c]
          \/ \E i \in 1 .. Len(set) : set[i][1] = c /\ new[c] = set[i][2]
      BY <1>0, <3>1, NewRowType
    <3>3. idx[c][heap[pos][c]] = pos
      BY <1>0, <1>1, <2>1, <2>2, Settled DEF Exact
    <3>4. ASSUME NEW i \in 1 .. Len(set), set[i][1] = c, set[i][2] # work[pos][c]
          PROVE  idx[c][set[i][2]] = 0
      BY <2>2, <3>4 DEF Conflict, Find
    <3>5. cur'.new = new /\ cur'.rid = pos
      OBVIOUS
    <3> HIDE DEF new
    <3> QED BY <1>0, <3>2, <3>3, <3>4, <3>5
  <2>3. c \in open /\ Coherent(c) => Coherent(c)'
    BY <2>1, <2>2 DEF Coherent
  <2> QED BY <1>1, <2>3 DEF Sound, Exact
<1> QED BY <1>1 DEF Trustworthy, Sound

\* DELETE takes a row at hand.
LEMMA DeleteAcceptTrustworthy ==
  ASSUME Typed, Trustworthy, DeleteAccept
  PROVE  Trustworthy'
<1> USE DEF DeleteAccept, index
<1>1. ASSUME NEW c \in Indexed, Sound(c)
      PROVE  Sound(c)'
  <2>1. ~Pending(c) /\ ~Pending(c)'
    BY DEF Pending, Indexed, Cols
  <2>2. c \in open /\ Coherent(c) => Coherent(c)'
    BY <2>1 DEF Coherent
  <2> QED BY <1>1, <2>2 DEF Sound, Exact
<1> QED BY <1>1 DEF Trustworthy, Sound

\* A key is taken out: the entry of the row at hand, and only that.
LEMMA EraseKeyTrustworthy ==
  ASSUME Typed, Trustworthy, EraseKey
  PROVE  Trustworthy'
<1> USE DEF EraseKey, index
<1>0. /\ idx \in [Indexed -> [Val -> 0 .. MaxSlots]] /\ dirty \in [Indexed -> BOOLEAN]
      /\ cur.rid \in Live(heap) /\ heap[cur.rid] = cur.old
      /\ cur.old \in Row /\ cur.new \in Row /\ Indexed \subseteq Cols /\ NCols \in Nat
  BY BoundsAssumption DEF Typed, TypeOK, Phases, Indexed
<1>00. /\ NCols \in Nat /\ col \in 1 .. NCols /\ Indexed \subseteq 1 .. NCols
       /\ col' = col + 1 /\ pc' = pc /\ heap' = heap /\ cur' = cur
  BY <1>0 DEF Cols
<1>1. ASSUME intact, NEW c \in Indexed, Sound(c), c # col
      PROVE  Sound(c)'
  <2>1. Pending(c) <=> Pending(c)'
    <3> HIDE DEF EraseKey, Indexed
    <3>1. c \in 1 .. NCols
      BY <1>00
    <3> QED BY <1>00, <1>1, <3>1 DEF Pending
  <2>2. UNCHANGED <<idx[c], dirty[c]>>
    BY <1>0, <1>1
  <2>3. Coherent(c) => Coherent(c)'
    BY <2>1, <2>2 DEF Coherent
  <2> QED BY <1>1, <2>2, <2>3 DEF Sound, Exact
<1>2. ASSUME intact, NEW c \in Indexed, Sound(c), c = col
      PROVE  Sound(c)'
  <2>1. ASSUME c \in open
        PROVE  Coherent(c)' /\ dirty'[c]
    <3> DEFINE key == cur.old[c]
    <3>1. ~Pending(c) /\ Coherent(c)
      BY <1>2, <2>1 DEF Sound, Pending, Cols
    <3>2. key \in Val /\ key = heap[cur.rid][c]
      BY <1>0, <1>2 DEF Row
    <3>3. /\ \A v \in Val : idx'[c][v] = IF v = key THEN 0 ELSE idx[c][v]
          /\ dirty'[c] <=> dirty[c] \/ idx[c][key] # 0
      <4>1. /\ idx' = [idx EXCEPT ![c][key] = 0]
            /\ dirty' = [dirty EXCEPT ![c] = @ \/ idx[c][key] # 0]
        BY <1>2, <2>1
      <4> HIDE DEF EraseKey, key
      <4> QED BY <1>0, <3>2, <4>1
    <3>4. Exact(idx[c], c)
      BY <3>1 DEF Coherent, Exact
    <3>5. idx[c][key] = cur.rid /\ cur.rid # 0
      BY <1>0, <3>2, <3>4 DEF Exact, Live
    <3>6. Pending(c)'
      BY <1>00, <1>2 DEF Pending
    <3>7. \A r \in Live(heap) : heap[r] \in Row
      BY DEF Live, Typed, TypeOK
    <3>8. \A r \in Live(heap) : heap[r][c] \in Val
      BY <1>0, <1>2, <3>7 DEF Row
    <3> HIDE DEF key
    <3>9. ASSUME NEW v \in Val, idx'[c][v] # 0
          PROVE  /\ idx'[c][v] \in Live(heap) /\ heap[idx'[c][v]][c] = v
                 /\ idx'[c][v] # cur.rid
      BY <3>2, <3>3, <3>4, <3>9 DEF Exact
    <3>10. ASSUME NEW r \in Live(heap)
           PROVE  \/ idx'[c][heap[r][c]] = r
                  \/ r = cur.rid /\ idx'[c][heap[r][c]] = 0
      BY <3>2, <3>3, <3>4, <3>5, <3>8 DEF Exact
    <3>11. pc = "updErase" => idx'[c][cur.new[c]] \in {0, cur.rid}
      <4>1. cur.new[c] \in Val
        BY <1>0, <1>2 DEF Row
      <4> QED BY <3>1, <3>3, <4>1 DEF Coherent
    <3>12. heap' = heap /\ cur' = cur /\ pc' = pc /\ pc \notin {"insWrite", "updWrite"}
      OBVIOUS
    <3>13. Coherent(c)'
      BY <3>6, <3>9, <3>10, <3>11, <3>12 DEF Coherent
    <3> QED BY <3>3, <3>5, <3>13
  <2>2. UNCHANGED <<heap, open, disk, behind>>
    OBVIOUS
  <2> QED BY <1>2, <2>1, <2>2 DEF Sound, Exact
<1> QED BY <1>1, <1>2 DEF Trustworthy, Sound

\* The row at hand goes: no entry of an open index leads to it any more.
LEMMA RemoveRowTrustworthy ==
  ASSUME Typed, Trustworthy, RemoveRow
  PROVE  Trustworthy'
<1> USE DEF RemoveRow, RowsChanged, index
<1> SUFFICES ASSUME intact'
             PROVE  Trustworthy'
  BY DEF Trustworthy
<1>0. /\ cur.rid \in Live(heap) /\ cur.new \in Row /\ Indexed \subseteq Cols /\ NCols \in Nat
      /\ heap \in Seq(Row \cup {Deleted}) /\ col \in 1 .. NCols + 1
  BY BoundsAssumption DEF Typed, TypeOK, Phases, Indexed
<1>1. intact /\ open = Indexed /\ behind' = TRUE
  OBVIOUS
<1>2. /\ Live(heap') = Live(heap) \ {cur.rid}
      /\ \A i \in Live(heap') : heap'[i] = heap[i]
  BY <1>0, DeleteSlot DEF Live
<1>3. ASSUME NEW c \in Indexed
      PROVE  Sound(c)'
  <2>1. Sound(c) /\ Coherent(c)
    BY <1>1 DEF Trustworthy, Sound
  <2>2. Pending(c) /\ ~Pending(c)'
    BY <1>0 DEF Pending, Cols
  <2>3. cur.new[c] \in Val
    BY <1>0 DEF Row
  <2>4. pc' = "updWrite" => idx[c][cur.new[c]] = 0
    BY <2>1, <2>2, <2>3 DEF Coherent
  <2>5. ASSUME NEW v \in Val, idx[c][v] # 0
        PROVE  idx[c][v] \in Live(heap') /\ heap'[idx[c][v]][c] = v
    <3>1. idx[c][v] \in Live(heap) /\ heap[idx[c][v]][c] = v /\ idx[c][v] # cur.rid
      BY <2>1, <2>2, <2>5 DEF Coherent
    <3> QED BY <1>2, <3>1
  <2>6. ASSUME NEW r \in Live(heap')
        PROVE  idx[c][heap'[r][c]] = r
    BY <1>2, <2>1, <2>6 DEF Coherent
  <2>7. idx' = idx /\ cur' = cur /\ pc' \notin {"insWrite", "updErase"}
    OBVIOUS
  <2>8. Coherent(c)'
    BY <2>2, <2>4, <2>5, <2>6, <2>7 DEF Coherent
  <2> QED BY <1>1, <2>1, <2>8 DEF Sound
<1> QED BY <1>1, <1>3 DEF Trustworthy, Sound

\* The row is written: the checks have left its keys free in every index.
LEMMA WriteRowTrustworthy ==
  ASSUME Typed, Trustworthy, WriteRow
  PROVE  Trustworthy'
<1> USE DEF WriteRow, RowsChanged, index
<1> SUFFICES ASSUME intact'
             PROVE  Trustworthy'
  BY DEF Trustworthy
<1>0. /\ cur.new \in Row /\ Indexed \subseteq Cols /\ NCols \in Nat
      /\ heap \in Seq(Row \cup {Deleted}) /\ Len(heap) \in Nat
      /\ cur \in [rid : 0 .. MaxSlots, old : Row, new : Row]
  BY BoundsAssumption DEF Typed, TypeOK, Indexed
<1>1. intact /\ open = Indexed /\ behind' = TRUE
  OBVIOUS
<1>2. /\ Live(heap') = Live(heap) \cup {Len(heap) + 1}
      /\ \A i \in Live(heap) : heap'[i] = heap[i] /\ i # Len(heap) + 1
      /\ heap'[Len(heap) + 1] = cur.new
  BY <1>0, AppendSlot DEF Live
<1>3. cur'.rid = Len(heap) + 1 /\ cur'.new = cur.new
  BY <1>0
<1>4. ASSUME NEW c \in Indexed
      PROVE  Sound(c)'
  <2>1. Sound(c) /\ Coherent(c)
    BY <1>1 DEF Trustworthy, Sound
  <2>2. ~Pending(c) /\ Pending(c)'
    BY <1>0 DEF Pending, Cols
  <2>3. cur.new[c] \in Val /\ idx[c][cur.new[c]] = 0
    BY <1>0, <2>1 DEF Row, Coherent
  <2>4. ASSUME NEW v \in Val, idx[c][v] # 0
        PROVE  /\ idx[c][v] \in Live(heap') /\ heap'[idx[c][v]][c] = v
               /\ idx[c][v] # cur'.rid
    BY <1>2, <1>3, <2>1, <2>4 DEF Coherent
  <2>5. ASSUME NEW r \in Live(heap')
        PROVE  \/ idx[c][heap'[r][c]] = r
               \/ r = cur'.rid /\ idx[c][heap'[r][c]] = 0
    BY <1>2, <1>3, <2>1, <2>2, <2>3, <2>5 DEF Coherent
  <2>6. idx' = idx /\ pc' \notin {"insWrite", "updWrite", "updErase"}
    OBVIOUS
  <2>7. Coherent(c)'
    BY <2>2, <2>4, <2>5, <2>6 DEF Coherent
  <2> QED BY <1>1, <2>1, <2>7 DEF Sound
<1> QED BY <1>1, <1>4 DEF Trustworthy, Sound

\* A key is put in: the one entry the row at hand lacked in that index.
LEMMA InsertKeyTrustworthy ==
  ASSUME Typed, Trustworthy, InsertKey
  PROVE  Trustworthy'
<1> USE DEF InsertKey, index
<1>0. /\ idx \in [Indexed -> [Val -> 0 .. MaxSlots]] /\ dirty \in [Indexed -> BOOLEAN]
      /\ cur.rid \in Live(heap) /\ heap[cur.rid] = cur.new
      /\ cur.new \in Row /\ Indexed \subseteq Cols /\ NCols \in Nat
  BY BoundsAssumption DEF Typed, TypeOK, Phases, Indexed
<1>00. /\ NCols \in Nat /\ col \in 1 .. NCols /\ Indexed \subseteq 1 .. NCols
       /\ col' = col + 1 /\ pc' = pc /\ heap' = heap /\ cur' = cur
  BY <1>0 DEF Cols
<1>1. ASSUME intact, NEW c \in Indexed, Sound(c), c # col
      PROVE  Sound(c)'
  <2>1. Pending(c) <=> Pending(c)'
    <3> HIDE DEF InsertKey, Indexed
    <3>1. c \in 1 .. NCols
      BY <1>00
    <3> QED BY <1>00, <1>1, <3>1 DEF Pending
  <2>2. UNCHANGED <<idx[c], dirty[c]>>
    BY <1>0, <1>1
  <2>3. Coherent(c) => Coherent(c)'
    BY <2>1, <2>2 DEF Coherent
  <2> QED BY <1>1, <2>2, <2>3 DEF Sound, Exact
<1>2. ASSUME intact, NEW c \in Indexed, Sound(c), c = col
      PROVE  Sound(c)'
  <2>1. ASSUME c \in open
        PROVE  Coherent(c)' /\ dirty'[c]
    <3> DEFINE key == cur.new[c]
    <3>1. Coherent(c) /\ ~Pending(c)'
      BY <1>00, <1>2, <2>1 DEF Sound, Pending
    <3>2. key \in Val /\ key = heap[cur.rid][c] /\ idx[c][key] = 0
      BY <1>0, <1>2, <2>1 DEF Row, Find
    <3>3. /\ \A v \in Val : idx'[c][v] = IF v = key THEN cur.rid ELSE idx[c][v]
          /\ dirty'[c] = TRUE
      <4>1. /\ idx' = [idx EXCEPT ![c][key] = cur.rid]
            /\ dirty' = [dirty EXCEPT ![c] = TRUE]
        BY <1>2, <2>1
      <4> HIDE DEF InsertKey, key
      <4> QED BY <1>0, <3>2, <4>1
    <3>4. cur.rid # 0 /\ \A r \in Live(heap) : r # 0
      BY <1>0 DEF Live
    <3>5. \A r \in Live(heap) : heap[r] \in Row
      BY DEF Live, Typed, TypeOK
    <3>6. \A r \in Live(heap) : heap[r][c] \in Val
      BY <1>0, <1>2, <3>5 DEF Row
    <3> HIDE DEF key
    <3>7. ASSUME NEW v \in Val, idx'[c][v] # 0
          PROVE  idx'[c][v] \in Live(heap) /\ heap[idx'[c][v]][c] = v
      BY <1>0, <3>1, <3>2, <3>3, <3>7 DEF Coherent
    <3>8. ASSUME NEW r \in Live(heap)
          PROVE  idx'[c][heap[r][c]] = r
      BY <3>1, <3>2, <3>3, <3>4, <3>6, <3>8 DEF Coherent
    <3>9. heap' = heap /\ pc' = pc /\ pc \notin {"insWrite", "updWrite", "updErase"}
      OBVIOUS
    <3>10. Coherent(c)'
      BY <3>1, <3>7, <3>8, <3>9 DEF Coherent
    <3> QED BY <3>3, <3>10
  <2>2. UNCHANGED <<heap, open, disk, behind>>
    OBVIOUS
  <2> QED BY <1>2, <2>1, <2>2 DEF Sound, Exact
<1> QED BY <1>1, <1>2 DEF Trustworthy, Sound

\* USE opens all indexes or, when they are open, none.
LEMMA UseTrustworthy ==
  ASSUME Typed, Trustworthy, Use
  PROVE  Trustworthy'
<1> USE DEF Use, stmt
<1> SUFFICES ASSUME intact
             PROVE  Trustworthy'
  BY DEF Trustworthy
<1>0. \A c \in Indexed : Loads(c)
  BY DEF Trustworthy, Loads
<1>1. CASE open = Indexed
  <2>1. UseOpens = {}
    BY <1>1 DEF UseOpens
  <2>2. /\ open' = open
        /\ \A c \in Indexed : /\ idx'[c] = idx[c] /\ dirty'[c] = dirty[c]
                              /\ missing'[c] = missing[c]
    BY <2>1
  <2>3. ASSUME NEW c \in Indexed
        PROVE  Sound(c)'
    <3>1. Coherent(c) => Coherent(c)'
      BY <2>2 DEF Coherent, Pending
    <3> QED BY <2>2, <3>1 DEF Sound, Exact, Trustworthy
  <2> QED BY <2>2, <2>3 DEF Trustworthy, Sound
<1>2. CASE open = {}
  <2>1. UseOpens = Indexed
    BY <1>0, <1>2 DEF UseOpens
  <2>2. /\ open' = Indexed
        /\ \A c \in Indexed : idx'[c] = disk[c].map /\ missing'[c] = {}
    BY <1>2, <2>1 DEF Trustworthy
  <2>3. ASSUME NEW c \in Indexed
        PROVE  Sound(c)'
    <3>1. Exact(disk[c].map, c) /\ disk[c].state \in {"absent", "ok"} /\ disk[c].lost = {}
      BY <1>2 DEF Trustworthy
    <3>2. ~Pending(c)' /\ pc' = "idle" /\ heap' = heap
      BY DEF Pending
    <3>3. Coherent(c)'
      BY <2>2, <3>1, <3>2 DEF Coherent, Exact
    <3> QED BY <2>2, <3>1, <3>3 DEF Sound, Exact
  <2> QED BY <2>2, <2>3 DEF Trustworthy, Sound
<1> QED BY <1>1, <1>2 DEF Trustworthy

\* The process is gone, and every .idx file is that of the rows.
LEMMA GoneTrustworthy ==
  ASSUME ProcessGone, UNCHANGED <<heap, disk>>,
         \A c \in Indexed : /\ disk[c].state \in {"absent", "ok"} /\ disk[c].lost = {}
                            /\ Exact(disk[c].map, c)
  PROVE  Trustworthy'
BY DEF Trustworthy, ProcessGone, Exact

\* The end of the process, its death and its next start.
LEMMA SessionTrustworthy ==
  ASSUME Typed, Trustworthy, Session
  PROVE  Trustworthy'
<1> SUFFICES ASSUME intact'
             PROVE  Trustworthy'
  BY DEF Trustworthy
<1>1. CASE Use
  BY <1>1, UseTrustworthy
<1>2. CASE Exit \/ Start
  BY <1>2, NotPending, QuietStep DEF Exit, Start
<1>3. CASE ExitDone
  <2>1. intact /\ \A c \in Indexed : ~Pending(c)
    BY <1>3, NotPending DEF ExitDone
  <2>2. ASSUME NEW c \in Indexed
        PROVE  /\ disk[c].state \in {"absent", "ok"} /\ disk[c].lost = {}
               /\ Exact(disk[c].map, c)
    BY <1>3, <2>1, Settled DEF ExitDone, Trustworthy
  <2> QED BY <1>3, <2>2, GoneTrustworthy DEF ExitDone
<1>4. CASE Crash
  <2>1. intact /\ ~behind
    BY <1>4 DEF Crash
  <2>2. \A c \in Indexed : /\ disk[c].state \in {"absent", "ok"} /\ disk[c].lost = {}
                           /\ Exact(disk[c].map, c)
    BY <2>1 DEF Trustworthy
  <2> QED BY <1>4, <2>2, GoneTrustworthy DEF Crash
<1>5. ASSUME NEW d \in Indexed, ExitFlush(d)
      PROVE  Trustworthy'
  <2>1. intact /\ \A c \in Indexed : ~Pending(c) /\ ~Pending(c)'
    BY <1>5, NotPending DEF ExitFlush, stmt, Pending
  <2>2. UNCHANGED <<heap, open, idx, missing, stmt, behind>>
    BY <1>5 DEF ExitFlush
  <2>3. ASSUME NEW c \in Indexed
        PROVE  Sound(c)'
    <3>1. Sound(c)
      BY <2>1 DEF Trustworthy, Sound
    <3>2. Coherent(c) => Coherent(c)'
      BY <2>1, <2>2 DEF Coherent, stmt
    <3>3. CASE c = d
      <4>1. /\ disk'[c].state = "ok" /\ disk'[c].map = idx[c] /\ disk'[c].lost = missing[c]
            /\ c \in open
        BY <1>5, <3>3 DEF ExitFlush, Flushed, Typed, TypeOK
      <4>2. Exact(idx[c], c)
        BY <2>1, <4>1, Settled
      <4> QED BY <2>2, <3>1, <3>2, <4>1, <4>2 DEF Sound, Exact
    <3>4. CASE c # d
      <4>1. disk'[c] = disk[c] /\ dirty'[c] = dirty[c]
        BY <1>5, <3>4 DEF ExitFlush, Typed, TypeOK
      <4> QED BY <2>2, <3>1, <3>2, <4>1 DEF Sound, Exact
    <3> QED BY <3>3, <3>4
  <2> QED BY <2>1, <2>2, <2>3 DEF Trustworthy, Sound
<1>6. ASSUME NEW d \in Indexed, CrashInFlush(d)
      PROVE  Trustworthy'
  BY <1>6 DEF CrashInFlush
<1> QED BY <1>1, <1>2, <1>3, <1>4, <1>5, <1>6 DEF Session

\* Trustworthy is inductive, given the types and the locals.
LEMMA NextTrustworthy ==
  ASSUME Typed, Trustworthy, [Next]_vars
  PROVE  Trustworthy'
<1>1. CASE InsertReject \/ UpdateReject \/ WhereThrows \/ WriteThrows
  BY <1>1, FailTrustworthy DEF InsertReject, UpdateReject, WhereThrows, WriteThrows
<1>2. ASSUME NEW items \in Updates, RefuseUpdate(items)
      PROVE  Trustworthy'
  BY <1>2, FailTrustworthy DEF RefuseUpdate
<1>3. ASSUME NEW items \in Updates, BeginUpdate(items)
      PROVE  Trustworthy'
  BY <1>3, NotPending, QuietStep DEF BeginUpdate
<1>4. ASSUME NEW rows \in Inserts, BeginInsert(rows)
      PROVE  Trustworthy'
  BY <1>4, NotPending, QuietStep DEF BeginInsert
<1>5. CASE BeginDelete \/ SkipRow \/ Finish
  BY <1>5, NotPending, QuietStep DEF BeginDelete, SkipRow, Finish, EndStatement
<1>6. CASE NextRow
  <2>1. \A c \in Indexed : ~Pending(c)
    BY <1>6, BoundsAssumption DEF NextRow, Pending, Indexed, Cols, Typed, TypeOK
  <2> QED BY <1>6, <2>1, QuietStep DEF NextRow
<1>7. CASE KeyThrows \/ RebalanceThrows
  BY <1>7, NoKeyThrows DEF KeyThrows, RebalanceThrows, Fail, Trustworthy
<1>8. CASE InsertAccept \/ UpdateAccept \/ DeleteAccept
  BY <1>8, InsertAcceptTrustworthy, UpdateAcceptTrustworthy, DeleteAcceptTrustworthy
<1>9. CASE EraseKey \/ RemoveRow \/ WriteRow \/ InsertKey
  BY <1>9, EraseKeyTrustworthy, RemoveRowTrustworthy, WriteRowTrustworthy,
     InsertKeyTrustworthy
<1>10. CASE Session
  BY <1>10, SessionTrustworthy
<1>11. CASE UNCHANGED vars
  BY <1>11 DEF vars, index, stmt, Trustworthy, Coherent, Pending, Exact
<1> QED
  BY <1>1, <1>2, <1>3, <1>4, <1>5, <1>6, <1>7, <1>8, <1>9, <1>10, <1>11
  DEF Next, Begin, Step

\* A new table is trustworthy.
LEMMA InitTrustworthy == Init => Trustworthy
BY DEF Init, Trustworthy, Coherent, Exact, Live, NoKeys, NoFile, Pending

\* The inductive invariant of the indexes.
LEMMA TrustworthyAlways == Spec => [](Typed /\ Trustworthy)
<1>1. Typed /\ RowsConform /\ Trustworthy /\ [Next]_vars => Trustworthy'
  BY NextTrustworthy
<1> QED BY InitTrustworthy, <1>1, TypedAlways, PTL DEF Spec

\* The keys of an INDEXED column are unique at every instant, as long as
\* nothing has separated the indexes from the rows.
THEOREM KeysStayUnique == Spec => []UniqueKeys
<1>1. Typed /\ Trustworthy => UniqueKeys
  <2> SUFFICES ASSUME Typed, Trustworthy, intact, NEW c \in Indexed,
                      NEW r \in Live(heap), NEW s \in Live(heap), heap[r][c] = heap[s][c]
               PROVE  r = s
    BY DEF UniqueKeys, IndexedIsUnique
  <2>1. r # 0 /\ s # 0
    BY DEF Live
  <2>2. CASE c \in open
    BY <2>1, <2>2 DEF Trustworthy, Coherent
  <2>3. CASE c \notin open
    BY <2>3 DEF Trustworthy, Exact
  <2> QED BY <2>2, <2>3
<1> QED BY <1>1, TrustworthyAlways, PTL

\* Between statements an index is exactly the keys of the live rows, across
\* clean restarts, and across crashes that found its file up to date.
THEOREM IndexAlwaysExact == Spec => []IndexExact
<1>1. Typed /\ Trustworthy => IndexExact
  BY NotPending, Settled DEF IndexExact, Trustworthy
<1> QED BY <1>1, TrustworthyAlways, PTL

\* BTree::insert never finds the key of a row that passed the checks.
THEOREM ChecksSuffice == Spec => []CheckSuffices
<1>1. Typed /\ Trustworthy => CheckSuffices
  <2> SUFFICES ASSUME Typed, Trustworthy, intact, pc \in {"insKeys", "updKeys"},
                      col \in Indexed, Find(col, cur.new[col]) # 0
               PROVE  FALSE
    BY DEF CheckSuffices
  <2>1. col \in open /\ idx[col][cur.new[col]] # 0
    BY DEF Find
  <2>2. cur.rid \in Live(heap) /\ heap[cur.rid] = cur.new
    BY DEF Typed, Phases
  <2>3. cur.new[col] \in Val /\ Pending(col)
    <3>1. cur.new \in Row /\ col \in 1 .. NCols /\ NCols \in Nat
      BY BoundsAssumption DEF Typed, TypeOK, Indexed, Cols
    <3> QED BY <3>1 DEF Pending, Row, Cols
  <2>4. Coherent(col)
    BY <2>1 DEF Trustworthy
  <2> QED BY <2>1, <2>2, <2>3, <2>4 DEF Coherent
<1> QED BY <1>1, TrustworthyAlways, PTL

\* SELECT by index and by scan agree while the indexes are intact; stale
\* indexes never hide that there is a matching row, nor invent one.
THEOREM SelectAlwaysAgrees == Spec => []SelectAgrees
<1>1. Typed /\ Trustworthy /\ IndexSound => SelectAgrees
  <2> SUFFICES ASSUME Typed, Trustworthy, IndexSound, pc = "idle",
                      NEW c \in Indexed, NEW v \in Val
               PROVE  /\ intact => SelectByIndex(c, v) = Matches(c, v)
                      /\ SelectByIndex(c, v) = {} <=> Matches(c, v) = {}
    BY DEF SelectAgrees
  <2> DEFINE r == Find(c, v)
  <2>1. CASE r \notin Live(heap)
    BY <2>1 DEF SelectByIndex
  <2>2. CASE r \in Live(heap)
    <3>1. c \in open /\ r = idx[c][v]
      BY <2>2 DEF Find, Live
    <3>2. heap[r][c] = v
      BY <2>2, <3>1 DEF IndexSound
    <3>3. SelectByIndex(c, v) = Matches(c, v) \cap {r}
      BY <2>2 DEF SelectByIndex
    <3>4. r \in Matches(c, v) <=> v # NULL
      BY <2>2, <3>2 DEF Matches
    <3>5. v = NULL => Matches(c, v) = {}
      BY DEF Matches
    <3>6. intact => Matches(c, v) \subseteq {r}
      <4>1. intact => Exact(idx[c], c)
        BY <3>1, NotPending, Settled
      <4> QED BY <3>1, <4>1 DEF Exact, Matches
    <3> QED BY <3>3, <3>4, <3>5, <3>6
  <2> QED BY <2>1, <2>2
<1> QED BY <1>1, TrustworthyAlways, IndexAlwaysSound, PTL

-----------------------------------------------------------------------------
(* The progress of an INSERT *)

\* A new table, and every step of the statement: what the INSERT has stored
\* so far ends the file.
LEMMA NextStored ==
  ASSUME Typed, RowsStored, [Next]_vars
  PROVE  RowsStored'
<1>1. CASE pc' \notin {"ins", "insWrite", "insKeys"}
  BY <1>1 DEF RowsStored
<1>2. ASSUME NEW rows \in Inserts, BeginInsert(rows)
      PROVE  RowsStored'
  <2>1. pc' = "ins" /\ pos' = 1 /\ Len(heap') \in Nat
    BY <1>2 DEF BeginInsert, Typed, TypeOK
  <2> QED BY <2>1 DEF RowsStored, StoredLast
<1>3. CASE InsertAccept
  <2>1. /\ pc = "ins" /\ pc' = "insWrite" /\ pos' = pos + 1 /\ pos \in Nat /\ 1 <= pos
        /\ heap' = heap /\ work' = work /\ cur'.new = FullRow(work[pos])
    BY <1>3 DEF InsertAccept, Typed, TypeOK
  <2>2. StoredLast(pos - 1) /\ pos' - 2 = pos - 1 /\ pos' - 1 = pos /\ 2 <= pos'
    BY <2>1 DEF RowsStored
  <2>3. StoredLast(pos - 2)'
    BY <2>1, <2>2 DEF StoredLast, FullRow
  <2> QED BY <2>1, <2>2, <2>3 DEF RowsStored
<1>4. CASE pc = "insWrite" /\ WriteRow
  <2>1. /\ pc' = "insKeys" /\ pos' = pos /\ work' = work /\ pos \in Nat
        /\ heap' = Append(heap, cur.new) /\ heap \in Seq(Row \cup {Deleted})
        /\ Len(heap) \in Nat /\ cur.new \in Row
    BY <1>4 DEF WriteRow, Typed, TypeOK
  <2>2. /\ 2 <= pos /\ StoredLast(pos - 2) /\ cur.new = FullRow(work[pos - 1])
    BY <1>4 DEF RowsStored
  <2>3. /\ Len(heap') = Len(heap) + 1
        /\ \A i \in 1 .. Len(heap) : heap'[i] = heap[i]
        /\ heap'[Len(heap) + 1] = cur.new
    BY <2>1, AppendSlot
  <2>4. ASSUME NEW i \in 1 .. pos - 1
        PROVE  heap'[Len(heap') - (pos - 1) + i] = FullRow(work[i])
    <3>1. CASE i = pos - 1
      <4>1. Len(heap') - (pos - 1) + i = Len(heap) + 1
        BY <2>1, <2>3, <3>1
      <4> QED BY <2>2, <2>3, <3>1, <4>1
    <3>2. CASE i # pos - 1
      <4>1. i \in 1 .. pos - 2
        BY <2>1, <3>2
      <4>2. /\ Len(heap') - (pos - 1) + i = Len(heap) - (pos - 2) + i
            /\ Len(heap) - (pos - 2) + i \in 1 .. Len(heap)
        BY <2>1, <2>2, <2>3, <4>1 DEF StoredLast
      <4>3. heap[Len(heap) - (pos - 2) + i] = FullRow(work[i])
        BY <2>2, <4>1 DEF StoredLast
      <4> QED BY <2>3, <4>2, <4>3
    <3> QED BY <3>1, <3>2
  <2>5. pos' - 1 <= Len(heap')
    BY <2>1, <2>2, <2>3 DEF StoredLast
  <2>6. \A i \in 1 .. pos' - 1 : heap'[Len(heap') - (pos' - 1) + i] = FullRow(work'[i])
    BY <2>1, <2>4 DEF FullRow
  <2>7. StoredLast(pos - 1)'
    BY <2>5, <2>6 DEF StoredLast, FullRow
  <2> QED BY <2>1, <2>7 DEF RowsStored
<1>5. CASE pc \in {"ins", "insWrite", "insKeys"} /\ pc' \in {pc, "ins"} /\ pc # "insWrite"
           /\ UNCHANGED <<heap, work, pos>>
  <2>1. StoredLast(pos - 1)
    BY <1>5 DEF RowsStored
  <2>2. StoredLast(pos - 1)'
    BY <1>5, <2>1 DEF StoredLast
  <2>3. pc' # "insWrite"
    BY <1>5
  <2> QED BY <2>2, <2>3 DEF RowsStored
<1>6. CASE UNCHANGED vars
  BY <1>6 DEF vars, stmt, RowsStored, StoredLast
<1>7. CASE InsertKey \/ NextRow
  BY <1>1, <1>5, <1>7 DEF InsertKey, NextRow
<1>8. CASE Fail \/ RebalanceThrows \/ Finish \/ ProcessGone \/ Exit \/ Start
  BY <1>1, <1>8 DEF Fail, RebalanceThrows, Finish, EndStatement, ProcessGone, Exit, Start
<1>9. CASE WriteRow
  BY <1>1, <1>4, <1>9 DEF WriteRow
<1>10. ASSUME NEW items \in Updates, BeginUpdate(items) \/ RefuseUpdate(items)
       PROVE  RowsStored'
  BY <1>1, <1>8, <1>10 DEF BeginUpdate, RefuseUpdate
<1>11. CASE BeginDelete \/ UpdateAccept \/ DeleteAccept \/ SkipRow \/ EraseKey \/ RemoveRow
            \/ Use \/ \E c \in Indexed : ExitFlush(c)
  BY <1>1, <1>11 DEF BeginDelete, UpdateAccept, DeleteAccept, SkipRow, EraseKey, RemoveRow,
     Use, ExitFlush, stmt
<1>12. CASE Session
  BY <1>8, <1>11, <1>12 DEF Session, ExitDone, Crash, CrashInFlush
<1> QED
  BY <1>2, <1>3, <1>6, <1>7, <1>8, <1>9, <1>10, <1>11, <1>12
  DEF Next, Begin, Step, InsertReject, UpdateReject, WhereThrows, WriteThrows, KeyThrows

\* When an INSERT fails, the rows before the refused one are stored, each
\* with its defaults, in order and at the end of the file.
THEOREM PrefixStored == Spec => []InsertPrefix
<1>1. Init => RowsStored
  BY DEF Init, RowsStored
<1>2. Typed /\ RowsConform /\ RowsStored /\ [Next]_vars => RowsStored'
  BY NextStored
<1>3. RowsStored => InsertPrefix
  BY DEF RowsStored, StoredLast, InsertPrefix
<1> QED BY <1>1, <1>2, <1>3, TypedAlways, PTL DEF Spec

-----------------------------------------------------------------------------
(* The rows an UPDATE keeps *)

\* The rows of a file can be counted.
LEMMA LiveFinite ==
  ASSUME NEW h, Len(h) \in Nat
  PROVE  IsFiniteSet(Live(h)) /\ Cardinality(Live(h)) \in Nat
<1>1. IsFiniteSet(1 .. Len(h))
  BY FS_Interval
<1>2. IsFiniteSet(Live(h))
  BY <1>1, FS_Subset DEF Live
<1> QED BY <1>2, FS_CardinalityType

\* The count is that of the scan at every step of an UPDATE but one.
LEMMA NextCounted ==
  ASSUME Typed, RowsCounted, [Next]_vars
  PROVE  RowsCounted'
<1>1. CASE pc' \notin Updating
  BY <1>1 DEF RowsCounted, Updating
<1>2. CASE /\ pc \in Updating \ {"updWrite"} /\ pc' \in Updating \ {"updWrite"}
           /\ UNCHANGED <<heap, work>>
  BY <1>2 DEF RowsCounted, Updating
<1>3. ASSUME NEW items \in Updates, BeginUpdate(items)
      PROVE  RowsCounted'
  BY <1>3 DEF BeginUpdate, RowsCounted, Updating
<1>4. CASE pc = "updErase" /\ RemoveRow
  <2>1. /\ heap \in Seq(Row \cup {Deleted}) /\ Len(heap) \in Nat /\ Len(heap) <= MaxSlots
        /\ cur.rid \in Live(heap) /\ MaxSlots \in Nat
        /\ heap' = [heap EXCEPT ![cur.rid] = Deleted]
        /\ pc' = "updWrite" /\ UNCHANGED <<cur, work>>
    BY <1>4, BoundsAssumption DEF RemoveRow, Typed, TypeOK, Phases
  <2>2. Live(heap') = Live(heap) \ {cur.rid} /\ Len(heap') = Len(heap)
    BY <2>1, DeleteSlot
  <2>3. /\ IsFiniteSet(Live(heap)) /\ Cardinality(Live(heap)) \in Nat
        /\ Cardinality(Live(heap')) = Cardinality(Live(heap)) - 1
    BY <2>1, <2>2, LiveFinite, FS_RemoveElement
  <2>4. Cardinality(Live(heap)) = Cardinality(Live(work))
    BY <1>4 DEF RowsCounted, Updating
  <2>5. cur.rid \in Rid /\ cur.rid <= Len(heap)
    BY <2>1 DEF Live, Rid
  <2>6. Cardinality(Live(heap')) + 1 = Cardinality(Live(work'))
    BY <2>1, <2>3, <2>4
  <2>7. cur'.rid \in Rid \ Live(heap') /\ cur'.rid <= Len(heap')
    BY <2>1, <2>2, <2>5
  <2> QED BY <2>1, <2>6, <2>7 DEF RowsCounted
<1>5. CASE pc = "updWrite" /\ WriteRow
  <2>1. /\ heap \in Seq(Row \cup {Deleted}) /\ Len(heap) \in Nat /\ cur.new \in Row
        /\ heap' = Append(heap, cur.new)
        /\ pc' = "updKeys" /\ work' = work
    BY <1>5 DEF WriteRow, Typed, TypeOK
  <2>2. /\ Live(heap') = Live(heap) \cup {Len(heap) + 1}
        /\ Len(heap) + 1 \notin Live(heap)
    BY <2>1, AppendSlot DEF Live
  <2>3. /\ IsFiniteSet(Live(heap)) /\ Cardinality(Live(heap)) \in Nat
        /\ Cardinality(Live(heap')) = Cardinality(Live(heap)) + 1
    BY <2>1, <2>2, LiveFinite, FS_AddElement
  <2>4. Cardinality(Live(heap)) + 1 = Cardinality(Live(work))
    BY <1>5 DEF RowsCounted
  <2> QED BY <2>1, <2>3, <2>4 DEF RowsCounted
<1>6. CASE UNCHANGED vars
  BY <1>6 DEF vars, stmt, RowsCounted
<1>7. CASE Fail \/ RebalanceThrows \/ Finish \/ ProcessGone \/ Exit \/ Start
  BY <1>1, <1>7 DEF Fail, RebalanceThrows, Finish, EndStatement, ProcessGone, Exit,
     Start, Updating
<1>8. CASE RemoveRow \/ WriteRow
  BY <1>1, <1>4, <1>5, <1>8 DEF RemoveRow, WriteRow, Updating
<1>9. CASE \/ UpdateAccept \/ SkipRow \/ EraseKey \/ InsertKey \/ NextRow
  BY <1>1, <1>2, <1>9 DEF UpdateAccept, SkipRow, EraseKey, InsertKey, NextRow, Updating
<1>10. CASE InsertAccept \/ DeleteAccept \/ BeginDelete \/ Use \/ \E c \in Indexed : ExitFlush(c)
  BY <1>1, <1>10 DEF InsertAccept, DeleteAccept, BeginDelete, Use, ExitFlush, stmt, Updating
<1>11. ASSUME NEW rows \in Inserts, BeginInsert(rows)
       PROVE  RowsCounted'
  BY <1>1, <1>11 DEF BeginInsert, Updating
<1>12. CASE Session
  BY <1>7, <1>10, <1>12 DEF Session, ExitDone, Crash, CrashInFlush
<1> QED
  BY <1>3, <1>6, <1>7, <1>8, <1>9, <1>10, <1>11, <1>12
  DEF Next, Begin, Step, RefuseUpdate, InsertReject, UpdateReject, WhereThrows, WriteThrows,
      KeyThrows

\* The strengthening from which the steps of an UPDATE are counted.
LEMMA CountedAlways == Spec => [](Typed /\ RowsConform /\ RowsCounted)
<1>1. Init => RowsCounted
  BY DEF Init, RowsCounted, Updating
<1>2. Typed /\ RowsConform /\ RowsCounted /\ [Next]_vars => RowsCounted'
  BY NextCounted
<1> QED BY <1>1, <1>2, TypedAlways, PTL DEF Spec

\* However an UPDATE ends, by its last row or by an error, it has neither
\* lost nor doubled a row, but for one whose new version fits no page.
THEOREM UpdatesKeepRows == Spec => UpdateKeepsRows
<1>1. ASSUME Typed, RowsCounted, [Next]_vars,
             pc \in {"upd", "updErase", "updWrite", "updKeys"}, pc' = "idle"
      PROVE  \/ Cardinality(Live(heap)') = Cardinality(Live(work))
             \/ pc = "updWrite" /\ ~Fits(cur.new)
  <2>1. heap' = heap /\ (pc = "updWrite" => WriteThrows)
    <3>1. ~Begin /\ ~Session
      BY <1>1 DEF Begin, BeginInsert, BeginUpdate, RefuseUpdate, BeginDelete,
         Session, Use, Exit, ExitDone, ProcessGone, Crash, Start, ExitFlush, CrashInFlush
    <3>2. vars' # vars
      BY <1>1 DEF vars, stmt
    <3>3. Step
      BY <1>1, <3>1, <3>2 DEF Next
    <3>4. Fail \/ RebalanceThrows \/ Finish
      BY <1>1, <3>3
      DEF Step, InsertAccept, InsertReject, UpdateAccept, UpdateReject, DeleteAccept,
          SkipRow, WhereThrows, EraseKey, RemoveRow, WriteRow, WriteThrows, InsertKey,
          KeyThrows, NextRow
    <3>5. pc = "updWrite" => WriteThrows
      BY <1>1, <3>3
      DEF Step, InsertAccept, InsertReject, UpdateAccept, UpdateReject, DeleteAccept,
          SkipRow, WhereThrows, EraseKey, RemoveRow, WriteRow, InsertKey,
          KeyThrows, RebalanceThrows, NextRow, Finish
    <3> QED BY <3>4, <3>5 DEF Fail, RebalanceThrows, Finish
  <2>2. Cardinality(Live(heap)') = Cardinality(Live(heap))
    BY <2>1 DEF Live
  <2> QED BY <1>1, <2>1, <2>2 DEF RowsCounted, Updating, WriteThrows
<1>2. Typed /\ RowsConform /\ RowsCounted /\ [Next]_vars =>
        [(pc \in {"upd", "updErase", "updWrite", "updKeys"} /\ pc' = "idle") =>
           \/ Cardinality(Live(heap)') = Cardinality(Live(work))
           \/ pc = "updWrite" /\ ~Fits(cur.new)]_vars
  BY <1>1
<1> QED BY <1>2, CountedAlways, PTL DEF Spec, UpdateKeepsRows

-----------------------------------------------------------------------------
(* The engine implements UniqueTable *)

\* The rows shown, by the file and by the row being rewritten.
View(h, gone, old) ==
  [r \in Live(h) \cup gone |-> IF r \in Live(h) THEN h[r] ELSE old]

\* ShownRows before and after a step.
LEMMA ShownIs ==
  /\ pc = "updWrite" => ShownRows = View(heap, {cur.rid}, cur.old)
  /\ pc # "updWrite" => ShownRows = View(heap, {}, cur.old)
  /\ pc' = "updWrite" => ShownRows' = View(heap', {cur'.rid}, cur'.old)
  /\ pc' # "updWrite" => ShownRows' = View(heap', {}, cur'.old)
BY DEF ShownRows, View, Live

\* While no row is being rewritten, the rows shown are those of the file.
LEMMA ViewOfFile ==
  ASSUME NEW h, NEW old
  PROVE  View(h, {}, old) = [r \in Live(h) |-> h[r]]
BY DEF View

\* No step gives trust back.
LEMMA TrustOnlyLost ==
  ASSUME Typed', [Next]_vars
  PROVE  intact' \in BOOLEAN /\ (intact' => intact)
<1>1. intact' \in BOOLEAN
  BY DEF Typed, TypeOK
<1>2. intact' => intact
  <2>1. ASSUME Begin \/ Session
        PROVE  intact' => intact
    BY <2>1
    DEF Begin, BeginInsert, BeginUpdate, RefuseUpdate, BeginDelete, Session, Fail, Use, Exit,
        ExitDone, Crash, Start, ExitFlush, CrashInFlush
  <2>2. ASSUME Step
        PROVE  intact' => intact
    BY <2>2
    DEF Step, Fail, Finish, InsertAccept, InsertReject, UpdateAccept, UpdateReject, DeleteAccept,
        SkipRow, WhereThrows, EraseKey, RemoveRow, RowsChanged, WriteRow, WriteThrows, InsertKey,
        KeyThrows, RebalanceThrows, NextRow
  <2> QED BY <2>1, <2>2 DEF Next, vars
<1> QED BY <1>1, <1>2

\* A row about to be written has keys that no row of the file has.
LEMMA KeysFree ==
  ASSUME Typed, Trustworthy, intact, open = Indexed, pc \in {"insWrite", "updWrite"},
         NEW r \in Live(heap), NEW k \in Indexed
  PROVE  heap[r][k] # cur.new[k]
<1>1. Coherent(k) /\ ~Pending(k)
  BY NotPending DEF Trustworthy
<1>2. idx[k][cur.new[k]] = 0 /\ idx[k][heap[r][k]] = r
  BY <1>1 DEF Coherent
<1>3. r # 0
  BY DEF Live
<1> QED BY <1>2, <1>3

\* A DELETE takes one row out of the table; an UPDATE shows the row it takes
\* out of the file until it has written it.
LEMMA RemoveRowMaps ==
  ASSUME Typed, RemoveRow
  PROVE  UNCHANGED ShownRows \/ \E r \in Rid : Table!Delete(r)
<1>1. /\ heap \in Seq(Row \cup {Deleted}) /\ Len(heap) \in Nat /\ Len(heap) <= MaxSlots
      /\ cur.rid \in Live(heap) /\ MaxSlots \in Nat /\ heap[cur.rid] = cur.old
      /\ heap' = [heap EXCEPT ![cur.rid] = Deleted] /\ cur' = cur
  BY BoundsAssumption DEF RemoveRow, Typed, TypeOK, Phases
<1>2. /\ Live(heap') = Live(heap) \ {cur.rid}
      /\ \A i \in Live(heap') : heap'[i] = heap[i]
  BY <1>1, DeleteSlot DEF Live
<1>3. CASE pc = "updErase"
  <2>1. pc # "updWrite" /\ pc' = "updWrite"
    BY <1>3 DEF RemoveRow
  <2>2. View(heap', {cur.rid}, heap[cur.rid]) = View(heap, {}, cur.old)
    <3>1. Live(heap') \cup {cur.rid} = Live(heap)
      BY <1>1, <1>2
    <3>2. \A i \in Live(heap) :
            (IF i \in Live(heap') THEN heap'[i] ELSE heap[cur.rid]) = heap[i]
      BY <1>1, <1>2
    <3> QED BY <3>1, <3>2 DEF View
  <2> QED BY <1>1, <2>1, <2>2, ShownIs
<1>4. CASE pc = "delErase"
  <2>1. pc # "updWrite" /\ pc' # "updWrite"
    BY <1>4 DEF RemoveRow
  <2>2. /\ ShownRows = [r \in Live(heap) |-> heap[r]]
        /\ ShownRows' = [r \in Live(heap') |-> heap'[r]]
    BY <2>1, ShownIs, ViewOfFile
  <2>3. DOMAIN ShownRows = Live(heap)
    BY <2>2
  <2>4. ShownRows' = [i \in DOMAIN ShownRows \ {cur.rid} |-> ShownRows[i]]
    BY <1>2, <2>2, <2>3
  <2>5. cur.rid \in Rid
    BY <1>1 DEF Live, Rid
  <2>6. Table!Delete(cur.rid)
    BY <1>1, <2>3, <2>4 DEF Table!Delete, Table!Without
  <2> QED BY <2>5, <2>6
<1> QED BY <1>3, <1>4 DEF RemoveRow

\* A row written is inserted, or replaces the one that was being rewritten,
\* under an identifier never given before.
LEMMA WriteRowMaps ==
  ASSUME Typed, Typed', Trustworthy, RowsCounted, WriteRow
  PROVE  \E r \in Rid, row \in Row : \/ Table!Insert(r, row)
                                     \/ \E new \in Rid : Table!Replace(r, new, row)
<1> DEFINE n == Len(heap) + 1
<1>1. /\ heap \in Seq(Row \cup {Deleted}) /\ Len(heap) \in Nat /\ MaxSlots \in Nat
      /\ cur.new \in Row /\ heap' = Append(heap, cur.new)
  BY BoundsAssumption DEF WriteRow, Typed, TypeOK
<1>2. /\ Live(heap') = Live(heap) \cup {n} /\ n \notin Live(heap)
      /\ \A i \in Live(heap) : heap'[i] = heap[i]
      /\ heap'[n] = cur.new /\ Len(heap') = n
  BY <1>1, AppendSlot DEF Live
<1>3. n \in Rid
  <2>1. Len(heap') <= MaxSlots
    BY DEF Typed, TypeOK
  <2> QED BY <1>1, <1>2, <2>1 DEF Rid
<1>4. pc' # "updWrite" /\ ShownRows' = [r \in Live(heap') |-> heap'[r]]
  <2>1. pc' # "updWrite"
    BY DEF WriteRow
  <2> QED BY <2>1, ShownIs, ViewOfFile
<1>5. ASSUME intact', NEW i \in Live(heap)
      PROVE  Table!Distinct(heap[i], cur.new)
  <2>1. intact /\ open = Indexed
    BY <1>5 DEF WriteRow, RowsChanged
  <2> QED BY <2>1, KeysFree DEF Table!Distinct, WriteRow
<1> HIDE DEF n
<1>6. CASE pc = "insWrite"
  <2>1. ShownRows = [r \in Live(heap) |-> heap[r]] /\ DOMAIN ShownRows = Live(heap)
    BY <1>6, ShownIs, ViewOfFile
  <2>2. ShownRows' = [i \in DOMAIN ShownRows \cup {n} |-> IF i = n THEN cur.new ELSE ShownRows[i]]
    BY <1>2, <1>4, <2>1
  <2>3. intact' => \A i \in DOMAIN ShownRows : Table!Distinct(ShownRows[i], cur.new)
    BY <1>5, <2>1
  <2>4. Table!Insert(n, cur.new)
    BY <1>2, <2>1, <2>2, <2>3 DEF Table!Insert, Table!Free, Table!With
  <2> QED BY <1>1, <1>3, <2>4
<1>7. CASE pc = "updWrite"
  <2> DEFINE r == cur.rid
             rest == [i \in DOMAIN ShownRows \ {r} |-> ShownRows[i]]
  <2>1. /\ r \in Rid /\ r \notin Live(heap) /\ r <= Len(heap)
    BY <1>7 DEF RowsCounted
  <2>2. /\ ShownRows = [i \in Live(heap) \cup {r} |-> IF i \in Live(heap) THEN heap[i] ELSE cur.old]
        /\ DOMAIN ShownRows = Live(heap) \cup {r}
    BY <1>7, ShownIs DEF View
  <2>3. n # r /\ n \notin DOMAIN ShownRows
    BY <1>1, <1>2, <2>1, <2>2 DEF n, Rid
  <2> HIDE DEF r
  <2>4. rest = [i \in Live(heap) |-> heap[i]]
    BY <2>1, <2>2
  <2>5. DOMAIN rest = Live(heap)
    BY <2>4
  <2>6. ShownRows' = [i \in DOMAIN rest \cup {n} |-> IF i = n THEN cur.new ELSE rest[i]]
    <3> HIDE DEF rest
    <3> QED BY <1>2, <1>4, <2>4, <2>5
  <2>7. intact' => \A i \in DOMAIN rest : Table!Distinct(rest[i], cur.new)
    <3> HIDE DEF rest
    <3> QED BY <1>5, <2>4, <2>5
  <2>8. Table!Replace(r, n, cur.new)
    <3>1. Table!Without(r) = rest
      BY DEF Table!Without
    <3> HIDE DEF rest
    <3> QED BY <2>2, <2>3, <2>6, <2>7, <3>1 DEF Table!Replace, Table!Free, Table!With
  <2> QED BY <1>1, <1>3, <2>1, <2>8 DEF r
<1> QED BY <1>6, <1>7 DEF WriteRow

\* The new version of a row does not fit, or the process dies before it is
\* written: the row is gone.
LEMMA AbandonMaps ==
  ASSUME Typed, RowsCounted, pc = "updWrite", pc' # "updWrite", UNCHANGED heap
  PROVE  \E r \in Rid : Table!Delete(r)
<1> DEFINE r == cur.rid
<1>1. r \in Rid /\ r \notin Live(heap)
  BY DEF RowsCounted
<1>2. /\ ShownRows = [i \in Live(heap) \cup {r} |-> IF i \in Live(heap) THEN heap[i] ELSE cur.old]
      /\ DOMAIN ShownRows = Live(heap) \cup {r}
  BY ShownIs DEF View
<1>3. ShownRows' = [i \in Live(heap) |-> heap[i]]
  BY ShownIs, ViewOfFile
<1> HIDE DEF r
<1>4. ShownRows' = [i \in DOMAIN ShownRows \ {r} |-> ShownRows[i]]
  BY <1>1, <1>2, <1>3
<1>5. Table!Delete(r)
  BY <1>2, <1>4 DEF Table!Delete, Table!Without
<1> QED BY <1>1, <1>5

\* Every step of the engine is a step of the table, or changes nothing of it.
LEMMA StepOfTable ==
  ASSUME Typed, Typed', Trustworthy, RowsCounted, [Next]_vars
  PROVE  [Table!Next]_(Table!vars)
<1>1. intact' \in BOOLEAN /\ (intact' => intact)
  BY TrustOnlyLost
<1>2. CASE UNCHANGED heap /\ pc # "updWrite" /\ pc' # "updWrite"
  <2>1. UNCHANGED ShownRows
    BY <1>2, ShownIs, ViewOfFile
  <2> QED BY <1>1, <2>1 DEF Table!Next
<1>3. CASE RemoveRow
  BY <1>1, <1>3, RemoveRowMaps DEF Table!Next
<1>4. CASE WriteRow
  BY <1>1, <1>4, WriteRowMaps DEF Table!Next
<1>5. CASE pc = "updWrite" /\ pc' # "updWrite" /\ UNCHANGED heap
  BY <1>1, <1>5, AbandonMaps DEF Table!Next
<1>6. CASE UNCHANGED vars
  BY <1>6 DEF vars, stmt, ShownRows, Table!vars, Live
<1>7. CASE Begin
  BY <1>2, <1>7 DEF Begin, BeginInsert, BeginUpdate, RefuseUpdate, BeginDelete, Fail, EndStatement
<1>8. CASE Session
  BY <1>2, <1>5, <1>8 DEF Session, Use, Exit, ExitDone, ProcessGone, Crash, Start, ExitFlush,
     CrashInFlush, stmt
<1>9. CASE Fail \/ RebalanceThrows
  BY <1>2, <1>5, <1>9 DEF Fail, RebalanceThrows, EndStatement
<1>10. CASE \/ InsertAccept \/ UpdateAccept \/ DeleteAccept \/ SkipRow \/ EraseKey
            \/ InsertKey \/ NextRow \/ Finish
  BY <1>2, <1>10 DEF InsertAccept, UpdateAccept, DeleteAccept, SkipRow, EraseKey, InsertKey,
     NextRow, Finish, EndStatement
<1> QED
  BY <1>3, <1>4, <1>6, <1>7, <1>8, <1>9, <1>10
  DEF Next, Step, InsertReject, UpdateReject, WhereThrows, WriteThrows, KeyThrows

\* The engine implements the table with unique columns: seen from outside,
\* INSERT, UPDATE and DELETE change one row at a time, an UPDATE never shows
\* a row twice, and while the indexes are trusted no key is taken twice.
THEOREM EngineIsATable == Spec => ImplementsTable
<1>1. Init => Table!Init
  <2> SUFFICES ASSUME Init PROVE ShownRows = << >> /\ intact = TRUE
    BY DEF Table!Init
  <2>1. Live(heap) = {} /\ pc # "updWrite"
    BY DEF Init, Live
  <2>2. ShownRows = [r \in {} |-> heap[r]]
    BY <2>1, ShownIs, ViewOfFile
  <2> QED BY <2>2 DEF Init
<1>2. /\ Typed /\ Trustworthy /\ RowsConform /\ RowsCounted /\ [Next]_vars
      => [Table!Next]_(Table!vars)
  BY NextTyped, StepOfTable
<1> QED BY <1>1, <1>2, TrustworthyAlways, CountedAlways, PTL
        DEF Spec, ImplementsTable, Table!Spec

-----------------------------------------------------------------------------
(* What a table with unique columns promises *)

\* Rows that share no value of an INDEXED column.
Unlike(f) == \A i, j \in DOMAIN f : i # j => Table!Distinct(f[i], f[j])

\* Pairwise distinct rows stay so when a row with free keys is put in.
LEMMA WithUnique ==
  ASSUME NEW f, NEW r, NEW row,
         Unlike(f), Table!Free(f, row)
  PROVE  Unlike(Table!With(f, r, row))
<1> DEFINE g == Table!With(f, r, row)
<1>1. /\ DOMAIN g = DOMAIN f \cup {r}
      /\ g[r] = row
      /\ \A i \in DOMAIN f \ {r} : g[i] = f[i]
  BY DEF Table!With
<1> HIDE DEF g
<1>2. ASSUME NEW i \in DOMAIN g, NEW j \in DOMAIN g, i # j
      PROVE  Table!Distinct(g[i], g[j])
  <2>1. CASE i = r
    BY <1>1, <1>2, <2>1 DEF Table!Free, Table!Distinct
  <2>2. CASE j = r
    BY <1>1, <1>2, <2>2 DEF Table!Free, Table!Distinct
  <2>3. CASE i # r /\ j # r
    BY <1>1, <1>2, <2>3 DEF Unlike
  <2> QED BY <2>1, <2>2, <2>3
<1> QED BY <1>2 DEF g, Unlike

\* No step of the table breaks what is promised while the indexes are trusted.
LEMMA NextUnique ==
  ASSUME Table!Unique, [Table!Next]_(Table!vars)
  PROVE  Table!Unique'
<1> SUFFICES ASSUME intact'
             PROVE  Unlike(ShownRows')
  BY DEF Table!Unique, Table!Distinct, Unlike
<1>1. Unlike(ShownRows)
  <2>1. intact' => intact
    BY DEF Table!Next, Table!vars
  <2> QED BY <2>1 DEF Table!Unique, Unlike
<1>2. ASSUME NEW r
      PROVE  /\ DOMAIN Table!Without(r) = DOMAIN ShownRows \ {r}
             /\ Unlike(Table!Without(r))
  BY <1>1 DEF Table!Without, Unlike, Table!Distinct
<1>3. CASE UNCHANGED ShownRows
  BY <1>1, <1>3
<1>4. ASSUME NEW r \in Rid, Table!Delete(r)
      PROVE  Unlike(ShownRows')
  BY <1>2, <1>4 DEF Table!Delete
<1>5. ASSUME NEW r \in Rid, NEW row \in Row, Table!Insert(r, row)
      PROVE  Unlike(ShownRows')
  <2>1. Table!Free(ShownRows, row) /\ ShownRows' = Table!With(ShownRows, r, row)
    BY <1>5 DEF Table!Insert
  <2> QED BY <1>1, <2>1, WithUnique
<1>6. ASSUME NEW old \in Rid, NEW row \in Row, NEW new \in Rid, Table!Replace(old, new, row)
      PROVE  Unlike(ShownRows')
  <2>1. Table!Free(Table!Without(old), row) /\ ShownRows' = Table!With(Table!Without(old), new, row)
    BY <1>6 DEF Table!Replace
  <2>2. PICK rest : rest = Table!Without(old)
    OBVIOUS
  <2>3. Unlike(rest)
    BY <1>2, <2>2
  <2>4. Table!Free(rest, row) /\ ShownRows' = Table!With(rest, new, row)
    BY <2>1, <2>2
  <2> QED BY <2>3, <2>4, WithUnique
<1> QED BY <1>3, <1>4, <1>5, <1>6 DEF Table!Next, Table!vars

\* While the indexes are trusted, no two rows that are seen from outside share
\* the value of an INDEXED column, also halfway through an UPDATE: that is what
\* a table with unique columns promises, and the engine is one.
THEOREM ShownRowsUnique == Spec => []Table!Unique
<1>1. Table!Init => Table!Unique
  <2> SUFFICES ASSUME Table!Init PROVE Table!Unique
    OBVIOUS
  <2>1. DOMAIN ShownRows = {}
    BY DEF Table!Init
  <2> QED BY <2>1 DEF Table!Unique
<1>2. Table!Unique /\ [Table!Next]_(Table!vars) => Table!Unique'
  BY NextUnique
<1>3. ImplementsTable => []Table!Unique
  BY <1>1, <1>2, PTL DEF ImplementsTable, Table!Spec
<1> QED BY <1>3, EngineIsATable

=============================================================================
