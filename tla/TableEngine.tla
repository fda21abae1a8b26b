---------------------------- MODULE TableEngine ----------------------------
(***************************************************************************)
(* One table of the database, from CREATE TABLE on: the row-by-row work of *)
(* the Executor for INSERT, UPDATE and DELETE, the row file those          *)
(* statements write through, and one unique index per INDEXED column.      *)
(*                                                                         *)
(* The row file is the sequence of its slots: a slot is never reused, so a *)
(* RowId (page, slot) is a position of the sequence.  Every Storage call   *)
(* flushes the page it changed, so the file on disk is always `heap'.  The *)
(* indexes live in memory; a DiskNodeStore writes its .idx file only when  *)
(* it is destroyed, which for a table that is not dropped means a clean    *)
(* exit of the process.                                                    *)
(*                                                                         *)
(* The program is single threaded.  Statements are still taken apart at    *)
(* every call that changes state, because an exception or the death of the *)
(* process (Ctrl+C, a closed terminal) can separate any two of them.       *)
(***************************************************************************)
EXTENDS Integers, Sequences, FiniteSets

CONSTANTS
  NCols,          \* number of columns of the schema
  Constraint,     \* Constraint[c] \in {"NONE", "NOT_NULL", "INDEXED"}
  ColType,        \* ColType[c] \in {"INT", "STRING"}
  Default,        \* Default[c]: the DEFAULT value of column c, or NULL
  Ints, Strings,  \* the non-null values
  NULL,           \* std::monostate
  Oversize,       \* strings that make a row too long for any page
  Deleted,        \* content of a slot marked DELETED_SLOT
  Malformed,      \* a source row with a wrong count or an unknown column
  Inserts,        \* the INSERT statements a client may send
  Updates,        \* the SET lists a client may send
  Cuts,           \* sets of values whose nodes an .idx file may lack
  MaxSlots,       \* bound on the slots of the row file
  MaxCrashes      \* bound on the deaths of the process

Cols == 1 .. NCols
Val == Ints \cup Strings \cup {NULL}
Row == [Cols -> Val]
Rid == 1 .. MaxSlots
Indexed == {c \in Cols : Constraint[c] = "INDEXED"}

\* A source row of INSERT gives values to some columns.
PartialRow == UNION {[S -> Val] : S \in SUBSET Cols}
SourceRow == PartialRow \cup {Malformed}
\* A SET item names a column, 0 standing for a column the table lacks.
SetItem == (Cols \cup {0}) \X Val

ASSUME BoundsAssumption ==
  /\ NCols \in Nat
  /\ MaxSlots \in Nat
  /\ MaxCrashes \in Nat

\* Parser::parseColumnDef refuses a DEFAULT of the wrong type.  A column is
\* its position here, so that the columns of the table have distinct names:
\* this is assumed of the client, no parser or catalog checks it.  Two INDEXED
\* columns of one name would share the index that makeKey names.
ASSUME SchemaAssumption ==
  /\ Constraint \in [Cols -> {"NONE", "NOT_NULL", "INDEXED"}]
  /\ ColType \in [Cols -> {"INT", "STRING"}]
  /\ Default \in [Cols -> Val]
  /\ \A c \in Cols : \/ Default[c] = NULL
                     \/ ColType[c] = "INT" /\ Default[c] \in Ints
                     \/ ColType[c] = "STRING" /\ Default[c] \in Strings

ASSUME ValueAssumption ==
  /\ Ints \cap Strings = {}
  /\ NULL \notin Ints \cup Strings
  /\ Oversize \subseteq Strings
  /\ Cuts \subseteq SUBSET Val
  /\ Deleted \notin Row
  /\ Malformed \notin PartialRow

ASSUME StatementAssumption ==
  /\ Inserts \subseteq Seq(SourceRow)
  /\ Updates \subseteq Seq(SetItem)

VARIABLES
  heap,     \* the row file: a sequence of rows and Deleted marks
  open,     \* the columns whose index the IndexManager holds
  idx,      \* idx[c][v]: the rid indexed under v, 0 if none
  missing,  \* missing[c]: the values under nodes that the open index of c lacks
  dirty,    \* dirty[c]: DiskNodeStore::_dirty of the index of c
  disk,     \* disk[c]: the .idx file of column c
  pc,       \* where the running statement is
  work,     \* source rows of an INSERT, or the scan of an UPDATE or DELETE
  pos,      \* the next element of work
  cur,      \* the row at hand: its rid, its old and its new value
  set,      \* the SET list of the running UPDATE
  col,      \* the next column of the loop over the schema
  reply,    \* result of the last statement
  crashes,  \* number of crashes so far
  intact,   \* history: nothing has separated the indexes from the rows
  behind    \* history: rows changed since the .idx files were written

index == <<open, idx, missing, dirty>>
stmt == <<pc, work, pos, cur, set, col>>
vars == <<heap, index, disk, stmt, reply, crashes, intact, behind>>

-----------------------------------------------------------------------------
(* Values, rows and slots *)

checkType(v, t) ==
  \/ v = NULL
  \/ t = "INT" /\ v \in Ints
  \/ t = "STRING" /\ v \in Strings

\* Storage::write refuses a row longer than a page.  (Strings so long that
\* the row exceeds 2^16 bytes, the width of its length, are not among these:
\* TableFile is about the bytes of a row.)
Fits(row) == \A c \in Cols : row[c] \notin Oversize

Live(slots) == {i \in 1 .. Len(slots) : slots[i] # Deleted}

\* The row an INSERT builds: defaults first, the given values over them.
FullRow(src) == [c \in Cols |-> IF c \in DOMAIN src THEN src[c] ELSE Default[c]]

\* The items of a SET list that assign column c; the last one wins.
ItemsOf(c) == {i \in 1 .. Len(set) : set[i][1] = c}
NewRow(row) ==
  [c \in Cols |->
     IF ItemsOf(c) = {} THEN row[c]
     ELSE set[CHOOSE i \in ItemsOf(c) : \A j \in ItemsOf(c) : j <= i][2]]

NoRow == [c \in Cols |-> NULL]
NoCur == [rid |-> 0, old |-> NoRow, new |-> NoRow]
NoKeys == [v \in Val |-> 0]

-----------------------------------------------------------------------------
(* The index of a column, as IndexManager answers for it *)

\* An index that is not open answers "not found" and ignores updates.
Find(c, v) == IF c \in open THEN idx[c][v] ELSE 0
\* Looking for a value under a node that was not in the file throws.
Throws(c, v) == c \in open /\ v \in missing[c]

\* Statement bookkeeping shared by every way a statement can end.
EndStatement(r) ==
  /\ pc' = "idle"
  /\ reply' = r
  /\ work' = << >> /\ pos' = 1 /\ cur' = NoCur /\ set' = << >> /\ col' = 1

Fail == EndStatement("error") /\ UNCHANGED <<heap, index, disk, crashes, intact, behind>>

\* A row of the file changes: with an index missing from memory the change
\* is never indexed, otherwise the .idx files fall behind.
RowsChanged ==
  IF open = Indexed THEN behind' = TRUE /\ UNCHANGED intact
                    ELSE intact' = FALSE /\ UNCHANGED behind

-----------------------------------------------------------------------------
(* CREATE TABLE leaves an empty file and an open, empty index per INDEXED *)
(* column, none of them written to disk yet.                              *)
NoFile == [state |-> "absent", map |-> NoKeys, lost |-> {}]

Init ==
  /\ heap = << >>
  /\ open = Indexed
  /\ idx = [c \in Indexed |-> NoKeys]
  /\ missing = [c \in Indexed |-> {}]
  /\ dirty = [c \in Indexed |-> TRUE]
  /\ disk = [c \in Indexed |-> NoFile]
  /\ pc = "idle" /\ work = << >> /\ pos = 1 /\ cur = NoCur /\ set = << >> /\ col = 1
  /\ reply = "none"
  /\ crashes = 0
  /\ intact = TRUE
  /\ behind = FALSE

-----------------------------------------------------------------------------
(* INSERT: for each source row, every check, one Storage::write, then the *)
(* index insertions.                                                      *)

BeginInsert(rows) ==
  /\ pc = "idle"
  /\ Len(heap) + Len(rows) <= MaxSlots
  /\ pc' = "ins" /\ work' = rows /\ pos' = 1
  /\ UNCHANGED <<heap, index, disk, cur, set, col, reply, crashes, intact, behind>>

\* Mutant: the loop over the columns forgets the uniqueness check.
ViolatesNullOnly(row) ==
  \E c \in Cols :
    \/ row[c] = NULL /\ Constraint[c] # "NONE"
    \/ ~checkType(row[c], ColType[c])

Violates(row) ==
  \E c \in Cols :
    \/ row[c] = NULL /\ Constraint[c] # "NONE"
    \/ ~checkType(row[c], ColType[c])
    \/ c \in Indexed /\ (Throws(c, row[c]) \/ Find(c, row[c]) # 0)

Acceptable(src) == src # Malformed /\ ~Violates(FullRow(src))

InsertAccept ==
  /\ pc = "ins" /\ pos <= Len(work)
  /\ Acceptable(work[pos])
  /\ cur' = [rid |-> 0, old |-> NoRow, new |-> FullRow(work[pos])]
  /\ pc' = "insWrite" /\ pos' = pos + 1
  /\ UNCHANGED <<heap, index, disk, work, set, col, reply, crashes, intact, behind>>

\* The rows before the refused one stay in the table.
InsertReject ==
  /\ pc = "ins" /\ pos <= Len(work)
  /\ ~Acceptable(work[pos])
  /\ Fail

-----------------------------------------------------------------------------
(* UPDATE: each row of the scan that matches is checked, unindexed,       *)
(* removed, written anew and indexed again.                               *)

\* Mutant: the SET list is not type-checked.
KnownColumns(items) == \A i \in 1 .. Len(items) : items[i][1] \in Cols

WellTyped(items) ==
  \A i \in 1 .. Len(items) :
    items[i][1] \in Cols /\ checkType(items[i][2], ColType[items[i][1]])

BeginUpdate(items) ==
  /\ pc = "idle"
  /\ Len(heap) + Cardinality(Live(heap)) <= MaxSlots
  /\ WellTyped(items)
  /\ pc' = "upd" /\ work' = heap /\ pos' = 1 /\ set' = items
  /\ UNCHANGED <<heap, index, disk, cur, col, reply, crashes, intact, behind>>

RefuseUpdate(items) ==
  /\ pc = "idle"
  /\ ~WellTyped(items)
  /\ Fail

\* Mutant: only the first item of the SET list is checked.
ConflictFirst(row) ==
  LET c == set[1][1]
      v == set[1][2]
  IN  c \in Indexed /\ v # row[c] /\ (Throws(c, v) \/ Find(c, v) # 0)

\* The key an item assigns differs from the row's and is already indexed.
Conflict(row) ==
  \E i \in 1 .. Len(set) :
    LET c == set[i][1]
        v == set[i][2]
    IN  c \in Indexed /\ v # row[c] /\ (Throws(c, v) \/ Find(c, v) # 0)

\* Mutant: the rid is taken from the next slot.
UpdateAcceptNextSlot ==
  /\ pc = "upd" /\ pos \in Live(work)
  /\ ~Conflict(work[pos])
  /\ cur' = [rid |-> pos + 1, old |-> work[pos], new |-> NewRow(work[pos])]
  /\ pc' = "updErase" /\ pos' = pos + 1 /\ col' = 1
  /\ UNCHANGED <<heap, index, disk, work, set, reply, crashes, intact, behind>>

UpdateAccept ==
  /\ pc = "upd" /\ pos \in Live(work)
  /\ ~Conflict(work[pos])
  /\ cur' = [rid |-> pos, old |-> work[pos], new |-> NewRow(work[pos])]
  /\ pc' = "updErase" /\ pos' = pos + 1 /\ col' = 1
  /\ UNCHANGED <<heap, index, disk, work, set, reply, crashes, intact, behind>>

UpdateReject ==
  /\ pc = "upd" /\ pos \in Live(work)
  /\ Conflict(work[pos])
  /\ Fail

-----------------------------------------------------------------------------
(* DELETE *)

BeginDelete ==
  /\ pc = "idle"
  /\ pc' = "del" /\ work' = heap /\ pos' = 1
  /\ UNCHANGED <<heap, index, disk, cur, set, col, reply, crashes, intact, behind>>

DeleteAccept ==
  /\ pc = "del" /\ pos \in Live(work)
  /\ cur' = [rid |-> pos, old |-> work[pos], new |-> NoRow]
  /\ pc' = "delErase" /\ pos' = pos + 1 /\ col' = 1
  /\ UNCHANGED <<heap, index, disk, work, set, reply, crashes, intact, behind>>

-----------------------------------------------------------------------------
(* Steps the statements share *)

\* Mutant: skipping advances twice.
SkipRowTwice ==
  /\ pc \in {"upd", "del"} /\ pos <= Len(work)
  /\ pos' = pos + 2
  /\ UNCHANGED <<heap, index, disk, pc, work, cur, set, col, reply, crashes, intact, behind>>

\* Mutant: skipping does not advance.
SkipRowStays ==
  /\ pc \in {"upd", "del"} /\ pos <= Len(work)
  /\ pos' = pos
  /\ UNCHANGED <<heap, index, disk, pc, work, cur, set, col, reply, crashes, intact, behind>>

\* A slot the scan leaves out, or a row that WHERE does not select.
SkipRow ==
  /\ pc \in {"upd", "del"} /\ pos <= Len(work)
  /\ pos' = pos + 1
  /\ UNCHANGED <<heap, index, disk, pc, work, cur, set, col, reply, crashes, intact, behind>>

\* The WHERE expression throws on this row: mixed types, unknown column.
WhereThrows ==
  /\ pc \in {"upd", "del"} /\ pos \in Live(work)
  /\ Fail

\* Mutant: the loop over the indexes stops after one column.
EraseKeyOnce ==
  /\ pc \in {"updErase", "delErase"} /\ col \in Cols
  /\ ~(col \in Indexed /\ Throws(col, cur.old[col]))
  /\ IF col \in open
       THEN /\ idx' = [idx EXCEPT ![col][cur.old[col]] = 0]
            /\ dirty' = [dirty EXCEPT ![col] = @ \/ idx[col][cur.old[col]] # 0]
       ELSE UNCHANGED <<idx, dirty>>
  /\ col' = NCols + 1
  /\ UNCHANGED <<heap, open, missing, disk, pc, work, pos, cur, set, reply, crashes, intact, behind>>

\* Erasing goes by key: whatever rid is stored under it is dropped.
EraseKey ==
  /\ pc \in {"updErase", "delErase"} /\ col \in Cols
  /\ ~(col \in Indexed /\ Throws(col, cur.old[col]))
  /\ IF col \in open
       THEN /\ idx' = [idx EXCEPT ![col][cur.old[col]] = 0]
            /\ dirty' = [dirty EXCEPT ![col] = @ \/ idx[col][cur.old[col]] # 0]
       ELSE UNCHANGED <<idx, dirty>>
  /\ col' = col + 1
  /\ UNCHANGED <<heap, open, missing, disk, pc, work, pos, cur, set, reply, crashes, intact, behind>>

\* Storage::remove: the slot is marked and its page flushed.
RemoveRow ==
  /\ pc \in {"updErase", "delErase"} /\ col > NCols
  /\ heap' = [heap EXCEPT ![cur.rid] = Deleted]
  /\ pc' = IF pc = "updErase" THEN "updWrite" ELSE "del"
  /\ RowsChanged
  /\ UNCHANGED <<index, disk, work, pos, cur, set, col, reply, crashes>>

\* Mutant: a free slot is reused before the file grows.
WriteRowReuses ==
  /\ pc \in {"insWrite", "updWrite"} /\ Fits(cur.new)
  /\ LET slots == 1 .. Len(heap) + 1
         free  == slots \ Live(heap)
         slot  == IF free = {Len(heap) + 1} THEN Len(heap) + 1
                  ELSE CHOOSE i \in free \ {Len(heap) + 1} :
                         \A j \in free \ {Len(heap) + 1} : j <= i
     IN  /\ heap' = IF slot > Len(heap) THEN Append(heap, cur.new)
                    ELSE [heap EXCEPT ![slot] = cur.new]
         /\ cur' = [cur EXCEPT !.rid = slot]
  /\ pc' = IF pc = "insWrite" THEN "insKeys" ELSE "updKeys"
  /\ col' = 1
  /\ RowsChanged
  /\ UNCHANGED <<index, disk, work, pos, set, reply, crashes>>

\* Storage::write: the row is appended and its page flushed.
WriteRow ==
  /\ pc \in {"insWrite", "updWrite"} /\ Fits(cur.new)
  /\ heap' = Append(heap, cur.new)
  /\ cur' = [cur EXCEPT !.rid = Len(heap) + 1]
  /\ pc' = IF pc = "insWrite" THEN "insKeys" ELSE "updKeys"
  /\ col' = 1
  /\ RowsChanged
  /\ UNCHANGED <<index, disk, work, pos, set, reply, crashes>>

\* Mutant: a row that does not fit is passed over.
WriteSkips ==
  /\ pc \in {"insWrite", "updWrite"} /\ ~Fits(cur.new)
  /\ pc' = IF pc = "insWrite" THEN "ins" ELSE "upd"
  /\ UNCHANGED <<heap, index, disk, work, pos, cur, set, col, reply, crashes, intact, behind>>

\* "Row too large": an UPDATE has already removed the old row.
WriteThrows ==
  /\ pc \in {"insWrite", "updWrite"} /\ ~Fits(cur.new)
  /\ Fail

InsertKey ==
  /\ pc \in {"insKeys", "updKeys"} /\ col \in Cols
  /\ ~(col \in Indexed /\ (Throws(col, cur.new[col]) \/ Find(col, cur.new[col]) # 0))
  /\ IF col \in open
       THEN /\ idx' = [idx EXCEPT ![col][cur.new[col]] = cur.rid]
            /\ dirty' = [dirty EXCEPT ![col] = TRUE]
       ELSE UNCHANGED <<idx, dirty>>
  /\ col' = col + 1
  /\ UNCHANGED <<heap, open, missing, disk, pc, work, pos, cur, set, reply, crashes, intact, behind>>

\* An index that lost nodes may throw; one that holds the key throws too,
\* from BTree::insert, after the row is written.
KeyThrows ==
  /\ pc \in {"updErase", "delErase", "insKeys", "updKeys"} /\ col \in Indexed
  /\ \/ col \in open /\ missing[col] # {}
     \/ pc \in {"insKeys", "updKeys"} /\ Find(col, cur.new[col]) # 0
  /\ Fail

\* It may also find the leaf of the key, change it, and miss the neighbour it
\* needs to split or to merge: entries are lost on the way, or hidden under
\* other missing nodes.
RebalanceThrows ==
  /\ pc \in {"updErase", "delErase", "insKeys", "updKeys"}
  /\ col \in open /\ missing[col] # {}
  /\ LET inserts == pc \in {"insKeys", "updKeys"}
         full == IF inserts THEN [idx[col] EXCEPT ![cur.new[col]] = cur.rid] ELSE idx[col]
     IN  /\ (IF inserts THEN cur.new[col] ELSE cur.old[col]) \notin missing[col]
         /\ \E gone \in SUBSET {v \in Val : full[v] # 0}, more \in {{}} \cup Cuts :
              /\ idx' = [idx EXCEPT ![col] =
                          [v \in Val |-> IF v \in gone \cup more THEN 0 ELSE full[v]]]
              /\ missing' = [missing EXCEPT ![col] = @ \cup more]
  /\ dirty' = [dirty EXCEPT ![col] = TRUE]
  /\ EndStatement("error")
  /\ UNCHANGED <<heap, open, disk, crashes, intact, behind>>

NextRow ==
  /\ pc \in {"insKeys", "updKeys"} /\ col > NCols
  /\ pc' = IF pc = "insKeys" THEN "ins" ELSE "upd"
  /\ UNCHANGED <<heap, index, disk, work, pos, cur, set, col, reply, crashes, intact, behind>>

Finish ==
  /\ pc \in {"ins", "upd", "del"} /\ pos > Len(work)
  /\ EndStatement("ok")
  /\ UNCHANGED <<heap, index, disk, crashes, intact, behind>>

-----------------------------------------------------------------------------
(* The session: USE, the end of the process, and its next start. *)

\* DiskNodeStore::_load_all over the files a process can leave behind: none
\* or a truncated one gives an empty tree; one cut inside a node throws
\* ("corrupt"); one cut between two nodes gives a tree that lacks the rest.
Loads(c) == disk[c].state # "corrupt"

\* rebuildIndexes opens the indexes that are not open, in column order, up
\* to the first whose file does not load.
UseOpens ==
  {c \in Indexed \ open : \A d \in Indexed \ open : d <= c => Loads(d)}

Use ==
  /\ pc = "idle"
  /\ open' = open \cup UseOpens
  /\ idx' = [c \in Indexed |-> IF c \in UseOpens THEN disk[c].map ELSE idx[c]]
  /\ missing' = [c \in Indexed |-> IF c \in UseOpens THEN disk[c].lost ELSE missing[c]]
  /\ dirty' = [c \in Indexed |-> IF c \in UseOpens THEN disk[c].state = "absent" ELSE dirty[c]]
  /\ reply' = IF \A c \in Indexed \ open : Loads(c) THEN "ok" ELSE "error"
  /\ UNCHANGED <<heap, disk, stmt, crashes, intact, behind>>

\* End of input: the destructors run, and each index writes its file.
Exit ==
  /\ pc = "idle"
  /\ pc' = "exit"
  /\ UNCHANGED <<heap, index, disk, work, pos, cur, set, col, reply, crashes, intact, behind>>

\* What DiskNodeStore::_flush writes: the nodes there are.
Flushed(c) == [state |-> "ok", map |-> idx[c], lost |-> missing[c]]

\* Mutant: the index believes it is saved.
ExitFlushNothing(c) ==
  /\ pc = "exit" /\ c \in open /\ dirty[c]
  /\ dirty' = [dirty EXCEPT ![c] = FALSE]
  /\ UNCHANGED <<heap, disk, open, idx, missing, stmt, reply, crashes, intact, behind>>

\* Mutant: all indexes of the table share one file name.
ExitFlushShared(c) ==
  /\ pc = "exit" /\ c \in open /\ dirty[c]
  /\ disk' = [d \in Indexed |-> Flushed(c)]
  /\ dirty' = [dirty EXCEPT ![c] = FALSE]
  /\ UNCHANGED <<heap, open, idx, missing, stmt, reply, crashes, intact, behind>>

ExitFlush(c) ==
  /\ pc = "exit" /\ c \in open /\ dirty[c]
  /\ disk' = [disk EXCEPT ![c] = Flushed(c)]
  /\ dirty' = [dirty EXCEPT ![c] = FALSE]
  /\ UNCHANGED <<heap, open, idx, missing, stmt, reply, crashes, intact, behind>>

ProcessGone ==
  /\ pc' = "down"
  /\ open' = {}
  /\ idx' = [c \in Indexed |-> NoKeys]
  /\ missing' = [c \in Indexed |-> {}]
  /\ dirty' = [c \in Indexed |-> FALSE]
  /\ reply' = "none"
  /\ work' = << >> /\ pos' = 1 /\ cur' = NoCur /\ set' = << >> /\ col' = 1

ExitDone ==
  /\ pc = "exit" /\ \A c \in open : ~dirty[c]
  /\ ProcessGone
  /\ behind' = FALSE
  /\ UNCHANGED <<heap, disk, crashes, intact>>

\* The process dies; nothing of the row file is lost, everything of the
\* indexes is.
Crash ==
  /\ pc # "down" /\ crashes < MaxCrashes
  /\ crashes' = crashes + 1
  /\ ProcessGone
  /\ intact' = (intact /\ ~behind)
  /\ behind' = FALSE
  /\ UNCHANGED <<heap, disk>>

\* The process dies inside DiskNodeStore::_flush, which truncates the file
\* and then writes the nodes in the order of a hash table: the file is empty,
\* ends inside a node, or ends after some of the nodes.
CutFiles(c) ==
  {NoFile, [NoFile EXCEPT !.state = "corrupt"]} \cup
  {[state |-> "ok", lost |-> missing[c] \cup cut,
    map |-> [v \in Val |-> IF v \in cut THEN 0 ELSE idx[c][v]]] : cut \in Cuts}

CrashInFlush(c) ==
  /\ pc = "exit" /\ c \in open /\ dirty[c] /\ crashes < MaxCrashes
  /\ crashes' = crashes + 1
  /\ \E file \in CutFiles(c) : disk' = [disk EXCEPT ![c] = file]
  /\ ProcessGone
  /\ intact' = FALSE
  /\ behind' = FALSE
  /\ UNCHANGED heap

Start ==
  /\ pc = "down"
  /\ pc' = "idle"
  /\ UNCHANGED <<heap, index, disk, work, pos, cur, set, col, reply, crashes, intact, behind>>

-----------------------------------------------------------------------------
Begin == \/ \E rows \in Inserts : BeginInsert(rows)
         \/ \E items \in Updates : BeginUpdate(items) \/ RefuseUpdate(items)
         \/ BeginDelete

\* A step of the running statement.
Step == \/ InsertAccept \/ InsertReject
        \/ UpdateAccept \/ UpdateReject
        \/ DeleteAccept
        \/ SkipRow \/ WhereThrows
        \/ EraseKey \/ RemoveRow
        \/ WriteRow \/ WriteThrows
        \/ InsertKey \/ KeyThrows \/ RebalanceThrows \/ NextRow
        \/ Finish

Session == \/ Use \/ Exit \/ ExitDone \/ Crash \/ Start
           \/ \E c \in Indexed : ExitFlush(c) \/ CrashInFlush(c)

Next == Begin \/ Step \/ Session

Spec == Init /\ [][Next]_vars

\* One thread runs the statement: nothing can keep it from its next step.
FairSpec == Spec /\ WF_vars(Step)

-----------------------------------------------------------------------------
(* SELECT ... WHERE col = literal, which changes nothing: the RowIds whose *)
(* rows it returns by way of the index, and those a full scan returns.     *)

Matches(c, v) == {r \in Live(heap) : v # NULL /\ heap[r][c] = v}

\* Mutant: an empty answer of the index is final.
SelectNoScan(c, v) ==
  LET r == Find(c, v)
  IN  IF r \in Live(heap) THEN Matches(c, v) \cap {r} ELSE {}

SelectByIndex(c, v) ==
  LET r == Find(c, v)
  IN  IF r \in Live(heap) THEN Matches(c, v) \cap {r} ELSE Matches(c, v)

-----------------------------------------------------------------------------
(* Properties *)

IndexFile == [state : {"absent", "ok", "corrupt"},
              map : [Val -> 0 .. MaxSlots], lost : SUBSET Val]

\* Every variable has the type the code's declarations give it.
TypeOK ==
  /\ heap \in Seq(Row \cup {Deleted}) /\ Len(heap) <= MaxSlots
  /\ open \subseteq Indexed
  /\ idx \in [Indexed -> [Val -> 0 .. MaxSlots]]
  /\ missing \in [Indexed -> SUBSET Val]
  /\ dirty \in [Indexed -> BOOLEAN]
  /\ disk \in [Indexed -> IndexFile]
  /\ pc \in {"idle", "ins", "insWrite", "insKeys",
             "upd", "updErase", "updWrite", "updKeys",
             "del", "delErase", "exit", "down"}
  /\ work \in Seq(SourceRow \cup Row \cup {Deleted})
  /\ pos \in 1 .. Len(work) + 1
  /\ cur \in [rid : 0 .. MaxSlots, old : Row, new : Row]
  /\ set \in Seq(SetItem)
  /\ col \in 1 .. NCols + 1
  /\ reply \in {"none", "ok", "error"}
  /\ crashes \in 0 .. MaxCrashes
  /\ intact \in BOOLEAN /\ behind \in BOOLEAN

\* The map of column c holds exactly the live rows, each under its key.
Exact(map, c) ==
  /\ \A v \in Val : map[v] # 0 => map[v] \in Live(heap) /\ heap[map[v]][c] = v
  /\ \A r \in Live(heap) : map[heap[r][c]] = r

\* Between statements an index holds exactly the keys of the live rows, in
\* memory while it is open and in its file otherwise, unless a crash or a
\* statement on a table whose index was not open came between the two.
IndexExact ==
  intact /\ pc = "idle" =>
    \A c \in Indexed : Exact(IF c \in open THEN idx[c] ELSE disk[c].map, c)

\* What the README says of an INDEXED column: its values are unique.
IndexedIsUnique ==
  \A r, s \in Live(heap) : r # s => \A c \in Indexed : heap[r][c] # heap[s][c]

\* At every instant, also inside a statement, an INDEXED column is unique.
UniqueKeys == intact => IndexedIsUnique

\* The checks made before a row is written suffice: BTree::insert never
\* finds the key it is given, which would leave a written row unindexed.
CheckSuffices ==
  intact /\ pc \in {"insKeys", "updKeys"} /\ col \in Indexed =>
    Find(col, cur.new[col]) = 0

\* Stale or not, an index entry never leads to a row with another key.
IndexSound ==
  \A c \in Indexed, v \in Val :
    \A r \in {idx[c][v], disk[c].map[v]} \cap Live(heap) : heap[r][c] = v

\* A SELECT by index returns what a scan returns while the indexes are
\* intact; later it still returns only matching rows, and one if any exists.
SelectAgrees ==
  pc = "idle" =>
    \A c \in Indexed, v \in Val :
      \/ Throws(c, v)
      \/ /\ intact => SelectByIndex(c, v) = Matches(c, v)
         /\ SelectByIndex(c, v) = {} <=> Matches(c, v) = {}

\* An UPDATE or DELETE never meets its own effects: what is left of the
\* scan is what the table holds in those slots.
SnapshotCurrent ==
  pc \in {"upd", "updErase", "updWrite", "updKeys", "del", "delErase"} =>
    \A i \in pos .. Len(work) : work[i] = heap[i]

\* An INSERT has stored the rows before the one at hand, all of them, in
\* order and with their defaults, however it will end.
InsertPrefix ==
  pc = "ins" =>
    /\ pos - 1 <= Len(heap)
    /\ \A i \in 1 .. pos - 1 : heap[Len(heap) - (pos - 1) + i] = FullRow(work[i])

\* Every row stored satisfies the column types, whatever statement wrote it.
RowsConform ==
  \A r \in Live(heap), c \in Cols : checkType(heap[r][c], ColType[c])

\* What the declaration of Constraint says of a column: "NOT_NULL", "INDEXED"
\* and null do not go together.
NotNullHolds ==
  \A r \in Live(heap), c \in Cols : Constraint[c] # "NONE" => heap[r][c] # NULL

\* An UPDATE that ends, with success or an error, has kept the number of
\* rows, except when the new version of a row did not fit a page.
UpdateKeepsRows ==
  [][(pc \in {"upd", "updErase", "updWrite", "updKeys"} /\ pc' = "idle") =>
        \/ Cardinality(Live(heap)') = Cardinality(Live(work))
        \/ pc = "updWrite" /\ ~Fits(cur.new)]_vars

\* Every statement ends (or the process does).
StatementEnds == pc \notin {"idle", "exit", "down"} ~> pc \in {"idle", "down"}

-----------------------------------------------------------------------------
(* What holds at every step, between the checks of a statement and its    *)
(* effects: the strengthening from which the proofs derive the invariants. *)

Inserting == {"ins", "insWrite", "insKeys"}
Updating == {"upd", "updErase", "updWrite", "updKeys"}
Scanning == Updating \cup {"del", "delErase"}

Conforms(row) == \A c \in Cols : checkType(row[c], ColType[c])

\* The locals of a statement: what it read, the row at hand, and how that
\* row stands in the file.
Phases ==
  /\ pc \in Inserting => work \in Seq(SourceRow)
  /\ pc \in Scanning => /\ work \in Seq(Row \cup {Deleted})
                        /\ Len(work) <= Len(heap)
                        /\ \A i \in pos .. Len(work) : work[i] = heap[i]
  /\ pc \in Updating => WellTyped(set)
  /\ pc \in {"updErase", "delErase"} =>
       cur.rid \in Live(heap) /\ cur.rid < pos /\ heap[cur.rid] = cur.old
  /\ pc \in {"insKeys", "updKeys"} =>
       cur.rid \in Live(heap) /\ heap[cur.rid] = cur.new
  /\ pc \in {"insWrite", "updErase", "updWrite"} => Conforms(cur.new)

\* The bound on the row file leaves room for the rows the statement may
\* still write.
Rest(p) == {i \in Live(work) : i >= p}
Room ==
  /\ pc \in {"ins", "insKeys"} => Len(heap) + Len(work) + 1 - pos <= MaxSlots
  /\ pc = "insWrite" => Len(heap) + Len(work) + 2 - pos <= MaxSlots
  /\ pc \in {"upd", "updKeys"} => Len(heap) + Cardinality(Rest(pos)) <= MaxSlots
  /\ pc \in {"updErase", "updWrite"} => Len(heap) + Cardinality(Rest(pos)) + 1 <= MaxSlots

\* The row at hand has no entry in the index of c: it is taken out already,
\* or not put in yet.
Pending(c) == \/ pc \in {"updErase", "delErase"} /\ c < col
              \/ pc \in {"insKeys", "updKeys"} /\ c >= col

\* The open index of c and the row file, at any step of a statement.
Coherent(c) ==
  /\ \A v \in Val : idx[c][v] # 0 => /\ idx[c][v] \in Live(heap)
                                     /\ heap[idx[c][v]][c] = v
                                     /\ Pending(c) => idx[c][v] # cur.rid
  /\ \A r \in Live(heap) : \/ idx[c][heap[r][c]] = r
                           \/ /\ r = cur.rid /\ Pending(c)
                              /\ idx[c][heap[r][c]] = 0
  /\ pc \in {"insWrite", "updWrite"} => idx[c][cur.new[c]] = 0
  /\ pc = "updErase" => idx[c][cur.new[c]] \in {0, cur.rid}

\* While the indexes are intact, they are open all or none, none is damaged,
\* the open ones cohere with the rows, and each .idx file that is not
\* waiting to be written is what will be loaded.
Trustworthy ==
  intact =>
    /\ open = {} \/ open = Indexed
    /\ \A c \in Indexed :
         /\ disk[c].state \in {"absent", "ok"}
         /\ missing[c] = {} /\ disk[c].lost = {}
         /\ c \in open => Coherent(c) /\ (dirty[c] \/ disk[c].map = idx[c])
         /\ c \notin open \/ ~behind => Exact(disk[c].map, c)

\* The file ends with the rows built from the first k source rows.
StoredLast(k) ==
  /\ k <= Len(heap)
  /\ \A i \in 1 .. k : heap[Len(heap) - k + i] = FullRow(work[i])

\* How far the rows of an INSERT have come.
RowsStored ==
  /\ pc \in {"ins", "insKeys"} => StoredLast(pos - 1)
  /\ pc = "insWrite" => /\ 2 <= pos /\ StoredLast(pos - 2)
                        /\ cur.new = FullRow(work[pos - 1])

\* An UPDATE has the row at hand out of the file only until it writes it.
RowsCounted ==
  /\ pc \in Updating \ {"updWrite"} => Cardinality(Live(heap)) = Cardinality(Live(work))
  /\ pc = "updWrite" => /\ Cardinality(Live(heap)) + 1 = Cardinality(Live(work))
                        /\ cur.rid \in Rid \ Live(heap) /\ cur.rid <= Len(heap)

\* The table seen from outside: a row being rewritten is still its old self.
ShownRows ==
  [r \in Live(heap) \cup (IF pc = "updWrite" THEN {cur.rid} ELSE {}) |->
     IF r \in Live(heap) THEN heap[r] ELSE cur.old]

Table == INSTANCE UniqueTable
           WITH RowIds <- Rid, Rows <- Row, Keys <- Indexed,
                rows <- ShownRows, trusted <- intact

\* The engine implements the table with unique columns.
ImplementsTable == Table!Spec
=============================================================================
