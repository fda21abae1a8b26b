----------------------------- MODULE TableFile -----------------------------
(***************************************************************************)
(* The row file of one table: Storage over Pager over DiskManager, with    *)
(* slotted pages.  It is what makes the sequence of slots TableEngine      *)
(* works on: write appends, remove marks, a restart loses nothing.         *)
(*                                                                         *)
(* Every Storage call has at most one effect on the file, a page written   *)
(* at once, so each call is one action and the process can die between any *)
(* two.  Pages are numbered from 1 here, from 0 in the code, and the       *)
(* row_count of a page is the length of `slots'.                           *)
(*                                                                         *)
(* Nothing above Storage bounds the bytes of a row, so rows are of every   *)
(* size: those of 2^16 bytes and more reach a page cut off, and those of   *)
(* which 2^16 - 2 or 2^16 - 1 bytes are left are copied past its end.      *)
(***************************************************************************)
EXTENDS Integers, Sequences, FiniteSets

CONSTANTS
  Rows,      \* encoded rows, byte strings of any size
  Size,      \* Size[row]: bytes of a row
  Prefix,    \* Prefix[row]: the bytes of a row that its size in 16 bits counts
  Deleted,   \* the row of a slot marked DELETED_SLOT
  PageSize,  \* PAGE_SIZE
  Word,      \* 2^16, the range of uint16_t
  MaxPages   \* bound on the pages of the file

ASSUME PageAssumption ==
  /\ PageSize \in Nat /\ Word \in Nat /\ MaxPages \in Nat
  /\ 8 <= PageSize /\ PageSize < Word
  /\ Size \in [Rows -> Nat]
  /\ Prefix \in [Rows -> Rows]
  /\ \A r \in Rows : Size[Prefix[r]] = Size[r] % Word /\ (Size[r] < Word => Prefix[r] = r)
  /\ Deleted \notin Rows

VARIABLES
  file,    \* the pages of the file
  cache,   \* Pager::pages: a function from page numbers to pages
  next,    \* Pager::next_page_id
  up,      \* "open", "exit" while the destructors run, or "down"
  ub,      \* the code has copied a row to outside its page
  mangled  \* the rows taken that are not on a page as they were given

vars == <<file, cache, next, up, ub, mangled>>

Page == [slots : Seq(Rows \cup {Deleted}), free : 0 .. PageSize, dirty : BOOLEAN]

\* Pager::new_page: an empty page, to be written.
Blank == [slots |-> << >>, free |-> PageSize, dirty |-> TRUE]

\* A page never written before one that was: the file system reads zeros.
Hole == [slots |-> << >>, free |-> 0, dirty |-> FALSE]

Init ==
  /\ file = << >>
  /\ cache = << >>
  /\ next = 1
  /\ up = "open"
  /\ ub = FALSE
  /\ mangled = {}

-----------------------------------------------------------------------------
(* Page::add_row, in 16-bit arithmetic *)

Used(page) == 4 + 2 * Len(page.slots)

\* The size Storage::write passes on, and the bytes it calls for on a page.
Bytes(row) == Size[row] % Word
Needed(row) == (2 + Bytes(row)) % Word

\* Mutant of HasRoom: the new entry of the slot array is forgotten.
HasRoomNoSlot(page, row) == (page.free - Used(page)) % Word >= Needed(row)

HasRoom(page, row) == (page.free - Used(page)) % Word >= Needed(row) + 2

\* The free offset once the row is on the page, in 16 bits.
FreeAfter(page, row) == (page.free - Needed(row)) % Word

AddRow(page, row) ==
  [slots |-> Append(page.slots, Prefix[row]), free |-> FreeAfter(page, row), dirty |-> TRUE]

\* The row and its size are copied to FreeAfter, which need not be far
\* enough from the end of the page.
Outside(page, row) == FreeAfter(page, row) + 2 + Bytes(row) > PageSize

-----------------------------------------------------------------------------
(* Pager and DiskManager *)

get_page_count == Len(file)

\* fetch_page: the cached page, or the one of the file.
Fetched(p) == IF p \in DOMAIN cache THEN cache[p] ELSE file[p]

WithPage(f, p, page) == [q \in DOMAIN f \cup {p} |-> IF q = p THEN page ELSE f[q]]

Clean(page) == [page EXCEPT !.dirty = FALSE]

\* DiskManager::write_page: writing past the end leaves holes.
Written(p, page) ==
  [q \in 1 .. (IF p > Len(file) THEN p ELSE Len(file)) |->
     IF q = p THEN Clean(page) ELSE IF q <= Len(file) THEN file[q] ELSE Hole]

-----------------------------------------------------------------------------
(* Storage::write, by its outcome *)

\* Mutant of Target: the first page is tried.
TargetFirst == IF get_page_count = 0 THEN next ELSE 1

\* The page tried first: the last of the file, a new one if there is none.
Target == IF get_page_count = 0 THEN next ELSE get_page_count
TargetPage == IF get_page_count = 0 THEN Blank ELSE Fetched(Target)
NextAfter == IF get_page_count = 0 THEN next + 1 ELSE next

\* A call may take two page numbers.
CanWrite == up = "open" /\ ~ub /\ next + 1 <= MaxPages

\* The row is taken, whole or cut off.
Taken(row) == mangled' = IF Prefix[row] = row THEN mangled ELSE mangled \cup {row}

WriteHere(row) ==
  /\ CanWrite
  /\ HasRoom(TargetPage, row) /\ ~Outside(TargetPage, row)
  /\ LET page == AddRow(TargetPage, row)
     IN  /\ file' = Written(Target, page)
         /\ cache' = WithPage(cache, Target, Clean(page))
  /\ next' = NextAfter
  /\ Taken(row)
  /\ UNCHANGED <<up, ub>>

WriteNext(row) ==
  /\ CanWrite
  /\ ~HasRoom(TargetPage, row) /\ HasRoom(Blank, row) /\ ~Outside(Blank, row)
  /\ LET page == AddRow(Blank, row)
     IN  /\ file' = Written(NextAfter, page)
         /\ cache' = WithPage(WithPage(cache, Target, TargetPage), NextAfter, Clean(page))
  /\ next' = NextAfter + 1
  /\ Taken(row)
  /\ UNCHANGED <<up, ub>>

\* The row is copied past the end of its page, over what is there: the
\* process may do anything then, and of it and of those after it the model
\* keeps only that they die and start.
WriteWild(row) ==
  /\ CanWrite
  /\ \/ HasRoom(TargetPage, row) /\ Outside(TargetPage, row)
     \/ ~HasRoom(TargetPage, row) /\ HasRoom(Blank, row) /\ Outside(Blank, row)
  /\ ub' = TRUE
  /\ mangled' = mangled \cup {row}
  /\ UNCHANGED <<file, cache, next, up>>

\* "Row too large": the page just allocated stays in the cache, and so does
\* its number.
WriteRefused(row) ==
  /\ CanWrite
  /\ ~HasRoom(TargetPage, row) /\ ~HasRoom(Blank, row)
  /\ cache' = WithPage(WithPage(cache, Target, TargetPage), NextAfter, Blank)
  /\ next' = NextAfter + 1
  /\ UNCHANGED <<file, up, ub, mangled>>

-----------------------------------------------------------------------------
\* Mutant of Remove: the page is not marked dirty, so flush_page skips it.
RemoveNotDirty(p, s) ==
  /\ up = "open" /\ ~ub
  /\ LET page == [Fetched(p) EXCEPT !.slots[s] = Deleted]
     IN  /\ Fetched(p).slots[s] # Deleted
         /\ cache' = WithPage(cache, p, page)
         /\ file' = IF page.dirty THEN Written(p, page) ELSE file
  /\ UNCHANGED <<next, up, ub, mangled>>

\* Storage::remove of a row that a scan returned.
Remove(p, s) ==
  /\ up = "open" /\ ~ub
  /\ LET page == [Fetched(p) EXCEPT !.slots[s] = Deleted]
     IN  /\ Fetched(p).slots[s] # Deleted
         /\ file' = Written(p, page)
         /\ cache' = WithPage(cache, p, Clean(page))
  /\ UNCHANGED <<next, up, ub, mangled>>

\* Storage::read fetches one page, Storage::scan all of them.
Read(p) ==
  /\ up = "open" /\ ~ub
  /\ cache' = WithPage(cache, p, Fetched(p))
  /\ UNCHANGED <<file, next, up, ub, mangled>>

Scan ==
  /\ up = "open" /\ ~ub
  /\ cache' = [p \in DOMAIN cache \cup 1 .. get_page_count |-> Fetched(p)]
  /\ UNCHANGED <<file, next, up, ub, mangled>>

-----------------------------------------------------------------------------
(* ~Pager writes the dirty pages, in the order of a hash table. *)

Exit ==
  /\ up = "open" /\ ~ub
  /\ up' = "exit"
  /\ UNCHANGED <<file, cache, next, ub, mangled>>

flush_page(p) ==
  /\ up = "exit" /\ cache[p].dirty
  /\ file' = Written(p, cache[p])
  /\ cache' = [cache EXCEPT ![p] = Clean(@)]
  /\ UNCHANGED <<next, up, ub, mangled>>

Down == up' = "down" /\ cache' = << >> /\ next' = 1

ExitDone ==
  /\ up = "exit" /\ \A p \in DOMAIN cache : ~cache[p].dirty
  /\ Down
  /\ UNCHANGED <<file, ub, mangled>>

Crash ==
  /\ up # "down"
  /\ Down
  /\ UNCHANGED <<file, ub, mangled>>

\* Mutant of Open: page numbers start anew.
OpenFromStart ==
  /\ up = "down"
  /\ up' = "open"
  /\ next' = 1
  /\ UNCHANGED <<file, cache, ub, mangled>>

\* Mutant of Open: the first number is one too large.
OpenOneOff ==
  /\ up = "down"
  /\ up' = "open"
  /\ next' = get_page_count + 2
  /\ UNCHANGED <<file, cache, ub, mangled>>

\* Storage::getPager: the next number comes from the size of the file.
Open ==
  /\ up = "down"
  /\ up' = "open"
  /\ next' = get_page_count + 1
  /\ UNCHANGED <<file, cache, ub, mangled>>

Next ==
  \/ \E row \in Rows : \/ WriteHere(row) \/ WriteNext(row)
                        \/ WriteRefused(row) \/ WriteWild(row)
  \/ \E p \in 1 .. get_page_count : \/ Read(p)
                                    \/ \E s \in DOMAIN Fetched(p).slots : Remove(p, s)
  \/ Scan
  \/ Exit \/ ExitDone \/ Crash \/ Open
  \/ \E p \in DOMAIN cache : flush_page(p)

Spec == Init /\ [][Next]_vars

-----------------------------------------------------------------------------
(* Properties *)

\* Every variable has the type the code's declarations give it, and free
\* offsets lie within a page.
TypeOK ==
  /\ file \in Seq(Page) /\ Len(file) <= MaxPages
  /\ DOMAIN cache \subseteq 1 .. MaxPages
  /\ \A p \in DOMAIN cache : cache[p] \in Page
  /\ next \in 1 .. MaxPages + 1
  /\ up \in {"open", "exit", "down"}
  /\ ub \in BOOLEAN
  /\ mangled \subseteq Rows

\* The slot array, growing from the front of a page, and the rows, growing
\* from its back, do not meet, in the file and in the cache.
LayoutFits ==
  \A page \in {file[p] : p \in DOMAIN file} \cup {cache[p] : p \in DOMAIN cache} :
    page = Hole \/ Used(page) <= page.free

\* A row of fewer than 2^16 - 2 bytes is refused or stored as it is, inside
\* its page, although holes, whose free space ends at 0, are pages of the
\* file.  Longer ones may be cut off, and only those of which 2^16 - 2 or
\* 2^16 - 1 bytes are left are copied to outside their page.
OnlyHugeHarmed ==
  /\ \A r \in mangled : Size[r] >= Word - 2
  /\ ub => \E r \in mangled : Bytes(r) >= Word - 2

\* A page number the Pager gives out is not one of the file or the cache:
\* new_page would replace that page, and its rows.
FreshPages ==
  up = "open" => \A p \in DOMAIN cache \cup DOMAIN file : p < next

\* What the running process reads is what a new one would find: a cached
\* page has the rows of its page of the file, or none if it has no page yet.
ViewsAgree ==
  \A p \in DOMAIN cache :
    cache[p].slots = IF p \in DOMAIN file THEN file[p].slots ELSE << >>

\* The strengthening from which the proofs derive the invariants.  Every
\* page of the file is a hole or fits, and the last one has been written, so
\* the page Storage::write tries first is no hole.
FileSound ==
  /\ file \in Seq(Page) /\ Len(file) <= MaxPages
  /\ \A p \in DOMAIN file : ~file[p].dirty /\ (file[p] = Hole \/ Used(file[p]) <= file[p].free)
  /\ file # << >> => Used(file[Len(file)]) <= file[Len(file)].free

\* A cached page is that of the file, or one given out and never written,
\* whose place in the file, if it has one, is a hole.
CacheSound ==
  /\ DOMAIN cache \subseteq 1 .. MaxPages
  /\ \A p \in DOMAIN cache :
       \/ p \in DOMAIN file /\ cache[p] = file[p]
       \/ cache[p] = Blank /\ (p \in DOMAIN file => file[p] = Hole)

ProcessSound ==
  /\ next \in 1 .. MaxPages + 1
  /\ up \in {"open", "exit", "down"}
  /\ FreshPages
  /\ up = "down" => cache = << >>

HistorySound == ub \in BOOLEAN /\ mangled \subseteq Rows /\ OnlyHugeHarmed

Sound == FileSound /\ CacheSound /\ ProcessSound /\ HistorySound

\* The slots a new process would find, by RowId.
Stored ==
  LET rids == UNION {{p} \X DOMAIN file[p].slots : p \in DOMAIN file}
  IN  [r \in rids |-> file[r[1]].slots[r[2]]]

Log == INSTANCE SlotLog WITH slots <- Stored

\* The file implements the log of slots: RowIds only grow, a slot changes
\* only by being deleted, and neither a refused row nor the end of a process
\* changes any.
ImplementsLog == Log!Spec
=============================================================================
