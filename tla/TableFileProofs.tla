-------------------------- MODULE TableFileProofs --------------------------
(***************************************************************************)
(* Proofs about TableFile, for every set of rows of every size, every page *)
(* size that a uint16_t holds and every bound on the file.                 *)
(***************************************************************************)
EXTENDS TableFile, TLAPS

-----------------------------------------------------------------------------
(* Lemmas about pages, files and caches *)

\* 16-bit arithmetic is exact where nothing wraps.
LEMMA NoWrap ==
  ASSUME NEW w \in Nat, NEW x \in Int, 0 <= x, x < w
  PROVE  x % w = x
OBVIOUS

\* A remainder is smaller than its divisor.
LEMMA Remainder ==
  ASSUME NEW w \in Nat, w > 0, NEW x \in Int
  PROVE  x % w \in Nat /\ x % w < w
OBVIOUS

\* A row needs its bytes and two for their length, unless the sum wraps; it
\* keeps all its bytes, unless the cast to 16 bits cuts it off.
LEMMA NeededBytes ==
  ASSUME NEW row \in Rows
  PROVE  /\ Size[row] \in Nat /\ Bytes(row) \in Nat /\ Bytes(row) < Word
         /\ Needed(row) \in Nat
         /\ Bytes(row) < Word - 2 => Needed(row) = 2 + Bytes(row)
         /\ Prefix[row] \in Rows
         /\ Bytes(row) <= Size[row] /\ (Prefix[row] # row => Size[row] >= Word)
<1>1. /\ Size[row] \in Nat /\ Word \in Nat /\ Word > 0 /\ Prefix[row] \in Rows
      /\ Size[row] < Word => Prefix[row] = row
  BY PageAssumption
<1>2. Bytes(row) \in Nat /\ Bytes(row) < Word
  <2>1. Size[row] \in Int
    BY <1>1
  <2> QED BY <1>1, <2>1, Remainder DEF Bytes
<1>3. Needed(row) \in Nat
  <2>1. 2 + Bytes(row) \in Int
    BY <1>2
  <2> QED BY <1>1, <2>1, Remainder DEF Needed
<1>4. Bytes(row) < Word - 2 => Needed(row) = 2 + Bytes(row)
  BY <1>1, <1>2, NoWrap DEF Needed
<1>5. Bytes(row) <= Size[row]
  <2>1. CASE Size[row] < Word
    BY <1>1, <2>1, NoWrap DEF Bytes
  <2>2. CASE Size[row] >= Word
    BY <1>1, <1>2, <2>2
  <2> QED BY <1>1, <2>1, <2>2
<1> QED BY <1>1, <1>2, <1>3, <1>4, <1>5

\* An empty page fits, a hole is a page.
LEMMA SparePages ==
  /\ Blank \in Page /\ Used(Blank) <= Blank.free /\ Blank.slots = << >>
  /\ Hole \in Page /\ ~Hole.dirty /\ Hole.slots = << >> /\ Used(Hole) > Hole.free
<1>1. << >> \in Seq(Rows \cup {Deleted}) /\ Len(<< >>) = 0
  OBVIOUS
<1> QED BY <1>1, PageAssumption DEF Blank, Hole, Page, Used

\* Clearing the dirty mark of a page changes nothing else of it.
LEMMA CleanPage ==
  ASSUME NEW page \in Page
  PROVE  /\ Clean(page) \in Page /\ ~Clean(page).dirty
         /\ Clean(page).slots = page.slots /\ Clean(page).free = page.free
         /\ ~page.dirty => Clean(page) = page
BY DEF Clean, Page

\* The free offset of a page with room for a row, in spite of 16 bits.
LEMMA RoomLeft ==
  ASSUME NEW page \in Page, Used(page) <= page.free, NEW row \in Rows, HasRoom(page, row)
  PROVE  /\ page.free \in 0 .. PageSize /\ Len(page.slots) \in Nat
         /\ page.slots \in Seq(Rows \cup {Deleted})
         /\ Used(page) = 4 + 2 * Len(page.slots)
         /\ page.free - Used(page) >= Needed(row) + 2
         /\ FreeAfter(page, row) = page.free - Needed(row)
<1>1. /\ page.slots \in Seq(Rows \cup {Deleted}) /\ page.free \in 0 .. PageSize
      /\ Len(page.slots) \in Nat
      /\ PageSize \in Nat /\ Word \in Nat /\ PageSize < Word
  BY PageAssumption DEF Page
<1>2. Needed(row) \in Nat
  BY NeededBytes
<1>3. page.free - Used(page) >= Needed(row) + 2
  <2>1. (page.free - Used(page)) % Word = page.free - Used(page)
    BY <1>1, NoWrap DEF Used
  <2> QED BY <2>1 DEF HasRoom
<1>4. (page.free - Needed(row)) % Word = page.free - Needed(row)
  <2>1. /\ page.free - Needed(row) \in Int
        /\ 0 <= page.free - Needed(row) /\ page.free - Needed(row) < Word
    BY <1>1, <1>2, <1>3 DEF Used
  <2> QED BY <1>1, <2>1, NoWrap
<1> QED BY <1>1, <1>3, <1>4 DEF Used, FreeAfter

\* A row that a page has room for goes on the page, as its Prefix.
LEMMA RowAdded ==
  ASSUME NEW page \in Page, Used(page) <= page.free, NEW row \in Rows, HasRoom(page, row)
  PROVE  /\ Clean(AddRow(page, row)) \in Page
         /\ ~Clean(AddRow(page, row)).dirty
         /\ Clean(AddRow(page, row)).slots = Append(page.slots, Prefix[row])
         /\ Used(Clean(AddRow(page, row))) <= Clean(AddRow(page, row)).free
<1> DEFINE added == Clean(AddRow(page, row))
<1>1. /\ page.slots \in Seq(Rows \cup {Deleted}) /\ page.free \in 0 .. PageSize
      /\ Len(page.slots) \in Nat /\ PageSize \in Nat
  BY PageAssumption, RoomLeft
<1>2. Needed(row) \in Nat /\ Prefix[row] \in Rows
  BY NeededBytes
<1>3. page.free - Used(page) >= Needed(row) + 2
  BY RoomLeft
<1>5. AddRow(page, row) = [slots |-> Append(page.slots, Prefix[row]),
                           free |-> page.free - Needed(row), dirty |-> TRUE]
  BY RoomLeft DEF AddRow
<1>6. /\ Append(page.slots, Prefix[row]) \in Seq(Rows \cup {Deleted})
      /\ Len(Append(page.slots, Prefix[row])) = Len(page.slots) + 1
  BY <1>1, <1>2
<1>7. page.free - Needed(row) \in 0 .. PageSize
  BY <1>1, <1>2, <1>3 DEF Used
<1>8. AddRow(page, row) \in Page
  BY <1>5, <1>6, <1>7 DEF Page
<1>9. /\ added \in Page /\ ~added.dirty
      /\ added.slots = Append(page.slots, Prefix[row]) /\ added.free = page.free - Needed(row)
  <2>1. /\ AddRow(page, row).slots = Append(page.slots, Prefix[row])
        /\ AddRow(page, row).free = page.free - Needed(row)
    BY <1>5
  <2> QED BY <1>8, <2>1, CleanPage
<1>11. Used(added) <= added.free
  BY <1>1, <1>2, <1>3, <1>6, <1>9 DEF Used
<1> QED BY <1>9, <1>11

\* A row copied past the end of a page that fits has 2^16 - 2 bytes or more
\* after the cast: those of a smaller one end where the rows of the page begin.
LEMMA OutsideIsHuge ==
  ASSUME NEW page \in Page, Used(page) <= page.free, NEW row \in Rows, HasRoom(page, row),
         Outside(page, row)
  PROVE  Bytes(row) >= Word - 2
<1> SUFFICES ASSUME Bytes(row) < Word - 2
             PROVE  FALSE
  BY NeededBytes, PageAssumption
<1>1. Needed(row) = 2 + Bytes(row) /\ Bytes(row) \in Nat
  BY NeededBytes
<1>2. FreeAfter(page, row) = page.free - Needed(row) /\ page.free \in 0 .. PageSize
  BY RoomLeft
<1>3. FreeAfter(page, row) + 2 + Bytes(row) > PageSize
  BY DEF Outside
<1> QED BY <1>1, <1>2, <1>3, PageAssumption

\* What is cut off has 2^16 bytes at least.
LEMMA CutIsHuge ==
  ASSUME HistorySound, NEW row \in Rows, Taken(row), UNCHANGED ub
  PROVE  HistorySound'
<1>1. Prefix[row] # row => Size[row] >= Word - 2
  BY NeededBytes, PageAssumption
<1>2. mangled' = IF Prefix[row] = row THEN mangled ELSE mangled \cup {row}
  BY DEF Taken
<1> QED BY <1>1, <1>2 DEF HistorySound, OnlyHugeHarmed, Bytes

\* What writing a page makes of the file.
LEMMA WrittenFile ==
  ASSUME file \in Seq(Page), NEW p \in Nat \ {0}, NEW page, Clean(page) \in Page
  PROVE  /\ Written(p, page) \in Seq(Page)
         /\ Len(Written(p, page)) = IF p > Len(file) THEN p ELSE Len(file)
         /\ DOMAIN Written(p, page) = 1 .. (IF p > Len(file) THEN p ELSE Len(file))
         /\ Written(p, page)[p] = Clean(page)
         /\ \A q \in DOMAIN file : q # p => Written(p, page)[q] = file[q]
         /\ \A q \in DOMAIN Written(p, page) :
              q # p /\ q \notin DOMAIN file => Written(p, page)[q] = Hole
<1> DEFINE n == IF p > Len(file) THEN p ELSE Len(file)
           g(q) == IF q = p THEN Clean(page) ELSE IF q <= Len(file) THEN file[q] ELSE Hole
<1>1. Len(file) \in Nat /\ n \in Nat /\ DOMAIN file = 1 .. Len(file) /\ p \in 1 .. n
  OBVIOUS
<1>2. \A q \in 1 .. n : g(q) \in Page
  BY SparePages
<1>3. Written(p, page) = [q \in 1 .. n |-> g(q)]
  BY DEF Written
<1> HIDE DEF g
<1>4. Written(p, page) \in Seq(Page) /\ Len(Written(p, page)) = n
  BY <1>1, <1>2, <1>3
<1> QED BY <1>1, <1>3, <1>4 DEF g

-----------------------------------------------------------------------------
(* The invariant *)

\* The page Storage::write tries first is empty or the last of the file: it
\* is no hole, even if the cache holds pages the file has holes for.
LEMMA TargetIsReal ==
  ASSUME Sound
  PROVE  /\ TargetPage \in Page /\ Used(TargetPage) <= TargetPage.free
         /\ Target \in Nat \ {0} /\ NextAfter \in Nat \ {0}
         /\ file = << >> => Target = next /\ NextAfter = next + 1 /\ TargetPage = Blank
         /\ file # << >> => /\ Target = Len(file) /\ NextAfter = next
                            /\ TargetPage = file[Len(file)]
<1> USE DEF Sound, FileSound, CacheSound, ProcessSound
<1>1. /\ file \in Seq(Page) /\ Len(file) \in Nat /\ DOMAIN file = 1 .. Len(file)
      /\ Len(file) = 0 <=> file = << >>
      /\ next \in Nat \ {0}
  BY PageAssumption
<1>2. CASE file = << >>
  BY <1>1, <1>2, SparePages DEF Target, TargetPage, NextAfter, get_page_count
<1>3. CASE file # << >>
  <2>1. Target = Len(file) /\ NextAfter = next /\ Target \in DOMAIN file
    BY <1>1, <1>3 DEF Target, NextAfter, get_page_count
  <2>2. file[Target] # Hole /\ file[Target] \in Page
    <3>1. Used(file[Target]) <= file[Target].free
      BY <1>3, <2>1
    <3>2. file[Target] \in Page
      BY <1>1, <2>1
    <3>3. file[Target].free \in Int /\ Used(file[Target]) \in Int
      BY <3>2 DEF Page, Used
    <3>4. Hole.free \in Int /\ Used(Hole) \in Int /\ Used(Hole) > Hole.free
      BY SparePages DEF Page, Used
    <3> QED BY <3>1, <3>2, <3>3, <3>4
  <2>3. Fetched(Target) = file[Target]
    BY <2>1, <2>2 DEF Fetched
  <2>4. TargetPage = file[Target]
    BY <1>1, <1>3, <2>3 DEF TargetPage, get_page_count
  <2> QED BY <1>1, <1>3, <2>1, <2>2, <2>4
<1> QED BY <1>2, <1>3

\* Pages of the file and of the cache are pages.
LEMMA FetchedPage ==
  ASSUME Sound, NEW p \in DOMAIN file
  PROVE  /\ Fetched(p) \in Page /\ p \in 1 .. MaxPages
         /\ Fetched(p) = file[p] \/ (p \in DOMAIN cache /\ Fetched(p) = Blank /\ file[p] = Hole)
         /\ Fetched(p).slots = file[p].slots
<1>1. file[p] \in Page /\ p \in 1 .. MaxPages
  BY PageAssumption DEF Sound, FileSound
<1>2. Fetched(p) = file[p] \/ (p \in DOMAIN cache /\ Fetched(p) = Blank /\ file[p] = Hole)
  BY DEF Fetched, Sound, CacheSound
<1> QED BY <1>1, <1>2, SparePages

\* Writing a page that fits keeps the file sound.
LEMMA WriteKeepsFile ==
  ASSUME FileSound, NEW p \in 1 .. MaxPages, NEW page,
         Clean(page) \in Page, Used(Clean(page)) <= Clean(page).free,
         ~Clean(page).dirty, file' = Written(p, page)
  PROVE  /\ FileSound'
         /\ DOMAIN file' = 1 .. (IF p > Len(file) THEN p ELSE Len(file))
<1>1. /\ file \in Seq(Page) /\ Len(file) \in Nat /\ DOMAIN file = 1 .. Len(file)
      /\ Len(file) <= MaxPages /\ MaxPages \in Nat /\ p \in Nat \ {0}
      /\ \A q \in DOMAIN file : ~file[q].dirty /\ (file[q] = Hole \/ Used(file[q]) <= file[q].free)
      /\ file # << >> => Used(file[Len(file)]) <= file[Len(file)].free
  BY PageAssumption DEF FileSound
<1>2. /\ file' \in Seq(Page)
      /\ Len(file') = IF p > Len(file) THEN p ELSE Len(file)
      /\ DOMAIN file' = 1 .. (IF p > Len(file) THEN p ELSE Len(file))
      /\ file'[p] = Clean(page)
      /\ \A q \in DOMAIN file : q # p => file'[q] = file[q]
      /\ \A q \in DOMAIN file' : q # p /\ q \notin DOMAIN file => file'[q] = Hole
  BY <1>1, WrittenFile
<1>3. \A q \in DOMAIN file' : ~file'[q].dirty /\ (file'[q] = Hole \/ Used(file'[q]) <= file'[q].free)
  <2>1. ASSUME NEW q \in DOMAIN file'
        PROVE  file'[q] = Clean(page) \/ file'[q] = Hole \/ (q \in DOMAIN file /\ file'[q] = file[q])
    BY <1>2
  <2> QED BY <1>1, <2>1, SparePages
<1>4. Used(file'[Len(file')]) <= file'[Len(file')].free
  <2>1. CASE Len(file') = p
    BY <1>2, <2>1
  <2>2. CASE Len(file') # p
    <3>1. Len(file') = Len(file) /\ Len(file) \in DOMAIN file /\ Len(file) # 0
      <4>1. ~(p > Len(file)) /\ Len(file') = Len(file)
        BY <1>2, <2>2
      <4> QED BY <1>1, <4>1
    <3>2. file # << >>
      BY <3>1
    <3>3. file'[Len(file)] = file[Len(file)]
      BY <1>2, <2>2, <3>1
    <3> QED BY <1>1, <3>1, <3>2, <3>3
  <2> QED BY <2>1, <2>2
<1>5. Len(file') <= MaxPages
  BY <1>1, <1>2
<1> QED BY <1>2, <1>3, <1>4, <1>5 DEF FileSound

\* A cache stays sound when the page written is put into it.
LEMMA WriteKeepsCache ==
  ASSUME FileSound, CacheSound, NEW p \in 1 .. MaxPages, NEW page, Clean(page) \in Page,
         file' = Written(p, page),
         DOMAIN cache' = DOMAIN cache \cup {p}, cache'[p] = Clean(page),
         \A q \in DOMAIN cache : q # p => cache'[q] = cache[q]
  PROVE  CacheSound'
<1>1. file \in Seq(Page) /\ p \in Nat \ {0}
  BY PageAssumption DEF FileSound
<1>2. /\ p \in DOMAIN file' /\ DOMAIN file \subseteq DOMAIN file'
      /\ file'[p] = Clean(page)
      /\ \A q \in DOMAIN file : q # p => file'[q] = file[q]
      /\ \A q \in DOMAIN file' : q # p /\ q \notin DOMAIN file => file'[q] = Hole
  BY <1>1, WrittenFile
<1>3. ASSUME NEW q \in DOMAIN cache'
      PROVE  \/ q \in DOMAIN file' /\ cache'[q] = file'[q]
             \/ cache'[q] = Blank /\ (q \in DOMAIN file' => file'[q] = Hole)
  BY <1>2 DEF CacheSound
<1> QED BY <1>3 DEF CacheSound

\* A cache stays sound when pages are fetched into it, or when it gets a
\* page that was just given out.
LEMMA FetchKeepsCache ==
  ASSUME Sound, UNCHANGED file, DOMAIN cache' \subseteq 1 .. MaxPages,
         \A q \in DOMAIN cache' :
           \/ q \in DOMAIN cache /\ cache'[q] = cache[q]
           \/ q \in DOMAIN file /\ cache'[q] = Fetched(q)
           \/ q \notin DOMAIN file /\ cache'[q] = Blank
  PROVE  CacheSound'
<1>1. \A q \in DOMAIN file :
        Fetched(q) = file[q] \/ (Fetched(q) = Blank /\ file[q] = Hole)
  BY FetchedPage
<1> QED BY <1>1 DEF Sound, CacheSound

\* The page a new row goes to is one the bound allows.
LEMMA NumbersInBounds ==
  ASSUME Sound, CanWrite
  PROVE  /\ Target \in 1 .. MaxPages /\ NextAfter \in 1 .. MaxPages
         /\ next \in Nat /\ next <= NextAfter /\ NextAfter + 1 \in 1 .. MaxPages + 1
         /\ Target <= NextAfter /\ Target < NextAfter
         /\ \A p \in DOMAIN cache \cup DOMAIN file : p \in Nat /\ p < next
         /\ NextAfter \notin DOMAIN file /\ NextAfter \notin DOMAIN cache
         /\ Target \notin DOMAIN file => file = << >> /\ Target \notin DOMAIN cache
<1>1. /\ file \in Seq(Page) /\ Len(file) \in Nat /\ DOMAIN file = 1 .. Len(file)
      /\ next \in Nat \ {0} /\ MaxPages \in Nat /\ next + 1 <= MaxPages
      /\ Len(file) = 0 <=> file = << >>
  BY PageAssumption DEF CanWrite, Sound, FileSound, ProcessSound
<1>2. \A p \in DOMAIN cache \cup DOMAIN file : p \in Nat /\ p < next
  BY <1>1 DEF FreshPages, CanWrite, Sound, CacheSound, ProcessSound
<1>3. CASE file = << >>
  <2>1. Target = next /\ NextAfter = next + 1 /\ DOMAIN file = {}
    BY <1>1, <1>3, TargetIsReal
  <2> QED BY <1>1, <1>2, <1>3, <2>1
<1>4. CASE file # << >>
  <2>1. Target = Len(file) /\ NextAfter = next /\ Target \in DOMAIN file
    BY <1>1, <1>4, TargetIsReal
  <2> QED BY <1>1, <1>2, <2>1
<1> QED BY <1>3, <1>4

\* Storage::write finds room on the page it tries first.
LEMMA WriteHereSound ==
  ASSUME Sound, NEW row \in Rows, WriteHere(row)
  PROVE  Sound'
<1> DEFINE page == AddRow(TargetPage, row)
<1>1. /\ TargetPage \in Page /\ Used(TargetPage) <= TargetPage.free
      /\ CanWrite /\ HasRoom(TargetPage, row)
      /\ file' = Written(Target, page) /\ cache' = WithPage(cache, Target, Clean(page))
      /\ next' = NextAfter /\ Taken(row) /\ UNCHANGED ub /\ up' = up
  BY TargetIsReal DEF WriteHere
<1>2. /\ Clean(page) \in Page /\ ~Clean(page).dirty
      /\ Used(Clean(page)) <= Clean(page).free
  BY <1>1, RowAdded
<1>3. /\ Target \in 1 .. MaxPages /\ NextAfter \in 1 .. MaxPages /\ Target < NextAfter
      /\ next <= NextAfter /\ next \in Nat
      /\ \A p \in DOMAIN cache \cup DOMAIN file : p \in Nat /\ p < next
  BY <1>1, NumbersInBounds
<1> HIDE DEF page
<1>4. FileSound' /\ DOMAIN file' = 1 .. (IF Target > Len(file) THEN Target ELSE Len(file))
  BY <1>1, <1>2, <1>3, WriteKeepsFile DEF Sound
<1>5. /\ DOMAIN cache' = DOMAIN cache \cup {Target} /\ cache'[Target] = Clean(page)
      /\ \A q \in DOMAIN cache : q # Target => cache'[q] = cache[q]
  <2>1. cache' = WithPage(cache, Target, Clean(page))
    BY <1>1
  <2> QED BY <2>1 DEF WithPage
<1>6. CacheSound'
  BY <1>1, <1>2, <1>3, <1>5, WriteKeepsCache DEF Sound
<1>7. ProcessSound'
  <2>1. Len(file) \in Nat /\ DOMAIN file = 1 .. Len(file)
    BY DEF Sound, FileSound
  <2>2. \A p \in DOMAIN cache' \cup DOMAIN file' : p < next'
    BY <1>1, <1>3, <1>4, <1>5, <2>1, PageAssumption
  <2> QED BY <1>1, <1>2, <1>3, <2>2, PageAssumption DEF Sound, ProcessSound, FreshPages, CanWrite
<1>8. HistorySound'
  BY <1>1, CutIsHuge DEF Sound
<1> QED BY <1>4, <1>6, <1>7, <1>8 DEF Sound

\* It finds none there and takes a new page.
LEMMA WriteNextSound ==
  ASSUME Sound, NEW row \in Rows, WriteNext(row)
  PROVE  Sound'
<1> DEFINE page == AddRow(Blank, row)
<1>1. /\ Blank \in Page /\ Used(Blank) <= Blank.free
      /\ CanWrite /\ HasRoom(Blank, row) /\ ~HasRoom(TargetPage, row)
      /\ file' = Written(NextAfter, page)
      /\ cache' = WithPage(WithPage(cache, Target, TargetPage), NextAfter, Clean(page))
      /\ next' = NextAfter + 1 /\ Taken(row) /\ UNCHANGED ub /\ up' = up
  BY SparePages DEF WriteNext
<1>2. /\ Clean(page) \in Page /\ ~Clean(page).dirty
      /\ Used(Clean(page)) <= Clean(page).free
  BY <1>1, RowAdded
<1>3. /\ Target \in 1 .. MaxPages /\ NextAfter \in 1 .. MaxPages /\ Target < NextAfter
      /\ next <= NextAfter /\ next \in Nat /\ NextAfter + 1 \in 1 .. MaxPages + 1
      /\ \A p \in DOMAIN cache \cup DOMAIN file : p \in Nat /\ p < next
  BY <1>1, NumbersInBounds
<1>4. file # << >> /\ TargetPage = file[Target] /\ Target \in DOMAIN file
  <2>1. file # << >>
    BY <1>1, TargetIsReal
  <2> QED BY <2>1, TargetIsReal DEF Sound, FileSound
<1> HIDE DEF page
<1>5. /\ FileSound'
      /\ DOMAIN file' = 1 .. (IF NextAfter > Len(file) THEN NextAfter ELSE Len(file))
  BY <1>1, <1>2, <1>3, WriteKeepsFile DEF Sound
<1>6. /\ DOMAIN cache' = DOMAIN cache \cup {Target, NextAfter}
      /\ cache'[NextAfter] = Clean(page) /\ cache'[Target] = file[Target]
      /\ \A q \in DOMAIN cache : q # Target /\ q # NextAfter => cache'[q] = cache[q]
  <2> DEFINE fetched == WithPage(cache, Target, TargetPage)
  <2>1. /\ DOMAIN fetched = DOMAIN cache \cup {Target} /\ fetched[Target] = file[Target]
        /\ \A q \in DOMAIN cache : q # Target => fetched[q] = cache[q]
    BY <1>4 DEF WithPage
  <2>2. cache' = WithPage(fetched, NextAfter, Clean(page))
    BY <1>1
  <2> HIDE DEF fetched
  <2>3. /\ DOMAIN cache' = DOMAIN fetched \cup {NextAfter} /\ cache'[NextAfter] = Clean(page)
        /\ \A q \in DOMAIN fetched : q # NextAfter => cache'[q] = fetched[q]
    BY <2>2 DEF WithPage
  <2> QED BY <1>3, <2>1, <2>3
<1>7. CacheSound'
  <2>1. /\ NextAfter \in DOMAIN file' /\ file'[NextAfter] = Clean(page)
        /\ \A q \in DOMAIN file : q # NextAfter => q \in DOMAIN file' /\ file'[q] = file[q]
        /\ \A q \in DOMAIN file' : q # NextAfter /\ q \notin DOMAIN file => file'[q] = Hole
    <3>1. /\ file' = Written(NextAfter, page) /\ Clean(page) \in Page
          /\ file \in Seq(Page) /\ NextAfter \in Nat \ {0}
      BY <1>1, <1>2, <1>3, PageAssumption DEF Sound, FileSound
    <3>2. NextAfter \in DOMAIN file' /\ DOMAIN file \subseteq DOMAIN file'
      BY <1>5, <3>1
    <3> QED BY <3>1, <3>2, WrittenFile
  <2>2. ASSUME NEW q \in DOMAIN cache'
        PROVE  \/ q \in DOMAIN file' /\ cache'[q] = file'[q]
               \/ cache'[q] = Blank /\ (q \in DOMAIN file' => file'[q] = Hole)
    <3>1. CASE q = NextAfter
      BY <1>6, <2>1, <3>1
    <3>2. CASE q = Target
      BY <1>3, <1>4, <1>6, <2>1, <3>2
    <3>3. CASE q # NextAfter /\ q # Target
      BY <1>6, <2>1, <3>3 DEF Sound, CacheSound
    <3> QED BY <3>1, <3>2, <3>3
  <2> QED BY <1>3, <1>6, <2>2 DEF Sound, CacheSound
<1>8. ProcessSound'
  <2>1. Len(file) \in Nat /\ DOMAIN file = 1 .. Len(file)
    BY DEF Sound, FileSound
  <2>2. \A p \in DOMAIN cache' \cup DOMAIN file' : p < next'
    BY <1>1, <1>3, <1>5, <1>6, <2>1, PageAssumption
  <2> QED BY <1>1, <1>2, <1>3, <2>2, PageAssumption DEF Sound, ProcessSound, FreshPages, CanWrite
<1>9. HistorySound'
  BY <1>1, CutIsHuge DEF Sound
<1> QED BY <1>5, <1>7, <1>8, <1>9 DEF Sound

\* A row is copied past the end of its page: it is one that is huge, as
\* neither the page tried first nor an empty one is a hole.
LEMMA WriteWildSound ==
  ASSUME Sound, NEW row \in Rows, WriteWild(row)
  PROVE  Sound'
<1>1. Bytes(row) >= Word - 2
  <2>1. /\ TargetPage \in Page /\ Used(TargetPage) <= TargetPage.free
        /\ Blank \in Page /\ Used(Blank) <= Blank.free
    BY TargetIsReal, SparePages
  <2> QED BY <2>1, OutsideIsHuge DEF WriteWild
<1>2. Size[row] >= Word - 2
  BY <1>1, NeededBytes, PageAssumption
<1>3. HistorySound'
  BY <1>1, <1>2 DEF WriteWild, Sound, HistorySound, OnlyHugeHarmed, Bytes
<1>4. FileSound' /\ CacheSound' /\ ProcessSound'
  BY DEF WriteWild, Sound, FileSound, CacheSound, ProcessSound, FreshPages
<1> QED BY <1>3, <1>4 DEF Sound

\* "Row too large": a page is given out and stays in the cache.
LEMMA WriteRefusedSound ==
  ASSUME Sound, NEW row \in Rows, WriteRefused(row)
  PROVE  Sound'
<1>1. /\ CanWrite /\ file' = file /\ up' = up /\ UNCHANGED <<ub, mangled>> /\ next' = NextAfter + 1
      /\ cache' = WithPage(WithPage(cache, Target, TargetPage), NextAfter, Blank)
  BY DEF WriteRefused
<1>2. /\ Target \in 1 .. MaxPages /\ NextAfter \in 1 .. MaxPages /\ Target < NextAfter
      /\ next <= NextAfter /\ next \in Nat /\ NextAfter + 1 \in 1 .. MaxPages + 1
      /\ \A p \in DOMAIN cache \cup DOMAIN file : p \in Nat /\ p < next
      /\ NextAfter \notin DOMAIN file
  BY <1>1, NumbersInBounds
<1>3. \/ Target \notin DOMAIN file /\ TargetPage = Blank
      \/ Target \in DOMAIN file /\ TargetPage = file[Target]
  <2>1. CASE file = << >>
    BY <2>1, TargetIsReal
  <2>2. CASE file # << >>
    BY <2>2, TargetIsReal DEF Sound, FileSound
  <2> QED BY <2>1, <2>2
<1>4. /\ DOMAIN cache' = DOMAIN cache \cup {Target, NextAfter}
      /\ cache'[NextAfter] = Blank /\ cache'[Target] = TargetPage
      /\ \A q \in DOMAIN cache : q # Target /\ q # NextAfter => cache'[q] = cache[q]
  <2> DEFINE fetched == WithPage(cache, Target, TargetPage)
  <2>1. /\ DOMAIN fetched = DOMAIN cache \cup {Target} /\ fetched[Target] = TargetPage
        /\ \A q \in DOMAIN cache : q # Target => fetched[q] = cache[q]
    BY DEF WithPage
  <2>2. cache' = WithPage(fetched, NextAfter, Blank)
    BY <1>1
  <2> HIDE DEF fetched
  <2>3. /\ DOMAIN cache' = DOMAIN fetched \cup {NextAfter} /\ cache'[NextAfter] = Blank
        /\ \A q \in DOMAIN fetched : q # NextAfter => cache'[q] = fetched[q]
    BY <2>2 DEF WithPage
  <2> QED BY <1>2, <2>1, <2>3
<1>5. CacheSound'
  <2>1. ASSUME NEW q \in DOMAIN cache'
        PROVE  \/ q \in DOMAIN file /\ cache'[q] = file[q]
               \/ cache'[q] = Blank /\ (q \in DOMAIN file => file[q] = Hole)
    <3>1. CASE q = NextAfter
      BY <1>2, <1>4, <3>1
    <3>2. CASE q = Target
      BY <1>2, <1>3, <1>4, <3>2
    <3>3. CASE q # NextAfter /\ q # Target
      BY <1>4, <3>3 DEF Sound, CacheSound
    <3> QED BY <3>1, <3>2, <3>3
  <2> QED BY <1>1, <1>2, <1>4, <2>1 DEF Sound, CacheSound
<1>6. FileSound'
  BY <1>1 DEF Sound, FileSound
<1>7. ProcessSound'
  <2>1. \A p \in DOMAIN cache' \cup DOMAIN file : p < next'
    BY <1>1, <1>2, <1>4
  <2> QED BY <1>1, <1>2, <2>1 DEF Sound, ProcessSound, FreshPages, CanWrite
<1>8. HistorySound'
  BY <1>1 DEF Sound, HistorySound, OnlyHugeHarmed, Bytes
<1> QED BY <1>5, <1>6, <1>7, <1>8 DEF Sound

\* A slot is marked as deleted on a page of the file.
LEMMA SlotDeleted ==
  ASSUME Sound, NEW p \in DOMAIN file, NEW s \in DOMAIN Fetched(p).slots
  PROVE  LET page == [Fetched(p) EXCEPT !.slots[s] = Deleted]
         IN  /\ page \in Page /\ Used(page) <= page.free
             /\ page.slots = [file[p].slots EXCEPT ![s] = Deleted]
             /\ s \in DOMAIN file[p].slots
<1> DEFINE old == Fetched(p)
           page == [old EXCEPT !.slots[s] = Deleted]
<1>1. old \in Page /\ old.slots = file[p].slots /\ s \in DOMAIN old.slots
  BY FetchedPage
<1>2. old # Hole /\ old # Blank
  BY <1>1, SparePages
<1>3. Used(old) <= old.free
  BY <1>2, FetchedPage DEF Sound, FileSound
<1> HIDE DEF old
<1>4. /\ page \in [slots : Seq(Rows \cup {Deleted}), free : 0 .. PageSize, dirty : BOOLEAN]
      /\ page.slots = [old.slots EXCEPT ![s] = Deleted] /\ page.free = old.free
  BY <1>1 DEF Page
<1>5. Len(page.slots) = Len(old.slots)
  BY <1>1, <1>4 DEF Page
<1>6. Used(page) <= page.free
  BY <1>3, <1>4, <1>5 DEF Used
<1> QED BY <1>1, <1>4, <1>6 DEF Page, old

\* Storage::remove, which writes the page it changed.
LEMMA RemoveSound ==
  ASSUME Sound, NEW p \in 1 .. get_page_count, NEW s \in DOMAIN Fetched(p).slots, Remove(p, s)
  PROVE  Sound'
<1> DEFINE page == [Fetched(p) EXCEPT !.slots[s] = Deleted]
<1>1. /\ file' = Written(p, page) /\ cache' = WithPage(cache, p, Clean(page))
      /\ next' = next /\ up' = up /\ UNCHANGED <<ub, mangled>> /\ up = "open"
  BY DEF Remove
<1>2. p \in DOMAIN file /\ p \in 1 .. MaxPages
  BY PageAssumption DEF get_page_count, Sound, FileSound
<1>3. page \in Page /\ Used(page) <= page.free
  BY <1>2, SlotDeleted
<1> HIDE DEF page
<1>4. /\ Clean(page) \in Page /\ ~Clean(page).dirty /\ Used(Clean(page)) <= Clean(page).free
  BY <1>3, CleanPage DEF Used
<1>5. FileSound' /\ DOMAIN file' = 1 .. (IF p > Len(file) THEN p ELSE Len(file))
  BY <1>1, <1>2, <1>4, WriteKeepsFile DEF Sound
<1>6. DOMAIN file' = DOMAIN file
  BY <1>2, <1>5 DEF Sound, FileSound
<1>7. /\ DOMAIN cache' = DOMAIN cache \cup {p} /\ cache'[p] = Clean(page)
      /\ \A q \in DOMAIN cache : q # p => cache'[q] = cache[q]
  BY <1>1 DEF WithPage
<1>8. CacheSound'
  BY <1>1, <1>2, <1>4, <1>7, WriteKeepsCache DEF Sound
<1>9. ProcessSound'
  BY <1>1, <1>2, <1>6, <1>7 DEF Sound, ProcessSound, FreshPages
<1>10. HistorySound'
  BY <1>1 DEF Sound, HistorySound, OnlyHugeHarmed, Bytes
<1> QED BY <1>5, <1>8, <1>9, <1>10 DEF Sound

\* Reading changes the cache only.
LEMMA ReadSound ==
  ASSUME Sound, \/ \E p \in 1 .. get_page_count : Read(p)
                \/ Scan
  PROVE  Sound'
<1>1. /\ file' = file /\ next' = next /\ up' = up /\ UNCHANGED <<ub, mangled>> /\ up = "open"
      /\ DOMAIN cache' \subseteq DOMAIN cache \cup DOMAIN file
      /\ \A q \in DOMAIN cache' : \/ q \in DOMAIN cache /\ cache'[q] = cache[q]
                                  \/ q \in DOMAIN file /\ cache'[q] = Fetched(q)
  <2>0. DOMAIN file = 1 .. get_page_count
    BY DEF get_page_count, Sound, FileSound
  <2>1. CASE \E p \in 1 .. get_page_count : Read(p)
    BY <2>0, <2>1 DEF Read, WithPage
  <2>2. CASE Scan
    BY <2>0, <2>2 DEF Scan, Fetched
  <2> QED BY <2>1, <2>2
<1>2. DOMAIN cache' \subseteq 1 .. MaxPages
  BY <1>1, PageAssumption DEF Sound, FileSound, CacheSound
<1>3. CacheSound'
  BY <1>1, <1>2, FetchKeepsCache
<1>4. FileSound' /\ ProcessSound'
  BY <1>1 DEF Sound, FileSound, ProcessSound, FreshPages
<1>5. HistorySound'
  BY <1>1 DEF Sound, HistorySound, OnlyHugeHarmed, Bytes
<1> QED BY <1>3, <1>4, <1>5 DEF Sound

\* ~Pager writes a page that was given out and never written.
LEMMA FlushSound ==
  ASSUME Sound, NEW p \in DOMAIN cache, flush_page(p)
  PROVE  Sound'
<1>1. /\ up = "exit" /\ cache[p].dirty /\ file' = Written(p, cache[p])
      /\ cache' = [cache EXCEPT ![p] = Clean(cache[p])]
      /\ next' = next /\ up' = up /\ UNCHANGED <<ub, mangled>>
  BY DEF flush_page
<1>2. p \in 1 .. MaxPages /\ cache[p] = Blank
  BY <1>1 DEF Sound, FileSound, CacheSound
<1>3. Clean(Blank) \in Page /\ ~Clean(Blank).dirty /\ Used(Clean(Blank)) <= Clean(Blank).free
  BY SparePages, CleanPage DEF Used
<1>4. FileSound'
  BY <1>1, <1>2, <1>3, WriteKeepsFile DEF Sound
<1>5. CacheSound'
  BY <1>1, <1>2, <1>3, WriteKeepsCache DEF Sound
<1>6. ProcessSound'
  BY <1>1 DEF Sound, ProcessSound, FreshPages
<1>7. HistorySound'
  BY <1>1 DEF Sound, HistorySound, OnlyHugeHarmed, Bytes
<1> QED BY <1>4, <1>5, <1>6, <1>7 DEF Sound

\* The ends of the process and its next start.
LEMMA ProcessStepSound ==
  ASSUME Sound, Exit \/ ExitDone \/ Crash \/ Open
  PROVE  Sound'
<1>1. FileSound'
  BY DEF Sound, FileSound, Exit, ExitDone, Crash, Open
<1>2. CacheSound' /\ ProcessSound'
  <2>1. CASE Exit
    BY <2>1 DEF Exit, Sound, CacheSound, ProcessSound, FreshPages
  <2>2. CASE ExitDone \/ Crash
    BY <2>2, PageAssumption DEF ExitDone, Crash, Down, Sound, CacheSound, ProcessSound, FreshPages
  <2>3. CASE Open
    <3>1. /\ cache' = << >> /\ up' = "open" /\ next' = Len(file) + 1 /\ file' = file
      BY <2>3 DEF Open, Sound, ProcessSound, get_page_count
    <3>2. Len(file) \in Nat /\ Len(file) <= MaxPages /\ DOMAIN file = 1 .. Len(file)
      BY DEF Sound, FileSound
    <3>3. DOMAIN cache' = {}
      BY <3>1
    <3> QED BY <3>1, <3>2, <3>3, PageAssumption
            DEF Sound, CacheSound, ProcessSound, FreshPages
  <2> QED BY <2>1, <2>2, <2>3
<1>3. HistorySound'
  BY DEF Exit, ExitDone, Crash, Open, Sound, HistorySound, OnlyHugeHarmed, Bytes
<1> QED BY <1>1, <1>2, <1>3 DEF Sound

\* Init and every step keep the file and the cache sound.
LEMMA SoundAlways == Spec => []Sound
<1>1. Init => Sound
  <2>1. Init => FileSound /\ CacheSound /\ ProcessSound
    BY PageAssumption DEF Init, FileSound, CacheSound, ProcessSound, FreshPages
  <2>2. Init => HistorySound
    BY DEF Init, HistorySound, OnlyHugeHarmed
  <2> QED BY <2>1, <2>2 DEF Sound
<1>2. Sound /\ [Next]_vars => Sound'
  <2> SUFFICES ASSUME Sound, [Next]_vars
               PROVE  Sound'
    OBVIOUS
  <2>1. CASE \E row \in Rows : \/ WriteHere(row) \/ WriteNext(row)
                               \/ WriteRefused(row) \/ WriteWild(row)
    BY <2>1, WriteHereSound, WriteNextSound, WriteRefusedSound, WriteWildSound
  <2>2. CASE \E p \in 1 .. get_page_count : \/ Read(p)
                                            \/ \E s \in DOMAIN Fetched(p).slots : Remove(p, s)
    BY <2>2, ReadSound, RemoveSound
  <2>3. CASE Scan
    BY <2>3, ReadSound
  <2>4. CASE Exit \/ ExitDone \/ Crash \/ Open
    BY <2>4, ProcessStepSound
  <2>5. CASE \E p \in DOMAIN cache : flush_page(p)
    BY <2>5, FlushSound
  <2>6. CASE UNCHANGED vars
    BY <2>6 DEF vars, Sound, FileSound, CacheSound, ProcessSound, FreshPages,
                HistorySound, OnlyHugeHarmed, Bytes
  <2> QED BY <2>1, <2>2, <2>3, <2>4, <2>5, <2>6 DEF Next
<1> QED BY <1>1, <1>2, PTL DEF Spec

-----------------------------------------------------------------------------
(* The invariants of the runs *)

\* Every variable keeps its type: pages, file and page numbers stay within
\* the bounds of the code's integer types (page.h, pager.h).
THEOREM TypeCorrect == Spec => []TypeOK
<1>1. Sound => TypeOK
  <2> SUFFICES ASSUME Sound PROVE TypeOK
    OBVIOUS
  <2>1. \A p \in DOMAIN cache : cache[p] \in Page
    BY SparePages DEF Sound, FileSound, CacheSound
  <2> QED BY <2>1 DEF Sound, FileSound, CacheSound, ProcessSound, HistorySound, TypeOK
<1> QED BY <1>1, SoundAlways, PTL

\* The slot array and the rows of a page never meet, in the file or in the
\* cache, whatever add_row computes in 16 bits.
THEOREM LayoutAlwaysFits == Spec => []LayoutFits
<1>1. Sound => LayoutFits
  <2> SUFFICES ASSUME Sound, NEW p, p \in DOMAIN file \/ p \in DOMAIN cache,
                      NEW page, \/ p \in DOMAIN file /\ page = file[p]
                                \/ p \in DOMAIN cache /\ page = cache[p]
               PROVE  page = Hole \/ Used(page) <= page.free
    BY DEF LayoutFits
  <2> QED BY SparePages DEF Sound, FileSound, CacheSound
<1> QED BY <1>1, SoundAlways, PTL

\* A row under 2^16 - 2 bytes is refused or stored as it is, inside its page:
\* the page Storage::write tries first is never one of the holes, on which the
\* check of add_row wraps.  Longer rows may be cut off, and past the end of a
\* page go only those of which the cast leaves 2^16 - 2 or 2^16 - 1 bytes.
THEOREM RowsKeptWhole == Spec => []OnlyHugeHarmed
<1>1. Sound => OnlyHugeHarmed
  BY DEF Sound, HistorySound
<1> QED BY <1>1, SoundAlways, PTL

\* The Pager never gives out the number of a page that has rows.
THEOREM PagesStayFresh == Spec => []FreshPages
<1>1. Sound => FreshPages
  BY DEF Sound, ProcessSound
<1> QED BY <1>1, SoundAlways, PTL

\* A cached page never differs from what the next process would read.
THEOREM ViewsAlwaysAgree == Spec => []ViewsAgree
<1>1. Sound => ViewsAgree
  BY SparePages DEF Sound, CacheSound, ViewsAgree
<1> QED BY <1>1, SoundAlways, PTL

-----------------------------------------------------------------------------
(* The refinement: TableFile implements SlotLog *)

\* The slots of page q of a file, the RowIds of a file and its log.
SlotsAt(f, q) == IF q \in DOMAIN f THEN f[q].slots ELSE << >>
Rids(f) == UNION {{p} \X DOMAIN f[p].slots : p \in DOMAIN f}
LogOf(f) == [r \in Rids(f) |-> f[r[1]].slots[r[2]]]

\* A RowId names a page and a slot of that page.
LEMMA RidOfSlot ==
  ASSUME NEW f
  PROVE  /\ \A p, s : <<p, s>> \in Rids(f) <=> s \in DOMAIN SlotsAt(f, p)
         /\ \A r \in Rids(f) : r = <<r[1], r[2]>>
         /\ \A p, s : s \in DOMAIN SlotsAt(f, p) => LogOf(f)[<<p, s>>] = SlotsAt(f, p)[s]
<1>1. \A p, s : <<p, s>> \in Rids(f) <=> s \in DOMAIN SlotsAt(f, p)
  <2> TAKE p, s
  <2>1. ASSUME <<p, s>> \in Rids(f)
        PROVE  s \in DOMAIN SlotsAt(f, p)
    BY <2>1 DEF Rids, SlotsAt
  <2>2. ASSUME s \in DOMAIN SlotsAt(f, p)
        PROVE  <<p, s>> \in Rids(f)
    <3>1. p \in DOMAIN f /\ s \in DOMAIN f[p].slots
      <4>1. DOMAIN << >> = {}
        OBVIOUS
      <4> QED BY <2>2, <4>1 DEF SlotsAt
    <3> QED BY <3>1 DEF Rids
  <2> QED BY <2>1, <2>2
<1>2. \A r \in Rids(f) : r = <<r[1], r[2]>>
  BY DEF Rids
<1>3. \A p, s : s \in DOMAIN SlotsAt(f, p) => LogOf(f)[<<p, s>>] = SlotsAt(f, p)[s]
  <2> TAKE p, s
  <2> HAVE s \in DOMAIN SlotsAt(f, p)
  <2>1. <<p, s>> \in Rids(f)
    BY <1>1
  <2>2. p \in DOMAIN f
    <3>1. DOMAIN << >> = {}
      OBVIOUS
    <3> QED BY <3>1 DEF SlotsAt
  <2> QED BY <2>1, <2>2 DEF LogOf, SlotsAt
<1> QED BY <1>1, <1>2, <1>3

\* Files with the same slots are the same log.
LEMMA SameSlots ==
  ASSUME NEW f, NEW g, \A q : SlotsAt(f, q) = SlotsAt(g, q)
  PROVE  LogOf(f) = LogOf(g)
<1>1. \A r : r \in Rids(f) <=> r \in Rids(g)
  BY RidOfSlot
<1>2. Rids(f) = Rids(g)
  BY <1>1
<1>3. \A r \in Rids(f) : f[r[1]].slots[r[2]] = g[r[1]].slots[r[2]]
  <2> TAKE r \in Rids(f)
  <2>1. /\ LogOf(f)[r] = f[r[1]].slots[r[2]]
        /\ LogOf(g)[r] = g[r[1]].slots[r[2]]
    BY <1>2 DEF LogOf
  <2>2. r = <<r[1], r[2]>> /\ r[2] \in DOMAIN SlotsAt(f, r[1])
    BY RidOfSlot
  <2>3. LogOf(f)[r] = SlotsAt(f, r[1])[r[2]] /\ LogOf(g)[r] = SlotsAt(g, r[1])[r[2]]
    BY <2>2, RidOfSlot
  <2> QED BY <2>1, <2>3
<1> QED BY <1>2, <1>3 DEF LogOf

\* Writing a page changes the slots of that page only: the holes it may
\* leave have none.
LEMMA WrittenSlots ==
  ASSUME file \in Seq(Page), NEW p \in Nat \ {0}, NEW page, Clean(page) \in Page
  PROVE  /\ SlotsAt(Written(p, page), p) = Clean(page).slots
         /\ \A q : q # p => SlotsAt(Written(p, page), q) = SlotsAt(file, q)
<1> DEFINE g == Written(p, page)
           n == IF p > Len(file) THEN p ELSE Len(file)
<1>1. /\ DOMAIN g = 1 .. n /\ g[p] = Clean(page) /\ p \in 1 .. n
      /\ DOMAIN file = 1 .. Len(file) /\ DOMAIN file \subseteq 1 .. n
      /\ \A q \in DOMAIN file : q # p => g[q] = file[q]
      /\ \A q \in DOMAIN g : q # p /\ q \notin DOMAIN file => g[q] = Hole
  <2>1. Len(file) \in Nat /\ DOMAIN file = 1 .. Len(file)
    OBVIOUS
  <2>2. p \in 1 .. n /\ DOMAIN file \subseteq 1 .. n
    BY <2>1
  <2> HIDE DEF n
  <2>3. DOMAIN g = 1 .. n
    BY WrittenFile DEF n
  <2> QED BY <2>1, <2>2, <2>3, WrittenFile
<1> HIDE DEF g, n
<1>2. SlotsAt(g, p) = Clean(page).slots
  BY <1>1 DEF SlotsAt
<1>3. \A q : q # p => SlotsAt(g, q) = SlotsAt(file, q)
  BY <1>1, SparePages DEF SlotsAt
<1> QED BY <1>2, <1>3 DEF g

\* The RowId of the next slot of a page.
NextRid(f, p) == <<p, Len(SlotsAt(f, p)) + 1>>

\* A row appended to the slots of the last page is a slot added to the log.
LEMMA AddSlot ==
  ASSUME NEW p \in Nat, NEW row \in Rows,
         SlotsAt(file, p) \in Seq(Rows \cup {Deleted}),
         \A q \in DOMAIN file : q \in Nat /\ q <= p /\ file[q].slots \in Seq(Rows \cup {Deleted}),
         SlotsAt(file', p) = Append(SlotsAt(file, p), row),
         \A q : q # p => SlotsAt(file', q) = SlotsAt(file, q)
  PROVE  LET rid == NextRid(file, p)
         IN  /\ rid \in Rids(file')
             /\ \A r \in Rids(file) : Log!Before(r, rid)
             /\ LogOf(file') = [r \in Rids(file) \cup {rid} |-> IF r = rid THEN row ELSE LogOf(file)[r]]
<1> DEFINE n == Len(SlotsAt(file, p))
           rid == NextRid(file, p)
<1>1. /\ n \in Nat /\ DOMAIN SlotsAt(file, p) = 1 .. n
      /\ DOMAIN SlotsAt(file', p) = 1 .. n + 1
      /\ SlotsAt(file', p)[n + 1] = row
      /\ \A s \in 1 .. n : SlotsAt(file', p)[s] = SlotsAt(file, p)[s]
  OBVIOUS
<1> HIDE DEF n
<1>2. rid = <<p, n + 1>> /\ rid[1] = p /\ rid[2] = n + 1
  BY DEF n, NextRid
<1> HIDE DEF rid
<1>3. \A q, s : s \in DOMAIN SlotsAt(file', q) <=>
                  s \in DOMAIN SlotsAt(file, q) \/ (q = p /\ s = n + 1)
  <2> TAKE q, s
  <2>1. CASE q = p
    BY <1>1, <2>1
  <2>2. CASE q # p
    BY <2>2
  <2> QED BY <2>1, <2>2
<1>4. \A r : r \in Rids(file') <=> r \in Rids(file) \cup {rid}
  <2> TAKE r
  <2>1. \A q, s : <<q, s>> \in Rids(file') <=> <<q, s>> \in Rids(file) \/ (q = p /\ s = n + 1)
    BY <1>3, RidOfSlot
  <2>2. ASSUME r \in Rids(file')
        PROVE  r \in Rids(file) \cup {rid}
    <3>1. r = <<r[1], r[2]>>
      BY <2>2, RidOfSlot
    <3> QED BY <2>1, <2>2, <3>1, <1>2
  <2>3. ASSUME r \in Rids(file)
        PROVE  r \in Rids(file')
    <3>1. r = <<r[1], r[2]>>
      BY <2>3, RidOfSlot
    <3> QED BY <2>1, <2>3, <3>1
  <2>4. rid \in Rids(file')
    BY <2>1, <1>2
  <2> QED BY <2>2, <2>3, <2>4
<1>5. \A r \in Rids(file) : r[1] \in DOMAIN file /\ r[2] \in DOMAIN SlotsAt(file, r[1])
  BY DEF Rids, SlotsAt
<1>6. \A r \in Rids(file) : Log!Before(r, rid)
  <2> TAKE r \in Rids(file)
  <2>1. r[1] \in Nat /\ r[1] <= p
    BY <1>5
  <2>2. CASE r[1] = p
    BY <1>1, <1>2, <1>5, <2>2 DEF Log!Before
  <2>3. CASE r[1] # p
    BY <1>2, <2>1, <2>3 DEF Log!Before
  <2> QED BY <2>2, <2>3
<1>7. \A r \in Rids(file') : LogOf(file')[r] = IF r = rid THEN row ELSE LogOf(file)[r]
  <2> TAKE r \in Rids(file')
  <2>1. /\ r = <<r[1], r[2]>> /\ r[2] \in DOMAIN SlotsAt(file', r[1])
        /\ LogOf(file')[r] = SlotsAt(file', r[1])[r[2]]
    <3>1. r = <<r[1], r[2]>>
      BY RidOfSlot
    <3>2. r[2] \in DOMAIN SlotsAt(file', r[1])
      BY <3>1, RidOfSlot
    <3>3. LogOf(file')[<<r[1], r[2]>>] = SlotsAt(file', r[1])[r[2]]
      BY <3>2, RidOfSlot
    <3> QED BY <3>1, <3>2, <3>3
  <2>2. CASE r = rid
    BY <1>1, <1>2, <2>1, <2>2
  <2>3. CASE r # rid
    <3>1. r \in Rids(file) /\ r[2] \in DOMAIN SlotsAt(file, r[1])
      BY <1>4, <1>5, <2>3
    <3>2. LogOf(file)[<<r[1], r[2]>>] = SlotsAt(file, r[1])[r[2]]
      BY <3>1, RidOfSlot
    <3>3. SlotsAt(file', r[1])[r[2]] = SlotsAt(file, r[1])[r[2]]
      BY <1>1, <3>1
    <3> QED BY <2>1, <2>3, <3>2, <3>3
  <2> QED BY <2>2, <2>3
<1>8. LogOf(file') = [r \in Rids(file') |-> LogOf(file')[r]]
  BY DEF LogOf
<1>9. Rids(file') = Rids(file) \cup {rid}
  BY <1>4
<1> QED BY <1>4, <1>6, <1>7, <1>8, <1>9 DEF rid

\* A slot overwritten is a slot of the log overwritten.
LEMMA ChangeSlot ==
  ASSUME NEW f, NEW g, NEW p, NEW s \in DOMAIN SlotsAt(f, p), NEW row,
         SlotsAt(g, p) = [SlotsAt(f, p) EXCEPT ![s] = row],
         \A q : q # p => SlotsAt(g, q) = SlotsAt(f, q)
  PROVE  /\ <<p, s>> \in Rids(f) /\ LogOf(f)[<<p, s>>] = SlotsAt(f, p)[s]
         /\ LogOf(g) = [LogOf(f) EXCEPT ![<<p, s>>] = row]
<1>1. <<p, s>> \in Rids(f) /\ LogOf(f)[<<p, s>>] = SlotsAt(f, p)[s]
  BY RidOfSlot
<1>2. \A q : DOMAIN SlotsAt(g, q) = DOMAIN SlotsAt(f, q)
  OBVIOUS
<1>3. Rids(g) = Rids(f)
  <2>1. \A q, t : <<q, t>> \in Rids(g) <=> <<q, t>> \in Rids(f)
    BY <1>2, RidOfSlot
  <2>2. \A r \in Rids(f) \cup Rids(g) : r = <<r[1], r[2]>>
    BY RidOfSlot
  <2> QED BY <2>1, <2>2
<1>4. \A r \in Rids(f) : LogOf(g)[r] = IF r = <<p, s>> THEN row ELSE LogOf(f)[r]
  <2> TAKE r \in Rids(f)
  <2>1. r = <<r[1], r[2]>>
    BY RidOfSlot
  <2>2. r[2] \in DOMAIN SlotsAt(f, r[1]) /\ r[2] \in DOMAIN SlotsAt(g, r[1])
    BY <1>2, <2>1, RidOfSlot
  <2>3. /\ LogOf(f)[<<r[1], r[2]>>] = SlotsAt(f, r[1])[r[2]]
        /\ LogOf(g)[<<r[1], r[2]>>] = SlotsAt(g, r[1])[r[2]]
    BY <2>2, RidOfSlot
  <2>4. LogOf(f)[r] = SlotsAt(f, r[1])[r[2]] /\ LogOf(g)[r] = SlotsAt(g, r[1])[r[2]]
    BY <2>1, <2>3
  <2>5. CASE r = <<p, s>>
    BY <2>4, <2>5
  <2>6. CASE r # <<p, s>>
    <3>1. r[1] # p \/ r[2] # s
      BY <2>1, <2>6
    <3> QED BY <2>2, <2>4, <2>6, <3>1
  <2> QED BY <2>5, <2>6
<1>5. /\ DOMAIN LogOf(f) = Rids(f)
      /\ LogOf(g) = [r \in Rids(f) |-> LogOf(g)[r]]
  BY <1>3 DEF LogOf
<1> HIDE DEF LogOf
<1> QED BY <1>1, <1>4, <1>5

\* What the mapped state is, now and after a step.
LEMMA MappedLog == Stored = LogOf(file) /\ Stored' = LogOf(file') /\ DOMAIN Stored = Rids(file)
                     /\ DOMAIN Stored' = Rids(file')
BY DEF Stored, LogOf, Rids

\* Storage::write, with its row on page p, adds a slot to the log.
LEMMA WriteAddsSlot ==
  ASSUME Sound, NEW p \in Nat \ {0}, NEW page \in Page, NEW row \in Rows,
         Clean(AddRow(page, row)) \in Page,
         Clean(AddRow(page, row)).slots = Append(page.slots, Prefix[row]),
         file' = Written(p, AddRow(page, row)),
         page.slots = SlotsAt(file, p), \A q \in DOMAIN file : q <= p
  PROVE  \E rid \in DOMAIN Stored' : Log!Add(rid, Prefix[row])
<1> DEFINE added == AddRow(page, row)
           rid == NextRid(file, p)
           S == Rows \cup {Deleted}
<1>0. PICK kept \in Rows : kept = Prefix[row]
  BY NeededBytes
<1>1. /\ file \in Seq(Page) /\ SlotsAt(file, p) \in Seq(S) /\ kept \in S
      /\ \A q \in DOMAIN file : q \in Nat /\ q <= p /\ file[q].slots \in Seq(S)
  <2>1. file \in Seq(Page) /\ page.slots \in Seq(S) /\ kept \in S
    BY DEF Sound, FileSound, Page
  <2>2. \A q \in DOMAIN file : q \in Nat /\ file[q] \in Page
    BY <2>1
  <2>3. \A q \in DOMAIN file : file[q].slots \in Seq(S)
    BY <2>2 DEF Page
  <2> QED BY <2>1, <2>2, <2>3
<1>2. /\ SlotsAt(file', p) = Append(SlotsAt(file, p), kept)
      /\ \A q : q # p => SlotsAt(file', q) = SlotsAt(file, q)
  <2> HIDE DEF added
  <2>1. Clean(added) \in Page /\ file' = Written(p, added)
        /\ Clean(added).slots = Append(SlotsAt(file, p), kept)
    BY <1>0 DEF added
  <2> QED BY <1>1, <2>1, WrittenSlots
<1>3. /\ rid \in Rids(file')
      /\ \A r \in Rids(file) : Log!Before(r, rid)
      /\ LogOf(file') = [r \in Rids(file) \cup {rid} |-> IF r = rid THEN kept ELSE LogOf(file)[r]]
  BY <1>1, <1>2, AddSlot
<1> HIDE DEF rid
<1>4. rid \in DOMAIN Stored' /\ Log!Add(rid, kept)
  BY <1>3, MappedLog DEF Log!Add
<1> QED BY <1>0, <1>4

\* Every step of Storage is a step of the log, or changes none of its slots.
LEMMA StepOfLog ==
  ASSUME Sound, [Next]_vars
  PROVE  [Log!Next]_Stored
<1>1. ASSUME NEW row \in Rows, WriteHere(row)
      PROVE  Log!Next
  <2>1. /\ TargetPage \in Page /\ Used(TargetPage) <= TargetPage.free
        /\ CanWrite /\ HasRoom(TargetPage, row) /\ file' = Written(Target, AddRow(TargetPage, row))
    BY <1>1, TargetIsReal DEF WriteHere
  <2>2. TargetPage.slots = SlotsAt(file, Target) /\ Target \in Nat \ {0}
        /\ \A q \in DOMAIN file : q <= Target
    <3>1. file \in Seq(Page) /\ Len(file) \in Nat /\ DOMAIN file = 1 .. Len(file)
      BY DEF Sound, FileSound
    <3>2. CASE file = << >>
      BY <3>1, <3>2, TargetIsReal, SparePages DEF SlotsAt
    <3>3. CASE file # << >>
      BY <3>1, <3>3, TargetIsReal DEF SlotsAt
    <3> QED BY <3>2, <3>3
  <2>3. /\ Clean(AddRow(TargetPage, row)) \in Page
        /\ Clean(AddRow(TargetPage, row)).slots = Append(TargetPage.slots, Prefix[row])
    BY <2>1, RowAdded
  <2>4. \E rid \in DOMAIN Stored' : Log!Add(rid, Prefix[row])
    BY <2>1, <2>2, <2>3, WriteAddsSlot
  <2> QED BY <2>4, NeededBytes DEF Log!Next
<1>2. ASSUME NEW row \in Rows, WriteNext(row)
      PROVE  Log!Next
  <2>1. CanWrite /\ HasRoom(Blank, row) /\ file' = Written(NextAfter, AddRow(Blank, row))
        /\ Blank \in Page /\ Used(Blank) <= Blank.free /\ Blank.slots = << >>
    BY <1>2, SparePages DEF WriteNext
  <2>2. /\ NextAfter \in Nat \ {0} /\ NextAfter \notin DOMAIN file
        /\ \A q \in DOMAIN file : q <= NextAfter
    BY <2>1, NumbersInBounds, TargetIsReal
  <2>3. Blank.slots = SlotsAt(file, NextAfter)
    BY <2>1, <2>2 DEF SlotsAt
  <2>4. /\ Clean(AddRow(Blank, row)) \in Page
        /\ Clean(AddRow(Blank, row)).slots = Append(Blank.slots, Prefix[row])
    BY <2>1, RowAdded
  <2>5. \E rid \in DOMAIN Stored' : Log!Add(rid, Prefix[row])
    BY <2>1, <2>2, <2>3, <2>4, WriteAddsSlot
  <2> QED BY <2>5, NeededBytes DEF Log!Next
<1>3. ASSUME NEW p \in 1 .. get_page_count, NEW s \in DOMAIN Fetched(p).slots, Remove(p, s)
      PROVE  Log!Next
  <2> DEFINE page == [Fetched(p) EXCEPT !.slots[s] = Deleted]
  <2>1. /\ file \in Seq(Page) /\ p \in DOMAIN file /\ p \in Nat \ {0}
        /\ Fetched(p) \in Page /\ Fetched(p).slots = file[p].slots
        /\ SlotsAt(file, p) = file[p].slots
    BY FetchedPage DEF Sound, FileSound, get_page_count, SlotsAt
  <2>2. page \in Page /\ page.slots = [file[p].slots EXCEPT ![s] = Deleted]
    BY <2>1, SlotDeleted
  <2>3. Fetched(p).slots[s] # Deleted /\ file' = Written(p, page)
    BY <1>3 DEF Remove
  <2> HIDE DEF page
  <2>4. Clean(page) \in Page /\ Clean(page).slots = page.slots
    BY <2>2, CleanPage
  <2>5. /\ SlotsAt(file', p) = [SlotsAt(file, p) EXCEPT ![s] = Deleted]
        /\ \A q : q # p => SlotsAt(file', q) = SlotsAt(file, q)
    BY <2>1, <2>2, <2>3, <2>4, WrittenSlots
  <2>6. s \in DOMAIN SlotsAt(file, p)
    BY <2>1
  <2>7. /\ <<p, s>> \in Rids(file) /\ LogOf(file)[<<p, s>>] = SlotsAt(file, p)[s]
        /\ LogOf(file') = [LogOf(file) EXCEPT ![<<p, s>>] = Deleted]
    BY <2>5, <2>6, ChangeSlot
  <2>8. <<p, s>> \in DOMAIN Stored /\ Log!Delete(<<p, s>>)
    BY <2>1, <2>3, <2>7, MappedLog DEF Log!Delete
  <2> QED BY <2>8 DEF Log!Next
<1>4. ASSUME NEW p \in DOMAIN cache, flush_page(p)
      PROVE  UNCHANGED Stored
  <2>1. /\ file \in Seq(Page) /\ p \in Nat \ {0} /\ cache[p].dirty /\ file' = Written(p, cache[p])
        /\ \A q \in DOMAIN file : ~file[q].dirty
    <3>1. p \in Nat \ {0}
      BY PageAssumption DEF Sound, CacheSound
    <3> QED BY <3>1, <1>4 DEF Sound, FileSound, flush_page
  <2>2. cache[p] = Blank /\ SlotsAt(file, p) = << >>
    BY <2>1, SparePages DEF Sound, CacheSound, SlotsAt
  <2>3. Clean(cache[p]) \in Page /\ Clean(cache[p]).slots = << >>
    BY <2>2, SparePages, CleanPage
  <2>4. \A q : SlotsAt(file', q) = SlotsAt(file, q)
    BY <2>1, <2>2, <2>3, WrittenSlots
  <2> QED BY <2>4, SameSlots, MappedLog
<1>5. ASSUME UNCHANGED file
      PROVE  UNCHANGED Stored
  BY <1>5 DEF Stored
<1>6. CASE \E row \in Rows : \/ WriteHere(row) \/ WriteNext(row)
                             \/ WriteRefused(row) \/ WriteWild(row)
  BY <1>1, <1>2, <1>5, <1>6 DEF WriteRefused, WriteWild
<1>7. CASE \E p \in 1 .. get_page_count : \/ Read(p)
                                          \/ \E s \in DOMAIN Fetched(p).slots : Remove(p, s)
  BY <1>3, <1>5, <1>7 DEF Read
<1>8. CASE Scan \/ Exit \/ ExitDone \/ Crash \/ Open \/ UNCHANGED vars
  BY <1>5, <1>8 DEF Scan, Exit, ExitDone, Crash, Open, vars
<1>9. CASE \E p \in DOMAIN cache : flush_page(p)
  BY <1>4, <1>9
<1> QED BY <1>6, <1>7, <1>8, <1>9 DEF Next

\* The file implements the log of slots: RowIds only grow, a slot changes
\* only by being deleted, and neither caching nor the end of a process, clean
\* or not, changes any (Storage, Pager, DiskManager and Page together).
THEOREM FileIsALog == Spec => ImplementsLog
<1>1. Init => Log!Init
  <2> SUFFICES ASSUME Init PROVE Stored = << >>
    BY DEF Log!Init
  <2>1. DOMAIN file = {}
    BY DEF Init
  <2>2. Rids(file) = {}
    BY <2>1 DEF Rids
  <2>3. LogOf(file) = << >>
    BY <2>2 DEF LogOf
  <2> QED BY <2>3, MappedLog
<1>2. Sound /\ [Next]_vars => [Log!Next]_Stored
  BY StepOfLog
<1> QED BY <1>1, <1>2, SoundAlways, PTL DEF Spec, ImplementsLog, Log!Spec

=============================================================================
