----------------------------- MODULE DdlProofs -----------------------------
(***************************************************************************)
(* Proofs about Ddl, for every set of databases, tables and INDEXED        *)
(* columns, and for any number of throwing calls and deaths of the         *)
(* process.                                                                *)
(***************************************************************************)
EXTENDS Ddl, TLAPS

-----------------------------------------------------------------------------
(* Lemmas about the operators of the model *)

\* A changed function has the new value at its place, the old ones elsewhere.
LEMMA PutFacts ==
  ASSUME NEW f, NEW x, NEW v
  PROVE  /\ DOMAIN Put(f, x, v) = DOMAIN f \cup {x}
         /\ Put(f, x, v)[x] = v
         /\ \A y \in DOMAIN f : y # x => Put(f, x, v)[y] = f[y]
BY DEF Put

\* A restricted function has its old values.
LEMMA DropFacts ==
  ASSUME NEW f, NEW S
  PROVE  /\ DOMAIN Drop(f, S) = DOMAIN f \ S
         /\ \A y \in DOMAIN f \ S : Drop(f, S)[y] = f[y]
BY DEF Drop, Restrict

\* What it is to be a catalog.
LEMMA CatalogFacts ==
  ASSUME NEW c \in Catalogs
  PROVE  /\ c = [dbs |-> c.dbs, tables |-> c.tables]
         /\ c.dbs \subseteq Dbs /\ DOMAIN c.tables \subseteq Names
         /\ c.tables \in [DOMAIN c.tables -> SUBSET Cols]
         /\ \A n \in DOMAIN c.tables : n[1] \in c.dbs
<1>1. c \in [dbs : SUBSET Dbs, tables : UNION {[S -> SUBSET Cols] : S \in SUBSET Names}]
  BY DEF Catalogs
<1>2. PICK S \in SUBSET Names : c.tables \in [S -> SUBSET Cols]
  BY <1>1
<1>3. DOMAIN c.tables = S
  BY <1>2
<1> QED BY <1>1, <1>2, <1>3 DEF Catalogs

\* A record with tables in its databases is a catalog.
LEMMA CatalogMade ==
  ASSUME NEW dbs \in SUBSET Dbs, NEW S \in SUBSET Names, NEW tables \in [S -> SUBSET Cols],
         \A n \in S : n[1] \in dbs
  PROVE  [dbs |-> dbs, tables |-> tables] \in Catalogs
<1> DEFINE c == [dbs |-> dbs, tables |-> tables]
<1>1. tables \in UNION {[T -> SUBSET Cols] : T \in SUBSET Names} /\ DOMAIN tables = S
  OBVIOUS
<1>2. c.dbs = dbs /\ c.tables = tables
  OBVIOUS
<1>3. c \in [dbs : SUBSET Dbs, tables : UNION {[T -> SUBSET Cols] : T \in SUBSET Names}]
  BY <1>1
<1> HIDE DEF c
<1>4. c \in Catalogs
  BY <1>1, <1>2, <1>3 DEF Catalogs
<1> QED BY <1>4 DEF c

\* What each operation of the Catalog makes of it.
LEMMA NewDatabase ==
  ASSUME catalog \in Catalogs, NEW d \in Dbs
  PROVE  /\ WithDb(d) \in Catalogs
         /\ WithDb(d).dbs = catalog.dbs \cup {d} /\ WithDb(d).tables = catalog.tables
<1>1. /\ catalog = [dbs |-> catalog.dbs, tables |-> catalog.tables]
      /\ catalog.dbs \subseteq Dbs /\ DOMAIN catalog.tables \subseteq Names
      /\ catalog.tables \in [DOMAIN catalog.tables -> SUBSET Cols]
      /\ \A n \in DOMAIN catalog.tables : n[1] \in catalog.dbs
  BY CatalogFacts
<1>2. WithDb(d) = [dbs |-> catalog.dbs \cup {d}, tables |-> catalog.tables]
  <2>1. catalog = [dbs |-> catalog.dbs, tables |-> catalog.tables]
    BY <1>1
  <2>2. WithDb(d) = [catalog EXCEPT !.dbs = catalog.dbs \cup {d}]
    BY DEF WithDb
  <2> QED BY <2>1, <2>2
<1>3. [dbs |-> catalog.dbs \cup {d}, tables |-> catalog.tables] \in Catalogs
  BY <1>1, CatalogMade
<1> QED BY <1>2, <1>3

\* Dropping a database drops its tables.
LEMMA NoDatabase ==
  ASSUME catalog \in Catalogs, NEW d \in Dbs
  PROVE  /\ WithoutDb(d) \in Catalogs
         /\ DOMAIN WithoutDb(d).tables = DOMAIN catalog.tables \ TablesOf(d)
         /\ \A n \in DOMAIN catalog.tables \ TablesOf(d) :
              WithoutDb(d).tables[n] = catalog.tables[n]
<1> DEFINE S == DOMAIN catalog.tables \ TablesOf(d)
           tables == Drop(catalog.tables, TablesOf(d))
<1>1. /\ catalog.dbs \subseteq Dbs /\ DOMAIN catalog.tables \subseteq Names
      /\ catalog.tables \in [DOMAIN catalog.tables -> SUBSET Cols]
      /\ \A n \in DOMAIN catalog.tables : n[1] \in catalog.dbs
  BY CatalogFacts
<1>2. tables \in [S -> SUBSET Cols] /\ \A n \in S : tables[n] = catalog.tables[n]
  BY <1>1 DEF Drop, Restrict
<1>3. \A n \in S : n[1] \in catalog.dbs \ {d}
  BY <1>1 DEF TablesOf
<1>4. WithoutDb(d) = [dbs |-> catalog.dbs \ {d}, tables |-> tables]
  BY DEF WithoutDb
<1>5. S \subseteq Names /\ catalog.dbs \ {d} \subseteq Dbs /\ DOMAIN tables = S
  BY <1>1, <1>2
<1> HIDE DEF S, tables
<1>6. [dbs |-> catalog.dbs \ {d}, tables |-> tables] \in Catalogs
  BY <1>2, <1>3, <1>5, CatalogMade
<1> QED BY <1>2, <1>4, <1>5, <1>6 DEF S

\* A new table is entered beside the others.
LEMMA NewTable ==
  ASSUME catalog \in Catalogs, NEW n \in Names, n[1] \in catalog.dbs, NEW cols \in SUBSET Cols
  PROVE  /\ WithTable(n, cols) \in Catalogs
         /\ DOMAIN WithTable(n, cols).tables = DOMAIN catalog.tables \cup {n}
         /\ \A m \in DOMAIN catalog.tables :
              m # n => WithTable(n, cols).tables[m] = catalog.tables[m]
<1> DEFINE S == DOMAIN catalog.tables \cup {n}
           tables == Put(catalog.tables, n, cols)
<1>1. /\ catalog = [dbs |-> catalog.dbs, tables |-> catalog.tables]
      /\ catalog.dbs \subseteq Dbs /\ DOMAIN catalog.tables \subseteq Names
      /\ catalog.tables \in [DOMAIN catalog.tables -> SUBSET Cols]
      /\ \A m \in DOMAIN catalog.tables : m[1] \in catalog.dbs
  BY CatalogFacts
<1>2. /\ tables \in [S -> SUBSET Cols]
      /\ \A m \in DOMAIN catalog.tables : m # n => tables[m] = catalog.tables[m]
  BY <1>1 DEF Put
<1>3. WithTable(n, cols) = [dbs |-> catalog.dbs, tables |-> tables]
  BY <1>1 DEF WithTable
<1>4. S \subseteq Names /\ DOMAIN tables = S /\ \A m \in S : m[1] \in catalog.dbs
  BY <1>1, <1>2
<1> HIDE DEF S, tables
<1>5. [dbs |-> catalog.dbs, tables |-> tables] \in Catalogs
  BY <1>1, <1>2, <1>4, CatalogMade
<1> QED BY <1>2, <1>3, <1>4, <1>5 DEF S

\* Dropping a table leaves the others.
LEMMA NoTable ==
  ASSUME catalog \in Catalogs, NEW n
  PROVE  /\ WithoutTable(n) \in Catalogs
         /\ DOMAIN WithoutTable(n).tables = DOMAIN catalog.tables \ {n}
         /\ \A m \in DOMAIN catalog.tables :
              m # n => WithoutTable(n).tables[m] = catalog.tables[m]
<1> DEFINE S == DOMAIN catalog.tables \ {n}
           tables == Drop(catalog.tables, {n})
<1>1. /\ catalog = [dbs |-> catalog.dbs, tables |-> catalog.tables]
      /\ catalog.dbs \subseteq Dbs /\ DOMAIN catalog.tables \subseteq Names
      /\ catalog.tables \in [DOMAIN catalog.tables -> SUBSET Cols]
      /\ \A m \in DOMAIN catalog.tables : m[1] \in catalog.dbs
  BY CatalogFacts
<1>2. /\ tables \in [S -> SUBSET Cols]
      /\ \A m \in S : tables[m] = catalog.tables[m]
  BY <1>1 DEF Drop, Restrict
<1>3. WithoutTable(n) = [dbs |-> catalog.dbs, tables |-> tables]
  BY <1>1 DEF WithoutTable
<1>4. S \subseteq Names /\ DOMAIN tables = S /\ \A m \in S : m[1] \in catalog.dbs
  BY <1>1, <1>2
<1> HIDE DEF S, tables
<1>5. [dbs |-> catalog.dbs, tables |-> tables] \in Catalogs
  BY <1>1, <1>2, <1>4, CatalogMade
<1> QED BY <1>2, <1>3, <1>4, <1>5 DEF S

\* A restart knows the databases of the tables in catalog.json.
LEMMA LoadedCatalog ==
  ASSUME saved \in Catalogs
  PROVE  [dbs |-> {n[1] : n \in DOMAIN saved.tables}, tables |-> saved.tables] \in Catalogs
<1>1. /\ saved.dbs \subseteq Dbs /\ DOMAIN saved.tables \subseteq Names
      /\ saved.tables \in [DOMAIN saved.tables -> SUBSET Cols]
      /\ \A n \in DOMAIN saved.tables : n[1] \in saved.dbs
  BY CatalogFacts
<1>2. {n[1] : n \in DOMAIN saved.tables} \in SUBSET Dbs
  BY <1>1
<1> QED BY <1>1, <1>2, CatalogMade

\* The indexes of a table are named by it and by its INDEXED columns.
LEMMA IndexNames ==
  /\ \A n, cols, x : x \in IndexesOf(n, cols) <=> \E c \in cols : x = <<n, c>>
  /\ \A n \in Names, cols \in SUBSET Cols : IndexesOf(n, cols) \subseteq Names \X Cols
  /\ \A n, m, cols, others, x : x \in IndexesOf(n, cols) /\ x \in IndexesOf(m, others) => n = m
BY DEF IndexesOf, makeKey

\* Opening an index finds in it what it would have been found to hold.
LEMMA OpenIndexes ==
  ASSUME IndexesSound, NEW S \in SUBSET (Names \X Cols), Unreadable(S) = {},
         open' = Opened(S), UNCHANGED idxFiles
  PROVE  /\ IndexesSound'
         /\ DOMAIN open' = DOMAIN open \cup S
         /\ \A x : KeysOf(x)' = KeysOf(x)
<1>1. /\ DOMAIN open' = DOMAIN open \cup S
      /\ \A x \in DOMAIN open : open'[x] = open[x]
      /\ \A x \in S : x \notin DOMAIN open => open'[x] = Load(x)
  BY DEF Opened
<1>2. \A x \in S : x \notin DOMAIN open =>
        /\ open'[x].keys \subseteq Keys /\ open'[x].dirty \in BOOLEAN
        /\ ~open'[x].dirty => x \in DOMAIN idxFiles /\ idxFiles[x] = open'[x].keys
        /\ open'[x].keys = KeysOf(x)
  <2> SUFFICES ASSUME NEW x \in S, x \notin DOMAIN open
               PROVE  /\ open'[x].keys \subseteq Keys /\ open'[x].dirty \in BOOLEAN
                      /\ ~open'[x].dirty => x \in DOMAIN idxFiles /\ idxFiles[x] = open'[x].keys
                      /\ open'[x].keys = KeysOf(x)
    OBVIOUS
  <2>1. open'[x] = Load(x)
    BY <1>1
  <2>2. CASE x \in DOMAIN idxFiles
    <3>1. idxFiles[x] # Corrupt
      BY <2>2 DEF Unreadable
    <3>2. idxFiles[x] \subseteq Keys
      BY <2>2, <3>1 DEF IndexesSound
    <3> QED BY <2>1, <2>2, <3>2 DEF Load, KeysOf
  <2>3. CASE x \notin DOMAIN idxFiles
    BY <2>1, <2>3 DEF Load, KeysOf
  <2> QED BY <2>2, <2>3
<1>3. IndexesSound'
  BY <1>1, <1>2 DEF IndexesSound
<1>4. \A x : KeysOf(x)' = KeysOf(x)
  BY <1>1, <1>2 DEF KeysOf
<1> QED BY <1>1, <1>3, <1>4

\* Closing an index, which writes its file if it is dirty, loses nothing but
\* where the flush has failed or the process has died before it.
LEMMA CloseIndexes ==
  ASSUME IndexesSound, NEW S, NEW X \in SUBSET (S \cap Dirty), CloseStores(S, X),
         DOMAIN open' \subseteq DOMAIN open, \A x \in DOMAIN open' : open'[x] = open[x]
  PROVE  /\ IndexesSound'
         /\ \A x : x \notin X /\ (x \in Dirty \ S => x \in DOMAIN open') => KeysOf(x)' = KeysOf(x)
<1>1. /\ \A x : x \in Dirty <=> x \in DOMAIN open /\ open[x].dirty
      /\ DOMAIN open \subseteq Names \X Cols /\ DOMAIN idxFiles \subseteq Names \X Cols
      /\ \A x \in DOMAIN open :
           /\ open[x].keys \subseteq Keys /\ open[x].dirty \in BOOLEAN
           /\ ~open[x].dirty => x \in DOMAIN idxFiles /\ idxFiles[x] = open[x].keys
      /\ \A x \in DOMAIN idxFiles : idxFiles[x] = Corrupt \/ idxFiles[x] \subseteq Keys
  BY DEF Dirty, IndexesSound
<1>. PICK gone \in SUBSET X :
       \E torn \in [X \ gone -> {Corrupt} \cup SUBSET Keys] :
         idxFiles' = [x \in (DOMAIN Flushed(S) \cup X) \ gone |->
                       IF x \in X THEN torn[x] ELSE Flushed(S)[x]]
  BY DEF CloseStores
<1>2. PICK torn \in [X \ gone -> {Corrupt} \cup SUBSET Keys] :
        idxFiles' = [x \in (DOMAIN Flushed(S) \cup X) \ gone |->
                      IF x \in X THEN torn[x] ELSE Flushed(S)[x]]
  OBVIOUS
<1>3. /\ DOMAIN Flushed(S) = DOMAIN idxFiles \cup (S \cap Dirty)
      /\ \A x \in S \cap Dirty : Flushed(S)[x] = open[x].keys
      /\ \A x \in DOMAIN idxFiles : x \notin S \cap Dirty => Flushed(S)[x] = idxFiles[x]
  BY DEF Flushed
<1>4. /\ DOMAIN idxFiles' = (DOMAIN idxFiles \cup (S \cap Dirty)) \ gone
      /\ \A x \in X \ gone : idxFiles'[x] = Corrupt \/ idxFiles'[x] \subseteq Keys
      /\ \A x \in (S \cap Dirty) \ X : idxFiles'[x] = open[x].keys
      /\ \A x \in DOMAIN idxFiles : x \notin S \cap Dirty => idxFiles'[x] = idxFiles[x]
  <2>1. DOMAIN idxFiles' = (DOMAIN idxFiles \cup (S \cap Dirty)) \ gone
    BY <1>2, <1>3
  <2>2. \A x \in X \ gone : idxFiles'[x] = torn[x] /\ torn[x] \in {Corrupt} \cup SUBSET Keys
    BY <1>2, <2>1
  <2>3. \A x \in DOMAIN idxFiles' : x \notin X => idxFiles'[x] = Flushed(S)[x]
    BY <1>2, <2>1
  <2> QED BY <1>2, <1>3, <2>1, <2>2, <2>3
<1>5. IndexesSound'
  <2>1. \A x \in DOMAIN idxFiles' : idxFiles'[x] = Corrupt \/ idxFiles'[x] \subseteq Keys
    BY <1>1, <1>4
  <2>2. ASSUME NEW x \in DOMAIN open', ~open'[x].dirty
        PROVE  x \in DOMAIN idxFiles' /\ idxFiles'[x] = open'[x].keys
    BY <1>1, <1>4, <2>2
  <2>3. DOMAIN idxFiles' \subseteq Names \X Cols
    BY <1>1, <1>4
  <2> QED BY <1>1, <2>1, <2>2, <2>3 DEF IndexesSound
<1>6. ASSUME NEW x, x \notin X, x \in Dirty \ S => x \in DOMAIN open'
      PROVE  KeysOf(x)' = KeysOf(x)
  <2>1. CASE x \in DOMAIN open'
    BY <2>1 DEF KeysOf
  <2>2. CASE x \notin DOMAIN open' /\ x \in S \cap Dirty
    BY <1>1, <1>4, <1>6, <2>2 DEF KeysOf
  <2>3. CASE x \notin DOMAIN open' /\ x \notin S \cap Dirty
    <3>1. x \notin Dirty
      BY <1>6, <2>3
    <3>2. x \in DOMAIN idxFiles' <=> x \in DOMAIN idxFiles
      BY <1>2, <1>4, <2>3
    <3>3. x \in DOMAIN idxFiles => idxFiles'[x] = idxFiles[x]
      BY <1>4, <2>3
    <3>4. x \in DOMAIN open => x \in DOMAIN idxFiles /\ idxFiles[x] = open[x].keys
      BY <1>1, <3>1
    <3> QED BY <2>3, <3>2, <3>3, <3>4 DEF KeysOf
  <2> QED BY <2>1, <2>2, <2>3
<1> QED BY <1>5, <1>6

-----------------------------------------------------------------------------
(* The invariant *)

\* The part of the invariant about the indexes of settled tables is kept by
\* a step that settles none, changes no rows and no keys of an index, and
\* closes none of a database in use.
LEMMA IndexFrame ==
  ASSUME KeysSound, UseSound, UNCHANGED rows, Settled' \subseteq Settled,
         \A n \in Settled' : catalog'.tables[n] = catalog.tables[n],
         \A x : x \notin tainted' => x \notin tainted /\ KeysOf(x)' = KeysOf(x),
         \A n \in Settled' \ Closing' : n[1] \in used' =>
           /\ n \notin Closing /\ n[1] \in used
           /\ IndexesOf(n, catalog.tables[n]) \cap DOMAIN open \subseteq DOMAIN open'
  PROVE  KeysSound' /\ UseSound'
<1>1. KeysSound'
  <2> SUFFICES ASSUME NEW n \in Settled',
                      NEW x \in IndexesOf(n, catalog'.tables[n]), x \notin tainted'
               PROVE  KeysOf(x)' = rows'[n]
    BY DEF KeysSound, IndexesOf
  <2>1. n \in Settled /\ x \in IndexesOf(n, catalog.tables[n]) \ tainted
    OBVIOUS
  <2>2. KeysOf(x) = rows[n]
    BY <2>1 DEF KeysSound
  <2> QED BY <2>2
<1>2. UseSound'
  <2> SUFFICES ASSUME NEW n \in Settled' \ Closing', n[1] \in used'
               PROVE  IndexesOf(n, catalog'.tables[n]) \subseteq DOMAIN open'
    BY DEF UseSound, IndexesOf
  <2>1. n \in Settled \ Closing /\ n[1] \in used
    OBVIOUS
  <2>2. IndexesOf(n, catalog.tables[n]) \subseteq DOMAIN open
    BY <2>1 DEF UseSound
  <2>3. catalog'.tables[n] = catalog.tables[n]
    OBVIOUS
  <2> QED BY <2>2, <2>3
<1> QED BY <1>1, <1>2

\* So is that about their rows by one that leaves their files alone, and
\* fetches no page.
LEMMA RowsFrame ==
  ASSUME RowsSound, UNCHANGED rows, Settled' \subseteq Settled,
         \A n \in Settled' :
           /\ n \in DOMAIN files' /\ files'[n] = files[n]
           /\ n \in DOMAIN pagers' => n \in DOMAIN pagers /\ pagers'[n] = pagers[n]
  PROVE  RowsSound'
BY DEF RowsSound

\* What the running statement has in hand.
LEMMA UnfinishedFacts ==
  /\ pc \in {"idle", "mkdir", "dropEntry"} => Unfinished = {}
  /\ pc \in {"mktable", "rmfile"} => Unfinished = {arg}
  /\ pc = "rmdir" => Unfinished = TablesOf(arg)
  /\ pc' \in {"idle", "mkdir", "dropEntry"} => Unfinished' = {}
  /\ pc' \in {"mktable", "rmfile"} => Unfinished' = {arg'}
  /\ pc' = "rmdir" => Unfinished' = TablesOf(arg')
BY DEF Unfinished

\* Settled tables are in the catalog, and certain.
LEMMA SettledFacts ==
  /\ \A n : n \in Settled <=> /\ n \in DOMAIN catalog.tables /\ n \notin limbo
                              /\ pc = "mktable" => n # arg
  /\ \A n : n \in Settled' <=> /\ n \in DOMAIN catalog'.tables /\ n \notin limbo'
                               /\ pc' = "mktable" => n # arg'
BY DEF Settled, Certain

\* Steps of a statement that change the catalog, in memory or saved, and no
\* file, index or reply.
LEMMA CatalogFrame ==
  ASSUME Sound, UNCHANGED <<stored, indexes>>, UNCHANGED <<rows, tainted, used>>,
         catalog' \in Catalogs, saved' \in Catalogs, StatementSound', RepliesSound',
         Settled' \subseteq Settled, \A n \in Settled' : catalog'.tables[n] = catalog.tables[n],
         \A n \in Settled' : n \in Closing => n \in Closing'
  PROVE  Sound'
<1>1. NamesSound' /\ StoredSound' /\ IndexesSound'
  BY DEF Sound, NamesSound, StoredSound, IndexesSound, stored, indexes
<1>2. \A x : KeysOf(x)' = KeysOf(x)
  BY DEF KeysOf, indexes
<1>3. \A n \in Settled : n \in DOMAIN files
  BY DEF Sound, RowsSound
<1>4. UNCHANGED <<files, pagers, open>>
  BY DEF stored, indexes
<1>5. RowsSound' /\ KeysSound' /\ UseSound'
  BY <1>2, <1>3, <1>4, RowsFrame, IndexFrame DEF Sound
<1> QED BY <1>1, <1>5 DEF Sound

\* CREATE DATABASE enters the database.
LEMMA CreateDatabaseSound ==
  ASSUME Sound, NEW d \in Dbs, CreateDatabase(d)
  PROVE  Sound'
<1>1. /\ catalog \in Catalogs /\ saved \in Catalogs /\ d \notin catalog.dbs /\ pc = "idle"
      /\ UNCHANGED <<stored, indexes>> /\ UNCHANGED <<acked, rows, limbo, tainted, used>>
      /\ catalog' = WithDb(d)
      /\ \/ saved' = WithDb(d) /\ pc' = "mkdir" /\ arg' = d
         \/ saved' = saved /\ pc' = "idle"
  BY DEF CreateDatabase, Save, SaveThrows, End, history, Sound, NamesSound
<1>2. /\ WithDb(d) \in Catalogs /\ catalog'.tables = catalog.tables
  BY <1>1, NewDatabase
<1>3. StatementSound'
  <2>1. TablesOf(d) \cap DOMAIN catalog.tables = {}
    BY <1>1, CatalogFacts DEF TablesOf
  <2> QED BY <1>1, <1>2, <2>1 DEF StatementSound
<1>4. RepliesSound'
  <2>1. Unfinished = {} /\ Unfinished' = {}
    BY <1>1, UnfinishedFacts
  <2>2. \A n \in Names \ limbo :
          /\ n \in DOMAIN saved.tables <=> n \in DOMAIN catalog.tables
          /\ n \in DOMAIN catalog.tables => saved.tables[n] = catalog.tables[n]
          /\ n \in acked <=> n \in DOMAIN catalog.tables
    BY <2>1 DEF Sound, RepliesSound
  <2> QED BY <1>1, <1>2, <2>1, <2>2 DEF RepliesSound
<1>5. Settled' \subseteq Settled
  BY <1>1, <1>2, SettledFacts
<1> QED BY <1>1, <1>2, <1>3, <1>4, <1>5, CatalogFrame DEF Closing

\* DROP DATABASE removes it, and its tables, from the catalog.
LEMMA DropDatabaseSound ==
  ASSUME Sound, NEW d \in Dbs, DropDatabase(d)
  PROVE  Sound'
<1>1. /\ catalog \in Catalogs /\ saved \in Catalogs /\ pc = "idle"
      /\ UNCHANGED <<stored, indexes>> /\ UNCHANGED <<acked, rows, tainted, used>>
      /\ catalog' = WithoutDb(d)
      /\ \/ saved' = WithoutDb(d) /\ pc' = "rmdir" /\ arg' = d /\ limbo' = limbo
         \/ saved' = saved /\ pc' = "idle" /\ limbo' = limbo \cup TablesOf(d)
  BY DEF DropDatabase, Save, SaveThrows, Doubt, End, history, Sound, NamesSound
<1>2. /\ WithoutDb(d) \in Catalogs
      /\ DOMAIN catalog'.tables = DOMAIN catalog.tables \ TablesOf(d)
      /\ \A n \in DOMAIN catalog'.tables : catalog'.tables[n] = catalog.tables[n]
  BY <1>1, NoDatabase
<1>3. StatementSound'
  BY <1>1, <1>2 DEF StatementSound
<1>4. RepliesSound'
  <2>1. /\ Unfinished = {} 
        /\ pc' = "rmdir" => Unfinished' = TablesOf(d)
        /\ pc' = "idle" => Unfinished' = {}
    BY <1>1, UnfinishedFacts
  <2>2. \A n \in Names \ limbo :
          /\ n \in DOMAIN saved.tables <=> n \in DOMAIN catalog.tables
          /\ n \in DOMAIN catalog.tables => saved.tables[n] = catalog.tables[n]
          /\ n \in acked <=> n \in DOMAIN catalog.tables
    BY <2>1 DEF Sound, RepliesSound
  <2> QED BY <1>1, <1>2, <2>1, <2>2 DEF RepliesSound
<1>5. Settled' \subseteq Settled
  BY <1>1, <1>2, SettledFacts
<1>6. \A n \in Settled' : catalog'.tables[n] = catalog.tables[n] /\ n \notin Closing
  BY <1>1, <1>2, SettledFacts DEF Closing
<1> QED BY <1>1, <1>2, <1>3, <1>4, <1>5, <1>6, CatalogFrame

\* CREATE DATABASE whose directory cannot be made takes its entry back.
LEMMA MakeDirectoryThrowsSound ==
  ASSUME Sound, MakeDirectoryThrows
  PROVE  Sound'
<1>1. /\ catalog \in Catalogs /\ saved = catalog /\ pc = "mkdir"
      /\ arg \in Dbs /\ TablesOf(arg) \cap DOMAIN catalog.tables = {}
      /\ UNCHANGED <<stored, indexes>> /\ UNCHANGED <<acked, rows, limbo, tainted, used>>
      /\ catalog' = WithoutDb(arg) /\ saved' \in {saved, catalog'} /\ pc' = "idle"
  BY DEF MakeDirectoryThrows, End, history, Sound, NamesSound, StatementSound
<1>2. /\ WithoutDb(arg) \in Catalogs
      /\ DOMAIN catalog'.tables = DOMAIN catalog.tables
      /\ \A n \in DOMAIN catalog'.tables : catalog'.tables[n] = catalog.tables[n]
  BY <1>1, NoDatabase
<1>3. StatementSound'
  BY <1>1 DEF StatementSound
<1>4. RepliesSound'
  <2>1. Unfinished = {} /\ Unfinished' = {}
    BY <1>1, UnfinishedFacts
  <2>2. \A n \in Names \ limbo : n \in acked <=> n \in DOMAIN catalog.tables
    BY <2>1 DEF Sound, RepliesSound
  <2> QED BY <1>1, <1>2, <2>1, <2>2 DEF RepliesSound
<1>5. Settled' \subseteq Settled
  BY <1>1, <1>2, SettledFacts
<1>6. \A n \in Settled' : catalog'.tables[n] = catalog.tables[n] /\ n \notin Closing
  BY <1>1, <1>2, SettledFacts DEF Closing
<1> QED BY <1>1, <1>2, <1>3, <1>4, <1>5, <1>6, CatalogFrame

\* CREATE TABLE enters the table.
LEMMA CreateTableSound ==
  ASSUME Sound, NEW n \in Names, NEW cols \in SUBSET Cols, CreateTable(n, cols)
  PROVE  Sound'
<1>1. /\ catalog \in Catalogs /\ saved \in Catalogs /\ pc = "idle"
      /\ n[1] \in catalog.dbs /\ n \notin DOMAIN catalog.tables
      /\ UNCHANGED <<stored, indexes>> /\ UNCHANGED <<acked, rows, tainted, used>>
      /\ catalog' = WithTable(n, cols)
      /\ \/ saved' = WithTable(n, cols) /\ pc' = "mktable" /\ arg' = n /\ limbo' = limbo
         \/ saved' = saved /\ pc' = "idle" /\ limbo' = limbo \cup {n}
  BY DEF CreateTable, Save, SaveThrows, Doubt, End, history, Sound, NamesSound
<1>2. /\ WithTable(n, cols) \in Catalogs
      /\ DOMAIN catalog'.tables = DOMAIN catalog.tables \cup {n}
      /\ \A m \in DOMAIN catalog.tables : m # n => catalog'.tables[m] = catalog.tables[m]
  BY <1>1, NewTable
<1>3. /\ Unfinished = {} 
      /\ pc' = "mktable" => Unfinished' = {n}
      /\ pc' = "idle" => Unfinished' = {}
  BY <1>1, UnfinishedFacts
<1>4. \A m \in Names \ limbo :
        /\ m \in DOMAIN saved.tables <=> m \in DOMAIN catalog.tables
        /\ m \in DOMAIN catalog.tables => saved.tables[m] = catalog.tables[m]
        /\ m \in acked <=> m \in DOMAIN catalog.tables
  BY <1>3 DEF Sound, RepliesSound
<1>5. StatementSound'
  BY <1>1, <1>2, <1>4 DEF StatementSound
<1>6. RepliesSound'
  BY <1>1, <1>2, <1>3, <1>4 DEF RepliesSound
<1>7. \A m \in Settled' : m # n /\ m \in Settled
  BY <1>1, <1>2, SettledFacts
<1>8. \A m \in Settled' : catalog'.tables[m] = catalog.tables[m] /\ m \notin Closing
  BY <1>1, <1>2, <1>7, SettledFacts DEF Closing
<1> QED BY <1>1, <1>2, <1>5, <1>6, <1>7, <1>8, CatalogFrame

\* DROP TABLE removes the table from the catalog.
LEMMA DropEntrySound ==
  ASSUME Sound, DropEntry
  PROVE  Sound'
<1>1. /\ catalog \in Catalogs /\ saved \in Catalogs /\ pc = "dropEntry"
      /\ arg \in DOMAIN catalog.tables /\ arg \in Names
      /\ UNCHANGED <<stored, indexes>> /\ UNCHANGED <<acked, rows, tainted, used>>
      /\ catalog' = WithoutTable(arg)
      /\ \/ saved' = WithoutTable(arg) /\ pc' = "rmfile" /\ arg' = arg /\ limbo' = limbo
         \/ saved' = saved /\ pc' = "idle" /\ limbo' = limbo \cup {arg}
  BY CatalogFacts DEF DropEntry, Save, SaveThrows, Doubt, End, history,
                      Sound, NamesSound, StatementSound
<1>2. /\ WithoutTable(arg) \in Catalogs
      /\ DOMAIN catalog'.tables = DOMAIN catalog.tables \ {arg}
      /\ \A m \in DOMAIN catalog.tables : m # arg => catalog'.tables[m] = catalog.tables[m]
  BY <1>1, NoTable
<1>3. /\ Unfinished = {}
      /\ pc' = "rmfile" => Unfinished' = {arg}
      /\ pc' = "idle" => Unfinished' = {}
  BY <1>1, UnfinishedFacts
<1>4. \A m \in Names \ limbo :
        /\ m \in DOMAIN saved.tables <=> m \in DOMAIN catalog.tables
        /\ m \in DOMAIN catalog.tables => saved.tables[m] = catalog.tables[m]
        /\ m \in acked <=> m \in DOMAIN catalog.tables
  BY <1>3 DEF Sound, RepliesSound
<1>5. StatementSound'
  BY <1>1, <1>2 DEF StatementSound
<1>6. RepliesSound'
  BY <1>1, <1>2, <1>3, <1>4 DEF RepliesSound
<1>7. \A m \in Settled' : m # arg /\ m \in Settled
  BY <1>1, <1>2, SettledFacts
<1>8. \A m \in Settled' : catalog'.tables[m] = catalog.tables[m] /\ m \notin Closing
  BY <1>1, <1>2, <1>7, SettledFacts DEF Closing
<1> QED BY <1>1, <1>2, <1>5, <1>6, <1>7, <1>8, CatalogFrame

\* The last step of a statement that takes files away: the tables it is
\* about are no longer in the catalog.
LEMMA FilesFrame ==
  ASSUME Sound, UNCHANGED <<names, indexes>>, UNCHANGED <<rows, tainted, used>>,
         pc \in {"mkdir", "rmdir", "rmfile"}, pc' = "idle", StoredSound',
         NEW S, S \cap DOMAIN catalog.tables = {}, Unfinished \subseteq S,
         \/ limbo' = limbo \cup S /\ acked' = acked
         \/ limbo' = limbo \ S /\ acked' = acked \ S,
         \A n \in DOMAIN files : n \notin S =>
           /\ n \in DOMAIN files' /\ files'[n] = files[n]
           /\ n \in DOMAIN pagers' => n \in DOMAIN pagers /\ pagers'[n] = pagers[n]
  PROVE  Sound'
<1>1. UNCHANGED <<catalog, saved, open, idxFiles>> /\ saved = catalog
  BY DEF names, indexes, Sound, StatementSound
<1>2. NamesSound' /\ IndexesSound' /\ StatementSound'
  BY <1>1 DEF Sound, NamesSound, IndexesSound, StatementSound
<1>3. RepliesSound'
  <2>1. Unfinished' = {}
    BY UnfinishedFacts
  <2>2. \A n \in Names \ limbo : n \notin S => (n \in acked <=> n \in DOMAIN catalog.tables)
    BY DEF Sound, RepliesSound
  <2> QED BY <1>1, <2>1, <2>2 DEF RepliesSound
<1>4. \A n \in Settled' : n \in Settled /\ n \notin S /\ n \in DOMAIN files
  <2>1. \A n \in Settled' : n \in Settled /\ n \notin S
    BY <1>1, SettledFacts
  <2> QED BY <2>1 DEF Sound, RowsSound
<1>5. \A x : KeysOf(x)' = KeysOf(x)
  BY <1>1 DEF KeysOf
<1>6. Closing = {}
  BY DEF Closing
<1>7. RowsSound' /\ KeysSound' /\ UseSound'
  BY <1>1, <1>4, <1>5, <1>6, RowsFrame, IndexFrame DEF Sound
<1> QED BY <1>2, <1>3, <1>7 DEF Sound

\* CREATE DATABASE makes its directory, DROP DATABASE removes it.
LEMMA DirectorySound ==
  ASSUME Sound, MakeDirectory \/ RemoveDirectory \/ RemoveDirectoryThrows
  PROVE  Sound'
<1>1. UNCHANGED <<names, indexes>> /\ UNCHANGED <<rows, tainted, used>> /\ pc' = "idle"
  BY DEF MakeDirectory, RemoveDirectory, RemoveDirectoryThrows, Doubt, End, history
<1>2. CASE MakeDirectory
  <2>1. /\ pc = "mkdir" /\ dirs' = dirs \cup {arg} /\ arg \in Dbs
        /\ UNCHANGED <<files, pagers, acked, limbo>>
    BY <1>2 DEF MakeDirectory, history, Sound, StatementSound
  <2>2. StoredSound' /\ Unfinished = {}
    BY <2>1, UnfinishedFacts DEF Sound, StoredSound
  <2>3. limbo' = limbo \cup {} /\ {} \cap DOMAIN catalog.tables = {}
    BY <2>1
  <2> QED BY <1>1, <2>1, <2>2, <2>3, FilesFrame
<1>3. CASE RemoveDirectory \/ RemoveDirectoryThrows
  <2> DEFINE S == TablesOf(arg)
  <2>1. /\ pc = "rmdir" /\ arg \in Dbs /\ S \cap DOMAIN catalog.tables = {}
        /\ pagers' = Drop(pagers, S)
        /\ \/ limbo' = limbo \cup S /\ acked' = acked
           \/ limbo' = limbo \ S /\ acked' = acked \ S
    BY <1>3 DEF RemoveDirectory, RemoveDirectoryThrows, Doubt, Sound, StatementSound
  <2>2. PICK T : /\ T \subseteq S /\ files' = Drop(files, T)
                 /\ dirs' = dirs \/ (T = S /\ dirs' = dirs \ {arg})
    BY <1>3 DEF RemoveDirectory, RemoveDirectoryThrows
  <2>3. /\ DOMAIN files' = DOMAIN files \ T /\ \A n \in DOMAIN files' : files'[n] = files[n]
        /\ DOMAIN pagers' = DOMAIN pagers \ S /\ \A n \in DOMAIN pagers' : pagers'[n] = pagers[n]
    BY <2>1, <2>2 DEF Drop, Restrict
  <2>4. \A n \in Names : n \in S <=> n[1] = arg
    BY DEF TablesOf
  <2>5. Unfinished = S
    BY <2>1, UnfinishedFacts
  <2> HIDE DEF S
  <2>6. StoredSound'
    BY <2>2, <2>3, <2>4 DEF Sound, StoredSound
  <2>7. \A n \in DOMAIN files : n \notin S =>
          /\ n \in DOMAIN files' /\ files'[n] = files[n]
          /\ n \in DOMAIN pagers' => n \in DOMAIN pagers /\ pagers'[n] = pagers[n]
    BY <2>2, <2>3
  <2> QED BY <1>1, <2>1, <2>5, <2>6, <2>7, FilesFrame
<1> QED BY <1>2, <1>3

\* DROP TABLE removes the row file.
LEMMA RemoveFileSound ==
  ASSUME Sound, RemoveFile \/ RemoveFileThrows
  PROVE  Sound'
<1>1. /\ UNCHANGED <<names, indexes>> /\ UNCHANGED <<rows, tainted, used>>
      /\ pc = "rmfile" /\ pc' = "idle" /\ arg \in Names \ DOMAIN catalog.tables
      /\ pagers' = Drop(pagers, {arg}) /\ dirs' = dirs
      /\ files' = files \/ files' = Drop(files, {arg})
      /\ \/ limbo' = limbo \cup {arg} /\ acked' = acked
         \/ limbo' = limbo \ {arg} /\ acked' = acked \ {arg}
  BY DEF RemoveFile, RemoveFileThrows, Doubt, End, Sound, StatementSound
<1>2. Unfinished = {arg}
  BY <1>1, UnfinishedFacts
<1>3. /\ DOMAIN pagers' = DOMAIN pagers \ {arg}
      /\ \A n \in DOMAIN pagers' : pagers'[n] = pagers[n]
  BY <1>1 DEF Drop, Restrict
<1>4. /\ DOMAIN files' \in {DOMAIN files, DOMAIN files \ {arg}}
      /\ \A n \in DOMAIN files' : files'[n] = files[n]
  BY <1>1 DEF Drop, Restrict
<1>5. StoredSound'
  BY <1>1, <1>3, <1>4 DEF Sound, StoredSound
<1>6. {arg} \cap DOMAIN catalog.tables = {} /\ Unfinished \subseteq {arg}
  BY <1>1, <1>2
<1>7. \A n \in DOMAIN files : n \notin {arg} =>
        /\ n \in DOMAIN files' /\ files'[n] = files[n]
        /\ n \in DOMAIN pagers' => n \in DOMAIN pagers /\ pagers'[n] = pagers[n]
  BY <1>3, <1>4
<1> QED BY <1>1, <1>5, <1>6, <1>7, FilesFrame

\* What a Pager, new or left open, reads of the file of a table, and what it
\* reads of that of a settled one.
LEMMA FetchedPages ==
  ASSUME StoredSound, NEW n \in Names
  PROVE  /\ File(n) \in Seq(SUBSET Keys)
         /\ getPager(n).next \in Nat \ {0}
         /\ \A p \in DOMAIN getPager(n).cache \cup 1 .. Len(File(n)) :
              fetch_page(n, p) \subseteq Keys
         /\ RowsSound /\ n \in Settled =>
              /\ n \in DOMAIN files /\ File(n) = files[n]
              /\ UNION {File(n)[p] : p \in 1 .. Len(File(n))} = rows[n]
              /\ DOMAIN getPager(n).cache \subseteq 1 .. Len(File(n))
              /\ \A p \in DOMAIN getPager(n).cache : getPager(n).cache[p] = File(n)[p]
              /\ \A p \in 1 .. Len(File(n)) : fetch_page(n, p) = File(n)[p]
<1>1. File(n) \in Seq(SUBSET Keys)
  <2>1. CASE n \in DOMAIN files
    BY <2>1 DEF StoredSound, File
  <2>2. CASE n \notin DOMAIN files
    BY <2>2 DEF File
  <2> QED BY <2>1, <2>2
<1>2. /\ Len(File(n)) \in Nat /\ DOMAIN File(n) = 1 .. Len(File(n))
      /\ \A p \in 1 .. Len(File(n)) : File(n)[p] \subseteq Keys
  BY <1>1
<1>3. /\ getPager(n).next \in Nat \ {0}
      /\ \A p \in DOMAIN getPager(n).cache : getPager(n).cache[p] \subseteq Keys
      /\ n \notin DOMAIN pagers => DOMAIN getPager(n).cache = {}
      /\ n \in DOMAIN pagers => getPager(n) = pagers[n]
  <2>1. CASE n \in DOMAIN pagers
    BY <2>1 DEF StoredSound, getPager
  <2>2. CASE n \notin DOMAIN pagers
    <3>1. getPager(n) = [next |-> Len(File(n)) + 1, cache |-> << >>]
      BY <2>2 DEF getPager
    <3>2. getPager(n).next = Len(File(n)) + 1 /\ getPager(n).cache = << >>
      BY <3>1
    <3>3. DOMAIN getPager(n).cache = {}
      BY <3>2
    <3> QED BY <1>2, <2>2, <3>2, <3>3
  <2> QED BY <2>1, <2>2
<1>4. \A p \in DOMAIN getPager(n).cache \cup 1 .. Len(File(n)) : fetch_page(n, p) \subseteq Keys
  BY <1>2, <1>3 DEF fetch_page
<1>5. ASSUME RowsSound, n \in Settled
      PROVE  /\ n \in DOMAIN files /\ File(n) = files[n]
             /\ UNION {File(n)[p] : p \in 1 .. Len(File(n))} = rows[n]
             /\ DOMAIN getPager(n).cache \subseteq 1 .. Len(File(n))
             /\ \A p \in DOMAIN getPager(n).cache : getPager(n).cache[p] = File(n)[p]
             /\ \A p \in 1 .. Len(File(n)) : fetch_page(n, p) = File(n)[p]
  <2>1. n \in DOMAIN files /\ File(n) = files[n]
    BY <1>5 DEF RowsSound, File
  <2>2. UNION {File(n)[p] : p \in DOMAIN File(n)} = rows[n]
    BY <1>5, <2>1 DEF RowsSound
  <2>3. /\ DOMAIN getPager(n).cache \subseteq DOMAIN File(n)
        /\ \A p \in DOMAIN getPager(n).cache : getPager(n).cache[p] = File(n)[p]
    BY <1>3, <1>5, <2>1 DEF RowsSound
  <2>4. \A p \in DOMAIN File(n) : fetch_page(n, p) = File(n)[p]
    BY <2>3 DEF fetch_page
  <2> QED BY <1>2, <2>1, <2>2, <2>3, <2>4
<1> QED BY <1>1, <1>3, <1>4, <1>5

\* SELECT fetches pages, and makes a file where there is none.
LEMMA SelectSound ==
  ASSUME Sound, NEW n \in Names, Select(n)
  PROVE  Sound'
<1> DEFINE pager == getPager(n)
           cache == [p \in DOMAIN pager.cache \cup 1 .. Len(File(n)) |-> fetch_page(n, p)]
<1>1. /\ pc = "idle" /\ n[1] \in dirs
      /\ files' = Put(files, n, File(n))
      /\ pagers' = Put(pagers, n, [next |-> pager.next, cache |-> cache])
      /\ UNCHANGED <<catalog, saved, dirs, open, idxFiles, pc, arg, acked, rows, limbo, tainted, used>>
  BY DEF Select, names, indexes, history
<1>2. /\ File(n) \in Seq(SUBSET Keys) /\ pager.next \in Nat \ {0}
      /\ \A p \in DOMAIN cache : cache[p] \subseteq Keys
  BY FetchedPages DEF Sound
<1>3. /\ DOMAIN files' = DOMAIN files \cup {n} /\ files'[n] = File(n)
      /\ \A m \in DOMAIN files : m # n => files'[m] = files[m]
  BY <1>1 DEF Put
<1>4. /\ DOMAIN pagers' = DOMAIN pagers \cup {n}
      /\ pagers'[n].next = pager.next /\ pagers'[n].cache = cache
      /\ \A m \in DOMAIN pagers : m # n => pagers'[m] = pagers[m]
  <2> HIDE DEF pager, cache
  <2> QED BY <1>1 DEF Put
<1>5. n \in Settled =>
        /\ n \in DOMAIN files /\ File(n) = files[n]
        /\ DOMAIN cache = 1 .. Len(File(n)) /\ DOMAIN File(n) = 1 .. Len(File(n))
        /\ \A p \in DOMAIN cache : cache[p] = File(n)[p]
  BY <1>2, FetchedPages DEF Sound
<1> HIDE DEF pager, cache
<1>6. StoredSound'
  BY <1>1, <1>2, <1>3, <1>4 DEF Sound, StoredSound
<1>7. /\ NamesSound' /\ IndexesSound' /\ StatementSound' /\ RepliesSound'
      /\ Settled' = Settled /\ Closing' = Closing
  BY <1>1 DEF Sound, NamesSound, IndexesSound, StatementSound, RepliesSound, Unfinished,
              Settled, Certain, Closing
<1>8. RowsSound'
  BY <1>1, <1>3, <1>4, <1>5, <1>7 DEF Sound, RowsSound
<1>9. KeysSound' /\ UseSound'
  BY <1>1 DEF Sound, KeysSound, UseSound, IndexesOf, KeysOf, Settled, Certain, Closing
<1> QED BY <1>6, <1>7, <1>8, <1>9 DEF Sound

\* USE opens the indexes of a database, or some of them.
LEMMA UseSteps ==
  ASSUME Sound, NEW d \in Dbs, Use(d)
  PROVE  Sound'
<1> DEFINE S == UNION {IndexesOf(n, catalog.tables[n]) : n \in TablesOf(d) \cap DOMAIN catalog.tables}
<1>1. /\ UNCHANGED <<names, stored, idxFiles, pc, arg, acked, rows, limbo, tainted>>
      /\ pc = "idle"
  BY DEF Use
<1>2. S \subseteq Names \X Cols
  <2>1. /\ DOMAIN catalog.tables \subseteq Names
        /\ catalog.tables \in [DOMAIN catalog.tables -> SUBSET Cols]
    BY CatalogFacts DEF Sound, NamesSound
  <2> QED BY <2>1, IndexNames
<1>3. PICK T : /\ T \subseteq S /\ Unreadable(T) = {} /\ open' = Opened(T)
               /\ used' = used \/ (T = S /\ used' = used \cup {d})
  <2>1. \A T \in SUBSET (S \ Unreadable(S)) : Unreadable(T) = {}
    BY DEF Unreadable
  <2> QED BY <2>1 DEF Use
<1>4. T \in SUBSET (Names \X Cols)
  BY <1>2, <1>3
<1> HIDE DEF S
<1>5. IndexesSound' /\ DOMAIN open' = DOMAIN open \cup T /\ \A x : KeysOf(x)' = KeysOf(x)
  BY <1>1, <1>3, <1>4, OpenIndexes DEF Sound
<1>6. /\ NamesSound' /\ StoredSound' /\ StatementSound' /\ RepliesSound' /\ RowsSound'
      /\ Settled' = Settled
  BY <1>1 DEF Sound, NamesSound, StoredSound, StatementSound, RepliesSound, RowsSound, Unfinished,
              Settled, Certain, names, stored
<1>7. UNCHANGED <<catalog, rows, tainted>>
  BY <1>1 DEF names
<1>8. KeysSound'
  <2> SUFFICES ASSUME NEW n \in Settled, NEW x \in IndexesOf(n, catalog.tables[n]), x \notin tainted
               PROVE  KeysOf(x)' = rows[n]
    BY <1>6, <1>7 DEF KeysSound, IndexesOf
  <2> QED BY <1>5 DEF Sound, KeysSound
<1>9. UseSound'
  <2> SUFFICES ASSUME NEW n \in Settled, n[1] \in used'
               PROVE  IndexesOf(n, catalog.tables[n]) \subseteq DOMAIN open'
    BY <1>6, <1>7 DEF UseSound, IndexesOf
  <2>1. CASE n[1] \in used
    <3>1. n \notin Closing
      BY <1>1 DEF Closing
    <3> QED BY <1>5, <2>1, <3>1 DEF Sound, UseSound
  <2>2. CASE n[1] \notin used
    <3>1. T = S /\ n[1] = d
      BY <1>3, <2>2
    <3>2. n \in TablesOf(d) \cap DOMAIN catalog.tables
      <4>1. n \in DOMAIN catalog.tables /\ n \in Names
        BY SettledFacts, CatalogFacts DEF Sound, NamesSound
      <4> QED BY <3>1, <4>1 DEF TablesOf
    <3>3. IndexesOf(n, catalog.tables[n]) \subseteq S
      BY <3>2 DEF S
    <3> QED BY <1>5, <3>1, <3>3
  <2> QED BY <2>1, <2>2
<1> QED BY <1>5, <1>6, <1>8, <1>9 DEF Sound

\* DROP TABLE closes the indexes of the table first.
LEMMA DropIndexesSound ==
  ASSUME Sound, NEW n \in Names, DropIndexes(n)
  PROVE  Sound'
<1> DEFINE S == IndexesOf(n, catalog.tables[n])
<1>1. /\ pc = "idle" /\ n \in DOMAIN catalog.tables
      /\ Close(S) /\ open' = Drop(open, S)
      /\ pc' = "dropEntry" /\ arg' = n
      /\ UNCHANGED <<catalog, saved, dirs, files, pagers, acked, rows, limbo, used>>
  BY DEF DropIndexes, names, stored
<1>2. DOMAIN open' = DOMAIN open \ S /\ \A x \in DOMAIN open' : open'[x] = open[x]
  BY <1>1 DEF Drop, Restrict
<1> HIDE DEF S
<1>3. IndexesSound' /\ \A x : x \notin tainted' => x \notin tainted /\ KeysOf(x)' = KeysOf(x)
  <2>1. PICK X \in SUBSET (S \cap Dirty) : CloseStores(S, X) /\ tainted' = tainted \cup X
    BY <1>1 DEF Close
  <2>2. \A x \in Dirty \ S : x \in DOMAIN open'
    BY <1>2 DEF Dirty
  <2> QED BY <1>2, <2>1, <2>2, CloseIndexes DEF Sound
<1>4. Unfinished = {} /\ Unfinished' = {}
  BY <1>1, UnfinishedFacts
<1>5. NamesSound' /\ StoredSound' /\ StatementSound' /\ RepliesSound'
  BY <1>1, <1>4 DEF Sound, NamesSound, StoredSound, StatementSound, RepliesSound
<1>6. Settled' = Settled /\ Closing = {} /\ Closing' = {n}
  BY <1>1 DEF Settled, Certain, Closing
<1>7. RowsSound'
  BY <1>1, <1>6 DEF Sound, RowsSound
<1>8. \A m \in Settled' \ Closing' :
        IndexesOf(m, catalog.tables[m]) \cap DOMAIN open \subseteq DOMAIN open'
  BY <1>2, <1>6, IndexNames DEF S
<1>9. KeysSound' /\ UseSound'
  BY <1>1, <1>3, <1>6, <1>8, IndexFrame DEF Sound
<1> QED BY <1>3, <1>5, <1>7, <1>9 DEF Sound

\* What INSERT writes: on the last page, keeping its rows, or on the first
\* page of an empty file or one after zeros.
LEMMA WrittenPage ==
  ASSUME StoredSound, NEW n \in Names, NEW k \in Keys
  PROVE  LET w == Written(n, k)
             pages == WrittenFile(n, w)
         IN  /\ w.page \in Nat \ {0} /\ w.rows \subseteq Keys
             /\ pages \in Seq(SUBSET Keys)
             /\ RowsSound /\ n \in Settled =>
                  /\ UNION {pages[p] : p \in 1 .. w.page} = rows[n] \cup {k}
                  /\ \A p \in DOMAIN getPager(n).cache :
                       p # w.page => p \in 1 .. w.page /\ getPager(n).cache[p] = pages[p]
<1> DEFINE w == Written(n, k)
           F == File(n)
           pages == WrittenFile(n, w)
<1>1. /\ F \in Seq(SUBSET Keys) /\ getPager(n).next \in Nat \ {0}
      /\ \A p \in 1 .. Len(F) : fetch_page(n, p) \subseteq Keys
      /\ RowsSound /\ n \in Settled =>
           /\ UNION {F[p] : p \in 1 .. Len(F)} = rows[n]
           /\ DOMAIN getPager(n).cache \subseteq 1 .. Len(F)
           /\ \A p \in DOMAIN getPager(n).cache : getPager(n).cache[p] = F[p]
           /\ \A p \in 1 .. Len(F) : fetch_page(n, p) = F[p]
  BY FetchedPages
<1>2. /\ F = << >> => w.page = getPager(n).next /\ w.rows = {k}
      /\ F # << >> => w.page = Len(F) /\ w.rows = {k} \cup fetch_page(n, Len(F))
  BY DEF Written
<1>0. pages = [p \in 1 .. w.page |-> IF p = w.page THEN w.rows
                                     ELSE IF p <= Len(F) THEN F[p] ELSE {}]
  BY DEF WrittenFile
<1> HIDE DEF w, F, pages
<1>3. /\ Len(F) \in Nat /\ DOMAIN F = 1 .. Len(F) /\ (F = << >> <=> Len(F) = 0)
      /\ \A p \in 1 .. Len(F) : F[p] \subseteq Keys
  BY <1>1
<1>4. w.page \in Nat \ {0} /\ w.rows \subseteq Keys
  BY <1>1, <1>2, <1>3
<1>5. pages \in Seq(SUBSET Keys)
  <2> DEFINE g(p) == IF p = w.page THEN w.rows ELSE IF p <= Len(F) THEN F[p] ELSE {}
  <2>1. \A p \in 1 .. w.page : g(p) \in SUBSET Keys
    BY <1>3, <1>4
  <2>2. pages = [p \in 1 .. w.page |-> g(p)]
    BY <1>0
  <2> HIDE DEF g
  <2> QED BY <1>4, <2>1, <2>2
<1>6. ASSUME RowsSound, n \in Settled
      PROVE  /\ UNION {pages[p] : p \in 1 .. w.page} = rows[n] \cup {k}
             /\ \A p \in DOMAIN getPager(n).cache :
                  p # w.page => p \in 1 .. w.page /\ getPager(n).cache[p] = pages[p]
  <2>0. \A p \in 1 .. w.page :
          pages[p] = IF p = w.page THEN w.rows ELSE IF p <= Len(F) THEN F[p] ELSE {}
    BY <1>0
  <2>1. CASE F = << >>
    <3>1. /\ \A p \in 1 .. w.page : pages[p] = IF p = w.page THEN {k} ELSE {}
          /\ w.page \in 1 .. w.page
      <4>1. \A p \in 1 .. w.page : ~(p <= Len(F))
        BY <1>3, <2>1
      <4>2. w.rows = {k}
        BY <1>2, <2>1
      <4>3. \A p \in 1 .. w.page : pages[p] = IF p = w.page THEN {k} ELSE {}
        BY <2>0, <4>1, <4>2
      <4> QED BY <1>4, <4>3
    <3>2. rows[n] = {} /\ DOMAIN getPager(n).cache = {}
      BY <1>1, <1>3, <1>6, <2>1
    <3> QED BY <3>1, <3>2
  <2>2. CASE F # << >>
    <3>1. /\ w.page = Len(F) /\ w.page \in 1 .. w.page
          /\ \A p \in 1 .. w.page : pages[p] = IF p = w.page THEN {k} \cup F[p] ELSE F[p]
      <4>1. w.page = Len(F) /\ w.rows = {k} \cup fetch_page(n, Len(F)) /\ w.page \in 1 .. w.page
        BY <1>2, <1>4, <2>2
      <4>2. fetch_page(n, w.page) = F[w.page]
        BY <1>1, <1>6, <4>1
      <4>3. \A p \in 1 .. w.page : p <= Len(F)
        BY <1>3, <4>1
      <4> QED BY <2>0, <4>1, <4>2, <4>3
    <3>2. /\ UNION {F[p] : p \in 1 .. w.page} = rows[n]
          /\ DOMAIN getPager(n).cache \subseteq 1 .. w.page
          /\ \A p \in DOMAIN getPager(n).cache : getPager(n).cache[p] = F[p]
      BY <1>1, <1>6, <3>1
    <3>3. UNION {pages[p] : p \in 1 .. w.page} = rows[n] \cup {k}
      <4>1. \A y : (\E p \in 1 .. w.page : y \in pages[p]) <=>
                     y = k \/ (\E p \in 1 .. w.page : y \in F[p])
        BY <3>1
      <4> QED BY <3>2, <4>1
    <3> QED BY <3>1, <3>2, <3>3
  <2> QED BY <2>1, <2>2
<1> QED BY <1>4, <1>5, <1>6 DEF w, F, pages

\* INSERT, into the file and into the open indexes.
LEMMA InsertSound ==
  ASSUME Sound, NEW n \in Names, NEW k \in Keys, Insert(n, k)
  PROVE  Sound'
<1> DEFINE w == Written(n, k)
           pages == WrittenFile(n, w)
           S == IndexesOf(n, catalog.tables[n])
           cache == getPager(n).cache
           nextPage == IF File(n) = << >> THEN w.page + 1 ELSE getPager(n).next
<1>1. /\ pc = "idle" /\ n \in DOMAIN catalog.tables /\ n[1] \in dirs
      /\ files' = Put(files, n, pages)
      /\ pagers' = Put(pagers, n, [next |-> nextPage, cache |-> Put(cache, w.page, w.rows)])
      /\ open' = [x \in DOMAIN open |->
            IF x \in S THEN [keys |-> open[x].keys \cup {k}, dirty |-> TRUE] ELSE open[x]]
      /\ tainted' = tainted \cup (S \ DOMAIN open)
      /\ rows' = [rows EXCEPT ![n] = @ \cup {k}]
      /\ UNCHANGED <<catalog, saved, dirs, idxFiles, pc, arg, acked, limbo, used>>
  BY DEF Insert, names
<1>2. /\ w.page \in Nat \ {0} /\ w.rows \subseteq Keys /\ pages \in Seq(SUBSET Keys)
      /\ n \in Settled =>
           /\ UNION {pages[p] : p \in 1 .. w.page} = rows[n] \cup {k}
           /\ \A p \in DOMAIN cache : p # w.page => p \in 1 .. w.page /\ cache[p] = pages[p]
      /\ nextPage \in Nat \ {0}
      /\ \A p \in DOMAIN cache : p # w.page => cache[p] \subseteq Keys
  <2>1. /\ w.page \in Nat \ {0} /\ w.rows \subseteq Keys /\ pages \in Seq(SUBSET Keys)
        /\ n \in Settled =>
             /\ UNION {pages[p] : p \in 1 .. w.page} = rows[n] \cup {k}
             /\ \A p \in DOMAIN cache : p # w.page => p \in 1 .. w.page /\ cache[p] = pages[p]
    BY WrittenPage DEF Sound
  <2>2. getPager(n).next \in Nat \ {0} /\ \A p \in DOMAIN cache : fetch_page(n, p) \subseteq Keys
    BY FetchedPages DEF Sound
  <2>3. \A p \in DOMAIN cache : cache[p] \subseteq Keys
    BY <2>2 DEF fetch_page
  <2>4. nextPage \in Nat \ {0}
    <3> HIDE DEF w
    <3> QED BY <2>1, <2>2
  <2> HIDE DEF w, pages, cache, nextPage
  <2> QED BY <2>1, <2>3, <2>4
<1>3. DOMAIN pages = 1 .. w.page /\ pages[w.page] = w.rows
  <2> HIDE DEF w
  <2> QED BY <1>2 DEF WrittenFile
<1>4. /\ DOMAIN files' = DOMAIN files \cup {n} /\ files'[n] = pages
      /\ \A m \in DOMAIN files : m # n => files'[m] = files[m]
  <2> HIDE DEF pages
  <2> QED BY <1>1 DEF Put
<1>5. /\ DOMAIN pagers' = DOMAIN pagers \cup {n}
      /\ pagers'[n].next = nextPage
      /\ DOMAIN pagers'[n].cache = DOMAIN cache \cup {w.page}
      /\ pagers'[n].cache[w.page] = w.rows
      /\ \A p \in DOMAIN cache : p # w.page => pagers'[n].cache[p] = cache[p]
      /\ \A m \in DOMAIN pagers : m # n => pagers'[m] = pagers[m]
  <2> HIDE DEF w, cache, nextPage
  <2> QED BY <1>1 DEF Put
<1>6. /\ DOMAIN open' = DOMAIN open
      /\ \A x \in DOMAIN open : /\ x \in S => open'[x].keys = open[x].keys \cup {k} /\ open'[x].dirty
                                /\ x \notin S => open'[x] = open[x]
  <2> HIDE DEF S
  <2> QED BY <1>1
<1>7. Settled' = Settled /\ Closing' = Closing
  BY <1>1 DEF Settled, Certain, Closing
<1>8. rows' \in [Names -> SUBSET Keys] /\ rows'[n] = rows[n] \cup {k}
      /\ \A m \in Names : m # n => rows'[m] = rows[m]
  BY <1>1 DEF Sound, RowsSound
<1> HIDE DEF w, pages, cache, nextPage
<1>9. StoredSound'
  <2>1. /\ dirs' \subseteq Dbs
        /\ DOMAIN files' \subseteq {m \in Names : m[1] \in dirs'}
        /\ DOMAIN pagers' \subseteq DOMAIN files'
    BY <1>1, <1>4, <1>5 DEF Sound, StoredSound
  <2>2. \A m \in DOMAIN files' : files'[m] \in Seq(SUBSET Keys)
    BY <1>2, <1>4 DEF Sound, StoredSound
  <2>3. ASSUME NEW m \in DOMAIN pagers'
        PROVE  /\ pagers'[m].next \in Nat \ {0}
               /\ \A p \in DOMAIN pagers'[m].cache : pagers'[m].cache[p] \subseteq Keys
    <3>1. CASE m = n
      BY <1>2, <1>5, <3>1
    <3>2. CASE m # n
      BY <1>5, <3>2 DEF Sound, StoredSound
    <3> QED BY <3>1, <3>2
  <2> QED BY <2>1, <2>2, <2>3 DEF StoredSound
<1>10. IndexesSound'
  <2>1. \A x \in DOMAIN open : open'[x].dirty \in BOOLEAN /\ open'[x].keys \subseteq Keys
    BY <1>1, <1>6 DEF Sound, IndexesSound
  <2>2. \A x \in DOMAIN open : ~open'[x].dirty => x \in DOMAIN idxFiles /\ idxFiles[x] = open'[x].keys
    BY <1>6 DEF Sound, IndexesSound
  <2> QED BY <1>1, <1>6, <2>1, <2>2 DEF Sound, IndexesSound
<1>11. NamesSound' /\ StatementSound' /\ RepliesSound'
  BY <1>1 DEF Sound, NamesSound, StatementSound, RepliesSound, Unfinished
<1>12. RowsSound'
  <2> SUFFICES ASSUME NEW m \in Settled
               PROVE  /\ m \in DOMAIN files'
                      /\ UNION {files'[m][p] : p \in DOMAIN files'[m]} = rows'[m]
                      /\ m \in DOMAIN pagers' =>
                           \A p \in DOMAIN pagers'[m].cache :
                             p \in DOMAIN files'[m] /\ pagers'[m].cache[p] = files'[m][p]
    BY <1>7, <1>8 DEF RowsSound
  <2>1. CASE m = n
    BY <1>2, <1>3, <1>4, <1>5, <1>8, <2>1
  <2>2. CASE m # n
    <3>1. m \in Names
      BY SettledFacts, CatalogFacts DEF Sound, NamesSound
    <3> QED BY <1>4, <1>5, <1>8, <2>2, <3>1 DEF Sound, RowsSound
  <2> QED BY <2>1, <2>2
<1>13. KeysSound'
  <2> SUFFICES ASSUME NEW m \in Settled, NEW x \in IndexesOf(m, catalog.tables[m]), x \notin tainted'
               PROVE  KeysOf(x)' = rows'[m]
    BY <1>1, <1>7 DEF KeysSound, IndexesOf
  <2>1. KeysOf(x) = rows[m] /\ m \in Names
    BY <1>1, SettledFacts, CatalogFacts DEF Sound, KeysSound, NamesSound
  <2>2. CASE m = n
    <3>1. x \in S /\ x \in DOMAIN open
      BY <1>1, <2>2
    <3> QED BY <1>6, <1>8, <2>1, <2>2, <3>1 DEF KeysOf
  <2>3. CASE m # n
    <3>1. x \notin S
      BY <2>3, IndexNames
    <3> QED BY <1>1, <1>6, <1>8, <2>1, <2>3, <3>1 DEF KeysOf
  <2> QED BY <2>2, <2>3
<1>14. UseSound'
  BY <1>1, <1>6, <1>7 DEF Sound, UseSound, IndexesOf
<1> QED BY <1>9, <1>10, <1>11, <1>12, <1>13, <1>14 DEF Sound

\* CREATE TABLE makes the file and the indexes of the table it entered.  If
\* nothing was left of a former table, the new one is settled, and empty.
LEMMA MakeTableSound ==
  ASSUME Sound, MakeTable
  PROVE  Sound'
<1> DEFINE S == NewIndexes
<1>1. /\ pc = "mktable" /\ arg[1] \in dirs /\ Unreadable(S) = {}
      /\ files' = Put(files, arg, << >>) /\ open' = Opened(S)
      /\ pc' = "idle"
      /\ acked' = acked \cup {arg} /\ rows' = [rows EXCEPT ![arg] = {}]
      /\ limbo' = IF arg \in DOMAIN pagers THEN limbo \cup {arg} ELSE limbo \ {arg}
      /\ tainted' = (tainted \ S) \cup (S \cap (DOMAIN open \cup DOMAIN idxFiles))
      /\ UNCHANGED <<catalog, saved, dirs, pagers, idxFiles, used>>
  BY DEF MakeTable, Created, End, names
<1>2. /\ catalog \in Catalogs /\ saved = catalog
      /\ arg \in DOMAIN catalog.tables /\ DOMAIN catalog.tables \subseteq Names
      /\ catalog.tables \in [DOMAIN catalog.tables -> SUBSET Cols]
  BY <1>1, CatalogFacts DEF Sound, NamesSound, StatementSound
<1>3. S = IndexesOf(arg, catalog.tables[arg]) /\ S \subseteq Names \X Cols
  BY <1>2, IndexNames DEF NewIndexes
<1> HIDE DEF S
<1>4. IndexesSound' /\ DOMAIN open' = DOMAIN open \cup S /\ \A x : KeysOf(x)' = KeysOf(x)
  BY <1>1, <1>3, OpenIndexes DEF Sound
<1>5. /\ DOMAIN files' = DOMAIN files \cup {arg} /\ files'[arg] = << >>
      /\ \A n \in DOMAIN files : n # arg => files'[n] = files[n]
  BY <1>1 DEF Put
<1>6. /\ rows' \in [Names -> SUBSET Keys] /\ rows'[arg] = {}
      /\ \A n \in Names : n # arg => rows'[n] = rows[n]
  BY <1>1, <1>2 DEF Sound, RowsSound
<1>7. /\ \A n \in Settled' : n # arg => n \in Settled
      /\ \A n \in Settled' : n \in Names
      /\ arg \in Settled' => arg \notin DOMAIN pagers
  BY <1>1, <1>2, SettledFacts
<1>8. NamesSound' /\ StatementSound'
  BY <1>1 DEF Sound, NamesSound, StatementSound
<1>9. StoredSound'
  <2>1. << >> \in Seq(SUBSET Keys)
    OBVIOUS
  <2>2. \A n \in DOMAIN files' : files'[n] \in Seq(SUBSET Keys)
    BY <1>5, <2>1 DEF Sound, StoredSound
  <2> QED BY <1>1, <1>2, <1>5, <2>2 DEF Sound, StoredSound
<1>10. RepliesSound'
  <2>1. Unfinished = {arg} /\ Unfinished' = {}
    BY <1>1, UnfinishedFacts
  <2>2. \A n \in Names \ limbo : n # arg => (n \in acked <=> n \in DOMAIN catalog.tables)
    BY <2>1 DEF Sound, RepliesSound
  <2> QED BY <1>1, <1>2, <2>1, <2>2 DEF RepliesSound
<1>11. RowsSound'
  <2> SUFFICES ASSUME NEW n \in Settled'
               PROVE  /\ n \in DOMAIN files'
                      /\ UNION {files'[n][p] : p \in DOMAIN files'[n]} = rows'[n]
                      /\ n \in DOMAIN pagers =>
                           \A p \in DOMAIN pagers[n].cache :
                             p \in DOMAIN files'[n] /\ pagers[n].cache[p] = files'[n][p]
    BY <1>1, <1>6 DEF RowsSound
  <2>1. CASE n = arg
    <3>1. DOMAIN files'[n] = {}
      BY <1>5, <2>1
    <3> QED BY <1>5, <1>6, <1>7, <2>1, <3>1
  <2>2. CASE n # arg
    BY <1>5, <1>6, <1>7, <2>2 DEF Sound, RowsSound
  <2> QED BY <2>1, <2>2
<1>12. KeysSound'
  <2> SUFFICES ASSUME NEW n \in Settled', NEW x \in IndexesOf(n, catalog.tables[n]), x \notin tainted'
               PROVE  KeysOf(x) = rows'[n]
    BY <1>1, <1>4 DEF KeysSound, IndexesOf
  <2>1. CASE n = arg
    BY <1>1, <1>3, <1>6, <2>1 DEF KeysOf
  <2>2. CASE n # arg
    <3>1. x \notin S
      BY <1>3, <2>2, IndexNames
    <3> QED BY <1>1, <1>6, <1>7, <2>2, <3>1 DEF Sound, KeysSound
  <2> QED BY <2>1, <2>2
<1>13. UseSound'
  <2> SUFFICES ASSUME NEW n \in Settled', n[1] \in used
               PROVE  IndexesOf(n, catalog.tables[n]) \subseteq DOMAIN open'
    BY <1>1 DEF UseSound, IndexesOf
  <2>1. CASE n = arg
    BY <1>3, <1>4, <2>1
  <2>2. CASE n # arg
    <3>1. n \notin Closing
      BY <1>1 DEF Closing
    <3> QED BY <1>4, <1>7, <2>2, <3>1 DEF Sound, UseSound
  <2> QED BY <2>1, <2>2
<1> QED BY <1>4, <1>8, <1>9, <1>10, <1>11, <1>12, <1>13 DEF Sound

\* If the file or an index cannot be made the table's entry is taken back;
\* the file and the indexes that were made stay.
LEMMA MakeTableThrowsSound ==
  ASSUME Sound, MakeTableThrows
  PROVE  Sound'
<1>1. /\ pc = "mktable" /\ pc' = "idle"
      /\ catalog' = WithoutTable(arg)
      /\ \/ saved' = catalog' /\ limbo' = limbo
         \/ saved' = saved /\ limbo' = limbo \cup {arg}
      /\ UNCHANGED <<dirs, pagers, idxFiles, acked, rows, tainted, used>>
  BY DEF MakeTableThrows, TakeBack, Doubt, End, history
<1>2. \/ UNCHANGED <<files, open>>
      \/ /\ arg[1] \in dirs /\ files' = Put(files, arg, << >>)
         /\ \E T \in SUBSET (NewIndexes \ Unreadable(NewIndexes)) : open' = Opened(T)
  BY DEF MakeTableThrows
<1>3. /\ catalog \in Catalogs /\ saved = catalog
      /\ arg \in DOMAIN catalog.tables /\ DOMAIN catalog.tables \subseteq Names
      /\ catalog.tables \in [DOMAIN catalog.tables -> SUBSET Cols]
      /\ arg \in acked => arg \in limbo
  BY <1>1, CatalogFacts DEF Sound, NamesSound, StatementSound
<1>4. /\ WithoutTable(arg) \in Catalogs
      /\ DOMAIN catalog'.tables = DOMAIN catalog.tables \ {arg}
      /\ \A n \in DOMAIN catalog.tables : n # arg => catalog'.tables[n] = catalog.tables[n]
  BY <1>1, <1>3, NoTable
<1>5. IndexesSound' /\ DOMAIN open \subseteq DOMAIN open' /\ \A x : KeysOf(x)' = KeysOf(x)
  <2>1. CASE UNCHANGED <<files, open>>
    BY <1>1, <2>1 DEF Sound, IndexesSound, KeysOf
  <2>2. CASE \E T \in SUBSET (NewIndexes \ Unreadable(NewIndexes)) : open' = Opened(T)
    <3>1. PICK T \in SUBSET (NewIndexes \ Unreadable(NewIndexes)) : open' = Opened(T)
      BY <2>2
    <3>2. Unreadable(T) = {} /\ T \in SUBSET (Names \X Cols)
      BY <1>3, <3>1, IndexNames DEF Unreadable, NewIndexes
    <3> QED BY <1>1, <3>1, <3>2, OpenIndexes DEF Sound
  <2> QED BY <1>2, <2>1, <2>2
<1>6. /\ DOMAIN files' \in {DOMAIN files, DOMAIN files \cup {arg}}
      /\ arg \in DOMAIN files' => arg[1] \in dirs /\ files'[arg] \in Seq(SUBSET Keys)
      /\ \A n \in DOMAIN files : n # arg => files'[n] = files[n]
  <2>1. CASE UNCHANGED <<files, open>>
    BY <2>1 DEF Sound, StoredSound
  <2>2. CASE arg[1] \in dirs /\ files' = Put(files, arg, << >>)
    BY <2>2 DEF Put
  <2> QED BY <1>2, <2>1, <2>2
<1>7. StoredSound'
  BY <1>1, <1>3, <1>6 DEF Sound, StoredSound
<1>8. NamesSound' /\ StatementSound'
  BY <1>1, <1>3, <1>4 DEF NamesSound, StatementSound
<1>9. RepliesSound'
  <2>1. Unfinished = {arg} /\ Unfinished' = {}
    BY <1>1, UnfinishedFacts
  <2>2. \A n \in Names \ limbo : n # arg => (n \in acked <=> n \in DOMAIN catalog.tables)
    BY <2>1 DEF Sound, RepliesSound
  <2> QED BY <1>1, <1>3, <1>4, <2>1, <2>2 DEF RepliesSound
<1>10. Settled' \subseteq Settled /\ \A n \in Settled' : n # arg /\ n \in DOMAIN catalog.tables
  BY <1>1, <1>4, SettledFacts
<1>11. RowsSound'
  <2>1. \A n \in Settled' : n \in DOMAIN files' /\ files'[n] = files[n]
    BY <1>6, <1>10 DEF Sound, RowsSound
  <2> QED BY <1>1, <1>10, <2>1, RowsFrame DEF Sound
<1>12. KeysSound' /\ UseSound'
  <2>1. Closing = {}
    BY <1>1 DEF Closing
  <2>2. \A n \in Settled' : catalog'.tables[n] = catalog.tables[n]
    BY <1>4, <1>10
  <2> QED BY <1>1, <1>5, <1>10, <2>1, <2>2, IndexFrame DEF Sound
<1> QED BY <1>5, <1>7, <1>8, <1>9, <1>11, <1>12 DEF Sound

\* The next process starts from catalog.json and the files it finds.
LEMMA RestartFrame ==
  ASSUME Sound, Restart, IndexesSound', limbo' = limbo \cup Unfinished,
         DOMAIN files' \subseteq DOMAIN files, \A n \in DOMAIN files' : files'[n] = files[n],
         \A n \in DOMAIN files : n \notin Unfinished => n \in DOMAIN files',
         \A x : x \notin tainted' => x \notin tainted /\ KeysOf(x)' = KeysOf(x)
  PROVE  Sound'
<1>1. /\ catalog' = [dbs |-> {n[1] : n \in DOMAIN saved.tables}, tables |-> saved.tables]
      /\ pagers' = << >> /\ open' = << >> /\ pc' = "idle" /\ used' = {}
      /\ UNCHANGED <<saved, dirs, acked, rows>>
  BY DEF Restart, End
<1>2. saved \in Catalogs /\ catalog' \in Catalogs /\ catalog'.tables = saved.tables
  BY <1>1, LoadedCatalog DEF Sound, NamesSound
<1>3. DOMAIN pagers' = {} /\ DOMAIN open' = {}
  BY <1>1
<1>4. NamesSound' /\ StatementSound'
  BY <1>1, <1>2 DEF NamesSound, StatementSound
<1>5. StoredSound'
  BY <1>1, <1>3 DEF Sound, StoredSound
<1>6. RepliesSound'
  <2>1. Unfinished' = {}
    BY <1>1, UnfinishedFacts
  <2> QED BY <1>1, <1>2, <2>1 DEF Sound, RepliesSound
<1>7. /\ Settled' \subseteq Settled
      /\ \A n \in Settled' : /\ catalog'.tables[n] = catalog.tables[n]
                             /\ n \notin Unfinished
  <2> SUFFICES ASSUME NEW n \in Settled'
               PROVE  /\ n \in Settled /\ n \notin Unfinished
                      /\ catalog'.tables[n] = catalog.tables[n]
    OBVIOUS
  <2>1. n \in DOMAIN saved.tables /\ n \in Names /\ n \notin limbo /\ n \notin Unfinished
    BY <1>2, SettledFacts, CatalogFacts
  <2>2. n \in DOMAIN catalog.tables /\ saved.tables[n] = catalog.tables[n]
    BY <2>1 DEF Sound, RepliesSound
  <2>3. pc = "mktable" => n # arg
    BY <2>1, UnfinishedFacts
  <2> QED BY <1>2, <2>1, <2>2, <2>3, SettledFacts
<1>8. RowsSound'
  <2>1. \A n \in Settled' : n \in DOMAIN files' /\ files'[n] = files[n]
    BY <1>7 DEF Sound, RowsSound
  <2> QED BY <1>1, <1>3, <1>7, <2>1, RowsFrame DEF Sound
<1>9. KeysSound' /\ UseSound'
  BY <1>1, <1>7, IndexFrame DEF Sound
<1> QED BY <1>4, <1>5, <1>6, <1>8, <1>9 DEF Sound

\* A process that exits writes its indexes, or fails to.
LEMMA ExitSound ==
  ASSUME Sound, Exit
  PROVE  Sound'
<1>1. /\ pc = "idle" /\ Restart /\ Close(DOMAIN open)
      /\ UNCHANGED <<files, limbo>> /\ open' = << >>
  BY DEF Exit, Restart
<1>2. PICK X \in SUBSET (DOMAIN open \cap Dirty) :
        CloseStores(DOMAIN open, X) /\ tainted' = tainted \cup X
  BY <1>1 DEF Close
<1>3. DOMAIN open' = {} /\ Dirty \subseteq DOMAIN open
  BY <1>1 DEF Dirty
<1>4. IndexesSound' /\ \A x : x \notin tainted' => x \notin tainted /\ KeysOf(x)' = KeysOf(x)
  BY <1>2, <1>3, CloseIndexes DEF Sound
<1>5. limbo' = limbo \cup Unfinished
  BY <1>1, UnfinishedFacts
<1> QED BY <1>1, <1>4, <1>5, RestartFrame

\* One that dies leaves the tables of its statement in doubt, and the
\* indexes it had not written.
LEMMA CrashSound ==
  ASSUME Sound, Crash
  PROVE  Sound'
<1>1. /\ Restart /\ limbo' = limbo \cup Unfinished
      /\ tainted' = tainted \cup Dirty /\ idxFiles' = idxFiles /\ open' = << >>
  BY DEF Crash, Restart
<1>2. PICK S : /\ S = {} \/ (pc = "rmdir" /\ S \subseteq TablesOf(arg))
               /\ files' = Drop(files, S)
  BY DEF Crash
<1>3. S \subseteq Unfinished
  BY <1>2, UnfinishedFacts
<1>4. /\ DOMAIN files' = DOMAIN files \ S
      /\ \A n \in DOMAIN files' : files'[n] = files[n]
  BY <1>2 DEF Drop, Restrict
<1>5. DOMAIN open' = {}
  BY <1>1
<1>6. IndexesSound'
  BY <1>1, <1>5 DEF Sound, IndexesSound
<1>7. \A x : x \notin tainted' => x \notin tainted /\ KeysOf(x)' = KeysOf(x)
  BY <1>1, <1>5 DEF Dirty, KeysOf, Sound, IndexesSound
<1> QED BY <1>1, <1>3, <1>4, <1>6, <1>7, RestartFrame

\* One that dies while it writes its indexes may also cut a file off.
LEMMA CrashInFlushSound ==
  ASSUME Sound, CrashInFlush
  PROVE  Sound'
<1>1. pc = "idle" /\ Restart /\ UNCHANGED <<files, limbo>> /\ open' = << >>
  BY DEF CrashInFlush, Restart
<1>2. PICK S, x :
        /\ S \subseteq Dirty /\ x \in Dirty \ S
        /\ CloseStores(S \cup {x}, {x})
        /\ tainted' = tainted \cup (Dirty \ S)
  BY DEF CrashInFlush
<1>3. PICK T : T = S \cup {x}
  OBVIOUS
<1>4. PICK X : X = {x}
  OBVIOUS
<1>5. /\ X \in SUBSET (T \cap Dirty) /\ CloseStores(T, X)
      /\ \A y : y \notin tainted' => y \notin tainted /\ y \notin X /\ y \notin Dirty \ T
  BY <1>2, <1>3, <1>4
<1>6. DOMAIN open' = {}
  BY <1>1
<1>7. IndexesSound' /\ \A y : y \notin tainted' => y \notin tainted /\ KeysOf(y)' = KeysOf(y)
  BY <1>5, <1>6, CloseIndexes DEF Sound
<1>9. limbo' = limbo \cup Unfinished
  BY <1>1, UnfinishedFacts
<1> QED BY <1>1, <1>7, <1>9, RestartFrame

\* Nothing exists at first.
LEMMA InitSound == Init => Sound
<1> SUFFICES ASSUME Init PROVE Sound
  OBVIOUS
<1>1. /\ catalog = [dbs |-> {}, tables |-> << >>] /\ saved = catalog
      /\ dirs = {} /\ files = << >> /\ pagers = << >> /\ open = << >> /\ idxFiles = << >>
      /\ pc = "idle" /\ acked = {} /\ rows = [n \in Names |-> {}]
  BY DEF Init
<1>2. \A n : n \notin DOMAIN << >>
  OBVIOUS
<1>3. catalog \in Catalogs /\ DOMAIN catalog.tables = {}
  <2>1. << >> \in [{} -> SUBSET Cols] /\ {} \in SUBSET Dbs /\ {} \in SUBSET Names
    OBVIOUS
  <2>2. [dbs |-> {}, tables |-> << >>] \in Catalogs
    BY <2>1, CatalogMade
  <2> QED BY <1>1, <1>2, <2>2
<1>4. DOMAIN files = {} /\ DOMAIN pagers = {} /\ DOMAIN open = {} /\ DOMAIN idxFiles = {}
  BY <1>1, <1>2
<1>5. Settled = {}
  BY <1>3, SettledFacts
<1>6. NamesSound /\ StoredSound /\ IndexesSound /\ StatementSound
  BY <1>1, <1>3, <1>4 DEF NamesSound, StoredSound, IndexesSound, StatementSound
<1>7. RepliesSound /\ RowsSound /\ KeysSound /\ UseSound
  BY <1>1, <1>3, <1>5 DEF RepliesSound, RowsSound, KeysSound, UseSound
<1> QED BY <1>6, <1>7 DEF Sound

\* Every call of a statement, every call that throws and every end of the
\* process keeps the invariant.
LEMMA SoundAlways == Spec => []Sound
<1>1. Sound /\ [Next]_vars => Sound'
  <2> SUFFICES ASSUME Sound, [Next]_vars
               PROVE  Sound'
    OBVIOUS
  <2>1. CASE \E d \in Dbs : CreateDatabase(d) \/ DropDatabase(d) \/ Use(d)
    BY <2>1, CreateDatabaseSound, DropDatabaseSound, UseSteps
  <2>2. CASE MakeDirectory \/ MakeDirectoryThrows \/ RemoveDirectory \/ RemoveDirectoryThrows
    BY <2>2, DirectorySound, MakeDirectoryThrowsSound
  <2>3. CASE \E n \in Names : \E cols \in SUBSET Cols : CreateTable(n, cols)
    BY <2>3, CreateTableSound
  <2>4. CASE \E n \in Names : DropIndexes(n) \/ (\E k \in Keys : Insert(n, k)) \/ Select(n)
    BY <2>4, DropIndexesSound, InsertSound, SelectSound
  <2>5. CASE MakeTable \/ MakeTableThrows
    BY <2>5, MakeTableSound, MakeTableThrowsSound
  <2>6. CASE DropEntry \/ RemoveFile \/ RemoveFileThrows
    BY <2>6, DropEntrySound, RemoveFileSound
  <2>7. CASE Exit \/ Crash \/ CrashInFlush
    BY <2>7, ExitSound, CrashSound, CrashInFlushSound
  <2>8. CASE UNCHANGED vars
    <3>1. UNCHANGED <<catalog, saved, dirs, files, pagers, open, idxFiles, pc, arg,
                      acked, rows, limbo, tainted, used>>
      BY <2>8 DEF vars, names, stored, indexes, history
    <3>2. NamesSound' /\ StoredSound' /\ IndexesSound' /\ StatementSound' /\ RepliesSound'
      BY <3>1 DEF Sound, NamesSound, StoredSound, IndexesSound, StatementSound, RepliesSound,
                  Unfinished
    <3>3. RowsSound' /\ KeysSound' /\ UseSound'
      BY <3>1 DEF Sound, RowsSound, KeysSound, UseSound, Settled, Certain, Closing,
                  IndexesOf, KeysOf
    <3> QED BY <3>2, <3>3 DEF Sound
  <2> QED BY <2>1, <2>2, <2>3, <2>4, <2>5, <2>6, <2>7, <2>8 DEF Next
<1> QED BY <1>1, InitSound, PTL DEF Spec

-----------------------------------------------------------------------------
(* The invariants of the run *)

\* Between statements every certain table of the catalog is settled.
LEMMA IdleSettled ==
  ASSUME Sound, Idle
  PROVE  Settled = Certain /\ Closing = {} /\ Unfinished = {} /\ Certain \subseteq Names
<1>1. DOMAIN catalog.tables \subseteq Names
  BY CatalogFacts DEF Sound, NamesSound
<1>2. Unfinished = {}
  BY UnfinishedFacts DEF Idle
<1> QED BY <1>1, <1>2 DEF Idle, Settled, Certain, Closing

\* Every variable keeps its type: a table of the catalog or of a row file is
\* in a database that is there too, and a Pager has a file to work on.
THEOREM TypeCorrect == Spec => []TypeOK
<1>1. Sound => TypeOK
  <2> SUFFICES ASSUME Sound PROVE TypeOK
    OBVIOUS
  <2>1. \A c \in {catalog, saved} :
          /\ c.dbs \subseteq Dbs /\ DOMAIN c.tables \subseteq Names
          /\ \A n \in DOMAIN c.tables : n[1] \in c.dbs /\ c.tables[n] \subseteq Cols
    <3>1. ASSUME NEW c \in Catalogs
          PROVE  /\ c.dbs \subseteq Dbs /\ DOMAIN c.tables \subseteq Names
                 /\ \A n \in DOMAIN c.tables : n[1] \in c.dbs /\ c.tables[n] \subseteq Cols
      BY CatalogFacts
    <3> QED BY <3>1 DEF Sound, NamesSound
  <2>2. pc \in {"idle", "mkdir", "rmdir", "mktable", "dropEntry", "rmfile"}
    BY DEF Sound, StatementSound
  <2> QED BY <2>1, <2>2 DEF Sound, StoredSound, IndexesSound, TypeOK
<1> QED BY <1>1, SoundAlways, PTL

\* What a client was told about a table stays true, in memory and in
\* catalog.json, through throwing calls, restarts and crashes elsewhere.
THEOREM RepliesStayTrue == Spec => []RepliesAreKept
<1>1. Sound => RepliesAreKept
  BY IdleSettled DEF Sound, RepliesSound, RepliesAreKept
<1> QED BY <1>1, SoundAlways, PTL

\* The catalog names no table without its file and directory, unless the
\* CREATE or DROP of that very table was cut short.
THEOREM CatalogStaysBacked == Spec => []CatalogBacked
<1>1. Sound => CatalogBacked
  <2> SUFFICES ASSUME Sound, Idle, NEW n \in Certain
               PROVE  n \in DOMAIN files /\ n[1] \in dirs
    BY DEF CatalogBacked
  <2> QED BY IdleSettled DEF Sound, RowsSound, StoredSound
<1> QED BY <1>1, SoundAlways, PTL

\* A scan returns the rows inserted since the table was created, whatever
\* Pagers are open and whatever became of a former table of that name.
THEOREM RowsStayKept == Spec => []RowsKept
<1>1. Sound => RowsKept
  <2> SUFFICES ASSUME Sound, Idle, NEW n \in Certain
               PROVE  scan(n) = rows[n]
    BY DEF RowsKept
  <2>1. n \in Settled /\ n \in Names /\ RowsSound /\ StoredSound
    BY IdleSettled DEF Sound
  <2>2. /\ UNION {File(n)[p] : p \in 1 .. Len(File(n))} = rows[n]
        /\ \A p \in 1 .. Len(File(n)) : fetch_page(n, p) = File(n)[p]
    BY <2>1, FetchedPages
  <2> QED BY <2>2 DEF scan
<1> QED BY <1>1, SoundAlways, PTL

\* An index that has not begun with the keys of a former table, missed rows
\* while it was closed or lost its flush holds the keys of its table.
THEOREM IndexesFollowTables == Spec => []IndexOfItsTable
<1>1. Sound => IndexOfItsTable
  <2> SUFFICES ASSUME Sound, Idle, NEW n \in Certain,
                      NEW x \in IndexesOf(n, catalog.tables[n]), x \in DOMAIN open \ tainted
               PROVE  open[x].keys = rows[n]
    BY DEF IndexOfItsTable
  <2>1. KeysOf(x) = rows[n]
    BY IdleSettled DEF Sound, KeysSound
  <2> QED BY <2>1 DEF KeysOf
<1> QED BY <1>1, SoundAlways, PTL

\* A database opened by USE never misses an index, so that INSERT checks
\* uniqueness in every INDEXED column.
THEOREM UseOpensAll == Spec => []OpenAfterUse
<1>1. Sound => OpenAfterUse
  <2> SUFFICES ASSUME Sound, Idle, NEW n \in Certain, n[1] \in used
               PROVE  IndexesOf(n, catalog.tables[n]) \subseteq DOMAIN open
    BY DEF OpenAfterUse
  <2> QED BY IdleSettled DEF Sound, UseSound
<1> QED BY <1>1, SoundAlways, PTL

=============================================================================
