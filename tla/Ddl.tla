-------------------------------- MODULE Ddl --------------------------------
(***************************************************************************)
(* Databases and tables: the Catalog in memory and in catalog.json, the    *)
(* directories and row files of Storage with the Pagers that hold them     *)
(* open, and the open indexes of the IndexManager with their .idx files.   *)
(*                                                                         *)
(* CREATE and DROP change these places in turn.  Any of the changes may    *)
(* throw, and the process may die between two of them; `pc' says which is  *)
(* next.  A statement that its first check refuses changes nothing and is  *)
(* no step.  `db.table' and a name in the database in use are the same     *)
(* here: resolve() only fills in the name.                                 *)
(*                                                                         *)
(* INSERT and SELECT are one step each (TableEngine takes them apart): a   *)
(* row is its key, which it has in every INDEXED column, and the rows of   *)
(* a table all fit one page, so that pages are taken only for an empty     *)
(* file.                                                                   *)
(*                                                                         *)
(* No database here is called `indexes': its directory would be that of    *)
(* the .idx files.                                                         *)
(***************************************************************************)
EXTENDS Integers, Sequences, FiniteSets, Functions

CONSTANTS
  Names,       \* the tables clients name, as pairs <<database, table>>
  Cols,        \* the columns a table may have INDEXED
  Keys,        \* the keys of rows
  Corrupt,     \* content of an .idx file that cannot be read
  MaxPages,    \* bound on the pages of a row file
  MaxFaults,   \* bound on the calls that throw
  MaxCrashes   \* bound on the deaths of the process

Dbs == {n[1] : n \in Names}
TablesOf(d) == {n \in Names : n[1] = d}

ASSUME DdlAssumption ==
  /\ \A n \in Names : n = <<n[1], n[2]>>
  /\ \A S \in SUBSET Keys : S # Corrupt
  /\ MaxPages \in Nat /\ MaxFaults \in Nat /\ MaxCrashes \in Nat

VARIABLES
  catalog,   \* Catalog::_dbs: the databases, and the INDEXED columns of each table
  saved,     \* catalog.json
  dirs,      \* the databases that have a directory
  files,     \* row file -> its pages, each the set of its rows
  pagers,    \* row file -> the Pager that holds it open
  open,      \* IndexManager::_indexes: keys and dirty mark of each index
  idxFiles,  \* .idx file -> its keys, or Corrupt
  pc,        \* the next call of the running statement
  arg,       \* the database or table it names
  faults,    \* number of calls that threw
  crashes,   \* number of deaths
  acked,     \* history: tables that exist, going by the replies to clients
  rows,      \* history: rows inserted into each table since its creation
  limbo,     \* history: tables whose last CREATE or DROP was cut short
  tainted,   \* history: indexes that began with or lost keys
  used       \* history: databases this process has opened by USE

names == <<catalog, saved>>
stored == <<dirs, files, pagers>>
indexes == <<open, idxFiles>>
bounds == <<faults, crashes>>
history == <<acked, rows, limbo, tainted, used>>
vars == <<names, stored, indexes, pc, arg, bounds, history>>

Put(f, x, v) == [y \in DOMAIN f \cup {x} |-> IF y = x THEN v ELSE f[y]]
Drop(f, S) == Restrict(f, DOMAIN f \ S)

-----------------------------------------------------------------------------
(* The catalog *)

\* Mutant: the tables of the database keep their entries.
WithoutDbKeepsTables(d) == [catalog EXCEPT !.dbs = @ \ {d}]

WithDb(d) == [catalog EXCEPT !.dbs = @ \cup {d}]
WithoutDb(d) == [dbs |-> catalog.dbs \ {d}, tables |-> Drop(catalog.tables, TablesOf(d))]
WithTable(n, cols) == [catalog EXCEPT !.tables = Put(@, n, cols)]
WithoutTable(n) == [catalog EXCEPT !.tables = Drop(@, {n})]

End == pc' = "idle" /\ arg' = << >>

\* A call is made that throws instead of doing its work.
Fault == faults < MaxFaults /\ faults' = faults + 1 /\ UNCHANGED crashes

\* Mutant: the temporary file is not renamed.
SaveNotRenamed(new, next, x) ==
  /\ catalog' = new /\ UNCHANGED saved
  /\ pc' = next /\ arg' = x
  /\ UNCHANGED bounds

\* Catalog's operations change memory first and then save(), which writes a
\* temporary file and renames it.  When save() throws, memory stays changed.
Save(new, next, x) ==
  /\ catalog' = new /\ saved' = new
  /\ pc' = next /\ arg' = x
  /\ UNCHANGED bounds

SaveThrows(new) ==
  /\ catalog' = new /\ UNCHANGED saved
  /\ End
  /\ Fault

Doubt(S) == limbo' = limbo \cup S /\ UNCHANGED <<acked, rows, tainted, used>>

-----------------------------------------------------------------------------
(* Indexes *)

makeKey(n, c) == <<n, c>>

IndexesOf(n, cols) == {makeKey(n, c) : c \in cols}

Load(x) == IF x \in DOMAIN idxFiles THEN [keys |-> idxFiles[x], dirty |-> FALSE]
                                    ELSE [keys |-> {}, dirty |-> TRUE]
Unreadable(S) == {x \in S \ DOMAIN open : x \in DOMAIN idxFiles /\ idxFiles[x] = Corrupt}

\* IndexManager::create on each index of S: one that is open stays as it is.
Opened(S) == [x \in DOMAIN open \cup S |-> IF x \in DOMAIN open THEN open[x] ELSE Load(x)]

\* The .idx files once the stores of S are destroyed.
Dirty == {x \in DOMAIN open : open[x].dirty}
Flushed(S) == [x \in DOMAIN idxFiles \cup (S \cap Dirty) |->
                 IF x \in S \cap Dirty THEN open[x].keys ELSE idxFiles[x]]

\* What is left in the file of an index when its flush fails, or the process
\* dies in it: the keys it had, if it could not be opened; something that is
\* cut off; or the nodes before a cut, with some of the keys.
Torn(x) == {Corrupt} \cup SUBSET open[x].keys
                     \cup {idxFiles[y] : y \in {x} \cap DOMAIN idxFiles}

\* The stores of S are destroyed, and the flushes of X, of which the
\* destructor tells nobody, have failed.  An empty file is one that is gone:
\* it loads like a missing one.
CloseStores(S, X) ==
  \E gone \in SUBSET X :
    \E torn \in [X \ gone -> {Corrupt} \cup SUBSET Keys] :
      /\ \A x \in X \ gone : torn[x] \in Torn(x)
      /\ idxFiles' = [x \in (DOMAIN Flushed(S) \cup X) \ gone |->
                        IF x \in X THEN torn[x] ELSE Flushed(S)[x]]

\* The same in a process that goes on, or exits.
Close(S) ==
  \E X \in SUBSET (S \cap Dirty) :
    /\ CloseStores(S, X)
    /\ tainted' = tainted \cup X
    /\ IF X = {} THEN UNCHANGED bounds ELSE Fault

-----------------------------------------------------------------------------
Init ==
  /\ catalog = [dbs |-> {}, tables |-> << >>] /\ saved = catalog
  /\ dirs = {} /\ files = << >> /\ pagers = << >>
  /\ open = << >> /\ idxFiles = << >>
  /\ pc = "idle" /\ arg = << >>
  /\ faults = 0 /\ crashes = 0
  /\ acked = {} /\ rows = [n \in Names |-> {}]
  /\ limbo = {} /\ tainted = {} /\ used = {}

(* CREATE DATABASE *)

CreateDatabase(d) ==
  /\ pc = "idle" /\ d \notin catalog.dbs
  /\ Save(WithDb(d), "mkdir", d) \/ SaveThrows(WithDb(d))
  /\ UNCHANGED <<stored, indexes, history>>

MakeDirectory ==
  /\ pc = "mkdir"
  /\ dirs' = dirs \cup {arg}
  /\ End
  /\ UNCHANGED <<names, files, pagers, indexes, bounds, history>>

\* The catalog entry is taken back, which saves again.
MakeDirectoryThrows ==
  /\ pc = "mkdir" /\ Fault
  /\ catalog' = WithoutDb(arg)
  /\ saved' \in {saved, catalog'}
  /\ End
  /\ UNCHANGED <<stored, indexes, history>>

(* DROP DATABASE *)

DropDatabase(d) ==
  /\ pc = "idle" /\ d \in catalog.dbs
  /\ \/ Save(WithoutDb(d), "rmdir", d) /\ UNCHANGED history
     \/ SaveThrows(WithoutDb(d)) /\ Doubt(TablesOf(d))
  /\ UNCHANGED <<stored, indexes>>

\* The indexes of its tables stay open.
RemoveDirectory ==
  /\ pc = "rmdir"
  /\ pagers' = Drop(pagers, TablesOf(arg))
  /\ files' = Drop(files, TablesOf(arg))
  /\ dirs' = dirs \ {arg}
  /\ End
  /\ acked' = acked \ TablesOf(arg) /\ limbo' = limbo \ TablesOf(arg)
  /\ UNCHANGED <<names, indexes, bounds, rows, tainted, used>>

\* remove_all throws after it removed some of the files.
RemoveDirectoryThrows ==
  /\ pc = "rmdir" /\ Fault
  /\ pagers' = Drop(pagers, TablesOf(arg))
  /\ \E S \in SUBSET TablesOf(arg) : files' = Drop(files, S)
  /\ End
  /\ Doubt(TablesOf(arg))
  /\ UNCHANGED <<names, dirs, indexes>>

-----------------------------------------------------------------------------
(* USE opens the index of every INDEXED column of the database.  One that *)
(* cannot be read ends the statement, whatever was opened before it.      *)

Use(d) ==
  /\ pc = "idle" /\ d \in catalog.dbs
  /\ LET S == UNION {IndexesOf(n, catalog.tables[n]) :
                       n \in TablesOf(d) \cap DOMAIN catalog.tables}
     IN \/ /\ Unreadable(S) = {}
           /\ open' = Opened(S)
           /\ used' = used \cup {d}
        \/ /\ Unreadable(S) # {}
           /\ \E T \in SUBSET (S \ Unreadable(S)) : open' = Opened(T)
           /\ UNCHANGED used
  /\ UNCHANGED <<names, stored, idxFiles, pc, arg, bounds, acked, rows, limbo, tainted>>

-----------------------------------------------------------------------------
(* CREATE TABLE *)

CreateTable(n, cols) ==
  /\ pc = "idle"
  /\ n[1] \in catalog.dbs /\ n \notin DOMAIN catalog.tables
  /\ \/ Save(WithTable(n, cols), "mktable", n) /\ UNCHANGED history
     \/ SaveThrows(WithTable(n, cols)) /\ Doubt({n})
  /\ UNCHANGED <<stored, indexes>>

NewIndexes == IndexesOf(arg, catalog.tables[arg])

\* The reply is "created".  An index that was open or had a file begins
\* with what it held.  A Pager left over keeps the table in doubt.
Created ==
  /\ acked' = acked \cup {arg}
  /\ rows' = [rows EXCEPT ![arg] = {}]
  /\ limbo' = IF arg \in DOMAIN pagers THEN limbo \cup {arg} ELSE limbo \ {arg}
  /\ tainted' = (tainted \ NewIndexes)
                  \cup (NewIndexes \cap (DOMAIN open \cup DOMAIN idxFiles))
  /\ UNCHANGED used

\* Mutant: the file is opened for appending.
MakeTableAppends ==
  /\ pc = "mktable" /\ arg[1] \in dirs
  /\ Unreadable(NewIndexes) = {}
  /\ files' = Put(files, arg, IF arg \in DOMAIN files THEN files[arg] ELSE << >>)
  /\ open' = Opened(NewIndexes)
  /\ End /\ Created
  /\ UNCHANGED <<names, dirs, pagers, idxFiles, bounds>>

\* Mutant: the indexes are left for USE to open.
MakeTableNoIndexes ==
  /\ pc = "mktable" /\ arg[1] \in dirs
  /\ Unreadable(NewIndexes) = {}
  /\ files' = Put(files, arg, << >>)
  /\ End /\ Created
  /\ UNCHANGED <<names, dirs, pagers, indexes, bounds>>

\* An existing file is truncated.
MakeTable ==
  /\ pc = "mktable" /\ arg[1] \in dirs
  /\ Unreadable(NewIndexes) = {}
  /\ files' = Put(files, arg, << >>)
  /\ open' = Opened(NewIndexes)
  /\ End /\ Created
  /\ UNCHANGED <<names, dirs, pagers, idxFiles, bounds>>

\* Mutant: the catalog entry stays.
TakeBackNothing ==
  /\ End
  /\ UNCHANGED <<names, bounds, history>>

\* Taking back the catalog entry saves again, which may throw as well.
TakeBack ==
  /\ catalog' = WithoutTable(arg)
  /\ End
  /\ \/ saved' = catalog' /\ UNCHANGED <<bounds, history>>
     \/ UNCHANGED saved /\ Fault /\ Doubt({arg})

\* The directory is missing; the file cannot be opened, and the save that
\* takes the entry back may fail for the same reason; or the file is there and
\* an index cannot be read.
MakeTableThrows ==
  /\ pc = "mktable"
  /\ \/ /\ arg[1] \notin dirs
        /\ UNCHANGED <<files, open>>
        /\ TakeBack
     \/ /\ arg[1] \in dirs /\ Fault
        /\ UNCHANGED <<files, open>>
        /\ catalog' = WithoutTable(arg) /\ End
        /\ \/ saved' = catalog' /\ UNCHANGED history
           \/ UNCHANGED saved /\ Doubt({arg})
     \/ /\ arg[1] \in dirs /\ Unreadable(NewIndexes) # {}
        /\ files' = Put(files, arg, << >>)
        /\ \E T \in SUBSET (NewIndexes \ Unreadable(NewIndexes)) : open' = Opened(T)
        /\ TakeBack
  /\ UNCHANGED <<dirs, pagers, idxFiles>>

-----------------------------------------------------------------------------
(* DROP TABLE: closing an index writes its file, which nobody removes. *)

DropIndexes(n) ==
  /\ pc = "idle" /\ n \in DOMAIN catalog.tables
  /\ LET S == IndexesOf(n, catalog.tables[n])
     IN  /\ Close(S)
         /\ open' = Drop(open, S)
  /\ pc' = "dropEntry" /\ arg' = n
  /\ UNCHANGED <<names, stored, acked, rows, limbo, used>>

DropEntry ==
  /\ pc = "dropEntry"
  /\ \/ Save(WithoutTable(arg), "rmfile", arg) /\ UNCHANGED history
     \/ SaveThrows(WithoutTable(arg)) /\ Doubt({arg})
  /\ UNCHANGED <<stored, indexes>>

RemoveFile ==
  /\ pc = "rmfile"
  /\ pagers' = Drop(pagers, {arg}) /\ files' = Drop(files, {arg})
  /\ End
  /\ acked' = acked \ {arg} /\ limbo' = limbo \ {arg}
  /\ UNCHANGED <<names, dirs, indexes, bounds, rows, tainted, used>>

RemoveFileThrows ==
  /\ pc = "rmfile" /\ Fault
  /\ pagers' = Drop(pagers, {arg})
  /\ End
  /\ Doubt({arg})
  /\ UNCHANGED <<names, dirs, files, indexes>>

-----------------------------------------------------------------------------
(* Rows.  A Pager reads a page once and keeps it; the number of pages is   *)
(* the size of the file, the number of the next page its own counter.      *)

File(n) == IF n \in DOMAIN files THEN files[n] ELSE << >>
getPager(n) ==
  IF n \in DOMAIN pagers THEN pagers[n]
  ELSE [next |-> Len(File(n)) + 1, cache |-> << >>]
fetch_page(n, p) == IF p \in DOMAIN getPager(n).cache THEN getPager(n).cache[p]
                                                      ELSE File(n)[p]
scan(n) == UNION {fetch_page(n, p) : p \in 1 .. Len(File(n))}

Refused(n, k) ==
  \E x \in IndexesOf(n, catalog.tables[n]) \cap DOMAIN open : k \in open[x].keys

\* Storage::write: on the last page, or on a new one in an empty file,
\* which leaves zeros below it if the counter is ahead.
Written(n, k) ==
  LET target == IF File(n) = << >> THEN getPager(n).next ELSE Len(File(n))
  IN  [page |-> target,
       rows |-> {k} \cup IF File(n) = << >> THEN {} ELSE fetch_page(n, target)]
WrittenFile(n, w) ==
  [p \in 1 .. w.page |-> IF p = w.page THEN w.rows
                         ELSE IF p <= Len(File(n)) THEN File(n)[p] ELSE {}]

Insert(n, k) ==
  /\ pc = "idle" /\ n \in DOMAIN catalog.tables /\ n[1] \in dirs
  /\ ~Refused(n, k)
  /\ LET w == Written(n, k)
         S == IndexesOf(n, catalog.tables[n])
     IN  /\ w.page <= MaxPages
         /\ files' = Put(files, n, WrittenFile(n, w))
         /\ pagers' = Put(pagers, n,
              [next |-> IF File(n) = << >> THEN w.page + 1 ELSE getPager(n).next,
               cache |-> Put(getPager(n).cache, w.page, w.rows)])
         /\ open' = [x \in DOMAIN open |->
              IF x \in S THEN [keys |-> open[x].keys \cup {k}, dirty |-> TRUE] ELSE open[x]]
         /\ tainted' = tainted \cup (S \ DOMAIN open)
  /\ rows' = [rows EXCEPT ![n] = @ \cup {k}]
  /\ UNCHANGED <<names, dirs, idxFiles, pc, arg, bounds, acked, limbo, used>>

\* A scan leaves the pages in the cache, and a file where there was none.
Select(n) ==
  /\ pc = "idle" /\ n \in DOMAIN catalog.tables /\ n[1] \in dirs
  /\ files' = Put(files, n, File(n))
  /\ pagers' = Put(pagers, n,
       [next |-> getPager(n).next,
        cache |-> [p \in DOMAIN getPager(n).cache \cup 1 .. Len(File(n)) |->
                     fetch_page(n, p)]])
  /\ UNCHANGED <<names, dirs, indexes, pc, arg, bounds, history>>

-----------------------------------------------------------------------------
(* The end of the process, and the next one.  load() knows a database only *)
(* by its tables.                                                          *)

Restart ==
  /\ catalog' = [dbs |-> {n[1] : n \in DOMAIN saved.tables}, tables |-> saved.tables]
  /\ pagers' = << >> /\ open' = << >>
  /\ End
  /\ used' = {}
  /\ UNCHANGED <<saved, dirs, acked, rows>>

\* Mutant: the destructors of the indexes write nothing.
ExitNoFlush ==
  /\ pc = "idle"
  /\ Restart
  /\ UNCHANGED <<idxFiles, files, bounds, limbo, tainted>>

Exit ==
  /\ pc = "idle"
  /\ Close(DOMAIN open)
  /\ Restart
  /\ UNCHANGED <<files, limbo>>

\* What the statement was about when the process dies.
Unfinished ==
  CASE pc \in {"mktable", "rmfile"} -> {arg}
    [] pc = "rmdir" -> TablesOf(arg)
    [] OTHER -> {}

Die == crashes < MaxCrashes /\ crashes' = crashes + 1 /\ UNCHANGED faults

\* Death inside remove_all leaves some of the files.
Crash ==
  /\ Die
  /\ \E S \in SUBSET (IF pc = "rmdir" THEN TablesOf(arg) ELSE {}) : files' = Drop(files, S)
  /\ limbo' = limbo \cup Unfinished
  /\ tainted' = tainted \cup Dirty
  /\ Restart
  /\ UNCHANGED idxFiles

\* Death among the flushes of an exit or of DROP TABLE: those of S are
\* written, that of x was being written, the others not begun.
CrashInFlush ==
  /\ pc = "idle" /\ Die
  /\ \E S \in SUBSET Dirty :
       \E x \in Dirty \ S :
         /\ CloseStores(S \cup {x}, {x})
         /\ tainted' = tainted \cup (Dirty \ S)
  /\ Restart
  /\ UNCHANGED <<files, limbo>>

-----------------------------------------------------------------------------
Next ==
  \/ \E d \in Dbs : CreateDatabase(d) \/ DropDatabase(d) \/ Use(d)
  \/ MakeDirectory \/ MakeDirectoryThrows
  \/ RemoveDirectory \/ RemoveDirectoryThrows
  \/ \E n \in Names :
       \/ \E cols \in SUBSET Cols : CreateTable(n, cols)
       \/ DropIndexes(n)
       \/ \E k \in Keys : Insert(n, k)
       \/ Select(n)
  \/ MakeTable \/ MakeTableThrows
  \/ DropEntry \/ RemoveFile \/ RemoveFileThrows
  \/ Exit \/ Crash \/ CrashInFlush

Spec == Init /\ [][Next]_vars

-----------------------------------------------------------------------------
(* Properties.  Most are about tables whose last CREATE or DROP was not    *)
(* cut short; `limbo' says of which tables a client cannot know.           *)

Idle == pc = "idle"
Certain == DOMAIN catalog.tables \ limbo

\* Every variable has the type of the declaration it models; a table in the
\* catalog, or in its file, is in a database that is there too.
TypeOK ==
  /\ \A c \in {catalog, saved} :
       /\ c.dbs \subseteq Dbs
       /\ DOMAIN c.tables \subseteq Names
       /\ \A n \in DOMAIN c.tables : n[1] \in c.dbs /\ c.tables[n] \subseteq Cols
  /\ dirs \subseteq Dbs
  /\ DOMAIN files \subseteq {n \in Names : n[1] \in dirs}
  /\ \A n \in DOMAIN files : files[n] \in Seq(SUBSET Keys)
  /\ DOMAIN pagers \subseteq DOMAIN files
  /\ \A n \in DOMAIN pagers : pagers[n].next \in Nat \ {0}
  /\ DOMAIN open \subseteq Names \X Cols
  /\ \A x \in DOMAIN open : open[x].keys \subseteq Keys /\ open[x].dirty \in BOOLEAN
  /\ DOMAIN idxFiles \subseteq Names \X Cols
  /\ \A x \in DOMAIN idxFiles : idxFiles[x] = Corrupt \/ idxFiles[x] \subseteq Keys
  /\ pc \in {"idle", "mkdir", "rmdir", "mktable", "dropEntry", "rmfile"}

\* Replies are kept: a table whose CREATE was answered with "created" is in
\* memory and in catalog.json, and in the next process, until its DROP is;
\* a CREATE that was refused or taken back leaves nothing in either.
RepliesAreKept ==
  Idle => \A n \in Names \ limbo :
            /\ n \in acked <=> n \in DOMAIN catalog.tables
            /\ n \in acked <=> n \in DOMAIN saved.tables

\* What the comments in visit(CreateDatabaseStmt&) and
\* visit(CreateTableStmt&) ask for: the catalog names no table without its
\* file and directory, whatever failed or died elsewhere.
CatalogBacked ==
  Idle => \A n \in Certain : n \in DOMAIN files /\ n[1] \in dirs

\* A scan returns the rows inserted since the table was created, through
\* Pagers that stay open, exits, crashes, and tables of the same name that
\* were dropped, completely or not, before.
RowsKept == Idle => \A n \in Certain : scan(n) = rows[n]

\* An open index holds the keys of its table, unless it began with the keys
\* of a former table, missed rows while it was closed, or lost its flush.
IndexOfItsTable ==
  Idle => \A n \in Certain : \A x \in IndexesOf(n, catalog.tables[n]) :
            x \in DOMAIN open \ tainted => open[x].keys = rows[n]

\* Once USE has opened a database no index of it is missing, whatever is
\* created, dropped and created again: INSERT checks uniqueness in all.
OpenAfterUse ==
  Idle => \A n \in Certain :
            n[1] \in used => IndexesOf(n, catalog.tables[n]) \subseteq DOMAIN open

\* What README.md:13 says of INDEXED, that it refuses duplicates: a table
\* into which nothing was inserted has no keys, if nothing ever failed.
EmptyTableHasNoKeys ==
  Idle /\ faults = 0 /\ crashes = 0 =>
    \A n \in DOMAIN catalog.tables : \A x \in IndexesOf(n, catalog.tables[n]) :
      x \in DOMAIN open /\ rows[n] = {} => open[x].keys = {}

-----------------------------------------------------------------------------
(* The strengthening from which the proofs derive the invariants *)

Catalogs ==
  {c \in [dbs : SUBSET Dbs, tables : UNION {[S -> SUBSET Cols] : S \in SUBSET Names}] :
     \A n \in DOMAIN c.tables : n[1] \in c.dbs}

NamesSound == catalog \in Catalogs /\ saved \in Catalogs

StoredSound ==
  /\ dirs \subseteq Dbs
  /\ DOMAIN files \subseteq {n \in Names : n[1] \in dirs}
  /\ \A n \in DOMAIN files : files[n] \in Seq(SUBSET Keys)
  /\ DOMAIN pagers \subseteq DOMAIN files
  /\ \A n \in DOMAIN pagers :
       /\ pagers[n].next \in Nat \ {0}
       /\ \A p \in DOMAIN pagers[n].cache : pagers[n].cache[p] \subseteq Keys

\* An open index that is not dirty has its keys in its file.
IndexesSound ==
  /\ DOMAIN open \subseteq Names \X Cols /\ DOMAIN idxFiles \subseteq Names \X Cols
  /\ \A x \in DOMAIN open :
       /\ open[x].keys \subseteq Keys /\ open[x].dirty \in BOOLEAN
       /\ ~open[x].dirty => x \in DOMAIN idxFiles /\ idxFiles[x] = open[x].keys
  /\ \A x \in DOMAIN idxFiles : idxFiles[x] = Corrupt \/ idxFiles[x] \subseteq Keys

\* What the call that comes next relies on: the catalog has been saved, and
\* the table or database it names is already, or no longer, in it.
StatementSound ==
  /\ pc \in {"idle", "mkdir", "rmdir", "mktable", "dropEntry", "rmfile"}
  /\ pc \in {"mkdir", "rmdir", "mktable", "rmfile"} => saved = catalog
  /\ pc \in {"mkdir", "rmdir"} => arg \in Dbs /\ TablesOf(arg) \cap DOMAIN catalog.tables = {}
  /\ pc = "mktable" => arg \in DOMAIN catalog.tables /\ (arg \in acked => arg \in limbo)
  /\ pc = "dropEntry" => arg \in DOMAIN catalog.tables
  /\ pc = "rmfile" => arg \in Names \ DOMAIN catalog.tables

\* Memory and catalog.json agree on every table that is certain, and so do
\* the replies, but for the tables of the running statement.
RepliesSound ==
  \A n \in Names \ limbo :
    /\ n \in DOMAIN saved.tables <=> n \in DOMAIN catalog.tables
    /\ n \in DOMAIN catalog.tables => saved.tables[n] = catalog.tables[n]
    /\ n \in Unfinished \/ (n \in acked <=> n \in DOMAIN catalog.tables)

\* The tables whose files the catalog vouches for.
Settled == Certain \ (IF pc = "mktable" THEN {arg} ELSE {})

\* The file of a settled table holds its rows, and a Pager has nothing else.
RowsSound ==
  /\ rows \in [Names -> SUBSET Keys]
  /\ \A n \in Settled :
       /\ n \in DOMAIN files
       /\ UNION {files[n][p] : p \in DOMAIN files[n]} = rows[n]
       /\ n \in DOMAIN pagers =>
            \A p \in DOMAIN pagers[n].cache :
              p \in DOMAIN files[n] /\ pagers[n].cache[p] = files[n][p]

\* What an index holds, or would hold if it were opened now.
KeysOf(x) == IF x \in DOMAIN open THEN open[x].keys
             ELSE IF x \in DOMAIN idxFiles THEN idxFiles[x] ELSE {}

KeysSound ==
  \A n \in Settled : \A x \in IndexesOf(n, catalog.tables[n]) \ tainted : KeysOf(x) = rows[n]

\* The indexes of a table being dropped are closed first.
Closing == IF pc = "dropEntry" THEN {arg} ELSE {}

UseSound ==
  \A n \in Settled \ Closing :
    n[1] \in used => IndexesOf(n, catalog.tables[n]) \subseteq DOMAIN open

Sound ==
  /\ NamesSound /\ StoredSound /\ IndexesSound
  /\ StatementSound /\ RepliesSound
  /\ RowsSound /\ KeysSound /\ UseSound
=============================================================================
