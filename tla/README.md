# mini-db in TLA+

Formal models of mini-db, a small SQL engine in C++20 (one process, one thread,
data under `./data`), with the TLC configurations that check them and the
theorems proved about them with TLAPS. Paths of the form `src/src/...` are those
of the repository.

Contents: [the system](#the-system), [the modules](#the-modules),
[the runs](#the-runs), [what the runs found](#what-the-runs-found),
[the proofs](#the-proofs), [what is only model-checked](#what-is-only-model-checked),
[what is not modelled](#what-is-not-modelled), [the plan](#the-plan).

## The system

A line of input goes through these parts, by nested calls in a single thread:

    main/runStream -> Lexer -> Parser -> Executor -> Catalog
                                              |----> Storage -> Pager -> DiskManager
                                              |----> IndexManager -> BTree -> NodeStore
                                              `----> Logger, Metrics

There are no locks, callbacks or messages to interleave. What makes the program
hard is that a statement is a *sequence* of changes to four places (the row
file, the indexes in memory, the `.idx` files, the catalog) that an exception or
the death of the process can cut anywhere, and that the places are saved at
different times: rows and catalog at once, indexes only by a destructor.

| Component | State | Operations | Hard behaviour | What makes it correct |
|---|---|---|---|---|
| Query stream (`main.cpp`) | text buffer | read a line, cut statements at `;`, run them, report what is left | a `;` inside a string or comment that is not complete yet; recovery after a lexical error; end of input | every statement is run once, in order, wherever lines are broken |
| Lexer, Parser, AST (`parser/`) | none across statements | text to tokens to a tree; types of DEFAULT values checked | unclosed strings | the tree says what the text says |
| Executor (`execution/executor.cpp`) | current database; per statement: scan, row at hand, place in the loops over rows and columns | DDL, USE, INSERT, UPDATE, DELETE, SELECT | one row of several fails; the scan is taken before the changes; row and index change in separate calls | indexes and rows agree; INDEXED columns are unique; a failing statement leaves a prefix of its work and loses no row |
| Expressions (`evalExpr`) | none | comparisons, BETWEEN, LIKE, AND, OR on null, int, string | null; mixed types throw; integer range | agrees with SQL's reading of the condition |
| Catalog (`catalog/catalog.h`) | databases, tables, columns, in memory and in `catalog.json` | create, drop, look up, load, save (by rename) | save fails after memory changed; executor's compensation | memory and file agree; every table of the catalog has its file |
| Storage (`storage/storage.cpp`) | one Pager per open table | write, read, scan, remove, update, and the directories of databases and tables | a row too large is noticed after pages were taken | a row written is read back until it is removed, also by the next process |
| Pager, DiskManager, Page (`storage/`) | page cache, next page number, dirty marks, the file | fetch, new, flush, add_row, mark deleted | 16-bit space arithmetic; page numbers beyond the end of the file; holes | rows and slot array do not meet; cache and file agree |
| IndexManager (`index/index_manager.cpp`) | open indexes by `db.table.column` | create (opens or makes), drop, insert, erase, find | an index that is not open answers "not found" | the index of a column is that of its table |
| NodeStore (`index/node_store.h`) | nodes, root, dirty mark, `.idx` file | load, alloc, release, flush in the destructor | death before or inside the flush | a loaded index is one that was saved |
| BTree (`index/btree_*.cpp`) | the nodes of a store | insert, erase, find, scanRange, and the splits, borrowings and merges they need | boundaries of 2-to-3 splits, cascades to the root, the chain of leaves | it is a map from keys to RowIds, ordered and balanced |
| Metrics (`core/metrics.cpp`) | windows of request records | record, and five read-outs | windows trimmed by some calls only | a read-out counts what its window says |
| Serializer, Logger, StringPool, console | (log file, interned strings) | encode, decode, append, intern | none across calls | decode undoes encode |

How they interact. The Executor owns the order of all changes. For each row,
INSERT checks every column (asking the IndexManager for INDEXED ones), calls
`Storage::write`, which flushes the page, and only then inserts the keys.
UPDATE scans the table first; for each selected row it checks the new keys,
erases the old ones, calls `Storage::update` (remove, then write: the row gets a
new RowId), and inserts the new ones. DELETE erases the keys, then removes the
row. SELECT with `column = literal` on an INDEXED column asks the index for a
RowId and scans when the index, or the slot it names, has nothing. USE opens the
indexes of a database from their files.

The hazards of this code, each at its line and with the properties that watch
it, are listed under `hazards` in PROJECT.json.

## The modules

| Module | What it is |
|---|---|
| `TableEngine` | INSERT, UPDATE, DELETE, SELECT by index, USE, exit, crash and restart, on one table with its row file and its indexes |
| `UniqueTable` | abstract: a set of rows with unique columns, changed a row at a time |
| `TableEngineProofs`, `TableFileProofs`, `DdlProofs`, `QueryStreamProofs` | the theorems about the module of that name |
| `BTree` | the B\*-tree of one index, one action per call |
| `SequenceLemmas` | lemmas about sequences and recursive functions |
| `BTreeProofs` | the shape of `BTree`: trees; what each rebalancing function does to the tree; the actions, and the theorems |
| `SearchTrees`, `BTreeOrder` | the order of `BTree`: search trees cut in two and put together; that all actions are such changes; range scans; the theorems |
| `IndexMap` | abstract: a map from keys to RowIds |
| `TableFile` | Storage, Pager, DiskManager and pages of one table's file |
| `SlotLog` | abstract: a growing log of slots that are only ever deleted |
| `Ddl` | databases and tables: catalog and its file, directories, row files and their open Pagers, indexes and their files; CREATE, DROP, USE, with a failure or a death between any two steps |
| `QueryStream` | lines of input, the buffer, `findSemicolon` and the Lexer's scanning; script and terminal |
| `Where` | conditions: the Parser's expressions and their evaluation on a row |
| `MCTableEngine`, `MCBTree`, `MCTableFile`, `MCDdl`, `MCQueryStream`, `MCWhere` | instances for TLC |

### TableEngine

One table from CREATE TABLE on. `heap` is the row file as the sequence of its
slots: a slot is never reused, so a RowId is a position. That this is what
Storage provides is checked by `TableFile`. `idx[c]` is the index of column `c`
in memory, `disk[c]` its file, `open` says which the IndexManager holds, `dirty`
is `DiskNodeStore::_dirty`. `pc`, `work`, `pos`, `cur`, `set` and `col` are the
locals of the running `visit(...)`.

Every call that changes state is one action: `WriteRow` is `Storage::write` with
its flush, `EraseKey` and `InsertKey` are one turn of the loops over the columns,
`RemoveRow` is `Storage::remove`. The checks made before a row is written change
nothing and are one action (`InsertAccept`/`InsertReject`,
`UpdateAccept`/`UpdateReject`). An exception is `Fail`: the statement ends and
nothing is undone, since nothing is in the code. `WhereThrows` and `SkipRow`
leave open what WHERE says of a row.

`Exit` and `ExitFlush` are the destructors at the end of `main`, in any order
because `_indexes` is a hash table. `Crash` is the death of the *process* at any
moment: what was flushed stays. `CrashInFlush` is death inside `_flush`, after
the file was truncated; the file is then empty (`absent`: loads as a new tree),
cut inside a node (`corrupt`: loading throws) or cut between two nodes: it loads
as a tree that lacks the rest, and `missing[c]` are the values whose lookup meets
a node that is not there and throws (all of them, if the root is missing). Nodes
are written in the order of a hash table, so which are missing is open (`Cuts`
bounds the choices). Such a tree can still be changed, and an exception in the
middle of a split or merge loses entries (`RebalanceThrows`); it is written back
as it is.

`intact` and `behind` are history variables that no guard reads. `intact` turns
false when a row changes while an index is closed, or when the process dies
while some `.idx` file is older than the rows; after that the program itself
cannot tell that its indexes are wrong. Most properties are stated "while
intact" and say exactly what else could separate the two: nothing.

Taken as given: the index of a column is an exact map. `BTree` shows how far this
is true: until a leaf splits with its *left* sibling, the first time about two
hundred keys into an ascending load (a node holds 100).

### BTree

`nodes` is the store; `call` is the call `insert` or `erase` has still to make
(`redistributeOrSplitLeaf`, `redistributeOrSplitInternal`, `fixUnderflow`), so
each action is the body of one of them and a cascade is a sequence of actions.
Keys are integers: `compareValues` orders values of one column totally, and only
the order matters to the tree.

`harm` remembers what has gone wrong, since each property of a B-tree holds in
this code only until something does:

- *misplaced*: `LeafSplitsLeft` or `InnerSplitsLeft` put a subtree where lookups
  miss it (`sound` means not yet). The properties of the map, and the chain of
  leaves, are stated up to that call.
- *orphaned*: a split of internal nodes tells only the children of the middle node
  of their new parent. A node that `InnerTakesLeft` or `InnerTakesRight` let grow
  to more than twice its size also hands children to its sibling (`HandsOver`),
  and these go on naming the node they left.
- *stuck*: `insert` or `erase` ended with an exception while a node was too large
  or too small (`SplitsWithNobody`, `ParentUnaware`); the key stays inserted or
  erased. Nothing bounds the leaf after that, so `LeafSizes` is stated up to it.
- *outside* (`ub`): the code read outside a vector; the model stops.

A freed node number can be given out again in the model and not in the code,
which keeps the state space finite. The two can differ only through a reference
to a freed node, and `PointersAgree` says there is none before a subtree is
misplaced or a child orphaned.

### TableFile

Pages have a slot array growing from the front and rows growing from the back;
`add_row` computes in 16-bit arithmetic and so does the model, for rows of every
size (nothing in lexer, parser or serializer bounds the length of a string). A row that does
not fit an empty page is refused after one or two page numbers were taken. Those
pages stay in the cache, and a later page is written beyond the end of the file:
the file then has a page of zeros (`Hole`), on which the free space computes to
a huge number. `Storage::write` only ever tries the *last* page, and
`OnlyHugeHarmed` shows that this is never a hole. The number of the next page is
taken from the file's size when the table is opened, from a counter after that.

Rows are opaque values with a size; `Prefix` says what the cast to `uint16_t` in
`Storage::write` leaves of one. What happens to a row depends on its size:

- 65533 bytes or fewer: refused, or stored whole inside its page;
- 65534 or 65535 bytes: `data_needed` wraps to 0 or 1, any page has room, and the
  row is copied past the end of it (`WriteWild`);
- 65536 bytes or more: what is left after the cast is treated as above, so most
  are stored cut off and reported as written; `decodeRow` then throws on them, at
  each scan, or finds fewer values.

`mangled` collects the rows of the last two kinds that were taken, `ub` says that
one was copied outside; after that the process may do anything, and the model
makes no further call, so nothing is claimed of the file from there on.
`OnlyHugeHarmed` says that no row of the first kind is ever among them, in spite
of holes, and that a copy outside needs a row of the second kind (or a longer one
of which that much is left).

### Ddl

`catalog` is `Catalog::_dbs`, `saved` is `catalog.json`; `dirs` and `files` are
what is under `data`, `pagers` the files Storage holds open with the pages it has
cached, `open` the indexes in memory and `idxFiles` their files. A CREATE or DROP
is a sequence of actions, one per call of the Executor into Catalog, Storage or
IndexManager; `pc` names the next. Each call may throw (`Fault`), with what the
code does then: the catalog's maps are already changed when `save()` throws;
CREATE takes its catalog entry back, which saves again and may throw again; DROP
takes nothing back; `remove_all` may have removed some files; the flush of an
index that is dropped, or closed at the exit, may fail, which its destructor
tells nobody (`Close`), and leaves a file that is gone, cut off or whole but old.
The process may die before any step, and inside a flush of indexes. `Restart` is `load()`, which
knows a database only by its tables.

Abstracted: `db.table` and a name in the database in use are the same (the
current database only fills in a name); a statement that its first check refuses
is no step, since it changes nothing; INSERT is one action (`TableEngine` takes
it apart) and a row is its key, which it has in every INDEXED column; the rows of
a table fit one page; USE opens any part of the indexes, in any order, when one
of them cannot be read. An `.idx` file that ends between two nodes has some of
its keys; that looking for one of the others throws is only in `TableEngine`. A
database called `indexes` is left out: its directory is that
of the `.idx` files.

`acked`, `rows`, `limbo`, `tainted` and `used` are history. `limbo` holds the
tables whose last CREATE or DROP was cut short, of which a client cannot know
what became; `tainted` the indexes that began with the keys of another table,
missed rows while closed, or lost a flush.

### QueryStream

A line arrives (`ReadLine`), is joined to the buffer, and every query up to the
last semicolon is cut off and run; at the terminal, what is left is given to the
Lexer and discarded if that meets an error other than an open string. The two
scanners, `findSemicolon` in `main.cpp` and `tokenize` in `lexer.cpp`, are
translated apart, as they are written apart. Text is a sequence of character
classes; `OnePass`, the reference for both, is an automaton that reads a text a
character at a time. `text` and `sent` are the history it is applied to: all that
was read and not discarded, and the queries run. A token of several characters is
as many tokens here: nothing asks where a word ends.

Two things the model shows that a user may not expect: a comment behind the last
query of a script stays in the buffer and is reported as an incomplete statement;
and `exit` on a line of its own ends a terminal session even inside a string.

### Where

`tokens` is a condition written token by token. `parseExpr` and the functions it
descends into are operators with the same names that return a tree and a
position; the loops of `parseOr` and `parseAnd` are `moreOr` and `moreAnd`, the
branches of `parseComparison` are `between` and `binary`.
`OrTrees` and its companions define the grammar declaratively, by all ways to
split a sequence of tokens. `evalExpr` yields a set of outcomes because
`cmp()` subtracts ints: beyond the range the result is undefined, so both what
wrapping gives and what the mathematical difference gives are possible. `Sql` is
SQL's three-valued logic, in which BETWEEN is its two comparisons.

`SelectsLikeSql` leaves out two kinds of conditions. `a < b` with ints so far
apart that `a - b` is no int: the row selected depends on the build, and the
property fails without this exclusion. And comparisons of comparisons, which are
read differently on purpose: `(a == NULL) == 0` is true here, because a comparison
with NULL is 0, and unknown in SQL.

## The runs

| Run | Instance | Question |
|---|---|---|
| TableTwoIndexes | a unique INT and a unique STRING column with a default; 4 slots; 1 crash; cut files lack all nodes or those of one value of each column | do rows and indexes stay together through errors, USE, exit and restart; does the engine implement `UniqueTable`; does every statement end |
| BTree | 4 keys per node; 9 keys in all orders of insertion and erasure; 33 keys in five orders, erased at either end; two orders of 33 and 53 keys that do harm | is the tree an ordered map, at two and at three levels, through cascades, borrowings, splits and merges; does every call end |
| TableFile | pages of 16 bytes; rows of 2, 8 (fills a page), 9 (too large), 63 (wraps) and 66 bytes (cut off to 2), sizes of 6 bits; 5 pages | does the file implement `SlotLog` across restarts and crashes |
| Ddl | two tables of a database, one indexed column, one key, 2 pages; 1 failing call, 1 death | do catalog, files and indexes stay together when CREATE and DROP fail or die half way |
| QueryStream | texts of up to 5 characters of 6 classes, in any lines | are the queries run those of the whole text; do the two scanners agree |
| Where | 3-bit ints, two columns and an unknown one, all 49 rows; all sequences of 2 tokens, those that can be completed within 7, from 6 on with few tokens | does the parser read the grammar; does a condition select what SQL says |
| TableNotNull, TableCrash, TableNoUse | a unique INT and a NOT_NULL STRING column | see the findings |
| BTreeOrdered, BTreeCapacity | as BTree | see the findings |
| DdlReuse | as Ddl, with no failure and no death | see the findings |

### Why the bounds are enough

*TableEngine.* Two ints and two strings that fit make equal and different keys; a
conflict needs two rows, an UPDATE of two rows writes two more slots, hence four.
The statements contain every kind of failure: null, wrong type, a malformed row,
a duplicate key in the first or the second column, against the table and inside
the statement, a row too large for a page, a SET list naming a column twice, an
unknown column. One crash is enough for the invariants, because none mentions
how often it happened and the states after a restart are again states in which
statements run.

*BTree.* Every boundary of the code is at MaxKeys, MaxKeys + 1 or MinKeys of some
node. With 4 keys per node, 9 keys reach all leaf cases and merges back to one
leaf, in every order. Three levels need more keys, too many for all orders: the
five orders of 33 keys (ascending, descending and three mixed ones) were chosen
so that together they reach every action but `SplitsWithNobody` followed by more
insertions, and `ParentUnaware`: two more orders, found by simulation, do that.

*Ddl.* Two tables make a statement about one fail because of what happened to
the other. Leftovers come back with one failure and one death, and one after the
other. Two pages are what a counter that runs ahead of its file needs.

*QueryStream.* The scanners look at one character and the next. Five characters
hold a string or a comment with a semicolon in it, broken over two lines, and
the semicolon that ends it.

*Where.* Seven tokens hold BETWEEN followed by a conjunction, three levels of
operators, and parentheses one level too deep (`MaxDepth` is 3 here, 200 in the
code). With three bits some pairs of ints are too far apart and others are not.

*TableFile.* Two small rows or a whole one fill a page exactly, one byte more is
refused; five pages allow a hole, pages on both sides of it, and a restart. With
6 bits for a size, one row makes the sum wrap and one is cut off to a small row.

### Fairness

`TableTwoIndexes` assumes `WF_vars(Step)` and `BTree` assumes `WF_vars(Rebalance)`:
a statement, and a nested call, is run by the only thread, so once it can take
its next step it will unless the process ends. Nothing is assumed of clients,
of USE or of exits, and crashes are not fair. `StatementEnds` is not trivial
because an UPDATE appends rows to the table it is going through. `Ddl`,
`QueryStream` and `Where` state no liveness: a statement of `Ddl` has at most
three steps and no loop.

Deadlock checking is off where the system may stop: a tree that is no longer
sound accepts no more calls in BTree, an order of insertion comes to its end, and
undefined behaviour stops the model; QueryStream has read its input; Where has
written a condition of the bounded length.

## What the runs found

Six runs check what a comment or document of the repository says, and TLC shows
the code doing otherwise.

- **NULL by UPDATE** (`TableNotNull`, `executor.cpp:168`). UPDATE checks only
  types, and null has every type: NOT_NULL and INDEXED columns get nulls.
- **Indexes older than rows** (`TableCrash`, `node_store.h:177`). An index reaches
  its file only in a destructor. After the process dies, USE loads the old file
  and INSERT accepts keys that are in the table.
- **Statements without USE** (`TableNoUse`, `index_manager.cpp:44`). After a clean
  restart nothing opens the indexes of a table addressed as `db.table`; checks
  and updates of a closed index silently do nothing.
- **Separators after a split to the left** (`BTreeOrdered`,
  `btree_insert_split.cpp:216`). The parent gets the first keys of the left and
  middle leaf instead of the middle and right one. What a client sees: `find`
  misses stored keys, and `insert` accepts them again.
- **Overfull internal nodes** (`BTreeCapacity`, `btree_insert_split.cpp:279`). An
  internal node over its maximum takes keys from a sibling instead of giving. It
  may then be split three ways with children left naming the wrong parent, after
  which `insert` and `erase` throw when they come back to these.
- **Keys of a dropped table** (`DdlReuse`, `index_manager.cpp:28`). DROP TABLE closes
  the indexes, which writes their files, and nobody removes these. A table created
  under the same name starts with the keys of the old one, and INSERT refuses
  them as duplicates though the table is empty.

No run of its own shows a seventh: *rows that are too large and taken all the
same* (`storage.cpp:81`, `page.h:63`). Storage::write throws "Row too large"
for a row that fits no page, but not for those of 2^16 bytes or more that the
cast to 16 bits makes small again, nor for the two sizes just below, which wrap
`data_needed` and are copied past the page. In `TableFile` these are the rows
that `mangled` collects, with `ub` for the last two sizes; `OnlyHugeHarmed` says
that they are the only ones.

## The proofs

Everything below is proved for every value of the constants: every schema, every
set of statements, rows or names, every page size, every bound on slots,
pages, failing calls and deaths, and lines of any characters and any length.

| Module | Theorem | States |
|---|---|---|
| `TableEngineProofs` | `TypeCorrect` | `[]TypeOK` |
| | `RowsAlwaysConform` | `[]RowsConform`: values have their column's type |
| | `SnapshotStaysCurrent` | `[]SnapshotCurrent`: a scan never meets the statement's own effects |
| | `IndexAlwaysSound` | `[]IndexSound`: no entry, however stale, leads to a row with another key |
| | `KeysStayUnique` | `[]UniqueKeys`: unique at every step while intact |
| | `IndexAlwaysExact` | `[]IndexExact`: index = keys of live rows, between statements |
| | `ChecksSuffice` | `[]CheckSuffices`: no key is refused after its row is written |
| | `SelectAlwaysAgrees` | `[]SelectAgrees`: SELECT by index against SELECT by scan |
| | `PrefixStored` | `[]InsertPrefix`: an INSERT that fails has stored the rows before the refused one |
| | `UpdatesKeepRows` | `UpdateKeepsRows`, an action property: an UPDATE that ends has kept the number of rows |
| | `EngineIsATable` | `ImplementsTable`: the engine implements `UniqueTable` |
| | `ShownRowsUnique` | `[]Table!Unique`: so what `UniqueTable` promises is true of the engine |
| `TableFileProofs` | `TypeCorrect` | `[]TypeOK` |
| | `LayoutAlwaysFits` | `[]LayoutFits`: slots and rows of a page never meet |
| | `RowsKeptWhole` | `[]OnlyHugeHarmed`: a row under 2^16 - 2 bytes is refused or stored whole inside its page |
| | `PagesStayFresh` | `[]FreshPages`: a page number with rows is not given out again |
| | `ViewsAlwaysAgree` | `[]ViewsAgree`: cache and file agree |
| | `FileIsALog` | `ImplementsLog`: the file implements `SlotLog` |
| `DdlProofs` | `TypeCorrect` | `[]TypeOK` |
| | `RepliesStayTrue` | `[]RepliesAreKept`: what a client was told stays true |
| | `CatalogStaysBacked` | `[]CatalogBacked`: a table of the catalog has its file |
| | `RowsStayKept` | `[]RowsKept`: a scan returns the rows inserted since the table was created |
| | `IndexesFollowTables` | `[]IndexOfItsTable`: an untainted index holds the keys of its table |
| | `UseOpensAll` | `[]OpenAfterUse`: after USE no index is closed |
| `BTreeProofs` | `ShapeInvariant` | `[]Shape`: the nodes form a tree, and the pending call is about one of them |
| | `TypeCorrect` | `[]TypeOK` |
| | `LeafSizesHold` | `[]LeafSizes`: no empty leaf but the root, none over the limit between calls |
| | `EvenlyDeep` | `[]EvenDepth`: all leaves lie equally deep |
| `BTreeOrder` | `OrderInvariant` | `[](Shape /\ InOrder)`: while sound, the tree is a search tree whose leaves are chained in key order |
| | `KeysAreFindable` | `[]KeysFindable`: each key is in the leaf its lookup comes to |
| | `PointersAlwaysAgree` | `[]PointersAgree`: parents, children, counts and links |
| | `TreeIsAMap` | `ImplementsMap`: the tree implements `IndexMap` |
| | `ScansAreExact` | a range scan returns the row ids of the stored keys of its interval, in order |
| | `RangesScanned` | `[]RangeScan`: scans agree with each other and with lookups |
| `QueryStreamProofs` | `TypeCorrect` | `[]TypeOK` |
| | `QueriesCutWhole` | `[]CutsWholeText`: the queries run are those of the whole text |
| | `LexerAlwaysAgrees` | `[]LexerAgrees`: the Lexer sees queries and buffer as `findSemicolon` does |
| | `AlwaysCanFinish` | `[]CanFinish`: no buffer is a dead end |
| | `HopelessForGood` | what is discarded the Lexer refuses whatever is read after it |
| | `OnlyHopeless` | `[]OnlyHopelessDiscarded`: the same for short lines |

Assumptions, all named and evaluated by TLC in every run of their module. In
`TableEngine`: `BoundsAssumption` (the bounds are natural numbers),
`SchemaAssumption` (defaults have their column's type, which the parser
enforces; and since a column is its position, columns have distinct names, which
nothing enforces), `ValueAssumption` (null, ints, strings, deleted slots and malformed
rows are different things; `Cuts` are sets of values) and `StatementAssumption` (statements are sequences of
rows or SET items). In `TableFile`: `PageAssumption` (a page has room for its
header and an empty row and its size is within 16 bits; what the cast leaves of a
row has the row's size modulo 2^16, and is the row itself if that changes nothing). In `Ddl`:
`DdlAssumption` (names are pairs; a corrupt file is not a set of keys). In
`BTree`: `BTreeAssumption` (a node holds three keys at least, there is a node
number, keys are integers, and no RowId is the answer for a missing key).
`RangesScanned` alone assumes more: that the keys in use are finitely many, as the
values of an `int` are, and that there is one. Without a least and a greatest key
`RangeScan` has no range of everything to compare the others with; `ScansAreExact`
needs neither. In `QueryStream`: `QueryAssumption` (the bound on the text is a natural
number).

Each module's invariants follow from a strengthening that is inductive and stands
at the end of the model, where TLC has checked it too. `InOrder` of `BTreeOrder` is
the exception: it speaks of sets of integers without bounds, which TLC cannot
enumerate; what it is for, `KeysFindable` and `ImplementsMap`, TLC has checked.

### The engine

Four layers, each an inductive invariant relative to the one before.

1. `Typed` is `TypeOK` with `Phases` and `Room`. `TypeOK` alone is not
   inductive: that `cur.rid` is a live slot when it is removed, that `work` is a
   list of rows and no longer of source rows, or that there is room for the rows
   a statement has yet to write depends on where the statement is.
   `SnapshotCurrent` is part of `Phases`.
2. `Rooted` says that each index entry, in memory or in a file, names a slot of
   the file whose row, if still live, has that key. It needs no `intact`: it
   survives crashes, torn files and closed indexes, because slots are never
   reused.
3. `Trustworthy` is what holds while `intact`: the indexes are open all or none,
   none lacks a node, each open one is `Coherent` with the rows up to the one row
   at hand (its key is not in the index between `EraseKey` and `RemoveRow`, nor
   between `WriteRow` and `InsertKey`), and each `.idx` file is what memory
   holds, or dirty, or known to be behind. `Coherent` also remembers the checks:
   while a row is being written its keys are free in every index.
4. `RowsStored` counts how many source rows an INSERT has put at the end of the
   file (one less than `pos` says while a row is accepted and not yet written),
   `RowsCounted` the rows of an UPDATE: as many live rows as the scan found,
   except one fewer between `RemoveRow` and `WriteRow`. `InsertPrefix` and
   `UpdateKeepsRows` speak only of the ends of this.

`ImplementsTable` maps the file to the rows a client could see: an UPDATE shows
the old version of a row until the new one is written (`ShownRows`), so that
`RemoveRow` is a stutter inside an UPDATE and the abstract `Delete` inside a
DELETE, `WriteRow` is `Insert` or `Replace`, and an UPDATE that loses a row (too
large, or the process dies) is a `Delete`. That a trusted table refuses a key
that is taken is where `Coherent` is used; that the new identifier was never in
use, `RowsCounted`. Every other step changes neither the file nor what is shown.
Uniqueness of what is shown (`ShownRowsUnique`) then follows from the steps of the
abstract table alone.

### The file

`Sound` of `TableFile` has four parts. `FileSound`: each page of the file is a
hole or keeps its slots and rows apart, and *the last one is no hole*, which is
why `add_row` never computes on one. `CacheSound`: a cached page equals that of
the file, or is a blank that was given out and never written, and whose place in
the file is then beyond its end or a hole. `ProcessSound`: numbers given out are
beyond every written page. `HistorySound`: what has been mangled was huge; a row
copied past the end of its page is one whose `data_needed` has wrapped, because
the page tried fits and otherwise the check of `add_row` is exact. `FreshPages` alone is not inductive, since it says
nothing of the blanks that refused rows leave in the cache and that a later exit
flushes into the file.

`FileIsALog` maps the file to its slots by RowId. A write adds a slot behind all
others, `remove` marks one, and a flush of a blank, an exit, a crash and an open
change none: flushing a blank page replaces a hole by an empty page, and both
have no slots.

### Databases and tables

`Sound` of `Ddl` says what the calls of a statement rely on. `StatementSound`:
between two calls of a CREATE or DROP the catalog and its file are equal, and the
table or database at hand is already, or no longer, in both. `RepliesSound`:
memory, file and replies agree on each table outside `limbo`, but for the one at
hand. `RowsSound`: the file of a *settled* table, one that is certain and not in
the middle of its CREATE, holds its rows, and no Pager holds anything else, so
that a Pager left from a former table of that name would break it. `KeysSound`
is about what an index holds or *would hold if it were opened now* (`KeysOf`),
which makes it survive exit and USE; it needs that an open index that is not
dirty equals its file. `UseSound` is `OpenAfterUse` at every step, with the
indexes of the table being dropped left out. A failing call moves the table at
hand into `limbo`, a failing flush its index into `tainted`,
and the proof of each `Fault` is that everything else stays (`CloseIndexes` for the
flushes).

### A tree

`Shape` of `BTree` is the inductive invariant, and holds whatever `harm` says.

- `Tree(nodes, root)`: every node is `WellFormed` (as many values as keys in a
  leaf, one child more than keys and no child twice in another node); it is
  `Linked` (each node but the root is the child of exactly one, and children are
  in use); `Rooted` (the root alone has no parent); and there is a `Level`, a
  height for each node, 0 at the leaves and one more than that of each child.
  Heights carry the proof: they make `EvenDepth` a matter of arithmetic
  (the depth of a node is the height of the root less its own), and they are why
  `findLeaf` is defined at all.
- `CallFits`: a pending overflow is about a node with too many keys, a pending
  underflow about one that is not the root.
- `Adopted` until something is *orphaned*: children name their parent.
- `LeavesFit`: what a leaf may hold while calls are pending. `LeafSizes` is not
  inductive: it says nothing of the leaf a call is about, and to split two leaves
  into three without leaving one empty needs that the others have two keys.

A call changes up to five nodes at once, so each function of the model
(`ShiftRight`, `ShiftLeft`, `Merged`, `LeafThirds`, `InnerThirds`, the two root
splits) has a lemma of its own in `BTreeProofs`: the new store is a tree, and how
many keys its leaves have. These rest on lemmas about lists of children: children
shared out over the same nodes (`SharedKids`), over one more (`MoreKids`), over one
less (`FewerKids`), a new root (`NewTop`), a root that gives way (`LostTop`). Then
there is one lemma for each action.

The recursive functions are dealt with without induction over data, which the
prover does not have. `findLeaf` and `Depth` recurse along a descending height:
that such a function exists is proved by induction over a bound on the height
(`DescentExists` of `SequenceLemmas`), and what it ends in likewise
(`DescentEnds`). `lowerBound` recurses along the width of an interval, in the same
way.

### The order of a tree

`Shape` says nothing of keys. `InOrder` does, until a split of a last child
misplaces a subtree (`sound`): the tree that `View` makes of `nodes` and `root` is
`Ordered`. For that each node has a *span*, the set of integers whose lookup comes
to it: all of them for the root, and the span of a node is divided among its
children at its keys (`Spans`). A key is in the span of its node, and leaves are
linked in the order of their spans (`Linking`). Spans are not in the model. They
exist, and a step of the tree has to say what becomes of them. They also say more
than that keys are between separators: a separator need not be a key of any leaf
any more, and a leaf under it may yet get any key of its span.

`SearchTrees` knows nothing of nodes, parents or calls. Its trees are records `T`
of functions, and there are four changes to them that leave a tree ordered: a node
is cut in two, with a key going up if it is an internal one (`Parted`,
`SplitOrdered`); the same undone (`JoinOrdered`, where the spans on either side of
the separator are put together); a root is put over the root (`Topped`); a leaf
gets other keys of its span (`Refilled`). The first three leave what the tree
`Holds` as it was. The lists that are shared out on the way are its matter too:
what is cut at a third or in the middle, and where a merged one comes apart.

`BTreeOrder` shows each action of `BTree` to be made of these:

- a merge is a cut undone (`MergeOrdered`);
- a key passed to a neighbour is a merge and then a cut somewhere else
  (`Reshares`, `ReshareOrdered`), on the way through a tree that no state shows;
- two nodes shared out over three are a merge and two cuts (`Halfway`);
- a root split is a root put over the root and a cut of what is now below it;
- `insert` and `erase` give one leaf other keys (`Refilled`).

That `lowerBound` finds the place where a leaf stays sorted is `PlaceCuts`, by
`SearchDescends` of `BTreeProofs`. That a lookup ends in the leaf whose span has the
key is `DescentStays` and `LookupArrives`: every node on the way has the key in its
span.

A scan reads the leaf its lower end belongs to and those after it. What it reads
of a leaf is an excerpt of its row ids, from the place `lowerBound` would give to
the first key that is not below the upper end (`LeafLists`): the row ids of the
keys of the leaf's span that are asked for. The link leads to the leaf whose span
follows without a gap, and there is none only behind the last key (`NextSpan`), so
that fewer leaves with greater keys are left after each (`Later`); by induction
over their number all that is asked for of the keys from a leaf on is read
(`ChainLists`). A place in the sorted list of all keys is then the number of the
keys before it (`RankOfCut`), which is how `RangeScan` finds its parts.

For the refinement, `SameHeld` (a rebalancing step changes nothing of what
the leaves hold) and `Mirrors` (`Contents` is what the leaves hold) reduce a step of
`Map` to an entry more, an entry less, or none. While `sound` is false nothing is
claimed, and the runs `BTree...` show what then goes wrong.

### Lines and queries

`findSemicolon`, `Cut` and `tokenize` jump: over a comment, over a string, over a
query. `OnePass` does not, and so the proofs are about it: what it makes of a text
follows by induction over the places of the text (`TextInduction`), and that a
pass may be interrupted where it has just ended a query by `PassGoesOn` and
`PassStartsAnew`. A text is `Open` if a pass meets no end of a query in it, and
`Closed` if it meets the first at its end.

Each scanner is shown to be the value of a descent over its places, those from
which it goes on (`ScanNext`, `CutNext`, `LexNext`), by the lemmas of
`SequenceLemmas` that `findLeaf` needs in `BTree`. That what holds at such a place
holds at the next and so at the last is `DescentStays`. What is handed down is
told in terms of the pass:

- `findSemicolon`: no query ended before the place, and the pass is in a string
  there exactly if the scanner is. So it stops at the first end of a query, or
  finds none in an open text (`SemicolonFound`).
- `Cut`: the queries so far are those of the pass (`CutBefore`). So what is cut is
  what the pass cuts, and the rest is open (`CutIsPass`).
- `tokenize`: the pass is outside of strings at each place, or in a comment that
  ends there (`Sync`), and a semicolon is a token exactly where the pass ends a
  query. So a closed text has one, at its end (`ClosedTokens`), and an open one has
  none (`OpenTokens`).

A syntax error stays one when a line is added because every step of the Lexer
before it is the same in the longer text (`SyntaxStays`): the line break between
the two keeps a dash at the end of a line from becoming a comment with the first
of the next.

`Sound` of `QueryStream` is the inductive invariant. `CutsWholeText` alone is not
enough: it compares queries and buffer with the whole text only up to white space,
and to read on, the pass must be known to be where the buffer says it is. `Kept`
says that: the text is the buffer and something before it, which a pass leaves
outside of strings and comments, with the queries that were sent; and the buffer
is open. The rest of `Sound` is that each query is closed, when an end is reported,
and that what is discarded is a syntax error by itself.

## What is only model-checked

- Liveness (`StatementEnds`, `CallsEnd`): fairness and ENABLED are out of the
  prover's reach.
- `Where`: its Parser and its evaluation are recursive operators over trees of
  expressions, compared with a reference on all bounded inputs. What they compute
  for every expression is an induction over data, which the prover does not have.

## What is not modelled

- Two columns of one name. Neither the Parser nor the Catalog refuses them; if
  both are INDEXED they share one index, because `makeKey` knows names only, and
  an INSERT then throws after its row is written. `TableEngine` and `Ddl` assume
  that the columns of a table have distinct names.
- Rows of 65534 bytes or more in `TableEngine`: its `Oversize` strings make a row
  that Storage refuses. `TableFile` has the longer ones, and says what the bytes
  in the file then are; what a scan makes of a row that was cut off is not
  followed up (`decodeRow` throws, so that every statement which scans the table
  fails, or finds fewer values than columns).
- Pages are written at once (`write_page`): a page torn by the death of the
  process, and anything a crash of the *machine* would lose from the operating
  system's buffers.
- Other tables. They share nothing with this one but USE: a corrupt `.idx` file
  of another table also stops `rebuildIndexes`, which for this table is the same
  as USE not having opened its later indexes.
- A table that is created while an `.idx` file of that name exists, in
  `TableEngine`: its `Init` is a CREATE TABLE with no leftovers. `Ddl` has them.
- Byte formats (rows, nodes, JSON), which have no state of their own.
- Logger, StringPool, console: output and set-up only.
- The Parser outside of expressions, keywords, aggregates and projections: pure
  functions with no state across statements.
- Metrics: windows over time that only the METRICS command reads.

## The plan

`TableEngine`, `BTree`, `TableFile`, `Ddl`, `QueryStream` and `Where` exist. Left
to model, in order of importance: a database called `indexes` in `Ddl`; the
aggregates of SELECT; the windows of Metrics against the full history of
requests.
