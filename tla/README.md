# A TLA+ model of sqsearch

sqsearch keeps an SQLite index of a directory tree (`sqsearch index`), follows
changes of the filesystem with fanotify (`sqsearch watch`) and answers queries
(`sqsearch query`). The index is only worth something if it shows the
filesystem as it is, and if a query finds what is in it. Keeping it so is the
work of three threads and a kernel queue, none of which sees the whole; making
it is a walk over a tree that goes on changing; and asking it is two more
threads and a user interface that changes its mind faster than they answer.
All three are modelled here.

Paths below are relative to the repository: `src/watcher.rs` is the program's
file, `README.md:59` a line of the program's own README.

## Inventory

| component | state | operations | talks to |
|---|---|---|---|
| database (`src/db.rs`) | tables `files` and `suffix_array`, the root row (id 1, its own parent) | `ensure_root`, `get_dir_id`, `get_dirent_id`, `create`, `delete`, `delete_with_id`, `update`; triggers, `UNIQUE(parent_id, name)`, `ON DELETE CASCADE` | everybody, through SQLite transactions |
| event handlers (`src/watcher.rs:40-127`) | none | `handle_move` (lookup, discovery request, retry loop), `handle_discover` | database, discoverer |
| database thread (`DbState`) | channel, debounce queue, open transaction | collect until 100 ms of silence, apply the batch, commit or drop it | fanotify reader (channel), discoverer (requests) |
| fanotify reader (`FanotifyState`) | read buffer, the Reconstructer's stack | one event: mask, filter, send | kernel, discoverer (hints), database thread |
| discoverer (`src/discoverer.rs`) | requests, recursion of `walk`, open descriptor, hints | `walk_fh`, `walk`, `Reconstructer::submit` | kernel (its opens are reported), fanotify reader |
| filter (`src/filter.rs`) | ignored names, btrfs subvolume | `allow` | fanotify reader |
| indexer (`src/indexer.rs`) | walk, transaction | `index`, `index_path` | database |
| query process (`src/queryer.rs`) | stdin line, channel, running statement | read a line, interrupt, run, print BEGIN/ITEM/END | database, user interface |
| query SQL (`src/db.rs:201-314`) | none | `prepare_query`, `get_path` | database |
| `gen_suffixes` (`src/gen_suffixes_vtab.rs`) | cursor | filter, next, eof, column | SQLite |
| Vicinae extension (`etc/vicinae`) | query, active query, results, history | send query, take lines, show, select | query process |
| service (`etc/sqsearch-watch.service`) | — | restart on failure | watcher |

How it fits together:

    programs --syscalls--> kernel --events--> fanotify reader --Alter/Discover--> database thread --> SQLite
                             ^                     ^                                     |
                             | opens               | hints                               | requests
                             +------------- discoverer (walker thread) <-----------------+

A directory that arrives from a place the index does not know has contents the
index does not know. The database thread asks for a walk. The walker opens
every entry; the opens appear in the same kernel queue as the changes of other
programs, so they are ordered against them. The report of an opened directory
lacks its name and parent, so the walker also sends hints, and the fanotify
reader matches the n-th hint with the n-th open.

What is hard: the order of syscalls, opens, hints, reads and batches; events
the kernel merges while they wait; batches that fail as a whole; a retry loop
that deletes what is in its way, with cascades; crashes, after which nobody
looks at the filesystem again.

What makes each part correct:

- database: rows form a table without orphans and without two rows at one
  entry; the root row stays; the suffix table says what the names say;
- handlers: the retry loop ends; the entry an event speaks of is as the event
  says, whatever was there before;
- database thread: whole batches, in order, or nothing of them;
- discoverer: every open gets its own name and parent; the stack never empties
  too early; no thread waits for ever;
- watcher: when all is quiet the index equals the visible tree; nothing is ever
  invented;
- indexer: an entry that stays where it is gets its row, whatever moves around
  it and whenever a run is killed; the database is always one the others can use;
- query SQL: what is asked for is found, wherever the join starts, and the path
  printed leads to the row;
- query process: answers are bracketed, in order and whole unless a later line
  waits; a dead client leaves no process behind;
- extension: the list shows rows of the text in the search bar and no others,
  and all of them in the end.

## Modules

| module | models |
|---|---|
| `FilesTable` | `src/db.rs`: a database as a record, statements as operators from a database to error, id and database |
| `HandleEvents` | `handle_move`, `handle_discover`: an event and a database to error, database and discovery requests |
| `EventLog` | abstract: what readers of the database are promised, for any meaning of an event (`HandleEvent` is a parameter; `Applied` is the fold of it over a batch, up to the first failure) |
| `DbWriter` | the database thread with an environment that sends any event |
| `Filesystem` | external: tree, syscalls, fanotify queue |
| `Discoverer` | walker thread and `Reconstructer` |
| `Watcher` | all threads composed; `Writer == INSTANCE DbWriter` |
| `Indexer` | `src/indexer.rs`: walkdir's steps, handles taken by path, rows, commits, crash and second run, any change of the tree in between |
| `QuerySql` | `prepare_query`'s loop, the join it builds, `get_path` (`src/db.rs:201-314`) |
| `GenSuffixes` | the cursor of `gen_suffixes`, and the two comparisons of a segment with a name, on sequences of character codes |
| `IndexAndQuery` | `Indexer` on `Filesystem`, then `QuerySql` on what it left |
| `QueryService` | abstract: what clients of `sqsearch query` are promised |
| `QueryProcess` | `src/queryer.rs`: main thread, query thread, pipes |
| `SearchUi` | the Vicinae extension as the client of `QueryProcess` |
| `MCDbWriter`, `MCWatcher`, `MCIndexAndQuery`, `MCSearchUi` | instances for TLC |
| `FilesTableProofs`, `DbWriterProofs`, `WatcherProofs`, `MatchingProofs`, `ConvergenceProofs`, `IndexAndQueryProofs`, `QuerySqlProofs`, `SearchUiProofs` | theorems |

### How the state corresponds to the code

`DbWriter`: `chan` is the channel `fanotify_tx`/`fanotify_rx`, `batch` is
`debounce_queue`, `work` the database as the open transaction sees it, `db` as
everybody else does, `requests` the channel to the discoverer. `pos` is 0 while
events are collected and otherwise the index of the next event in
`handle_events`. A timeout of `recv_timeout` is possible only when the channel
is empty, which is when `Flush` is enabled. A failed event, and an SQLite error
at any statement or at the commit, ends the batch: the transaction is rolled
back and `debounce_queue.clear()` runs in any case. A discovery request leaves
at once, so a batch that fails later does not take it back.

`HandleEvents`: the `loop` of `handle_move` is `MoveLoop`, four passes of
`MovePass`. A pass changes nothing once the loop has ended. That four are
always enough is not assumed but checked and proved (`LoopEnds`): a state
still in the loop has error `"Run"`.

`FilesTable`: `Create` and `Update` report every constraint violation as
`NameTaken`, as the code does. `Subtree` is the cascade: the least set with the
row and all rows below it. `NextRowId` is SQLite's choice of a rowid, one more
than the largest in use.

`Discoverer`: `frames` is the recursion of `walk` (directory, names readdir
still has), `fd` the entry that was just opened and has no hint yet: between
`openat` and `send` other threads run. `SendHint` is the send and the start of
the nested walk; a file's walk ends at once with ENOTDIR. `EndDir` is the
return of `walk`, also with an error, when `openat` fails otherwise than with
ENOENT or ELOOP. `OpenBlocks` is an `openat` that does not return: without
O_NONBLOCK the open of a named pipe (`Fifos`) waits for a writer, and the model
has none. The walker is `blocked` from then on, until the process dies. The names are read in one step with the sending of the hint: one `getdents`
buffer holds a whole (small) directory.

`Watcher`: `evq` is the kernel's queue, `buf` what one `read` returned.
`HandleChange` and `HandleOpen` are the loop body of `FanotifyState::run` for an
event of other programs and of the walker; the second is enabled only when a hint is
there (`recv` blocks). `ReadOpen` is `read_open`: it finds the handle in an FID record
or, of a directory, in a DFID record. Which record the kernel sends for the open
of a directory is a constant (`DirOpenInfo`): the code takes it to be DFID, two comments
say DFID_NAME (`fanotify.rs:89`, `discoverer.rs:10`). With the latter `read_open` fails
its `expect` (`fanotify.rs:96`) and the fanotify thread panics. Its death reaches the
others late: the database thread panics when it finds the channel closed, after
the batch it is in, or when it asks the walker, who could not send its next hint, for a walk.
`ReaderPanics` is all of that in one step, enabled where that panic falls. What
happens until then reaches nobody: the events that are read no more die with
the group. Handling one event is one step: it sends to one unbounded
channel and touches no state another thread reads meanwhile.

`Filesystem` is not code of the repository. It gives what
`create_fanotify_stream` asks for: CREATE, DELETE, RENAME and OPEN for the
whole filesystem, with the handles of parent and target, names, and thread ids.
As in the kernel, an event that still waits takes up a later one of the same
thread about the same object and name; the masks are or'ed and the order is
lost. An open of a directory is about the directory itself.

`Indexer`: `frames` is walkdir's stack. A directory is opened (by path) before
its entry is handed out, and read when the entry after it is asked for.
`item` is the entry `index_path` works on; `GetFh` and `IndexEntry` are its two
calls of `get_fh`, between which the tree may change, so that a path may lead
somewhere else each time (`Resolved`). The lookup of the parent and the insert
are one step with the second: they see only the transaction. `i` counts what
the loop enumerates, the root itself and failed opens included, modulo
`CommitEvery`; the commit comes with the entry. A failed commit ends the
command as a kill does (`Crash`). Any other error is a warning at most:
`Skip` is an entry whose handle cannot be taken or for which SQLite fails
(`busy_timeout` is negative, so that another writer is enough), `ReadFails` a directory that
cannot be opened, or not be read to its end; the run goes on and ends as if
nothing had happened. `IndexAndQuery` keeps in `lost` what errors of
the current run fell on: the entry at hand, or those the directory
still had to give. In `Indexer` alone the tree changes
arbitrarily; in `IndexAndQuery` by the system calls of `Filesystem`.

`QuerySql`: positions of segments count from 1. `conds` is the WHERE clause; a
join is the segment it is for. `Grow` is one turn of the `while`. What the
statement returns is the set `Joined` of assignments of rows to `s0`, `s1`, ...;
`Items` what is printed for them. Segments and names are abstract: `Length` is
what `estimate_specifity` measures, `SuffixRange` and `Like` are the two comparisons
SQLite makes. `MCIndexAndQuery` gives all three as `GenSuffixes` computes them from
character codes, for names with capitals, with an underscore and with a byte that is not UTF-8, so that the assumptions about them (`SearchAssumption`) are
evaluated on real strings; `TextsAreFound` proves them for texts of any length.

`QueryProcess`: `input` and `out` are the pipes, `queue` the channel. `held` is
the line the main thread has read, `told` whether the interrupt for it has been
given. `thread` says where the query thread is; `interrupted` is SQLite's flag,
which an interrupt sets only while a statement runs. `Row` is one row with its
`get_path`, `println` included: a closed pipe or a path that is not UTF-8 ends
the thread there. A count of 0 stands for a line without `COUNT` as well: the
comparison `cnt == count` never holds for either.

`SearchUi`: `effects` is what React has yet to run after a render; the user can
type again only when it has. `query_ref`, `active_query_ref`, `results` and
`dirty` are the refs of those names, `ui_results` what is shown (both lists in
one). `Sync` is called by the timer and at END.

## Runs

Constants: `R` is the indexed root, `O` a directory beside it that is not
indexed, `D`, `E` and `S` are directories, `F`, `G`, `K` files, `L` a symbolic
link, `I` an ignored name. `F` is a named pipe in `faults`.

| run | module, config | shows |
|---|---|---|
| `writer` | `MCDbWriter`, `MCDbWriter.cfg` | any events, failing or not, SQLite errors and restarts at any step: `TypeOK`, `RootStays`, `NoOrphanRows`, `OneRowPerEntry`, `IndexMatchesFiles`, `LoopEnds`, `EventReflected`, and refinement of `EventLog` (`ImplementsLog`) |
| `local_changes` | `MCWatcher`, `MCWatcherLocal.cfg` | changes in what is indexed: `Converged` |
| `arrivals` | `MCWatcher`, `MCWatcherArrival.cfg` | a nested directory arrives and changes while it is walked: `Converged`, `DirHandlesUnique`, `StackHasParent`, `NamesMatchOpens`, `KnownReported` |
| `drains` | `MCWatcher`, `MCWatcherLive.cfg` | the same with fairness: `EventuallyConverged` |
| `faults` | `MCWatcher`, `MCWatcherFaults.cfg` | arrivals with SQLite errors, a restart, a symbolic link, entries that cannot be opened, a named pipe, opens that cannot be read: `WatcherTypeOK`, `NothingInvented`, `IndexIntact`, `HintIsComing` |
| `index_and_query` | `MCIndexAndQuery`, `MCIndexAndQuery.cfg` | two runs of the indexer, killed or not, with errors at any step, on a tree that changes twice, and queries on what they leave: `IndexerTypeOK`, `IndexSound`, `StableIndexed`, `InventedBelowRenamed`, `JoinsCover`, `FindsAsked`, `PathsLead` |
| `searches` | `MCSearchUi`, `MCSearchUi.cfg` | a user who types faster than the answers come, a launcher that may die: `UiTypeOK`, `OwnResults`, `SettledShowsAnswer`, refinement of `QueryService` (`ImplementsService`), with fairness `Settles` and `GoneWithUi` |

`local_changes`, `arrivals` and `drains`, and the violations below but
`directory_open`, take DFID for the record of an opened directory, as the code
does; `faults` allows either.

Five more runs end in a violation. Each is a behaviour of the program that a
comment in it denies:

- `ignored_below_arrival` (`MCWatcherIgnored.cfg`). A directory arrives with an
  ignored directory in it. The walk enters the ignored directory (only the
  reader filters, by the entry's own name) and reports what is in it. Its
  parent is not in the index, `handle_discover` fails with `NoFile`, and the
  batch is dropped, with the discoveries and changes that are in it (the arrival's own event
  was committed before; the walk began with it). `watcher.rs:38`: "If we did
  know, report everything".
- `link_unlink_link` (`MCWatcherRelink.cfg`). One thread links a name, unlinks
  it and links it again before the event is read: the merged mask is
  CREATE|DELETE and is skipped. `watcher.rs:263`: "This has net zero effect".
- `rename_while_down` (`MCWatcherRestart.cfg`). A directory is renamed while the
  watcher is down, and again afterwards. The second rename's source is missing,
  so a second row is made for the directory, and every later lookup of it fails
  with `ManyFiles`. `db.rs:110`: "directory file handles are unique".
- `walked_twice` (`MCWatcherTwice.cfg`). The same directory is asked for twice
  (it moved into an arrived one, whose walk visits it as well). Opens of the
  second walk merge with those of the first that still wait, the hints do not,
  and later entries get the names of others. `discoverer.rs:11`: "match file
  handles accordingly".
- `directory_open` (`MCWatcherDirOpen.cfg`). The open of a directory comes as
  DFID_NAME. `read_open` finds no handle, the fanotify thread panics and the process ends
  with it; the restarted one knows nothing of the walk. `fanotify.rs:89`: "On
  directories, we get a DFID_NAME(fid, '.')". Either the comment is wrong or discovery
  does not work; the repository alone does not say which.

Not shown by a run, but met while the runs above were made, and kept out of their
syscalls:

- while an arrived directory is walked, a directory in it moves elsewhere in the index
  before the walker opens it. Its source parent is known (`watcher.rs:58`), so no walk is asked
  for, and the running one misses it: its contents are never indexed;
- a directory arrives with a named pipe in it: the walker waits in `openat` for a writer
  (`discoverer.rs:92-98` opens without O_NONBLOCK), and no directory is walked any more;
- a symbolic link in a directory that arrives is skipped by the walk (ELOOP,
  `discoverer.rs:103`), though one that is made or moved is indexed and `README.md:59` says
  "Symlinks are treated as normal files";
- of two indexed directories exchanged with `renameat2(RENAME_EXCHANGE)`, the first RENAME
  finds its destination taken and deletes the second directory's row and subtree; the
  second RENAME creates an empty directory;
- a directory of another subvolume renamed over an empty indexed directory: the
  event is filtered by the moved handle and the overwritten row stays;
- a directory renamed from an ignored name to another name in a known directory
  is indexed without its contents (its old parent is `None`, so the handler
  does not see that it arrives);
- one thread that renames there, back and there again before anything is read:
  the third event merges into the first and the order is lost;
- one thread that unlinks an entry, links it again and opens it: the three are one
  event, which is handled as create and delete;
- a watcher that misses one rename of a directory (while it is down, or in a
  batch that failed) can make a cycle of parents: with `R/A/B` indexed, `mv R/A/B
  R/C` missed and `mv R/A R/C/A` seen, A is below B and B below A. `get_path`
  then never meets the root, and the query goes on, collecting names, until the
  next line interrupts it.

And of the indexer, the queries and the extension:

- an entry that meets a busy database is left out with a warning, a directory that cannot
  be read without one, and `sqsearch index` ends with success: `StableIndexed` excepts them;
- the index holds what is under ignored names as well, and the watcher never
  updates it;
- a directory that was renamed between two runs of `sqsearch index` has two rows
  afterwards; `get_dir_id` then answers `ManyFiles`, and nothing new below
  it is indexed;
- `README.md` promises substrings, but `_` and `%` in a segment are patterns
  (`LIKE`), except in the most specific segment. `FindsAsked` is exact for queries
  without them;
- names that are not UTF-8 have suffixes with U+FFFD in the suffix table, although
  `db.rs:28-29` says that there are no entries for them. In the format `jsonl` such a path
  ends the query thread (`serde_json::to_writer(..).unwrap()`): END never comes,
  and the extension waits until its next line finds the channel closed;
- at the end of input the main thread sends an empty query, for ever, and each
  interrupts the one before: `printf 'q\n' | sqsearch query` mostly
  interrupts its own query and does not end;
- a text that is typed, replaced and typed again before the first answer is over is
  asked for twice with the same string, and rows of the first answer that come
  late are added to those of the second: the list shows them twice.
  `SettledShowsAnswer` therefore compares sets;
- when the search text is cleared `query_ref` keeps the last query, so rows that
  are still coming are shown below an empty search bar; `ShowsAnswer` says nothing of
  an empty text;
- asking for more results often enough makes the count 1e21, which the process
  does not parse: the answer is empty.

### Bounds, and why they are enough

- `writer`: 12 events, two waiting at a time (`MaxQueue`), row ids to 5
  (`MaxId`: no event is sent in a larger database), one waiting request. Two
  events are enough for a batch with a part to be rolled back, and for one batch
  after another; row ids to 5 allow one entry more than the initial tree has.
  The invariants are also proved without bounds.
- `local_changes`: 25 syscalls, any 4 of them (`MaxOps`). Four are enough to
  create, change, move away and replace an entry. The thread that is shared
  (`OneThread`) makes, opens and removes one entry, so create|open|delete in
  one event occurs.
- `arrivals`: 9 syscalls, any 3, the first of which is the arrival. A
  three-level tree makes the stack pop and push in one walk.
- `drains`: as `arrivals` with 2 syscalls.
- `faults`: 3 syscalls, one crash, SQLite errors at any time. A name has itself for
  its suffix, so that the suffix table is at stake.
- `index_and_query`: a tree of four entries in three levels, five system calls,
  any two of them at any moments of two runs, errors at any number of steps, `CommitEvery` 3, so
  that a commit falls in the middle of each walk and a run can be killed before and after
  it. One change is enough to move a directory away under the walk, two to put
  another in its place; a second name for a file makes one handle with two rows. Five
  queries, on what is there between, before and after the runs: the most specific segment
  first, last and in the middle, empty segments at either end and between, equal lengths, an
  underscore. How names are split and compared is written out for TLC; that it is what
  `GenSuffixes` says is evaluated at the start (`WrittenOut`). `IndexSound`, `StableIndexed`,
  `InventedBelowRenamed`, `JoinsCover`, `FindsAsked` and `PathsLead` are also proved, without bounds.
- `searches`: three changes of text or count (`MaxTyped`): enough to leave a
  text and come back to it, and for a line to meet one that is running and one
  that waits. Answers of two to four rows, with one that fails (4) and one that
  cannot be printed (5); a count that does not parse. `MaxQueue` bounds the
  empty lines after the end of input only.
- `BufEvents` is 1: a larger read only handles in one go what is handled in the
  same order otherwise. The channels are never full (they are unbounded in the
  code as well).

`local_changes` and `arrivals` leave out the scenarios listed above, which are
known not to converge. So `Converged` says: with these syscalls, in every
interleaving, the index ends up right. For changes that can be followed one by one
this is proved of every tree and any number of them (`ConvergedAlways`); the
runs add merged events and directories that arrive.

### Fairness

`FairSpec` has weak fairness of each of the three threads, and of the restart
(`Restart=on-failure`). They are OS threads that loop and block on their channels,
the fanotify descriptor, SQLite, and, the walker, in the `openat` of a named pipe. A
thread that is blocked has no step that is enabled, so fairness promises nothing of it:
a walker at a named pipe stays there, and `drains` has no pipe. A thread that panics does not go on either: that is `ReaderPanics`, which only
`drains`' assumption about `DirOpenInfo` excludes. Programs and failures
have none. Programs stop after `MaxOps` changes: with programs that never
pause the debounce (`watcher.rs:169`) never ends, and nothing can be promised.
A state where nothing is left to do, or only for a walker that hangs, stutters
(`Idle`), so deadlock checking
stays on and finds a thread that waits for another for ever.

`SearchUi` has weak fairness of the two threads of the process and of the parts
of the extension that its event loop runs: the end of loading, effects, timer,
output lines. The user and the death of the launcher have none. `Settles` excepts
a query thread that has met a path it cannot print: it is dead until the next line.
`Rest` is the stutter of a state where only the user could go on.

## What is proved

### The database thread

`DbWriterProofs` proves for every set of handles, names, suffixes and events,
every sound initial database, and every number of steps:

| theorem | says |
|---|---|
| `TypeCorrect` | `Spec => []TypeOK` |
| `RootStaysAlways` | `Spec => []RootStays` |
| `NoOrphanRowsAlways` | `Spec => []NoOrphanRows` |
| `OneRowPerEntryAlways` | `Spec => []OneRowPerEntry` |
| `IndexMatchesFilesAlways` | `Spec => []IndexMatchesFiles` |
| `LoopEndsAlways` | `Spec => []LoopEnds` |
| `EventReflectedAlways` | `Spec => EventReflected` |
| `WriterImplementsLog` | `Spec => ImplementsLog` |

The assumptions are those of the modules: the root's name is a name, suffixes
are suffixes, `None` is no entry, the events have the types `handle_events`
takes and name real entries (not the empty name), and the initial database is
one `sqsearch index` may leave.

No invariant of the database is inductive alone: a cascade keeps
orphans away only because a row's whole subtree goes; an update keeps the
suffix table right only because the table was right about the old name, and two
rows never get one id; the root stays only because no event names an entry with
the empty name, and because, being its own parent, it is in no other row's
subtree. `Sound` (in `FilesTable`) is the conjunction of them all.

1. `FilesTableProofs` shows, statement by statement, that a sound database
   stays sound (`CreateSound`, `DeleteSound`, `DeleteEntrySound`, `UpdateSound`)
   and what each statement's error says about the database. The cascade is the
   intersection of all closed sets (`SubtreeClosed`); the root is not in it
   unless the root is what is deleted, since the rows other than the root form a
   closed set (`SubtreeWithoutRoot`).
2. `DbWriterProofs` follows `handle_move`'s loop. A pass ends the loop, or
   drops the source (`NoFile`), or clears the destination (`NameTaken`). The
   source is dropped once and the destination, once cleared, stays clear, which
   bounds the passes (`MovePassResult`, `MoveLoopResult`). Clearing
   works because at most one row is at the destination (`UniqueDirents`) and
   that row is not the root. The code takes every constraint error for a taken
   name, also that of a parent which a cascade has just deleted; the lookup of
   the destination then finds nothing, and `handle_move` returns `NoFile`.
3. The inductive invariant is `Inv`: types, the cursor in the
   batch, and `Sound` of the committed and the transaction's database.
4. `EventReflected` (after an event its new entry has a row with its handle, its
   old one has none) is a property of steps, and of `handle_move` alone, in any
   sound database: `MoveLoopOutcome` says what the loop leaves at either entry,
   `ReflectedResult` what follows for the event, and `Inv` that the transaction's
   database is sound when it is handled. Of an old entry in the very directory
   that moves, which no filesystem has, it says nothing.
5. For `ImplementsLog` the invariant is not enough: the transaction's database
   has to be what `EventLog` says of the events before the cursor. `WorkIsApplied`
   adds that `work` is the result of the first `pos - 1` events of the batch. What an
   event does is a parameter of `EventLog`, so that the two modules speak of the
   same operator. That the recursion of `Applied` is a function at all, and that it does
   not depend on what comes later in the queue, is proved by induction on sets of
   numbers (`AppliedStep`, `AppliedPrefix`). Then every step of the
   thread is a `Write` or `Skip` of a whole batch, a `Send`, or a stutter
   (`NextLog`).

### The watcher

`WatcherProofs` proves for every tree, every set of system calls and any number
of crashes, and with kernel events merged as `Filesystem` merges them:

| theorem | says |
|---|---|
| `WatcherTypeCorrect` | `Spec => []WatcherTypeOK` |
| `StackHasParentAlways` | `Spec => []StackHasParent`: the two `expect` of `submit` never fail |
| `IndexIntactAlways` | `Spec => []IndexIntact`: the tables stay sound whatever is lost on the way |

Assumed are the types of the constants (`FilesystemAssumption`,
`WatcherAssumption`): the system calls are of the kinds `Filesystem` has and
speak of names and handles, the root is a directory and its name no other's, the initial
database is sound.

1. *The stack.* The reader pops the stack for hints it has not seen yet, and the
   walker sends them without knowing the stack. What connects
   the two is the height the stack will have after each hint on the channel
   (`Heights`), which is never 0 before a hint that needs a parent. `Balanced` says
   that such heights exist and that the last is at least the depth of the walker's
   recursion: every directory the walker has still to leave is one pop. The
   stack may be higher, since nothing pops the level a walk begins with
   (`discoverer.rs:54`). That is why the invariant has
   an inequality, and why it holds also when a walk ends early or an
   open is merged: it counts hints, not opens.
2. *Events.* Every event of the reader is one `handle_events` can take
   (`ReaderEvents`, `AlterTyped`): kernel events are merged only with reports of the
   same thread, a rename only with a rename of the same two places, so masks may mix
   but names and handles stay of the right kind (`MergeTyped`).
3. *The database.* Given that, the thread is `DbWriter` with `Events` the reader's
   events. `Proved == INSTANCE DbWriterProofs WITH ...` takes over its
   invariant; that the watcher's own instance of the statements means the same
   is shown statement by statement (`SameHandleEvent`).

### The hints and the opens

`MatchingProofs` proves, for the same trees, system calls, crashes and errors:

| theorem | says |
|---|---|
| `NamesMatchOpensAlways` | `Spec /\ DistinctOpens => NamesMatchOpens` |
| `HintIsComingAlways` | `Spec /\ DistinctOpens => []HintIsComing`: the fanotify thread never waits for a hint that nobody will send |
| `NothingInventedAlways` | `Truthful /\ Spec /\ DistinctOpens /\ []NoLoops => []NothingInvented` |

Both hypotheses name behaviours that do occur. `DistinctOpens` says that the
kernel merges no open of the walker with an earlier one: the run `walked_twice` shows what
comes of it, and the theorem that nothing else brings the two streams
out of step. `NoLoops` says that no row but the root's is its own parent: an event whose
directory is below its own destination (which only a database with a cycle,
see above, can say) clears the destination, with it the directory's own row, and
the row it then makes may be given the id it names as its parent. `Truthful` says that
the initial database shows nothing that is not in the tree.

1. *In step.* The walker sends hints without knowing the reader's stack, and the reader meets
   opens long after the walker went on. What connects them (`InStep`) are two
   functions, which exist in every state and are no variables: the stack as it will be after each hint on the
   channel (`Stacks`), and for each event in the queue the last hint it will have
   used up (`Matched`). An open of the walker is paired with the first
   hint that is not `PopChildren`, the name in which is the one it was opened by
   below the top of that stack (`Pair`); the stack after the last hint ends in
   the directories the walker is in (`OnTop`). The hint that is not sent yet counts
   as sent (`Due`): between `openat` and `send` the invariant holds already. An open
   adds an event and a hint (`OpenFollows`, `SendFollows`), a directory that is left adds
   a hint for no event, other programs add events for no hint (`Grows`),
   and `submit` takes off what belongs to the first open (`SubmitFollows`). Only
   a merged open adds a hint alone.
2. *What the channel says.* Then every event that reports what is at a place
   reports an entry that was there once (`Genuine`, in the queue, the buffer, the
   channel and the batch).
3. *What the rows say.* `Real` says of a row: it is its own parent, or the entry it
   shows, below the handle of its parent's row, was. It is kept by each statement
   (`StatementReal`), pass (`PassReal`) and event (`EventReal`): the parent's id was looked up by
   handle, so that a row that is moved or made has the place the event names.

### The index shows the filesystem

`ConvergenceProofs` proves that the watcher does what it is for, for every tree
and filter and any number of changes:

| theorem | says |
|---|---|
| `ConvergedAlways` | `FollowedSpec => []Converged`: when everything has been handled the index shows the tree as it is |
| `DirHandlesUniqueAlways` | `FollowedSpec => []DirHandlesUnique`: no directory has two rows |

`FollowedSpec` are the runs of `Spec` (`FollowedRuns`) that begin with a tree
(`IsTree`) and an index that shows it (`Indexed`), in which neither SQLite nor the
process fails, and in which every change can be followed (`Followable`). Each part
of that definition leaves out something that is known to break `Converged`, or
that needs a walk:

- the event is queued by itself (`Merged`): merged events lose the order of what they report;
- no directory becomes visible that existed before without being visible (`Arrives`): it brings entries of
  which no event ever told, and is walked (`arrivals`);
- nothing `Foreign` takes the place of a visible entry (`Buried`): the reader drops the event (the hazard
  at `src/watcher.rs:299`);
- no `exchange`: fanotify reports it as two renames, the first of which says that its destination is gone.

Nothing is assumed of ignored names, of renames out of and into what is visible, of
hard links, of replaced files and empty directories, of opens (which merge freely), or of
how the changes fall between reads, batches and the statements of a transaction.

1. *The rows* (`DbWriterProofs`). `Follows(e, V, W)` says that event e tells how
   view V became W, in the words of the event: an entry goes, with all below
   it if it leads nowhere visible, another is put in its place, and that place is
   free or overwritten. `EventShows`: on a database that shows V, `handle_events`
   succeeds, sends no request, and leaves one that shows W. The loop of
   `handle_move` is followed pass by pass (`Starts`, `LoopShows`): an update that fails
   for a taken name clears the destination and is tried again, and the view it is
   on the way to stays the same. A deleted row takes its whole subtree along, which are
   the rows of the entries below (`SubtreeUnder`). `Clean` is the invariant: tables sound, one row for a directory,
   and only directories have entries.
2. *The view*. What a change of the tree does to `Visible`, which is the entries
   reached over allowed names: `AddedSaid`, `RemovedSaid`, `RenamedSaid`. A rename
   within what is visible takes a directory's entries along and moves one entry of the view
   (`SeenMoves`: reachability is the intersection of closed sets, and is shown equal
   from both sides); one to an ignored name or out of sight takes away all that is
   below (`SeenLoses`). What `allow` and the two handles of the event make
   of it is exactly what `Follows` asks for.
3. *The queues*. The invariant (`Tracks`) is that the tree's view is where the events on
   their way lead: there are views, from what the rows show by one
   event after the other of batch and channel to some view M, and from M
   by one event after the other of buffer and kernel queue to the view of the
   tree (`Chain`, `OnTheWay`). A change adds an event and a view at one end
   (`ProgramsTrack`), `HandleEvent` takes one off at the other
   (`ApplyTracks`), the reader moves one from the second chain to the first (`HandleChangeTracks`); reads,
   commits and opens that merge with a queued event leave the chains as they are.
   When nothing is on its way both chains are empty, and the ends meet.

### The indexer

`IndexAndQueryProofs`, first section: `IndexerTypeCorrect` (`Spec => []IndexerTypeOK`) and
`IndexSoundAlways` (`Spec => []IndexSound`), for every tree and every change of
it, every commit interval and number of runs. The conjunction of the two is inductive. The first
run's root row is computed (`FirstRoot`); on a database that has one,
`ensure_root` finds it or fails, since the root's entry is taken
(`EnsureRootGood`). A row made for an entry keeps the database sound whatever
pair of handles the two `get_fh` have brought (`CreateGood`): that is why a
walk over a moving tree leaves wrong rows at worst, never broken tables. This is
also what `DbWriterAssumption` and `QuerySql` start from.

### The indexer on a tree that moves

`IndexAndQueryProofs` proves for every tree, every set of system calls made at any
moments, every commit interval, errors at any steps and any number of killed and repeated runs:

| theorem | says |
|---|---|
| `StableIndexedAlways` | `SystemSpec => []StableIndexed`: after a run that was not killed, every entry that stayed where it was, below directories that did, has its row, if no error of that run fell on it or on one of them |
| `InventedBelowRenamedAlways` | `SystemSpec => []InventedBelowRenamed`: a row that never was an entry is in or below a renamed directory |
| `PathsLeadAlways` | `SystemSpec => []PathsLead`: `get_path` ends, and a path that is printed leads from the root row to the row it is printed for |
| `SystemFinds` | `SystemSpec => [](JoinsCover /\ FindsAsked)`: what `QuerySqlProofs` shows of any sound database, of those that are left |

Assumed (`SystemAssumption`) is that the initial tree is a tree: one entry at a
place, one of a directory, none of a top directory, and every parent has an
entry or is at the top; that the root is a top directory; that the system calls
are of the kinds `Filesystem` has; that `None` is no entry of the walk; and that a
query has a segment (`split` yields one of the empty line too).
`Base` is the indexer's own invariant (above) together with the tree being one at
all times, which is shown call by call (`SyscallResult`).

The walk names directories by paths, and a path leads wherever the tree says when
it is used. Both proofs speak of chains: handles from `Root` along the names of a
path (`Chain`, `PathTo`). A path leads to the end of its chain and nowhere else
(`ResolvedPath`, `PathResolved`), by induction on its length. In a chain of
entries that stay, no handle changes.

1. *What stays is found.* The entries that stay (`Stays`: `kept` since the first run, and not
   `lost` in this one) only get fewer during a run,
   and every part of the invariant survives that (`ProgramsKeep`); a new run begins with all
   that were kept, of whichever rows the last one left. `Placed`: a
   stable directory has one row, and no other row is at the place of a kept entry,
   so that a kept entry is never refused for a name that is taken.
   `Opens`: a frame that reads a stable directory has a path of kept entries.
   `Taken`: the handle of the entry at hand is the right one, if the entry is kept.
   `Covers` is what makes it whole: there is a set of directories found so
   far, each with its row (or to have it next), and each entry that stays in one of them
   is still to be handed out by a frame, or has its row, or is at hand. The
   set is not a variable, and the invariant only says that one exists. What an error falls
   on stays no longer, with all that is reached only through it. At the end
   there is no frame, so every entry that stays has its row. The hard
   step is `IndexEntryKeeps`, where a row is made for two handles of different moments:
   it may be in a wrong place, but not in the way of a kept entry.
2. *What is invented.* When the first handle is taken there is a tree, and a set of
   entries that have been until then (`Before`), in which the path leads to
   it. When the parent is taken, the path may lead elsewhere. `PathMoves` goes along the
   two chains: at each name they are the same, or the second is below a renamed
   directory, or it is one the database has never seen, and then the row is
   refused. The same directory makes an entry that was; in the other case the
   parent is a directory below a renamed one.

A row need not be *in* a renamed directory: two exchanged directories that both
have a subdirectory of one name make a row that joins an entry of one
subdirectory to the other, and neither of these was renamed. `InventedBelowRenamed`
therefore says "or below" (`BelowRenamed`); the runs' tree has no such
subdirectories.

3. *What leads somewhere.* `get_path` follows `parent_id` until it meets a child of
   the root, and nothing in the tables says that it ever will: parents that form a
   cycle would satisfy every constraint of the schema. It is the indexer that makes
   none. It only makes rows, below rows that are there, and SQLite's new id
   is greater than all others (`NextRowIdFresh`): so the parent of a row has a smaller id
   (`Ordered`, kept by every statement and by kills: `IndexKeepsOrder`). On the
   way up ids get smaller until the root, and there are only as many as rows
   (`RootMet`, by the pigeonhole principle). Two recursions are met here, up along the rows
   and down along the names that are pushed. Each is shown to have values by an
   induction on its number of steps (`StepByStep`, from `AllNumbers`), which needs no
   induction theorem with an operator for parameter. The way up from the last
   row passes the joined rows and then those of `Ascent` (`PathLeads`); the root's
   name is the only empty one and first (`PushedRest`), so what is pushed is the
   way down (`WayLeads`). A watcher's renames do not keep `Ordered`: the cycle
   of the hazard at `src/db.rs:221` comes from there, and `PathsLeadAlways` says that
   it cannot come from the indexer.

### The query

`QuerySqlProofs`: `JoinsCoverAlways` (`QuerySpec => []JoinsCover`) and
`FindsAskedAlways` (`QuerySpec => []FindsAsked`), for every sequence of segments
and every sound database whose only nameless row is the root. Assumed of SQLite's comparisons
(`SearchAssumption`): the suffixes of a name in a segment's range are there exactly if
the name contains the segment; LIKE matches at least the names that contain it,
and exactly those if it has no character to interpret; only the empty
segment has length 0 and is in every name.

1. A best segment exists: the lengths are a finite set of numbers and have a
   greatest, and so have the positions of that length (`BestExists`, `NatMax`).
2. Each turn of the loop adds what the wider interval needs and nothing else
   (`ConditionsLeft`, `ConditionsRight`); at the end the interval is everything.
3. The suffix condition holds of a row exactly if its name contains the segment
   (`SuffixFinds`, from `SuffixesInSync`). Since the root row has no suffix,
   a query could lose entries whose ancestor at the best place is the root; that
   place has then the empty segment, all segments are empty, and the best is the *last*
   of them, which is no root (`QueryFindsAsked`). With the first of equals instead
   of the last this would fail.
4. Nothing found is the root: a chain of parents that ends there never leaves it
   (`BelowRoot`).

What is assumed of the comparisons is proved too: `TextsAreFound` states
each part of `SearchAssumption` for the cursor and the comparisons of `GenSuffixes`, with names
and segments of any length (the runs have a few short ones).
The cursor yields the name without its first k characters, for each k, and then ends
(`SuffixesAre`); a text is between a segment and the segment with U+10FFFF behind exactly
if it starts with it (`RangeStarts`); so a suffix is in the range exactly if the segment is
in the name at its place (`SuffixFits`). Two hypotheses are needed, and the code
does not ensure them. No name has the character U+10FFFF: after a segment it would
not be below the end of the range. No segment has U+FFFD: the cursor yields it
for an invalid byte, which LIKE does not take for it. Segments hold no
invalid byte, since they are Rust strings.

### The query process and the extension

`SearchUiProofs` proves for every set of texts with their rows, every set of ids
that fail or cannot be printed, every set of counts that do not parse, and any
number of changes by the user:

| theorem | says |
|---|---|
| `UiTypeCorrect` | `Spec => []UiTypeOK` |
| `OwnResultsAlways` | `Spec => []OwnResults` |
| `SettledShowsAnswerAlways` | `Spec => []SettledShowsAnswer` |
| `ProcessImplementsService` | `Spec => ImplementsService` |

Assumed are types only (`QueryAssumption`, `UiAssumption`): a text has a finite
sequence of rows, `NoLine` is no line, the empty text is a text.

1. *The thread* (`ProcessInv`). While a statement runs, the rows it has yet to
   return are the rest of its line's rows after the printed ones, and fewer
   are printed than were asked for. An interrupt is set, and an answer
   ends before its time, only while a later line waits (`Later`): in the
   channel or still in the main thread's hands, since the interrupt comes before
   the send. This last is what a test hardly reaches: if the interrupt could outlive
   its reason, the last line would lose its rows. It cannot, because the thread
   returns to `recv` only with the flag cleared.
2. *The answer.* `Answer` is a longest prefix; `AnswerIs` says that n rows fit
   exactly if n is at most its length, so that each row printed is the next of it and
   a row that fails, or the last that was asked for, is its end.
3. *The refinement.* `asked` is the channel, what is held and what is in the pipe,
   in this order; `given` is `printed`; the service is alive unless the thread is
   dead. Reading and sending a line leave `asked` as it is
   (`ReadLineAsks`, `SendAsks`), `Start` and `Leave` stutter, every
   other step is one of the service.
4. *The extension* (`UiInv`). The output says truly in whose answer it is: there is a
   function from the lines of output to the line they answer, which begins with the
   answer the extension is in and ends with the one the thread is in (`Streams`). So a
   row is collected only for its own query (`OwnResults`). And of the query the
   user wants, no row is lost (`Follows`): it is the last line asked, or all its rows
   printed so far have come or are on their way. The function is not a variable: the
   invariant says that one exists, and each step makes the next from it.

### Only model-checked

- Of the watcher, `KnownReported`, and `Converged` and `DirHandlesUnique` where events
  merge or a directory arrives and is walked: they hold of the runs' system calls
  and not of all; the runs that end in a violation show what breaks them.
- Liveness (`EventuallyConverged`, `Settles`, `GoneWithUi`): out of the prover's
  reach.

## Not modelled, and the plan

Not composed: the indexer beside a running watcher (both write; with
`busy_timeout` negative one of them fails at once, which is the `DbErrors` of
`Watcher` and `Skip`, or a failed commit, of `Indexer`), and queries on a database that the
watcher has damaged by what it missed. The extension's history (scores by row
id, which SQLite may use again) only orders the list.

Not modelled either: that SQLite may roll back the whole transaction after an I/O error
(the indexer's later statements then commit one by one, and its commit fails); that
the extension kills the process when it is unmounted (`instance.kill()`: a process
that is killed leaves nothing to check); a line that is not UTF-8, at which the process ends
(`queryer.rs:136`) and which the extension never sends; the `expect` of the other parsers
in `src/fanotify.rs`, whose records no comment disputes.

Left out for good: byte layout of events and handles (`src/fanotify.rs`,
`src/file_handle.rs`, `src/util.rs`: pure reads of a buffer), the command line, logging,
pragmas and migrations, the declarations of the virtual table, reading the filter file, file handles in btrfs (a
handle is in the subvolume or `Foreign`), and the reuse of file handles.
