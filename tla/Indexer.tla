------------------------------ MODULE Indexer -------------------------------
(***************************************************************************)
(* `sqsearch index` (src/indexer.rs): a walk over a tree that goes on      *)
(* changing.  Everything is done by path: walkdir opens a directory by its *)
(* path, and the handles of an entry and of its parent are taken by path,  *)
(* one after the other.  The rows are committed a number of entries at a   *)
(* time; the command may be killed and run again on what it left.          *)
(***************************************************************************)
EXTENDS FilesTable, Sequences

CONSTANTS
  Dirs,         (* the handles of directories                              *)
  Root,         (* the directory that is indexed                           *)
  None,
  CommitEvery,  (* entries in a transaction: 10000                         *)
  MaxRuns       (* bound: how often the command is run                     *)

DirEntry == [p : Dirs, n : Name \ {RootName}, h : Handle]

ASSUME IndexerAssumption ==
  /\ Root \in Dirs /\ Dirs \subseteq Handle /\ None \notin Handle
  /\ CommitEvery \in Nat \ {0} /\ MaxRuns \in Nat

VARIABLES
  tree,     (* the directory entries, as in Filesystem                     *)
  db,       (* the committed database                                      *)
  work,     (* the database as tx sees it                                  *)
  running,
  runs,     (* how often index has been called                             *)
  frames,   (* walkdir's stack, innermost first: path, the directory open  *)
            (* (None if that failed), its entries once they have been read *)
  item,     (* the entry in index_path: its path, its handle once taken    *)
  i,        (* entries so far, modulo CommitEvery                          *)
  done      (* the last run came to its end                                *)

dbVars == <<db, work>>
runVars == <<running, runs, done>>
walkVars == <<frames, item, i>>
indexVars == <<dbVars, runVars, walkVars>>

Init ==
  /\ tree \in SUBSET DirEntry
  /\ db = EmptyDb /\ work = EmptyDb
  /\ running = FALSE /\ runs = 0 /\ done = FALSE
  /\ frames = <<>> /\ item = None /\ i = 0

-----------------------------------------------------------------------------
(* The handle a path below the root leads to (a set of none or one).       *)
Resolved(path) ==
  LET reach[k \in 0 .. Len(path)] ==
        IF k = 0 THEN {Root}
        ELSE {e.h : e \in {x \in tree : x.p \in reach[k - 1] /\ x.n = path[k]}}
  IN  {h \in Handle : h \in reach[Len(path)]}

Frame(path, dirs) ==
  [path |-> path, read |-> FALSE, list |-> {},
   dir |-> IF dirs = {} THEN None ELSE CHOOSE h \in dirs : TRUE]

(* Connection::transaction, ensure_root and the walk's first step; if one  *)
(* of the first two fails there is no run.                                 *)
Start ==
  /\ ~running /\ runs < MaxRuns
  /\ LET r == EnsureRoot(db, Root)
     IN  r.err = "Ok" /\ work' = r.db
  /\ running' = TRUE /\ runs' = runs + 1 /\ done' = FALSE
  /\ frames' = <<Frame(<<>>, {Root})>> /\ item' = None /\ i' = 1 % CommitEvery
  /\ UNCHANGED <<tree, db>>

(* The entries of an open directory that are still to be handed out.       *)
ToCome(frame) == IF frame.read THEN frame.list ELSE {e \in tree : e.p = frame.dir}

(* WalkDir::next: the next name of the innermost directory; a directory is *)
(* opened before it is handed out.  A directory that is gone by then is    *)
(* one more entry, an error that index skips.                              *)
NextEntry ==
  /\ running /\ item = None /\ frames # <<>>
  /\ LET top == Head(frames)
         list == ToCome(top)
     IN  \/ /\ list = {}
            /\ frames' = Tail(frames)
            /\ i' = IF top.dir = None THEN (i + 1) % CommitEvery ELSE i
            /\ UNCHANGED item
         \/ \E e \in list :
              LET path == Append(top.path, e.n)
                  rest == <<[top EXCEPT !.read = TRUE, !.list = list \ {e}]>> \o Tail(frames)
              IN  /\ item' = [path |-> path, fh |-> None]
                  /\ frames' = IF e.h \in Dirs
                               THEN <<Frame(path, Resolved(path) \cap Dirs)>> \o rest ELSE rest
                  /\ UNCHANGED i
  /\ UNCHANGED <<tree, dbVars, runVars>>

\* Mutant of EntryDone: the new transaction starts, the old is not committed.
EntryUncommitted(w) ==
  /\ work' = IF i = 0 THEN db ELSE w
  /\ item' = None /\ i' = (i + 1) % CommitEvery
  /\ UNCHANGED db

(* The innermost directory cannot be opened, or not be read on: an error   *)
(* that index skips, and what has not been handed out is not walked.       *)
ReadFails ==
  /\ running /\ item = None /\ frames # <<>>
  /\ frames' = Tail(frames) /\ i' = (i + 1) % CommitEvery
  /\ UNCHANGED <<tree, dbVars, runVars, item>>

(* The rest of the loop's body, whatever index_path returned.              *)
EntryDone(w) ==
  /\ work' = w
  /\ db' = IF i = 0 THEN w ELSE db
  /\ item' = None /\ i' = (i + 1) % CommitEvery

(* index_path takes the handle of the entry ...                            *)
GetFh ==
  /\ running /\ item # None /\ item.fh = None
  /\ LET fh == Resolved(item.path)
     IN  IF fh = {} THEN EntryDone(work)
         ELSE item' = [item EXCEPT !.fh = CHOOSE h \in fh : TRUE] /\ UNCHANGED <<dbVars, i>>
  /\ UNCHANGED <<tree, runVars, frames>>

\* Mutant of Insert: an entry whose parent is not found goes below the root.
InsertAnywhere(d, fh, name, p) ==
  Create(d, fh, name, IF p.err = "Ok" THEN p.id ELSE ROOT_ID).db

(* The statements of index_path, given the lookup of the parent: what they *)
(* themselves find wrong is logged and leaves the database as it was.      *)
Insert(d, fh, name, p) == IF p.err = "Ok" THEN Create(d, fh, name, p.id).db ELSE d

(* ... then that of its parent, looks the parent up and makes the row,     *)
(* each of which may fail for other reasons: see Skip.                     *)
IndexEntry ==
  /\ running /\ item # None /\ item.fh # None
  /\ LET last == Len(item.path)
         p_fh == Resolved(SubSeq(item.path, 1, last - 1))
     IN  IF p_fh = {} THEN EntryDone(work)
         ELSE EntryDone(Insert(work, item.fh, item.path[last],
                               GetDirId(work, CHOOSE h \in p_fh : TRUE)))
  /\ UNCHANGED <<tree, runVars, frames>>

(* A handle cannot be taken for another reason than that the path is gone, *)
(* or SQLite fails one of the statements (the database is busy, the disk   *)
(* is full): that is logged, the entry goes without its row, and the run   *)
(* goes on as if nothing had happened.                                     *)
Skip ==
  /\ running /\ item # None
  /\ EntryDone(work)
  /\ UNCHANGED <<tree, runVars, frames>>

\* Mutant of Stopped: the walk outlives the run.
StoppedOnly == running' = FALSE /\ UNCHANGED walkVars

(* The walk and the transaction go with the call.                          *)
Stopped == running' = FALSE /\ frames' = <<>> /\ item' = None /\ i' = 0

Finish ==
  /\ running /\ item = None /\ frames = <<>>
  /\ db' = work /\ done' = TRUE
  /\ Stopped
  /\ UNCHANGED <<tree, work, runs>>

(* The command is killed, or a commit fails.                               *)
Crash ==
  /\ running
  /\ work' = db
  /\ Stopped
  /\ UNCHANGED <<tree, db, runs, done>>

IndexStep == Start \/ NextEntry \/ ReadFails \/ GetFh \/ IndexEntry \/ Skip \/ Finish

(* Other programs: anything may happen to the tree.                        *)
Change == tree' \in SUBSET DirEntry /\ UNCHANGED indexVars

Next == IndexStep \/ Crash \/ Change

vars == <<tree, indexVars>>

Spec == Init /\ [][Next]_vars

-----------------------------------------------------------------------------
(* Properties *)

PathBelowRoot == Seq(Name \ {RootName})
FrameType == [path : PathBelowRoot, read : BOOLEAN, list : SUBSET DirEntry, dir : Dirs \cup {None}]
ItemType == [path : PathBelowRoot \ {<<>>}, fh : Handle \cup {None}]

IndexerTypeOK ==
  /\ tree \subseteq DirEntry
  /\ i \in 0 .. CommitEvery - 1 /\ runs \in 0 .. MaxRuns
  /\ frames \in Seq(FrameType)
  /\ item = None \/ item \in ItemType
  /\ ~running => frames = <<>> /\ item = None

(* Whatever happens to the tree during the walk, and wherever a run is     *)
(* killed, the database left behind is empty or one the watcher and the    *)
(* queries may start from (DbWriterAssumption), and so is the transaction. *)
IndexSound ==
  /\ db = EmptyDb \/ (Sound(db) /\ Named(db))
  /\ running => Sound(work) /\ Named(work)

(* What the index shows.                                                   *)
Indexed(d) ==
  {[p |-> d.files[d.files[k].parent_id].file_handle,
    n |-> d.files[k].name, h |-> d.files[k].file_handle] : k \in DOMAIN d.files \ {ROOT_ID}}
=============================================================================
