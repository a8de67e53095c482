----------------------------- MODULE FilesTable -----------------------------
(***************************************************************************)
(* The SQLite database of src/db.rs as a value, and the statements that    *)
(* read and write it as operators from a database to a result.             *)
(*                                                                         *)
(* A database is a record with the two tables of the migration:            *)
(*   files         a function from row ids to rows,                        *)
(*   suffix_array  a set of <<suffix, id>> pairs.                          *)
(* The foreign key (ON DELETE CASCADE), the UNIQUE(parent_id, name)        *)
(* constraint and the three triggers are part of the statements, as they   *)
(* are in SQLite.                                                          *)
(***************************************************************************)
EXTENDS Naturals, FiniteSets

CONSTANTS
  Handle,     (* file handles (FileHandle): one per file or directory      *)
  Name,       (* names of directory entries, the root's included           *)
  RootName,   (* the empty name that ensure_root gives the root row        *)
  Suffix,     (* the strings that gen_suffixes yields                      *)
  SuffixesOf    (* SuffixesOf[n]: what gen_suffixes(n) yields                  *)

ASSUME NamesAssumption ==
  /\ RootName \in Name
  /\ SuffixesOf \in [Name -> SUBSET Suffix]

ROOT_ID == 1
Id == Nat \ {0}
Row == [file_handle : Handle, name : Name, parent_id : Id]

EmptyDb == [files |-> [k \in {} |-> k], suffix_array |-> {}]

-----------------------------------------------------------------------------
(* Result of a statement: an error of db::Error ("Ok" when there is none), *)
(* a row id (0 when there is none) and the database afterwards.            *)

Done(db, id) == [err |-> "Ok", id |-> id, db |-> db]
Fail(db, e)  == [err |-> e, id |-> 0, db |-> db]

(* query_one: exactly one row, or NoFile, or ManyFiles.                    *)
QueryOne(db, ids) ==
  IF ids = {} THEN Fail(db, "NoFile")
  ELSE IF \A i, j \in ids : i = j THEN Done(db, CHOOSE i \in ids : TRUE)
  ELSE Fail(db, "ManyFiles")

HandleIds(db, fh) == {k \in DOMAIN db.files : db.files[k].file_handle = fh}

DirentIds(db, name, p_id) ==
  {k \in DOMAIN db.files : /\ db.files[k].name = name
                           /\ db.files[k].parent_id = p_id}

GetDirId(db, fh) == QueryOne(db, HandleIds(db, fh))
GetDirentId(db, name, p_id) == QueryOne(db, DirentIds(db, name, p_id))

-----------------------------------------------------------------------------
(* The rowid SQLite picks: one more than the largest in use.               *)
NextRowId(files) ==
  CHOOSE n \in {1} \cup {k + 1 : k \in DOMAIN files} :
    \A k \in DOMAIN files : k < n

\* Mutant of Create: no UNIQUE(parent_id, name).
CreateAnyway(db, fh, name, p_id) ==
  LET id == NextRowId(db.files)
  IN  Done([files |-> [k \in DOMAIN db.files \cup {id} |->
                         IF k = id
                         THEN [file_handle |-> fh, name |-> name, parent_id |-> p_id]
                         ELSE db.files[k]],
            suffix_array |-> db.suffix_array \cup (SuffixesOf[name] \X {id})],
           id)

Create(db, fh, name, p_id) ==
  LET id == NextRowId(db.files)
  IN  IF DirentIds(db, name, p_id) # {} \/ p_id \notin DOMAIN db.files \cup {id}
      THEN Fail(db, "NameTaken")         \* any constraint violation
      ELSE Done([files |-> [k \in DOMAIN db.files \cup {id} |->
                              IF k = id
                              THEN [file_handle |-> fh, name |-> name, parent_id |-> p_id]
                              ELSE db.files[k]],
                 suffix_array |-> db.suffix_array \cup (SuffixesOf[name] \X {id})],
                id)

\* Mutant of Subtree: foreign_keys is off, nothing cascades.
RowOnly(files, id) == {id}

\* Mutant of Subtree: the foreign key points the wrong way, rows take their
\* parents along.
Supertree(files, id) ==
  {k \in DOMAIN files : \A S \in SUBSET DOMAIN files :
    id \in S /\ (\A j \in S : files[j].parent_id \in S) => k \in S}

(* The rows that go with row id: the least set that has id and, with a     *)
(* row, every row whose parent it is.                                      *)
Subtree(files, id) ==
  LET Closed(S) == /\ id \in S
                   /\ \A k \in DOMAIN files : files[k].parent_id \in S => k \in S
  IN  {k \in DOMAIN files : \A S \in SUBSET DOMAIN files : Closed(S) => k \in S}

DeleteWithId(db, id) ==
  IF id \notin DOMAIN db.files THEN Fail(db, "NoFile")
  ELSE LET gone == Subtree(db.files, id)
       IN  Done([files |-> [k \in DOMAIN db.files \ gone |-> db.files[k]],
                 suffix_array |-> {e \in db.suffix_array :
                   ~(e[2] \in gone /\ e[1] \in SuffixesOf[db.files[e[2]].name])}],
                id)

(* The row of a directory entry: name, parent and file handle agree.       *)
EntryIds(db, fh, name, p_id) == DirentIds(db, name, p_id) \cap HandleIds(db, fh)

Delete(db, fh, name, p_id) ==
  LET q == QueryOne(db, EntryIds(db, fh, name, p_id))
  IN  IF q.err = "Ok" THEN DeleteWithId(db, q.id) ELSE q

\* Mutant of UpdateRow: no update_suffixes trigger.
UpdateRowOnly(db, id, name, p_id) ==
  [db EXCEPT !.files[id].name = name, !.files[id].parent_id = p_id]

UpdateRow(db, id, name, p_id) ==
  LET old == db.files[id].name
  IN  [files |-> [db.files EXCEPT ![id].name = name, ![id].parent_id = p_id],
       suffix_array |->
         IF old = name THEN db.suffix_array
         ELSE {e \in db.suffix_array : ~(e[2] = id /\ e[1] \in SuffixesOf[old])}
              \cup (SuffixesOf[name] \X {id})]

Update(db, fh, old_name, old_p_id, new_name, new_p_id) ==
  LET q == QueryOne(db, EntryIds(db, fh, old_name, old_p_id))
  IN  IF q.err # "Ok" THEN q
      ELSE IF \/ DirentIds(db, new_name, new_p_id) \ {q.id} # {}
              \/ new_p_id \notin DOMAIN db.files
      THEN Fail(db, "NameTaken")
      ELSE Done(UpdateRow(db, q.id, new_name, new_p_id), q.id)

EnsureRoot(db, fh) ==
  LET g == GetDirId(db, fh)
      c == IF g.err = "NoFile" THEN Create(db, fh, RootName, ROOT_ID) ELSE g
  IN  IF c.err = "Ok" /\ c.id # ROOT_ID THEN Fail(db, "BadRoot") ELSE c

-----------------------------------------------------------------------------
(* What the schema promises of a database.                                 *)

IsDb(db) ==
  /\ db = [files |-> db.files, suffix_array |-> db.suffix_array]
  /\ DOMAIN db.files \subseteq Id
  /\ IsFiniteSet(DOMAIN db.files)
  /\ db.files \in [DOMAIN db.files -> Row]
  /\ db.suffix_array \subseteq Suffix \X Id

(* The root row is there and is its own parent.                            *)
HasRoot(db) ==
  /\ ROOT_ID \in DOMAIN db.files
  /\ db.files[ROOT_ID].name = RootName
  /\ db.files[ROOT_ID].parent_id = ROOT_ID

NoOrphans(db) == \A k \in DOMAIN db.files : db.files[k].parent_id \in DOMAIN db.files

UniqueDirents(db) ==
  \A j, k \in DOMAIN db.files :
    /\ db.files[j].name = db.files[k].name
    /\ db.files[j].parent_id = db.files[k].parent_id
    => j = k

(* suffix_array holds the suffixes of every indexed name and no others.    *)
SuffixesInSync(db) ==
  db.suffix_array = {e \in Suffix \X DOMAIN db.files : e[1] \in SuffixesOf[db.files[e[2]].name]}

(* Only the root row is without a name.                                    *)
Named(db) == \A k \in DOMAIN db.files : db.files[k].name = RootName => k = ROOT_ID

(* All that the statements keep.                                           *)
Sound(db) ==
  IsDb(db) /\ HasRoot(db) /\ NoOrphans(db) /\ UniqueDirents(db) /\ SuffixesInSync(db)
=============================================================================
