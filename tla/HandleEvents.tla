---------------------------- MODULE HandleEvents ----------------------------
(***************************************************************************)
(* What one event of the watcher does to the database: handle_move and     *)
(* handle_discover of src/watcher.rs, as operators from a database and an  *)
(* event to the result: db::Error or "Ok", the database the transaction    *)
(* then holds, and the discovery requests sent on the way.                 *)
(***************************************************************************)
EXTENDS FilesTable, Sequences

CONSTANT None  (* Option::None for a directory entry                       *)

Dirent == [p_fh : Handle, name : Name \ {RootName}]

Alter == [type : {"Alter"}, old_dirent : Dirent \cup {None},
          new_dirent : Dirent \cup {None}, fh : Handle, is_dir : BOOLEAN]
Discover == [type : {"Discover"}, p_fh : Handle, fh : Handle, name : Name \ {RootName}]
Event == Alter \cup Discover

(* An entry of the files table: handle_move's from and to.                 *)
Entry == [name : Name \ {RootName}, p_id : Id]

ASSUME NoneAssumption == None \notin Dirent /\ None \notin Entry

-----------------------------------------------------------------------------
(* get_ids: an entry whose parent is unknown becomes None.                 *)
GetIds(d, dirent) ==
  LET g == GetDirId(d, dirent.p_fh)
  IN  IF dirent = None \/ g.err = "NoFile" THEN [err |-> "Ok", at |-> None]
      ELSE IF g.err = "Ok"
      THEN [err |-> "Ok", at |-> [name |-> dirent.name, p_id |-> g.id]]
      ELSE [err |-> g.err, at |-> None]

\* Mutant of MoveStatement: a move only makes the new entry.
MoveIsCreate(d, fh, from, to) ==
  IF to # None THEN Create(d, fh, to.name, to.p_id)
  ELSE IF from # None THEN Delete(d, fh, from.name, from.p_id) ELSE Done(d, 0)

(* One statement of the retry loop, by which of from and to is left.       *)
MoveStatement(d, fh, from, to) ==
  CASE from # None /\ to # None -> Update(d, fh, from.name, from.p_id, to.name, to.p_id)
    [] from # None /\ to = None -> Delete(d, fh, from.name, from.p_id)
    [] from = None /\ to # None -> Create(d, fh, to.name, to.p_id)
    [] OTHER                    -> Done(d, 0)

\* Mutant of MovePass: a missing source is tried again.
RetrySource(s, fh) ==
  LET r == MoveStatement(s.db, fh, s.from, s.to)
      q == GetDirentId(s.db, s.to.name, s.to.p_id)
      c == IF q.err = "Ok" THEN DeleteWithId(s.db, q.id) ELSE q
  IN  IF s.err # "Run" \/ r.err = "NoFile" THEN s
      ELSE IF r.err = "NameTaken"
      THEN IF c.err = "Ok" THEN [s EXCEPT !.db = c.db] ELSE [s EXCEPT !.err = c.err]
      ELSE [s EXCEPT !.err = r.err, !.db = r.db]

\* Mutant of MovePass: a taken name is left alone, as handle_discover does.
KeepTaken(s, fh) ==
  LET r == MoveStatement(s.db, fh, s.from, s.to)
  IN  IF s.err # "Run" THEN s
      ELSE IF r.err = "NoFile" THEN [s EXCEPT !.from = None]
      ELSE [s EXCEPT !.err = IF r.err = "NameTaken" THEN "Ok" ELSE r.err, !.db = r.db]

(* One pass of the loop: s.err is "Run" while the loop goes on.            *)
MovePass(s, fh) ==
  LET r == MoveStatement(s.db, fh, s.from, s.to)
      q == GetDirentId(s.db, s.to.name, s.to.p_id)
      c == IF q.err = "Ok" THEN DeleteWithId(s.db, q.id) ELSE q
  IN  CASE s.err # "Run"        -> s
        [] s.err = "Run" /\ r.err = "Ok"        -> [s EXCEPT !.err = "Ok", !.db = r.db]
        [] s.err = "Run" /\ r.err = "NoFile"    -> [s EXCEPT !.from = None]
        [] s.err = "Run" /\ r.err = "NameTaken" ->
             IF c.err = "Ok" THEN [s EXCEPT !.db = c.db] ELSE [s EXCEPT !.err = c.err]
        [] OTHER                -> [s EXCEPT !.err = r.err]

(* The loop.  It never takes more than four passes (LoopEnds).             *)
Passes(S, fh) == {MovePass(s, fh) : s \in S}

MoveLoop(d, fh, from, to) ==
  LET start == [err |-> "Run", db |-> d, from |-> from, to |-> to]
  IN  CHOOSE s \in Passes(Passes(Passes(Passes({start}, fh), fh), fh), fh) : TRUE

\* Mutant of HandleMove: no discovery is requested.
MoveUndiscovered(d, e) ==
  LET from == GetIds(d, e.old_dirent)
      to   == GetIds(d, e.new_dirent)
      loop == MoveLoop(d, e.fh, from.at, to.at)
      err  == CHOOSE x \in {from.err, to.err} : x # "Ok" \/ from.err = to.err
  IN  [err |-> IF err # "Ok" THEN err ELSE loop.err,
       db |-> IF err # "Ok" THEN d ELSE loop.db, sent |-> <<>>]

HandleMove(d, e) ==
  LET from == GetIds(d, e.old_dirent)
      to   == GetIds(d, e.new_dirent)
      loop == MoveLoop(d, e.fh, from.at, to.at)
      arrives == /\ e.is_dir
                 /\ e.old_dirent # None /\ from.at = None
                 /\ e.new_dirent # None /\ to.at # None
  IN  IF from.err # "Ok" THEN [err |-> from.err, db |-> d, sent |-> <<>>]
      ELSE IF to.err # "Ok" THEN [err |-> to.err, db |-> d, sent |-> <<>>]
      ELSE [err |-> loop.err, db |-> loop.db,
            sent |-> IF arrives THEN <<e.fh>> ELSE <<>>]

\* Mutant of HandleDiscover: an entry that is there already is an error.
DiscoverTaken(d, e) ==
  LET p == GetDirId(d, e.p_fh)
      c == IF p.err = "Ok" THEN Create(d, e.fh, e.name, p.id) ELSE p
  IN  [err |-> c.err, db |-> c.db, sent |-> <<>>]

HandleDiscover(d, e) ==
  LET p == GetDirId(d, e.p_fh)
      c == Create(d, e.fh, e.name, p.id)
  IN  IF p.err # "Ok" THEN [err |-> p.err, db |-> d, sent |-> <<>>]
      ELSE [err |-> IF c.err = "NameTaken" THEN "Ok" ELSE c.err, db |-> c.db, sent |-> <<>>]

HandleEvent(d, e) == IF e.type = "Alter" THEN HandleMove(d, e) ELSE HandleDiscover(d, e)
=============================================================================
