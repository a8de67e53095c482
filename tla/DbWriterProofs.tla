--------------------------- MODULE DbWriterProofs ---------------------------
(***************************************************************************)
(* The database thread keeps its database sound and its retry loop ends,   *)
(* for every set of handles, names, suffixes and events, every initial     *)
(* database `sqsearch index` may leave, and without the bounds of the      *)
(* model checker (MaxQueue, MaxId and MaxRequests only guard Send).        *)
(*                                                                         *)
(* First, what one event keeps of a database, and that handle_move's       *)
(* retry loop ends, whatever the event and the database are.               *)
(***************************************************************************)
EXTENDS DbWriter, FilesTableProofs

Place == Entry \cup {None}

(* The state of the retry loop: what it was left of from and to.           *)
Move(s) ==
  /\ s = [err |-> s.err, db |-> s.db, from |-> s.from, to |-> s.to]
  /\ Sound(s.db)
  /\ s.from \in Place /\ s.to \in Place

(* Nothing is at the destination, if there is one.                         *)
Clear(s) == s.to # None => DirentIds(s.db, s.to.name, s.to.p_id) = {}

-----------------------------------------------------------------------------
LEMMA GetIdsType ==
  ASSUME NEW d, NEW dirent \in Dirent \cup {None}, Sound(d)
  PROVE  LET g == GetIds(d, dirent) IN g.at \in Place /\ g.err \in {"Ok", "ManyFiles"}
<1> DEFINE g == GetDirId(d, dirent.p_fh)
<1>1. /\ g.err \in {"Ok", "NoFile", "ManyFiles"}
      /\ g.err = "Ok" => g.id \in HandleIds(d, dirent.p_fh)
  BY QueryOneResult DEF GetDirId
<1>2. g.err = "Ok" => g.id \in Id
  BY <1>1 DEF HandleIds, Sound, IsDb
<1>3. dirent # None => dirent.name \in Name \ {RootName}
  BY DEF Dirent
<1> HIDE DEF g
<1>4. GetIds(d, dirent) =
        IF dirent = None \/ g.err = "NoFile" THEN [err |-> "Ok", at |-> None]
        ELSE IF g.err = "Ok" THEN [err |-> "Ok", at |-> [name |-> dirent.name, p_id |-> g.id]]
        ELSE [err |-> g.err, at |-> None]
  BY DEF GetIds, g
<1> QED BY <1>1, <1>2, <1>3, <1>4 DEF Place, Entry

(* A directory that get_ids finds has exactly one row.                     *)
LEMMA DirectoryFound ==
  ASSUME NEW d, Sound(d), NEW dirent \in Dirent, GetIds(d, dirent).err = "Ok"
  PROVE  LET at == GetIds(d, dirent).at
         IN  \/ at = None /\ HandleIds(d, dirent.p_fh) = {}
             \/ /\ at # None /\ at.name = dirent.name
                /\ HandleIds(d, dirent.p_fh) = {at.p_id}
<1> DEFINE ids == HandleIds(d, dirent.p_fh)
           g == QueryOne(d, ids)
           res == GetIds(d, dirent)
<1>1. /\ g.err \in {"Ok", "NoFile", "ManyFiles"}
      /\ g.err = "Ok" => ids = {g.id}
      /\ g.err = "NoFile" => ids = {}
  <2>1. CASE ids = {}
    BY <2>1 DEF QueryOne, Fail
  <2>2. CASE ids # {} /\ \A i, j \in ids : i = j
    BY <2>2 DEF QueryOne, Done
  <2>3. CASE ids # {} /\ ~(\A i, j \in ids : i = j)
    BY <2>3 DEF QueryOne, Fail
  <2> QED BY <2>1, <2>2, <2>3
<1>2. dirent # None
  BY NoneAssumption
<1>3. res = IF g.err = "NoFile" THEN [err |-> "Ok", at |-> None]
            ELSE IF g.err = "Ok"
            THEN [err |-> "Ok", at |-> [name |-> dirent.name, p_id |-> g.id]]
            ELSE [err |-> g.err, at |-> None]
  BY <1>2 DEF GetIds, GetDirId
<1> HIDE DEF g, ids, res
<1>4. CASE g.err = "NoFile"
  BY <1>1, <1>3, <1>4 DEF ids, res
<1>5. CASE g.err = "Ok"
  <2>1. res.at = [name |-> dirent.name, p_id |-> g.id]
    BY <1>3, <1>5
  <2>2. g.id \in Id /\ dirent.name \in Name \ {RootName}
    BY <1>1, <1>5 DEF ids, HandleIds, Sound, IsDb, Dirent
  <2>3. res.at # None
    BY <2>1, <2>2, NoneAssumption DEF Entry
  <2> QED BY <1>1, <1>5, <2>1, <2>3 DEF ids, res
<1> QED BY <1>1, <1>3, <1>4, <1>5 DEF res

(* A statement of the loop keeps the database sound.  "NoFile" means that  *)
(* there was a source, "NameTaken" that there is a destination and that it *)
(* is taken or its directory gone.                                         *)
LEMMA MoveStatementResult ==
  ASSUME NEW d, Sound(d), NEW fh \in Handle, NEW from \in Place, NEW to \in Place
  PROVE  LET r == MoveStatement(d, fh, from, to)
         IN  /\ Sound(r.db)
             /\ r.err \in {"Ok", "NoFile", "ManyFiles", "NameTaken"}
             /\ r.err = "NoFile" => from # None
             /\ r.err = "NameTaken" => to # None
<1> DEFINE r == MoveStatement(d, fh, from, to)
<1>1. /\ from # None => from.name # RootName
      /\ to # None => to.name \in Name
  BY DEF Place, Entry
<1>2. CASE from # None /\ to # None
  <2>1. r = Update(d, fh, from.name, from.p_id, to.name, to.p_id)
    BY <1>2 DEF MoveStatement
  <2> HIDE DEF r
  <2> QED BY <1>1, <1>2, <2>1, UpdateSound DEF r
<1>3. CASE from # None /\ to = None
  <2>1. r = Delete(d, fh, from.name, from.p_id)
    BY <1>3 DEF MoveStatement
  <2> HIDE DEF r
  <2> QED BY <1>1, <1>3, <2>1, DeleteEntrySound DEF r
<1>4. CASE from = None /\ to # None
  <2>1. r = Create(d, fh, to.name, to.p_id)
    BY <1>4 DEF MoveStatement
  <2> HIDE DEF r
  <2> QED BY <1>1, <1>4, <2>1, CreateSound DEF r
<1>5. CASE from = None /\ to = None
  <2>1. r = Done(d, 0)
    BY <1>5 DEF MoveStatement
  <2> QED BY <1>5, <2>1 DEF Done
<1> QED BY <1>2, <1>3, <1>4, <1>5

(* What a pass answers, case by case.                                      *)
PassResult(s, r, c, t) ==
  CASE s.err # "Run" -> t = s
    [] s.err = "Run" /\ r.err = "Ok"        -> t = [s EXCEPT !.err = "Ok", !.db = r.db]
    [] s.err = "Run" /\ r.err = "NoFile"    -> t = [s EXCEPT !.from = None]
    [] s.err = "Run" /\ r.err = "NameTaken" ->
         t = IF c.err = "Ok" THEN [s EXCEPT !.db = c.db] ELSE [s EXCEPT !.err = c.err]
    [] OTHER                -> t = [s EXCEPT !.err = r.err]

LEMMA MovePassCases ==
  ASSUME NEW s, NEW fh
  PROVE  LET r == MoveStatement(s.db, fh, s.from, s.to)
             q == GetDirentId(s.db, s.to.name, s.to.p_id)
             c == IF q.err = "Ok" THEN DeleteWithId(s.db, q.id) ELSE q
         IN  PassResult(s, r, c, MovePass(s, fh))
BY DEF MovePass, PassResult

(* A pass keeps the database sound, and, if the loop goes on, it dropped   *)
(* the source or emptied the destination, which it does only once each.    *)
Progress(s, t) ==
  \/ s.from # None /\ t.from = None /\ (Clear(s) => Clear(t))
  \/ ~Clear(s) /\ Clear(t) /\ t.from = s.from

LEMMA MovePassResult ==
  ASSUME NEW s, Move(s), NEW fh \in Handle
  PROVE  /\ Move(MovePass(s, fh))
         /\ s.err = "Run" /\ MovePass(s, fh).err = "Run" => Progress(s, MovePass(s, fh))
         /\ s.err # "Run" => MovePass(s, fh) = s
<1> DEFINE r == MoveStatement(s.db, fh, s.from, s.to)
           q == GetDirentId(s.db, s.to.name, s.to.p_id)
           c == IF q.err = "Ok" THEN DeleteWithId(s.db, q.id) ELSE q
           t == MovePass(s, fh)
<1>1. /\ Sound(r.db)
      /\ r.err \in {"Ok", "NoFile", "ManyFiles", "NameTaken"}
      /\ r.err = "NoFile" => s.from # None
      /\ r.err = "NameTaken" => s.to # None
  BY MoveStatementResult DEF Move
<1>2. PassResult(s, r, c, t)
  BY MovePassCases
<1>3. s = [err |-> s.err, db |-> s.db, from |-> s.from, to |-> s.to]
  BY DEF Move
<1>4. ASSUME s.to # None
      PROVE  /\ c.err # "Run"
             /\ c.err = "Ok" => Sound(c.db) /\ ~Clear(s)
                                 /\ DirentIds(c.db, s.to.name, s.to.p_id) = {}
  <2> DEFINE ids == DirentIds(s.db, s.to.name, s.to.p_id)
  <2>1. /\ q.err \in {"Ok", "NoFile", "ManyFiles"}
        /\ q.err = "Ok" => q.id \in ids
    BY QueryOneResult DEF GetDirentId
  <2>2. \A k \in ids : k # ROOT_ID /\ k \in DOMAIN s.db.files /\ \A j \in ids : j = k
    BY <1>4 DEF DirentIds, Move, Place, Entry, Sound, HasRoot, UniqueDirents
  <2> HIDE DEF q
  <2>3. CASE q.err # "Ok"
    BY <2>1, <2>3
  <2>4. CASE q.err = "Ok"
    <3>1. c = DeleteWithId(s.db, q.id)
      BY <2>4
    <3>2. q.id # ROOT_ID /\ q.id \in DOMAIN s.db.files /\ ids = {q.id}
      BY <2>1, <2>2, <2>4
    <3>3. Sound(c.db) /\ c.err = "Ok"
      BY <3>1, <3>2, DeleteSound DEF Move
    <3>4. c.db.files = [k \in DOMAIN s.db.files \ Subtree(s.db.files, q.id) |-> s.db.files[k]]
      <4>1. c = LET gone == Subtree(s.db.files, q.id)
                IN  Done([files |-> [k \in DOMAIN s.db.files \ gone |-> s.db.files[k]],
                          suffix_array |-> {e \in s.db.suffix_array :
                            ~(e[2] \in gone /\ e[1] \in SuffixesOf[s.db.files[e[2]].name])}],
                         q.id)
        BY <3>1, <3>2 DEF DeleteWithId
      <4> QED BY <4>1 DEF Done
    <3>5. q.id \in Subtree(s.db.files, q.id)
      BY <3>2, SubtreeClosed
    <3>6. DirentIds(c.db, s.to.name, s.to.p_id) \subseteq ids \ {q.id}
      BY <3>4, <3>5 DEF DirentIds
    <3> QED BY <1>4, <3>2, <3>3, <3>6 DEF Clear
  <2> QED BY <2>3, <2>4
<1> HIDE DEF r, c, t
<1>5. CASE s.err # "Run"
  BY <1>2, <1>5 DEF PassResult, t
<1>6. CASE s.err = "Run" /\ r.err = "Ok"
  <2>1. t = [err |-> "Ok", db |-> r.db, from |-> s.from, to |-> s.to]
    BY <1>2, <1>3, <1>6 DEF PassResult
  <2>2. Move(t) /\ t.err # "Run"
    BY <1>1, <2>1 DEF Move
  <2> QED BY <1>6, <2>2 DEF t
<1>7. CASE s.err = "Run" /\ r.err = "NoFile"
  <2>1. t = [err |-> "Run", db |-> s.db, from |-> None, to |-> s.to]
    BY <1>2, <1>3, <1>7 DEF PassResult
  <2>2. Move(t)
    BY <2>1 DEF Move, Place
  <2>3. Progress(s, t)
    BY <1>1, <1>7, <2>1 DEF Progress, Clear
  <2> QED BY <1>7, <2>2, <2>3 DEF t
<1>8. CASE s.err = "Run" /\ r.err = "NameTaken" /\ c.err = "Ok"
  <2>1. t = [err |-> "Run", db |-> c.db, from |-> s.from, to |-> s.to]
    BY <1>2, <1>3, <1>8 DEF PassResult
  <2>2. Move(t)
    BY <1>1, <1>4, <1>8, <2>1 DEF Move
  <2>3. Progress(s, t)
    BY <1>1, <1>4, <1>8, <2>1 DEF Progress, Clear
  <2> QED BY <1>8, <2>2, <2>3 DEF t
<1>9. CASE s.err = "Run" /\ r.err = "NameTaken" /\ c.err # "Ok"
  <2>1. t = [err |-> c.err, db |-> s.db, from |-> s.from, to |-> s.to]
    BY <1>2, <1>3, <1>9 DEF PassResult
  <2>2. Move(t) /\ t.err # "Run"
    BY <1>1, <1>4, <1>9, <2>1 DEF Move
  <2> QED BY <1>9, <2>2 DEF t
<1>10. CASE s.err = "Run" /\ r.err = "ManyFiles"
  <2>1. t = [err |-> "ManyFiles", db |-> s.db, from |-> s.from, to |-> s.to]
    BY <1>2, <1>3, <1>10 DEF PassResult
  <2>2. Move(t) /\ t.err # "Run"
    BY <2>1 DEF Move
  <2> QED BY <1>10, <2>2 DEF t
<1> QED BY <1>1, <1>5, <1>6, <1>7, <1>8, <1>9, <1>10

LEMMA FourPasses ==
  ASSUME NEW d, NEW fh, NEW from, NEW to
  PROVE  MoveLoop(d, fh, from, to)
         = LET s0 == [err |-> "Run", db |-> d, from |-> from, to |-> to]
           IN  MovePass(MovePass(MovePass(MovePass(s0, fh), fh), fh), fh)
<1> DEFINE s0 == [err |-> "Run", db |-> d, from |-> from, to |-> to]
           s4 == MovePass(MovePass(MovePass(MovePass(s0, fh), fh), fh), fh)
<1>1. \A s : Passes({s}, fh) = {MovePass(s, fh)}
  BY DEF Passes
<1>2. Passes(Passes(Passes(Passes({s0}, fh), fh), fh), fh) = {s4}
  BY <1>1
<1> QED BY <1>2 DEF MoveLoop

(* Four passes are enough: the loop goes on after at most two of them.     *)
LEMMA MoveLoopResult ==
  ASSUME NEW d, Sound(d), NEW fh \in Handle, NEW from \in Place, NEW to \in Place
  PROVE  LET t == MoveLoop(d, fh, from, to) IN Sound(t.db) /\ t.err # "Run"
<1> DEFINE s0 == [err |-> "Run", db |-> d, from |-> from, to |-> to]
           s1 == MovePass(s0, fh)
           s2 == MovePass(s1, fh)
           s3 == MovePass(s2, fh)
           s4 == MovePass(s3, fh)
<1>1. MoveLoop(d, fh, from, to) = s4
  BY FourPasses
<1>2. Move(s0) /\ s0.err = "Run"
  BY DEF Move
<1> HIDE DEF s0
<1>3. /\ Move(s1)
      /\ s1.err = "Run" => Progress(s0, s1)
  BY <1>2, MovePassResult
<1> HIDE DEF s1
<1>4. /\ Move(s2)
      /\ s2.err = "Run" => s1.err = "Run" /\ Progress(s1, s2)
  BY <1>3, MovePassResult
<1> HIDE DEF s2
<1>5. /\ Move(s3)
      /\ s3.err = "Run" => s2.err = "Run" /\ Progress(s2, s3)
  BY <1>4, MovePassResult
<1> HIDE DEF s3
<1>6. /\ Move(s4)
      /\ s4.err = "Run" => s3.err = "Run"
  BY <1>5, MovePassResult
<1>7. s3.err # "Run"
  BY <1>3, <1>4, <1>5 DEF Progress
<1> QED BY <1>1, <1>6, <1>7 DEF Move

(* An event keeps the database sound, ends with an error of db::Error or   *)
(* with none, and sends nothing but directories to walk.                   *)
LEMMA HandleEventResult ==
  ASSUME NEW d, Sound(d), NEW e \in Event
  PROVE  LET h == HandleEvent(d, e)
         IN  Sound(h.db) /\ h.err # "Run" /\ h.sent \in Seq(Handle)
<1>1. CASE e \in Alter
  <2> DEFINE from == GetIds(d, e.old_dirent)
             to == GetIds(d, e.new_dirent)
             loop == MoveLoop(d, e.fh, from.at, to.at)
             arrives == /\ e.is_dir
                        /\ e.old_dirent # None /\ from.at = None
                        /\ e.new_dirent # None /\ to.at # None
  <2>1. /\ e.type = "Alter" /\ e.fh \in Handle
        /\ e.old_dirent \in Dirent \cup {None} /\ e.new_dirent \in Dirent \cup {None}
    BY <1>1 DEF Alter
  <2>2. /\ from.at \in Place /\ to.at \in Place
        /\ from.err # "Run" /\ to.err # "Run"
    BY <2>1, GetIdsType
  <2>3. HandleEvent(d, e) =
          IF from.err # "Ok" THEN [err |-> from.err, db |-> d, sent |-> <<>>]
          ELSE IF to.err # "Ok" THEN [err |-> to.err, db |-> d, sent |-> <<>>]
          ELSE [err |-> loop.err, db |-> loop.db,
                sent |-> IF arrives THEN <<e.fh>> ELSE <<>>]
    BY <2>1 DEF HandleEvent, HandleMove
  <2> HIDE DEF from, to
  <2>4. Sound(loop.db) /\ loop.err # "Run"
    BY <2>1, <2>2, MoveLoopResult
  <2> HIDE DEF loop, arrives
  <2>5. <<e.fh>> \in Seq(Handle) /\ <<>> \in Seq(Handle)
    BY <2>1
  <2> QED BY <2>2, <2>3, <2>4, <2>5
<1>2. CASE e \in Discover
  <2> DEFINE p == GetDirId(d, e.p_fh)
             c == Create(d, e.fh, e.name, p.id)
  <2>1. e.type = "Discover" /\ e.fh \in Handle /\ e.name \in Name
    BY <1>2 DEF Discover
  <2>2. p.err \in {"Ok", "NoFile", "ManyFiles"}
    BY QueryOneResult DEF GetDirId
  <2>3. Sound(c.db) /\ c.err \in {"Ok", "NameTaken"}
    BY <2>1, CreateSound
  <2>4. HandleEvent(d, e) =
          IF p.err # "Ok" THEN [err |-> p.err, db |-> d, sent |-> <<>>]
          ELSE [err |-> IF c.err = "NameTaken" THEN "Ok" ELSE c.err, db |-> c.db, sent |-> <<>>]
    BY <2>1 DEF HandleEvent, HandleDiscover
  <2> HIDE DEF p, c
  <2> QED BY <2>2, <2>3, <2>4
<1> QED BY <1>1, <1>2 DEF Event
-----------------------------------------------------------------------------
(* What an event does to the entries it speaks of.                         *)

(* Row k of d is as it was in d0.                                          *)
Kept(d, d0, k) == k \in DOMAIN d0.files /\ d.files[k] = d0.files[k]

(* Nothing has happened since d0 but deletions.                            *)
Fewer(d, d0) == \A k \in DOMAIN d.files : Kept(d, d0, k)

At(d, k, fh, place) ==
  /\ d.files[k].file_handle = fh
  /\ d.files[k].name = place.name /\ d.files[k].parent_id = place.p_id

(* fh is at the destination and no longer at the source; every other row   *)
(* is as it was or gone.                                                   *)
Outcome(d, d0, fh, from, to) ==
  /\ to # None => \E k \in DOMAIN d.files : At(d, k, fh, to)
  /\ from \notin {None, to} => \A k \in DOMAIN d.files : ~At(d, k, fh, from)
  /\ \A k \in DOMAIN d.files : Kept(d, d0, k) \/ (to # None /\ At(d, k, fh, to))

LEMMA EntryIdsAt ==
  ASSUME NEW d, NEW fh, NEW place
  PROVE  EntryIds(d, fh, place.name, place.p_id) = {k \in DOMAIN d.files : At(d, k, fh, place)}
BY DEF EntryIds, DirentIds, HandleIds, At

(* A deletion removes the row, and only removes.                           *)
LEMMA DeleteOutcome ==
  ASSUME NEW d, NEW id \in DOMAIN d.files
  PROVE  LET r == DeleteWithId(d, id)
         IN  r.err = "Ok" /\ Fewer(r.db, d) /\ id \notin DOMAIN r.db.files
<1> DEFINE gone == Subtree(d.files, id)
           r == DeleteWithId(d, id)
<1>1. id \in gone
  BY SubtreeClosed
<1>2. r.err = "Ok" /\ r.db.files = [k \in DOMAIN d.files \ gone |-> d.files[k]]
  BY DEF DeleteWithId, Done
<1> HIDE DEF gone, r
<1>3. Fewer(r.db, d) /\ id \notin DOMAIN r.db.files
  BY <1>1, <1>2 DEF Fewer, Kept
<1> QED BY <1>2, <1>3 DEF r

(* A statement that succeeds has the outcome; one that misses its source   *)
(* misses it because no row is there.                                      *)
LEMMA StatementOutcome ==
  ASSUME NEW d, Sound(d), NEW fh \in Handle, NEW from \in Place, NEW to \in Place
  PROVE  LET r == MoveStatement(d, fh, from, to)
         IN  /\ r.err = "Ok" => Outcome(r.db, d, fh, from, to)
             /\ r.err = "NoFile" => \A k \in DOMAIN d.files : ~At(d, k, fh, from)
<1> DEFINE r == MoveStatement(d, fh, from, to)
           ids == EntryIds(d, fh, from.name, from.p_id)
           q == QueryOne(d, ids)
<1>1. ids = {k \in DOMAIN d.files : At(d, k, fh, from)}
  BY EntryIdsAt
<1>2. /\ q.err \in {"Ok", "NoFile", "ManyFiles"}
      /\ q.err = "Ok" => q.id \in ids
      /\ q.err = "NoFile" => ids = {}
  BY QueryOneResult
<1>3. \A j, k \in DOMAIN d.files : At(d, j, fh, from) /\ At(d, k, fh, from) => j = k
  BY DEF At, Sound, UniqueDirents
<1>4. CASE from # None /\ to # None
  <2> DEFINE new == UpdateRow(d, q.id, to.name, to.p_id)
  <2>1. r = IF q.err # "Ok" THEN q
            ELSE IF \/ DirentIds(d, to.name, to.p_id) \ {q.id} # {}
                    \/ to.p_id \notin DOMAIN d.files
            THEN Fail(d, "NameTaken")
            ELSE Done(new, q.id)
    BY <1>4 DEF MoveStatement, Update
  <2> HIDE DEF r, q, ids
  <2>2. r.err = "NoFile" => q.err = "NoFile"
    BY <2>1 DEF Fail, Done
  <2>3. ASSUME r.err = "Ok"
        PROVE  Outcome(r.db, d, fh, from, to)
    <3>1. q.err = "Ok" /\ r.db = new
      BY <2>1, <2>3 DEF Fail, Done
    <3>2. q.id \in DOMAIN d.files /\ At(d, q.id, fh, from)
      BY <1>1, <1>2, <3>1
    <3>3. new.files = [d.files EXCEPT ![q.id].name = to.name, ![q.id].parent_id = to.p_id]
      BY DEF UpdateRow
    <3>4. d.files = [k \in DOMAIN d.files |-> d.files[k]] /\ d.files[q.id] \in Row
      BY <3>2 DEF Sound, IsDb
    <3>5. /\ DOMAIN new.files = DOMAIN d.files
          /\ \A k \in DOMAIN d.files : k # q.id => new.files[k] = d.files[k]
          /\ new.files[q.id] = [file_handle |-> d.files[q.id].file_handle,
                                name |-> to.name, parent_id |-> to.p_id]
      BY <3>2, <3>3, <3>4 DEF Row
    <3>6. At(new, q.id, fh, to)
      BY <3>2, <3>5 DEF At
    <3> HIDE DEF new
    <3>7. ASSUME from # to, NEW k \in DOMAIN new.files, At(new, k, fh, from)
          PROVE  FALSE
      <4>1. CASE k = q.id
        <5>1. from.name = to.name /\ from.p_id = to.p_id
          BY <3>6, <3>7, <4>1 DEF At
        <5> QED BY <1>4, <3>7, <5>1 DEF Place, Entry
      <4>2. CASE k # q.id
        BY <1>3, <3>2, <3>5, <3>7, <4>2 DEF At
      <4> QED BY <4>1, <4>2
    <3>8. \A k \in DOMAIN new.files : Kept(new, d, k) \/ At(new, k, fh, to)
      BY <3>5, <3>6 DEF Kept
    <3> QED BY <1>4, <3>1, <3>2, <3>5, <3>6, <3>7, <3>8 DEF Outcome
  <2> QED BY <1>1, <1>2, <2>2, <2>3 DEF r
<1>5. CASE from # None /\ to = None
  <2>1. r = IF q.err = "Ok" THEN DeleteWithId(d, q.id) ELSE q
    BY <1>5 DEF MoveStatement, Delete
  <2> HIDE DEF r, q, ids
  <2>2. CASE q.err = "Ok"
    <3>1. q.id \in DOMAIN d.files /\ At(d, q.id, fh, from)
      BY <1>1, <1>2, <2>2
    <3>2. r.err = "Ok" /\ Fewer(r.db, d) /\ q.id \notin DOMAIN r.db.files
      BY <2>1, <2>2, <3>1, DeleteOutcome
    <3>3. \A k \in DOMAIN r.db.files : ~At(r.db, k, fh, from)
      BY <1>3, <3>1, <3>2 DEF Fewer, Kept, At
    <3> QED BY <1>5, <3>2, <3>3 DEF Outcome, Fewer, r
  <2>3. CASE q.err # "Ok"
    BY <1>1, <1>2, <2>1, <2>3 DEF r
  <2> QED BY <2>2, <2>3
<1>6. CASE from = None /\ to # None
  <2> DEFINE id == NextRowId(d.files)
             row == [file_handle |-> fh, name |-> to.name, parent_id |-> to.p_id]
             new == [k \in DOMAIN d.files \cup {id} |-> IF k = id THEN row ELSE d.files[k]]
  <2>1. r = Create(d, fh, to.name, to.p_id)
    BY <1>6 DEF MoveStatement
  <2>2. r.err = "Ok" => r.db.files = new
    BY <2>1 DEF Create, Fail, Done
  <2>3. r.err # "NoFile"
    BY <2>1 DEF Create, Fail, Done
  <2>4. ASSUME r.err = "Ok" PROVE Outcome(r.db, d, fh, from, to)
    <3>1. At(r.db, id, fh, to) /\ id \in DOMAIN r.db.files
      BY <2>2, <2>4 DEF At
    <3>2. \A k \in DOMAIN r.db.files : k # id => Kept(r.db, d, k)
      BY <2>2, <2>4 DEF Kept
    <3> HIDE DEF r, id
    <3> QED BY <1>6, <3>1, <3>2 DEF Outcome
  <2> QED BY <2>3, <2>4
<1>7. CASE from = None /\ to = None
  <2>1. r = Done(d, 0)
    BY <1>7 DEF MoveStatement
  <2> QED BY <1>7, <2>1 DEF Done, Outcome, Kept
<1> QED BY <1>4, <1>5, <1>6, <1>7

(* A state of the loop that was started on d0 to move fh from `from` to    *)
(* `to`: until the loop ends it has only deleted, and dropped the source   *)
(* only when it was missing.                                               *)
Tracked(s, d0, fh, from, to) ==
  /\ s.to = to
  /\ s.err = "Run" =>
       /\ Fewer(s.db, d0)
       /\ \/ s.from = from
          \/ s.from = None /\ \A k \in DOMAIN s.db.files : ~At(s.db, k, fh, from)
  /\ s.err = "Ok" => Outcome(s.db, d0, fh, from, to)

LEMMA TrackedPass ==
  ASSUME NEW s, Move(s), NEW d0, NEW fh \in Handle, NEW from \in Place, NEW to \in Place,
         Tracked(s, d0, fh, from, to)
  PROVE  Tracked(MovePass(s, fh), d0, fh, from, to)
<1> DEFINE r == MoveStatement(s.db, fh, s.from, s.to)
           q == GetDirentId(s.db, s.to.name, s.to.p_id)
           c == IF q.err = "Ok" THEN DeleteWithId(s.db, q.id) ELSE q
           t == MovePass(s, fh)
<1>1. PassResult(s, r, c, t)
  BY MovePassCases
<1>2. s = [err |-> s.err, db |-> s.db, from |-> s.from, to |-> s.to]
  BY DEF Move
<1>3. /\ r.err \in {"Ok", "NoFile", "ManyFiles", "NameTaken"}
      /\ r.err = "NoFile" => s.from # None
      /\ r.err = "Ok" => Outcome(r.db, s.db, fh, s.from, s.to)
      /\ r.err = "NoFile" => \A k \in DOMAIN s.db.files : ~At(s.db, k, fh, s.from)
  BY MoveStatementResult, StatementOutcome DEF Move
<1>4. q.err \in {"Ok", "NoFile", "ManyFiles"}
      /\ (q.err = "Ok" => q.id \in DOMAIN s.db.files)
  BY QueryOneResult DEF GetDirentId, DirentIds
<1> HIDE DEF r, q, t
<1>5. /\ c.err \in {"Ok", "NoFile", "ManyFiles"}
      /\ c.err = "Ok" => Fewer(c.db, s.db)
  <2>1. CASE q.err = "Ok"
    BY <1>4, <2>1, DeleteOutcome
  <2>2. CASE q.err # "Ok"
    BY <1>4, <2>2
  <2> QED BY <2>1, <2>2
<1> HIDE DEF c
<1>6. CASE s.err # "Run"
  <2>1. t = s
    BY <1>1, <1>6 DEF PassResult
  <2> QED BY <2>1 DEF t
<1>7. CASE s.err = "Run" /\ r.err = "Ok"
  <2>1. t = [err |-> "Ok", db |-> r.db, from |-> s.from, to |-> s.to]
    BY <1>1, <1>2, <1>7 DEF PassResult
  <2>2. Outcome(r.db, s.db, fh, s.from, s.to) /\ s.to = to /\ Fewer(s.db, d0)
    BY <1>3, <1>7 DEF Tracked
  <2>3. \A k \in DOMAIN r.db.files : Kept(r.db, d0, k) \/ (to # None /\ At(r.db, k, fh, to))
    BY <2>2 DEF Outcome, Fewer, Kept
  <2>4. from \notin {None, to} => \A k \in DOMAIN r.db.files : ~At(r.db, k, fh, from)
    <3> SUFFICES ASSUME from \notin {None, to}, NEW k \in DOMAIN r.db.files,
                        At(r.db, k, fh, from)
                 PROVE  FALSE
      OBVIOUS
    <3>1. CASE s.from = from
      BY <2>2, <3>1 DEF Outcome
    <3>2. CASE \A j \in DOMAIN s.db.files : ~At(s.db, j, fh, from)
      <4>1. CASE Kept(r.db, s.db, k)
        BY <3>2, <4>1 DEF Kept, At
      <4>2. CASE to # None /\ At(r.db, k, fh, to)
        <5>1. from.name = to.name /\ from.p_id = to.p_id
          BY <4>2 DEF At
        <5> QED BY <4>2, <5>1 DEF Place, Entry
      <4> QED BY <2>2, <4>1, <4>2 DEF Outcome
    <3> QED BY <1>7, <3>1, <3>2 DEF Tracked
  <2>5. Outcome(r.db, d0, fh, from, to)
    BY <2>2, <2>3, <2>4 DEF Outcome
  <2> QED BY <2>1, <2>2, <2>5 DEF Tracked, t
<1>8. CASE s.err = "Run" /\ r.err = "NoFile"
  <2>1. t = [err |-> "Run", db |-> s.db, from |-> None, to |-> s.to]
    BY <1>1, <1>2, <1>8 DEF PassResult
  <2> QED BY <1>3, <1>8, <2>1 DEF Tracked, t
<1>9. CASE s.err = "Run" /\ r.err = "NameTaken" /\ c.err = "Ok"
  <2>1. t = [err |-> "Run", db |-> c.db, from |-> s.from, to |-> s.to]
    BY <1>1, <1>2, <1>9 DEF PassResult
  <2>2. Fewer(c.db, s.db) /\ Fewer(s.db, d0)
    BY <1>5, <1>9 DEF Tracked
  <2>3. Fewer(c.db, d0)
    BY <2>2 DEF Fewer, Kept
  <2>4. (\A k \in DOMAIN s.db.files : ~At(s.db, k, fh, from))
        => \A k \in DOMAIN c.db.files : ~At(c.db, k, fh, from)
    BY <2>2 DEF Fewer, Kept, At
  <2> QED BY <1>9, <2>1, <2>3, <2>4 DEF Tracked, t
<1>10. CASE s.err = "Run" /\ r.err = "NameTaken" /\ c.err # "Ok"
  <2>1. t = [err |-> c.err, db |-> s.db, from |-> s.from, to |-> s.to]
    BY <1>1, <1>2, <1>10 DEF PassResult
  <2> QED BY <1>5, <1>10, <2>1 DEF Tracked, t
<1>11. CASE s.err = "Run" /\ r.err = "ManyFiles"
  <2>1. t = [err |-> "ManyFiles", db |-> s.db, from |-> s.from, to |-> s.to]
    BY <1>1, <1>2, <1>11 DEF PassResult
  <2> QED BY <2>1 DEF Tracked, t
<1> QED BY <1>3, <1>6, <1>7, <1>8, <1>9, <1>10, <1>11

LEMMA MoveLoopOutcome ==
  ASSUME NEW d, Sound(d), NEW fh \in Handle, NEW from \in Place, NEW to \in Place
  PROVE  LET t == MoveLoop(d, fh, from, to)
         IN  t.err = "Ok" => Outcome(t.db, d, fh, from, to)
<1> DEFINE s0 == [err |-> "Run", db |-> d, from |-> from, to |-> to]
           s1 == MovePass(s0, fh)
           s2 == MovePass(s1, fh)
           s3 == MovePass(s2, fh)
           s4 == MovePass(s3, fh)
           Good(s) == Move(s) /\ Tracked(s, d, fh, from, to)
<1>1. MoveLoop(d, fh, from, to) = s4
  BY FourPasses
<1>2. Good(s0)
  BY DEF Move, Tracked, Fewer, Kept
<1>3. ASSUME NEW s, Good(s) PROVE Good(MovePass(s, fh))
  BY <1>3, TrackedPass, MovePassResult
<1> HIDE DEF s0, Good
<1>4. Good(s1) /\ Good(s2) /\ Good(s3) /\ Good(s4)
  BY <1>2, <1>3
<1> QED BY <1>1, <1>4 DEF Good, Tracked

-----------------------------------------------------------------------------
(* What the rows say is where: an entry of P, but for the root row and for *)
(* rows that are their own parents.                                        *)
EntryOf(d, k) ==
  [p |-> d.files[d.files[k].parent_id].file_handle, n |-> d.files[k].name, h |-> d.files[k].file_handle]

Real(d, P) == \A k \in DOMAIN d.files : k # ROOT_ID /\ d.files[k].parent_id # k => EntryOf(d, k) \in P

(* So is what fh would be at `to`.                                         *)
Destined(d, fh, to, P) ==
  to # None /\ to.p_id \in DOMAIN d.files =>
    [p |-> d.files[to.p_id].file_handle, n |-> to.name, h |-> fh] \in P

(* Deletions change no row that is left, nor its parent's.                 *)
LEMMA FewerReal ==
  ASSUME NEW d, NEW d0, NEW P, NEW fh, NEW to, Sound(d), Fewer(d, d0), Real(d0, P),
         Destined(d0, fh, to, P)
  PROVE  Real(d, P) /\ Destined(d, fh, to, P)
<1>1. \A k \in DOMAIN d.files : k \in DOMAIN d0.files /\ d.files[k] = d0.files[k]
                               /\ d.files[k].parent_id \in DOMAIN d.files
  BY DEF Fewer, Kept, Sound, NoOrphans
<1>2. Real(d, P)
  BY <1>1 DEF Real, EntryOf
<1> QED BY <1>1, <1>2 DEF Destined

(* No statement changes the handle of a row.                               *)
LEMMA StatementHandles ==
  ASSUME NEW d, Sound(d), NEW fh \in Handle, NEW from \in Place, NEW to \in Place,
         MoveStatement(d, fh, from, to).err = "Ok", NEW k \in DOMAIN d.files,
         k \in DOMAIN MoveStatement(d, fh, from, to).db.files
  PROVE  MoveStatement(d, fh, from, to).db.files[k].file_handle = d.files[k].file_handle
<1> DEFINE r == MoveStatement(d, fh, from, to)
           q == QueryOne(d, EntryIds(d, fh, from.name, from.p_id))
<1>1. q.err = "Ok" => q.id \in EntryIds(d, fh, from.name, from.p_id)
  BY QueryOneResult
<1>2. q.err = "Ok" => q.id \in DOMAIN d.files
  BY <1>1 DEF EntryIds, HandleIds
<1>3. CASE from # None /\ to # None
  <2> DEFINE new == UpdateRow(d, q.id, to.name, to.p_id)
  <2>1. r = IF q.err # "Ok" THEN q
            ELSE IF \/ DirentIds(d, to.name, to.p_id) \ {q.id} # {}
                    \/ to.p_id \notin DOMAIN d.files
            THEN Fail(d, "NameTaken")
            ELSE Done(new, q.id)
    BY <1>3 DEF MoveStatement, Update
  <2> HIDE DEF r, q
  <2>2. q.err = "Ok" /\ r.db = new
    BY <2>1 DEF Fail, Done, r
  <2>3. new.files = [d.files EXCEPT ![q.id].name = to.name, ![q.id].parent_id = to.p_id]
    BY DEF UpdateRow
  <2>4. d.files = [j \in DOMAIN d.files |-> d.files[j]] /\ d.files[q.id] \in Row
    BY <1>2, <2>2 DEF Sound, IsDb
  <2> HIDE DEF new
  <2>5. k # q.id => new.files[k] = d.files[k]
    BY <2>3, <2>4
  <2>6. new.files[q.id].file_handle = d.files[q.id].file_handle
    BY <1>2, <2>2, <2>3, <2>4 DEF Row
  <2> QED BY <2>2, <2>5, <2>6 DEF r
<1>4. CASE from # None /\ to = None
  <2>1. r = IF q.err = "Ok" THEN DeleteWithId(d, q.id) ELSE q
    BY <1>4 DEF MoveStatement, Delete
  <2> HIDE DEF r, q
  <2>2. Fewer(r.db, d)
    BY <1>2, <2>1, DeleteOutcome DEF r
  <2> QED BY <2>2 DEF r, Fewer, Kept
<1>5. CASE from = None /\ to # None
  <2> DEFINE id == NextRowId(d.files)
  <2>1. r = Create(d, fh, to.name, to.p_id)
    BY <1>5 DEF MoveStatement
  <2>2. \A j \in DOMAIN d.files : j # id
    <3>1. \A j \in DOMAIN d.files : j < id /\ j \in Nat
      BY NextRowIdFresh DEF Sound, IsDb, Id
    <3> HIDE DEF id
    <3> QED BY <3>1
  <2>3. r.db.files[k] = d.files[k]
    BY <2>1, <2>2 DEF Create, Fail, Done, r
  <2> QED BY <2>3 DEF r
<1>6. CASE from = None /\ to = None
  BY <1>6 DEF MoveStatement, Done
<1> QED BY <1>3, <1>4, <1>5, <1>6

(* A statement that succeeds puts nothing elsewhere.                       *)
LEMMA StatementReal ==
  ASSUME NEW d, Sound(d), NEW fh \in Handle, NEW from \in Place, NEW to \in Place, NEW P,
         MoveStatement(d, fh, from, to).err = "Ok", Real(d, P), Destined(d, fh, to, P)
  PROVE  Real(MoveStatement(d, fh, from, to).db, P)
<1> DEFINE r == MoveStatement(d, fh, from, to).db
<1>1. Sound(r) /\ Outcome(r, d, fh, from, to)
  BY MoveStatementResult, StatementOutcome
<1>2. \A k \in DOMAIN d.files : k \in DOMAIN r.files =>
        r.files[k].file_handle = d.files[k].file_handle
  BY StatementHandles
<1> HIDE DEF r
<1>3. SUFFICES ASSUME NEW k \in DOMAIN r.files, k # ROOT_ID, r.files[k].parent_id # k
               PROVE  EntryOf(r, k) \in P
  BY DEF Real, r
<1> DEFINE p == r.files[k].parent_id
<1>4. p \in DOMAIN r.files
  BY <1>1, <1>3 DEF Sound, NoOrphans
<1>5. CASE Kept(r, d, k)
  <2>1. k \in DOMAIN d.files /\ r.files[k] = d.files[k] /\ p \in DOMAIN d.files
    BY <1>5 DEF Kept, Sound, NoOrphans
  <2>2. EntryOf(r, k) = EntryOf(d, k)
    BY <1>2, <1>4, <2>1 DEF EntryOf
  <2> QED BY <1>3, <2>1, <2>2 DEF Real
<1>6. CASE ~Kept(r, d, k)
  <2>1. to # None /\ At(r, k, fh, to)
    BY <1>1, <1>6 DEF Outcome
  <2>2. p \in DOMAIN d.files
    <3> SUFFICES ASSUME p \notin DOMAIN d.files PROVE FALSE
      OBVIOUS
    <3>1. At(r, p, fh, to)
      BY <1>1, <1>4 DEF Outcome, Kept
    <3>2. p = k
      BY <1>1, <1>4, <2>1, <3>1 DEF At, Sound, UniqueDirents
    <3> QED BY <1>3, <3>2
  <2>3. r.files[p].file_handle = d.files[to.p_id].file_handle /\ p = to.p_id
    BY <1>2, <1>4, <2>1, <2>2 DEF At
  <2>4. [p |-> d.files[to.p_id].file_handle, n |-> to.name, h |-> fh] \in P
    BY <2>1, <2>2, <2>3 DEF Destined
  <2> QED BY <2>1, <2>3, <2>4 DEF EntryOf, At
<1> QED BY <1>5, <1>6

(* Nor does a pass.                                                        *)
LEMMA PassReal ==
  ASSUME NEW s, Move(s), NEW fh \in Handle, NEW P, Real(s.db, P), Destined(s.db, fh, s.to, P)
  PROVE  LET t == MovePass(s, fh)
         IN  /\ Move(t) /\ t.to = s.to /\ Real(t.db, P)
             /\ t.err = "Run" => Destined(t.db, fh, t.to, P)
<1> DEFINE r == MoveStatement(s.db, fh, s.from, s.to)
           q == GetDirentId(s.db, s.to.name, s.to.p_id)
           c == IF q.err = "Ok" THEN DeleteWithId(s.db, q.id) ELSE q
           t == MovePass(s, fh)
<1>1. PassResult(s, r, c, t)
  BY MovePassCases
<1>2. s = [err |-> s.err, db |-> s.db, from |-> s.from, to |-> s.to]
  BY DEF Move
<1>3. Move(t)
  BY MovePassResult
<1>4. /\ r.err = "Ok" => Real(r.db, P)
      /\ r.err \in {"Ok", "NoFile", "ManyFiles", "NameTaken"}
  BY StatementReal, MoveStatementResult DEF Move
<1>5. c.err = "Ok" => Fewer(c.db, s.db)
  <2>1. q.err = "Ok" => q.id \in DOMAIN s.db.files
    BY QueryOneResult DEF GetDirentId, DirentIds
  <2> HIDE DEF q
  <2> QED BY <2>1, DeleteOutcome
<1> HIDE DEF r, q, c, t
<1>6. CASE s.err # "Run"
  BY <1>1, <1>3, <1>6 DEF PassResult, t
<1>7. CASE s.err = "Run" /\ r.err = "Ok"
  <2>1. t = [err |-> "Ok", db |-> r.db, from |-> s.from, to |-> s.to]
    BY <1>1, <1>2, <1>7 DEF PassResult
  <2> QED BY <1>3, <1>4, <1>7, <2>1 DEF t
<1>8. CASE s.err = "Run" /\ r.err = "NoFile"
  <2>1. t = [err |-> "Run", db |-> s.db, from |-> None, to |-> s.to]
    BY <1>1, <1>2, <1>8 DEF PassResult
  <2> QED BY <1>3, <2>1 DEF t
<1>9. CASE s.err = "Run" /\ r.err = "NameTaken" /\ c.err = "Ok"
  <2>1. t = [err |-> "Run", db |-> c.db, from |-> s.from, to |-> s.to]
    BY <1>1, <1>2, <1>9 DEF PassResult
  <2>2. Sound(t.db) /\ t.db = c.db
    BY <1>3, <2>1 DEF Move
  <2>3. Real(c.db, P) /\ Destined(c.db, fh, s.to, P)
    BY <1>5, <1>9, <2>2, FewerReal
  <2> QED BY <1>3, <2>1, <2>3 DEF t
<1>10. CASE s.err = "Run" /\ r.err = "NameTaken" /\ c.err # "Ok"
  <2>1. t = [err |-> c.err, db |-> s.db, from |-> s.from, to |-> s.to]
    BY <1>1, <1>2, <1>10 DEF PassResult
  <2> QED BY <1>3, <2>1 DEF t
<1>11. CASE s.err = "Run" /\ r.err = "ManyFiles"
  <2>1. t = [err |-> "ManyFiles", db |-> s.db, from |-> s.from, to |-> s.to]
    BY <1>1, <1>2, <1>11 DEF PassResult
  <2> QED BY <1>3, <2>1 DEF t
<1> QED BY <1>4, <1>6, <1>7, <1>8, <1>9, <1>10, <1>11

(* An event that is applied puts nothing anywhere but where it says.       *)
Brought(e, P) ==
  IF e.type = "Discover" THEN [p |-> e.p_fh, n |-> e.name, h |-> e.fh] \in P
  ELSE e.new_dirent # None => [p |-> e.new_dirent.p_fh, n |-> e.new_dirent.name, h |-> e.fh] \in P

LEMMA EventReal ==
  ASSUME NEW d, Sound(d), NEW e \in Event, NEW P, Real(d, P), Brought(e, P),
         HandleEvent(d, e).err = "Ok"
  PROVE  Real(HandleEvent(d, e).db, P)
<1>1. CASE e \in Alter
  <2> DEFINE from == GetIds(d, e.old_dirent)
             to == GetIds(d, e.new_dirent)
             s0 == [err |-> "Run", db |-> d, from |-> from.at, to |-> to.at]
             s1 == MovePass(s0, e.fh)
             s2 == MovePass(s1, e.fh)
             s3 == MovePass(s2, e.fh)
             s4 == MovePass(s3, e.fh)
             Good(s) == /\ Move(s) /\ s.to = to.at /\ Real(s.db, P)
                        /\ s.err = "Run" => Destined(s.db, e.fh, s.to, P)
  <2>1. /\ e.type = "Alter" /\ e.fh \in Handle
        /\ e.old_dirent \in Dirent \cup {None} /\ e.new_dirent \in Dirent \cup {None}
    BY <1>1 DEF Alter
  <2>2. from.at \in Place /\ to.at \in Place
    BY <2>1, GetIdsType
  <2>3. HandleEvent(d, e).db = s4.db /\ to.err = "Ok"
    <3>1. MoveLoop(d, e.fh, from.at, to.at) = s4
      BY FourPasses
    <3> HIDE DEF s4
    <3> QED BY <2>1, <3>1 DEF HandleEvent, HandleMove
  <2>4. Destined(d, e.fh, to.at, P)
    <3> SUFFICES ASSUME to.at # None, to.at.p_id \in DOMAIN d.files
                 PROVE  [p |-> d.files[to.at.p_id].file_handle, n |-> to.at.name, h |-> e.fh] \in P
      BY DEF Destined
    <3>1. e.new_dirent # None
      BY DEF GetIds
    <3>2. to.at.name = e.new_dirent.name /\ HandleIds(d, e.new_dirent.p_fh) = {to.at.p_id}
      BY <2>1, <2>3, <3>1, DirectoryFound
    <3>3. d.files[to.at.p_id].file_handle = e.new_dirent.p_fh
      BY <3>2 DEF HandleIds
    <3> QED BY <2>1, <3>1, <3>2, <3>3 DEF Brought
  <2> HIDE DEF from, to
  <2>5. Good(s0)
    BY <2>2, <2>4 DEF Move
  <2>6. ASSUME NEW s, Good(s) PROVE Good(MovePass(s, e.fh))
    <3>1. CASE s.err = "Run"
      BY <2>1, <2>6, <3>1, PassReal
    <3>2. CASE s.err # "Run"
      BY <2>1, <2>6, <3>2, MovePassResult
    <3> QED BY <3>1, <3>2
  <2> HIDE DEF s0, Good
  <2>7. Good(s1) /\ Good(s2) /\ Good(s3) /\ Good(s4)
    BY <2>5, <2>6
  <2> HIDE DEF s4
  <2> QED BY <2>3, <2>7 DEF Good
<1>2. CASE e \in Discover
  <2> DEFINE g == GetDirId(d, e.p_fh)
             to == [name |-> e.name, p_id |-> g.id]
             c == Create(d, e.fh, e.name, g.id)
  <2>1. e.type = "Discover" /\ e.fh \in Handle /\ e.name \in Name \ {RootName}
    BY <1>2 DEF Discover
  <2>2. HandleEvent(d, e) =
          IF g.err # "Ok" THEN [err |-> g.err, db |-> d, sent |-> <<>>]
          ELSE [err |-> IF c.err = "NameTaken" THEN "Ok" ELSE c.err, db |-> c.db, sent |-> <<>>]
    BY <2>1 DEF HandleEvent, HandleDiscover
  <2>3. g.id \in HandleIds(d, e.p_fh)
    <3>1. g.err = "Ok" => g.id \in HandleIds(d, e.p_fh)
      BY QueryOneResult DEF GetDirId
    <3> HIDE DEF g, c
    <3> QED BY <2>2, <3>1
  <2>4. g.id \in DOMAIN d.files /\ d.files[g.id].file_handle = e.p_fh
    BY <2>3 DEF HandleIds
  <2>5. to \in Place /\ to # None /\ None \in Place
    <3>1. to \in Entry
      BY <2>1, <2>4 DEF Entry, Sound, IsDb
    <3> QED BY <3>1, NoneAssumption DEF Place
  <2>6. Destined(d, e.fh, to, P)
    BY <2>1, <2>4 DEF Destined, Brought
  <2>7. MoveStatement(d, e.fh, None, to) = c
    BY <2>5 DEF MoveStatement
  <2>8. c.err \in {"Ok", "NameTaken"} /\ (c.err = "NameTaken" => c.db = d)
    BY DEF Create, Fail, Done
  <2>9. HandleEvent(d, e).db = c.db \/ HandleEvent(d, e).db = d
    <3> HIDE DEF g, c
    <3> QED BY <2>2
  <2> HIDE DEF c, to, g
  <2>10. c.err = "Ok" => Real(c.db, P)
    BY <2>1, <2>5, <2>6, <2>7, StatementReal
  <2> QED BY <2>8, <2>9, <2>10
<1> QED BY <1>1, <1>2 DEF Event

-----------------------------------------------------------------------------
(* What an event that tells the truth does to an index that shows it.      *)

(* The entries that the rows show, without those of the rows S.            *)
Rest(d, S) == {EntryOf(d, k) : k \in DOMAIN d.files \ (S \cup {ROOT_ID})}
Shown(d) == Rest(d, {})

(* The root row has the handle R, each of the directories D has one row,   *)
(* and only they have entries.                                             *)
Clean(d, R, D) ==
  /\ Sound(d)
  /\ d.files[ROOT_ID].file_handle = R
  /\ \A j, k \in DOMAIN d.files :
       d.files[j].file_handle = d.files[k].file_handle /\ d.files[j].file_handle \in D => j = k
  /\ \A k \in DOMAIN d.files \ {ROOT_ID} : d.files[d.files[k].parent_id].file_handle \in D

(* The rows the loop has yet to move, to overwrite, and to delete.         *)
Source(d, fh, from) == IF from = None THEN {} ELSE {k \in DOMAIN d.files : At(d, k, fh, from)}
Target(d, to) == DirentIds(d, to.name, to.p_id)
Gone(d, S) == {k \in DOMAIN d.files : \E j \in S : k \in Subtree(d.files, j)}

(* The loop is about to make the index show W: there is a destination, ... *)
Moving(d, fh, from, to, W, R, D) ==
  /\ Clean(d, R, D)
  /\ to.p_id \in DOMAIN d.files /\ d.files[to.p_id].file_handle \in D
  /\ \A k \in DOMAIN d.files : d.files[k].parent_id \notin Target(d, to)
  /\ \A k \in Target(d, to) : d.files[k].file_handle # fh
  /\ fh \in D => HandleIds(d, fh) \subseteq Source(d, fh, from)
  /\ W = Rest(d, Source(d, fh, from) \cup Target(d, to))
           \cup {[p |-> d.files[to.p_id].file_handle, n |-> to.name, h |-> fh]}

(* ... or there is none.                                                   *)
Leaving(d, fh, from, W, R, D) == Clean(d, R, D) /\ W = Rest(d, Gone(d, Source(d, fh, from)))

Starts(d, fh, from, to, W, R, D) ==
  IF to # None THEN Moving(d, fh, from, to, W, R, D) ELSE Leaving(d, fh, from, W, R, D)

Ends(s, fh, W, R, D) ==
  /\ Move(s) /\ s.err \in {"Ok", "Run"}
  /\ s.err = "Ok" => Clean(s.db, R, D) /\ Shown(s.db) = W
  /\ s.err = "Run" /\ s.to # None => Moving(s.db, fh, s.from, s.to, W, R, D)
  /\ s.err = "Run" /\ s.to = None => Leaving(s.db, fh, s.from, W, R, D)

(* Two rows of one entry are one row.                                      *)
LEMMA RowsOfEntry ==
  ASSUME NEW d, NEW R, NEW D, Clean(d, R, D), NEW j \in DOMAIN d.files \ {ROOT_ID},
         NEW k \in DOMAIN d.files \ {ROOT_ID}, EntryOf(d, j).p = EntryOf(d, k).p,
         EntryOf(d, j).n = EntryOf(d, k).n
  PROVE  j = k
<1>1. d.files[j].parent_id \in DOMAIN d.files /\ d.files[k].parent_id \in DOMAIN d.files
  BY DEF Clean, Sound, NoOrphans
<1>2. d.files[j].parent_id = d.files[k].parent_id
  BY <1>1 DEF Clean, EntryOf
<1>3. d.files[j].name = d.files[k].name
  BY DEF EntryOf
<1> QED BY <1>2, <1>3 DEF Clean, Sound, UniqueDirents

(* At most one row is the source.                                          *)
LEMMA OneSource ==
  ASSUME NEW d, Sound(d), NEW fh, NEW from \in Place
  PROVE  /\ \A j, k \in Source(d, fh, from) : j = k
         /\ Source(d, fh, from) \subseteq DOMAIN d.files \ {ROOT_ID}
         /\ from # None => Source(d, fh, from) = EntryIds(d, fh, from.name, from.p_id)
<1>1. CASE from = None
  BY <1>1 DEF Source
<1>2. CASE from # None
  <2>1. Source(d, fh, from) = {k \in DOMAIN d.files : At(d, k, fh, from)}
    BY <1>2 DEF Source
  <2>2. from.name # RootName
    BY <1>2 DEF Place, Entry
  <2> QED BY <2>1, <2>2, EntryIdsAt DEF At, Sound, UniqueDirents, HasRoot
<1> QED BY <1>1, <1>2

(* The row moves to the free destination.                                  *)
LEMMA UpdateShows ==
  ASSUME NEW d, NEW fh \in Handle, NEW from \in Place, NEW to \in Place, NEW W, NEW R, NEW D,
         Moving(d, fh, from, to, W, R, D), from # None, to # None
  PROVE  LET r == Update(d, fh, from.name, from.p_id, to.name, to.p_id)
         IN  /\ r.err \in {"Ok", "NoFile", "NameTaken"}
             /\ r.err = "Ok" => Clean(r.db, R, D) /\ Shown(r.db) = W
             /\ r.err = "NoFile" => Source(d, fh, from) = {}
             /\ r.err = "NameTaken" => Target(d, to) # {}
<1> DEFINE r == Update(d, fh, from.name, from.p_id, to.name, to.p_id)
           ids == Source(d, fh, from)
           q == QueryOne(d, ids)
           new == UpdateRow(d, q.id, to.name, to.p_id)
           N == [p |-> d.files[to.p_id].file_handle, n |-> to.name, h |-> fh]
<1>1. Clean(d, R, D) /\ Sound(d)
  BY DEF Moving, Clean
<1>2. /\ \A j, k \in ids : j = k
      /\ ids \subseteq DOMAIN d.files \ {ROOT_ID} /\ ids = EntryIds(d, fh, from.name, from.p_id)
  BY <1>1, OneSource
<1>3. /\ q.err \in {"Ok", "NoFile"}
      /\ q.err = "Ok" => q.id \in ids
      /\ q.err = "NoFile" => ids = {}
  BY <1>2, QueryOneResult
<1>4. r = IF q.err # "Ok" THEN q
          ELSE IF DirentIds(d, to.name, to.p_id) \ {q.id} # {} \/ to.p_id \notin DOMAIN d.files
          THEN Fail(d, "NameTaken")
          ELSE Done(new, q.id)
  BY <1>2 DEF Update
<1>5. to.p_id \in DOMAIN d.files /\ to.name \in Name \ {RootName}
  BY DEF Moving, Place, Entry
<1>6. q.err = "Ok" => d.files[q.id].file_handle = fh
  BY <1>2, <1>3 DEF EntryIds, HandleIds
<1> HIDE DEF r, q, new
<1>7. ASSUME q.err = "Ok", Target(d, to) = {}
      PROVE  Clean(new, R, D) /\ Shown(new) = W
  <2>1. /\ q.id \in DOMAIN d.files /\ q.id # ROOT_ID /\ q.id \in ids
        /\ DirentIds(d, to.name, to.p_id) \ {q.id} = {}
    BY <1>2, <1>3, <1>7 DEF Target
  <2>2. Sound(new)
    BY <1>1, <1>5, <2>1, UpdateRowSound DEF new
  <2>3. new.files = [d.files EXCEPT ![q.id].name = to.name, ![q.id].parent_id = to.p_id]
    BY DEF UpdateRow, new
  <2>4. d.files = [j \in DOMAIN d.files |-> d.files[j]] /\ d.files[q.id] \in Row
    BY <1>1, <2>1 DEF Sound, IsDb
  <2>5. /\ DOMAIN new.files = DOMAIN d.files
        /\ \A k \in DOMAIN d.files : k # q.id => new.files[k] = d.files[k]
    BY <2>3, <2>4
  <2>6. /\ new.files[q.id].file_handle = fh /\ new.files[q.id].name = to.name
        /\ new.files[q.id].parent_id = to.p_id
    <3>1. d.files[q.id].file_handle = fh
      BY <1>6, <1>7
    <3>2. new.files[q.id] = [d.files[q.id] EXCEPT !.name = to.name, !.parent_id = to.p_id]
      BY <2>1, <2>3, <2>4
    <3> QED BY <2>4, <3>1, <3>2 DEF Row
  <2>7. \A k \in DOMAIN d.files : new.files[k].file_handle = d.files[k].file_handle
    BY <1>6, <1>7, <2>5, <2>6
  <2>8. EntryOf(new, q.id) = N
    BY <1>5, <2>6, <2>7 DEF EntryOf
  <2>9. ASSUME NEW k \in DOMAIN d.files, k # q.id PROVE EntryOf(new, k) = EntryOf(d, k)
    <3>1. d.files[k].parent_id \in DOMAIN d.files
      BY <1>1 DEF Sound, NoOrphans
    <3> QED BY <2>5, <2>7, <2>9, <3>1 DEF EntryOf
  <2>10. ids = {q.id}
    BY <1>2, <2>1
  <2> HIDE DEF ids, N
  <2>11. Clean(new, R, D)
    <3>1. new.files[ROOT_ID].file_handle = R
      BY <1>1, <2>1, <2>5 DEF Clean, Sound, HasRoot
    <3>2. ASSUME NEW k \in DOMAIN new.files \ {ROOT_ID}
          PROVE  new.files[new.files[k].parent_id].file_handle \in D
      <4>1. CASE k = q.id
        BY <1>5, <2>6, <2>7, <4>1 DEF Moving
      <4>2. CASE k # q.id
        <5>1. d.files[k].parent_id \in DOMAIN d.files /\ new.files[k] = d.files[k]
          BY <1>1, <2>5, <4>2 DEF Sound, NoOrphans
        <5> QED BY <1>1, <2>5, <2>7, <5>1 DEF Clean
      <4> QED BY <4>1, <4>2
    <3>3. \A j, k \in DOMAIN new.files :
             new.files[j].file_handle = new.files[k].file_handle /\ new.files[j].file_handle \in D => j = k
      BY <1>1, <2>5, <2>7 DEF Clean
    <3> QED BY <2>2, <3>1, <3>2, <3>3 DEF Clean
  <2>12. W = Rest(d, {q.id}) \cup {N}
    BY <1>7, <2>10 DEF Moving, ids, N
  <2>13. Shown(new) = W
    BY <2>1, <2>5, <2>8, <2>9, <2>12 DEF Shown, Rest
  <2> QED BY <2>11, <2>13
<1>8. CASE q.err # "Ok"
  <2>1. r = q
    BY <1>4, <1>8
  <2> QED BY <1>3, <1>8, <2>1 DEF r
<1>9. CASE q.err = "Ok" /\ Target(d, to) \ {q.id} = {}
  <2>1. r.err = "Ok" /\ r.db = new
    BY <1>4, <1>5, <1>9 DEF Target, Done
  <2>2. Target(d, to) = {}
    BY <1>6, <1>9 DEF Moving
  <2> QED BY <1>7, <1>9, <2>1, <2>2 DEF r
<1>10. CASE q.err = "Ok" /\ Target(d, to) \ {q.id} # {}
  <2>1. r.err = "NameTaken"
    BY <1>4, <1>10 DEF Target, Fail
  <2> QED BY <1>10, <2>1 DEF r
<1> QED BY <1>3, <1>8, <1>9, <1>10

(* Nothing moves: a row is made at the free destination.                   *)
LEMMA CreateShows ==
  ASSUME NEW d, NEW fh \in Handle, NEW to \in Place, NEW W, NEW R, NEW D,
         Moving(d, fh, None, to, W, R, D), to # None
  PROVE  LET r == Create(d, fh, to.name, to.p_id)
         IN  /\ r.err \in {"Ok", "NameTaken"}
             /\ r.err = "Ok" => Clean(r.db, R, D) /\ Shown(r.db) = W
             /\ r.err = "NameTaken" => Target(d, to) # {}
<1> DEFINE r == Create(d, fh, to.name, to.p_id)
           id == NextRowId(d.files)
           N == [p |-> d.files[to.p_id].file_handle, n |-> to.name, h |-> fh]
<1>1. Clean(d, R, D) /\ Sound(d)
  BY DEF Moving, Clean
<1>2. to.p_id \in DOMAIN d.files /\ to.name \in Name \ {RootName}
  BY DEF Moving, Place, Entry
<1>3. \A j \in DOMAIN d.files : j # id
  <2>1. \A j \in DOMAIN d.files : j < id /\ j \in Nat
    BY <1>1, NextRowIdFresh DEF Sound, IsDb, Id
  <2> HIDE DEF id
  <2> QED BY <2>1
<1>4. CASE Target(d, to) = {}
  <2>1. /\ r.err = "Ok"
        /\ r.db.files = [k \in DOMAIN d.files \cup {id} |->
                           IF k = id
                           THEN [file_handle |-> fh, name |-> to.name, parent_id |-> to.p_id]
                           ELSE d.files[k]]
    BY <1>2, <1>4 DEF Target, Create, Done
  <2>2. Sound(r.db)
    BY <1>1, <1>2, CreateSound
  <2> HIDE DEF r, id
  <2>3. /\ DOMAIN r.db.files = DOMAIN d.files \cup {id}
        /\ \A k \in DOMAIN d.files : r.db.files[k] = d.files[k]
        /\ r.db.files[id] = [file_handle |-> fh, name |-> to.name, parent_id |-> to.p_id]
    BY <1>3, <2>1
  <2>4. EntryOf(r.db, id) = N
    BY <1>2, <2>3 DEF EntryOf
  <2>5. ASSUME NEW k \in DOMAIN d.files PROVE EntryOf(r.db, k) = EntryOf(d, k)
    <3>1. d.files[k].parent_id \in DOMAIN d.files
      BY <1>1 DEF Sound, NoOrphans
    <3> QED BY <2>3, <3>1 DEF EntryOf
  <2>6. ROOT_ID \in DOMAIN d.files /\ id # ROOT_ID
    BY <1>1, <1>3 DEF Sound, HasRoot
  <2>7. fh \in D => \A k \in DOMAIN d.files : d.files[k].file_handle # fh
    BY DEF Moving, Source, HandleIds
  <2>8. Clean(r.db, R, D)
    <3>1. r.db.files[ROOT_ID].file_handle = R
      BY <1>1, <2>3, <2>6 DEF Clean
    <3>2. ASSUME NEW k \in DOMAIN r.db.files \ {ROOT_ID}
          PROVE  r.db.files[r.db.files[k].parent_id].file_handle \in D
      <4>1. CASE k = id
        BY <1>2, <2>3, <4>1 DEF Moving
      <4>2. CASE k # id
        <5>1. d.files[k].parent_id \in DOMAIN d.files /\ r.db.files[k] = d.files[k]
          BY <1>1, <2>3, <4>2 DEF Sound, NoOrphans
        <5> QED BY <1>1, <2>3, <4>2, <5>1 DEF Clean
      <4> QED BY <4>1, <4>2
    <3>3. ASSUME NEW j \in DOMAIN r.db.files, NEW k \in DOMAIN r.db.files,
                 r.db.files[j].file_handle = r.db.files[k].file_handle, r.db.files[j].file_handle \in D
          PROVE  j = k
      <4>1. CASE j = id \/ k = id
        BY <2>3, <2>7, <3>3, <4>1
      <4>2. CASE j # id /\ k # id
        BY <1>1, <2>3, <3>3, <4>2 DEF Clean
      <4> QED BY <4>1, <4>2
    <3> QED BY <2>2, <3>1, <3>2, <3>3 DEF Clean
  <2>9. W = Rest(d, {}) \cup {N}
    BY <1>4 DEF Moving, Source
  <2>10. Shown(r.db) = W
    <3> HIDE DEF N
    <3> QED BY <2>3, <2>4, <2>5, <2>6, <2>9 DEF Shown, Rest
  <2> QED BY <1>4, <2>1, <2>8, <2>10 DEF r
<1>5. CASE Target(d, to) # {}
  BY <1>5 DEF Target, Create, Fail
<1> QED BY <1>4, <1>5

(* A deletion leaves the other entries as they are.                        *)
LEMMA DeleteShows ==
  ASSUME NEW d, NEW R, NEW D, Clean(d, R, D), NEW id \in DOMAIN d.files \ {ROOT_ID}
  PROVE  LET r == DeleteWithId(d, id)
             gone == Subtree(d.files, id)
         IN  /\ r.err = "Ok" /\ Clean(r.db, R, D)
             /\ DOMAIN r.db.files = DOMAIN d.files \ gone
             /\ \A k \in DOMAIN d.files \ gone : r.db.files[k] = d.files[k]
             /\ \A k \in DOMAIN d.files \ gone : d.files[k].parent_id \in DOMAIN d.files \ gone
             /\ \A k \in DOMAIN d.files \ gone : EntryOf(r.db, k) = EntryOf(d, k)
             /\ ROOT_ID \notin gone
<1> DEFINE r == DeleteWithId(d, id)
           gone == Subtree(d.files, id)
<1>1. Sound(d)
  BY DEF Clean
<1>2. r.err = "Ok" /\ r.db.files = [k \in DOMAIN d.files \ gone |-> d.files[k]]
  BY DEF DeleteWithId, Done
<1>3. Sound(r.db)
  BY <1>1, DeleteSound
<1>4. ROOT_ID \notin gone
  BY <1>1, SubtreeWithoutRoot DEF Sound
<1> HIDE DEF r, gone
<1>5. /\ DOMAIN r.db.files = DOMAIN d.files \ gone
      /\ \A k \in DOMAIN d.files \ gone : r.db.files[k] = d.files[k]
  BY <1>2
<1>6. \A k \in DOMAIN d.files \ gone : d.files[k].parent_id \in DOMAIN d.files \ gone
  BY <1>3, <1>5 DEF Sound, NoOrphans
<1>7. \A k \in DOMAIN d.files \ gone : EntryOf(r.db, k) = EntryOf(d, k)
  BY <1>5, <1>6 DEF EntryOf
<1>8. Clean(r.db, R, D)
  <2>1. r.db.files[ROOT_ID].file_handle = R
    BY <1>1, <1>4, <1>5 DEF Clean, Sound, HasRoot
  <2>2. \A k \in DOMAIN r.db.files \ {ROOT_ID} : r.db.files[r.db.files[k].parent_id].file_handle \in D
    BY <1>5, <1>6 DEF Clean
  <2>3. \A j, k \in DOMAIN r.db.files :
          r.db.files[j].file_handle = r.db.files[k].file_handle /\ r.db.files[j].file_handle \in D => j = k
    BY <1>5 DEF Clean
  <2> QED BY <1>3, <2>1, <2>2, <2>3 DEF Clean
<1> QED BY <1>2, <1>4, <1>5, <1>6, <1>7, <1>8 DEF r, gone

(* The source goes, and what is below it.                                  *)
LEMMA SourceGone ==
  ASSUME NEW d, NEW fh, NEW from \in Place, NEW W, NEW R, NEW D,
         Leaving(d, fh, from, W, R, D), from # None
  PROVE  LET r == Delete(d, fh, from.name, from.p_id)
         IN  /\ r.err \in {"Ok", "NoFile"}
             /\ r.err = "Ok" => Clean(r.db, R, D) /\ Shown(r.db) = W
             /\ r.err = "NoFile" => Source(d, fh, from) = {}
<1> DEFINE r == Delete(d, fh, from.name, from.p_id)
           ids == Source(d, fh, from)
           q == QueryOne(d, ids)
           c == DeleteWithId(d, q.id)
           gone == Subtree(d.files, q.id)
<1>1. Clean(d, R, D) /\ Sound(d)
  BY DEF Leaving, Clean
<1>2. /\ \A j, k \in ids : j = k
      /\ ids \subseteq DOMAIN d.files \ {ROOT_ID} /\ ids = EntryIds(d, fh, from.name, from.p_id)
  BY <1>1, OneSource
<1>3. /\ q.err \in {"Ok", "NoFile"}
      /\ q.err = "Ok" => q.id \in ids
      /\ q.err = "NoFile" => ids = {}
  BY <1>2, QueryOneResult
<1>4. r = IF q.err = "Ok" THEN c ELSE q
  BY <1>2 DEF Delete
<1> HIDE DEF r, q
<1>5. CASE q.err = "Ok"
  <2>1. ids = {q.id} /\ q.id \in DOMAIN d.files \ {ROOT_ID}
    BY <1>2, <1>3, <1>5
  <2>2. /\ c.err = "Ok" /\ Clean(c.db, R, D)
        /\ DOMAIN c.db.files = DOMAIN d.files \ gone
        /\ \A k \in DOMAIN d.files \ gone : EntryOf(c.db, k) = EntryOf(d, k)
    BY <1>1, <2>1, DeleteShows
  <2>3. Gone(d, ids) = gone
    BY <2>1, SubtreeClosed DEF Gone
  <2> HIDE DEF c, gone
  <2>4. Shown(c.db) = Rest(d, gone)
    BY <2>2 DEF Shown, Rest
  <2> QED BY <1>4, <1>5, <2>2, <2>3, <2>4 DEF r, Leaving
<1>6. CASE q.err = "NoFile"
  BY <1>3, <1>4, <1>6 DEF r
<1> QED BY <1>3, <1>5, <1>6

(* What is in the way goes, alone, and the destination is free.            *)
LEMMA TargetGone ==
  ASSUME NEW d, NEW fh \in Handle, NEW from \in Place, NEW to \in Place, NEW W, NEW R, NEW D,
         Moving(d, fh, from, to, W, R, D), to # None, Target(d, to) # {}
  PROVE  LET q == GetDirentId(d, to.name, to.p_id)
             c == DeleteWithId(d, q.id)
         IN  /\ q.err = "Ok" /\ c.err = "Ok"
             /\ Moving(c.db, fh, from, to, W, R, D)
<1> DEFINE q == GetDirentId(d, to.name, to.p_id)
           c == DeleteWithId(d, q.id)
           gone == Subtree(d.files, q.id)
           src == Source(d, fh, from)
           N == [p |-> d.files[to.p_id].file_handle, n |-> to.name, h |-> fh]
<1>1. Clean(d, R, D) /\ Sound(d)
  BY DEF Moving, Clean
<1>2. to.name # RootName /\ to.p_id \in DOMAIN d.files
  BY DEF Moving, Place, Entry
<1>3. \A j, k \in Target(d, to) : j = k
  BY <1>1 DEF Target, DirentIds, Sound, UniqueDirents
<1>4. q.err = "Ok" /\ q.id \in Target(d, to)
  BY <1>3, QueryOneResult DEF GetDirentId, Target
<1> HIDE DEF q
<1>5. Target(d, to) = {q.id}
  BY <1>3, <1>4
<1>6. q.id \in DOMAIN d.files \ {ROOT_ID} /\ d.files[q.id].parent_id = to.p_id
  BY <1>1, <1>2, <1>4 DEF Target, DirentIds, Sound, HasRoot
<1>7. gone = {q.id}
  <2>1. q.id \in gone /\ gone \subseteq DOMAIN d.files
    BY <1>6, SubtreeClosed
  <2>2. \A k \in DOMAIN d.files : d.files[k].parent_id # q.id
    BY <1>5 DEF Moving
  <2>3. {q.id} \in SUBSET DOMAIN d.files
    BY <1>6
  <2>4. gone \subseteq {q.id}
    BY <2>2, <2>3 DEF Subtree
  <2> QED BY <2>1, <2>4
<1>8. /\ c.err = "Ok" /\ Clean(c.db, R, D)
      /\ DOMAIN c.db.files = DOMAIN d.files \ {q.id}
      /\ \A k \in DOMAIN d.files \ {q.id} : c.db.files[k] = d.files[k]
      /\ \A k \in DOMAIN d.files \ {q.id} : EntryOf(c.db, k) = EntryOf(d, k)
  BY <1>1, <1>6, <1>7, DeleteShows
<1> HIDE DEF c, gone
<1>9. q.id \notin src /\ src \subseteq DOMAIN d.files
  BY <1>4 DEF Moving, Source, At
<1>10. Source(c.db, fh, from) = src
  BY <1>8, <1>9 DEF Source, At
<1>11. Target(c.db, to) = {}
  BY <1>5, <1>8 DEF Target, DirentIds
<1>12. to.p_id # q.id
  BY <1>5, <1>6 DEF Moving
<1>13. HandleIds(c.db, fh) \subseteq HandleIds(d, fh)
  BY <1>8 DEF HandleIds
<1>14. W = Rest(c.db, src \cup {}) \cup {[p |-> c.db.files[to.p_id].file_handle, n |-> to.name, h |-> fh]}
  <2>1. W = Rest(d, src \cup {q.id}) \cup {N}
    BY <1>5 DEF Moving
  <2>2. c.db.files[to.p_id] = d.files[to.p_id]
    BY <1>2, <1>8, <1>12
  <2> HIDE DEF src
  <2>3. Rest(c.db, src \cup {}) = Rest(d, src \cup {q.id})
    BY <1>8 DEF Rest
  <2> QED BY <2>1, <2>2, <2>3
<1>15. c.db.files[to.p_id].file_handle \in D /\ to.p_id \in DOMAIN c.db.files
  BY <1>2, <1>8, <1>12 DEF Moving
<1> HIDE DEF src
<1>16. fh \in D => HandleIds(c.db, fh) \subseteq src
  BY <1>13 DEF Moving, src
<1>17. Moving(c.db, fh, from, to, W, R, D)
  BY <1>8, <1>10, <1>11, <1>14, <1>15, <1>16 DEF Moving
<1> QED BY <1>4, <1>8, <1>17 DEF c, q

(* One pass brings the loop nearer to W.                                   *)
LEMMA PassEnds ==
  ASSUME NEW s, NEW fh \in Handle, NEW W, NEW R, NEW D, Ends(s, fh, W, R, D)
  PROVE  Ends(MovePass(s, fh), fh, W, R, D)
<1> DEFINE r == MoveStatement(s.db, fh, s.from, s.to)
           q == GetDirentId(s.db, s.to.name, s.to.p_id)
           c == IF q.err = "Ok" THEN DeleteWithId(s.db, q.id) ELSE q
           t == MovePass(s, fh)
<1>1. PassResult(s, r, c, t)
  BY MovePassCases
<1>2. /\ s = [err |-> s.err, db |-> s.db, from |-> s.from, to |-> s.to] /\ Move(s)
      /\ s.from \in Place /\ s.to \in Place /\ Move(t)
  BY MovePassResult DEF Move, Ends
<1>3. CASE s.err = "Ok"
  <2>1. t = s
    BY <1>1, <1>3 DEF PassResult
  <2> QED BY <2>1
<1>4. ASSUME s.err = "Run", r.err = "Ok", Clean(r.db, R, D), Shown(r.db) = W
      PROVE  Ends(t, fh, W, R, D)
  <2> HIDE DEF r, c, t
  <2>1. t = [err |-> "Ok", db |-> r.db, from |-> s.from, to |-> s.to]
    BY <1>1, <1>2, <1>4 DEF PassResult
  <2> QED BY <1>2, <1>4, <2>1 DEF Ends
<1>5. ASSUME s.err = "Run", r.err = "NoFile", Source(s.db, fh, s.from) = {}
      PROVE  Ends(t, fh, W, R, D)
  <2> HIDE DEF r, c, t
  <2>1. t = [err |-> "Run", db |-> s.db, from |-> None, to |-> s.to]
    BY <1>1, <1>2, <1>5 DEF PassResult
  <2>2. Source(s.db, fh, None) = {}
    BY DEF Source
  <2> QED BY <1>2, <1>5, <2>1, <2>2 DEF Ends, Moving, Leaving
<1>6. ASSUME s.err = "Run", s.to # None, r.err = "NameTaken", Target(s.db, s.to) # {}
      PROVE  Ends(t, fh, W, R, D)
  <2>1. Moving(s.db, fh, s.from, s.to, W, R, D)
    BY <1>6 DEF Ends
  <2>2. /\ q.err = "Ok" /\ DeleteWithId(s.db, q.id).err = "Ok"
        /\ Moving(DeleteWithId(s.db, q.id).db, fh, s.from, s.to, W, R, D)
    BY <1>2, <1>6, <2>1, TargetGone
  <2>3. c.err = "Ok" /\ Moving(c.db, fh, s.from, s.to, W, R, D)
    <3> HIDE DEF q
    <3> QED BY <2>2
  <2> HIDE DEF r, c, t
  <2>4. t = [err |-> "Run", db |-> c.db, from |-> s.from, to |-> s.to]
    BY <1>1, <1>2, <1>6, <2>3 DEF PassResult
  <2> QED BY <1>2, <1>6, <2>3, <2>4 DEF Ends
<1>7. CASE s.err = "Run" /\ s.to # None /\ s.from # None
  <2>1. Moving(s.db, fh, s.from, s.to, W, R, D)
    BY <1>7 DEF Ends
  <2>2. r = Update(s.db, fh, s.from.name, s.from.p_id, s.to.name, s.to.p_id)
    BY <1>7 DEF MoveStatement
  <2> HIDE DEF r, c, t
  <2>3. /\ r.err \in {"Ok", "NoFile", "NameTaken"}
        /\ r.err = "Ok" => Clean(r.db, R, D) /\ Shown(r.db) = W
        /\ r.err = "NoFile" => Source(s.db, fh, s.from) = {}
        /\ r.err = "NameTaken" => Target(s.db, s.to) # {}
    <3> DEFINE x == Update(s.db, fh, s.from.name, s.from.p_id, s.to.name, s.to.p_id)
    <3>1. /\ x.err \in {"Ok", "NoFile", "NameTaken"}
          /\ x.err = "Ok" => Clean(x.db, R, D) /\ Shown(x.db) = W
          /\ x.err = "NoFile" => Source(s.db, fh, s.from) = {}
          /\ x.err = "NameTaken" => Target(s.db, s.to) # {}
      BY <1>2, <1>7, <2>1, UpdateShows
    <3>2. r = x
      BY <2>2
    <3> HIDE DEF x
    <3> QED BY <3>1, <3>2
  <2> QED BY <1>4, <1>5, <1>6, <1>7, <2>3 DEF t
<1>8. CASE s.err = "Run" /\ s.to # None /\ s.from = None
  <2>1. Moving(s.db, fh, None, s.to, W, R, D)
    BY <1>8 DEF Ends
  <2>2. r = Create(s.db, fh, s.to.name, s.to.p_id)
    BY <1>8 DEF MoveStatement
  <2> HIDE DEF r, c, t
  <2>3. /\ r.err \in {"Ok", "NameTaken"}
        /\ r.err = "Ok" => Clean(r.db, R, D) /\ Shown(r.db) = W
        /\ r.err = "NameTaken" => Target(s.db, s.to) # {}
    BY <1>2, <1>8, <2>1, <2>2, CreateShows
  <2> QED BY <1>4, <1>6, <1>8, <2>3 DEF t
<1>9. CASE s.err = "Run" /\ s.to = None /\ s.from # None
  <2>1. Leaving(s.db, fh, s.from, W, R, D)
    BY <1>9 DEF Ends
  <2>2. r = Delete(s.db, fh, s.from.name, s.from.p_id)
    BY <1>9 DEF MoveStatement
  <2> HIDE DEF r, c, t
  <2>3. /\ r.err \in {"Ok", "NoFile"}
        /\ r.err = "Ok" => Clean(r.db, R, D) /\ Shown(r.db) = W
        /\ r.err = "NoFile" => Source(s.db, fh, s.from) = {}
    BY <1>2, <1>9, <2>1, <2>2, SourceGone
  <2> QED BY <1>4, <1>5, <1>9, <2>3 DEF t
<1>10. CASE s.err = "Run" /\ s.to = None /\ s.from = None
  <2>1. r = Done(s.db, 0)
    BY <1>10 DEF MoveStatement
  <2>2. Clean(s.db, R, D) /\ W = Rest(s.db, Gone(s.db, {}))
    BY <1>10 DEF Ends, Leaving, Source
  <2>3. Gone(s.db, {}) = {}
    BY DEF Gone
  <2>4. r.err = "Ok" /\ r.db = s.db
    BY <2>1 DEF Done
  <2> HIDE DEF r, c, t
  <2> QED BY <1>4, <1>10, <2>2, <2>3, <2>4 DEF Shown, t
<1> QED BY <1>3, <1>7, <1>8, <1>9, <1>10 DEF Ends

(* So the loop ends without an error, and the index shows W.               *)
LEMMA LoopShows ==
  ASSUME NEW d, NEW fh \in Handle, NEW from \in Place, NEW to \in Place, NEW W, NEW R, NEW D,
         Clean(d, R, D), Starts(d, fh, from, to, W, R, D)
  PROVE  LET t == MoveLoop(d, fh, from, to)
         IN  t.err = "Ok" /\ Clean(t.db, R, D) /\ Shown(t.db) = W
<1> DEFINE s0 == [err |-> "Run", db |-> d, from |-> from, to |-> to]
           s1 == MovePass(s0, fh)
           s2 == MovePass(s1, fh)
           s3 == MovePass(s2, fh)
           s4 == MovePass(s3, fh)
           Good(s) == Ends(s, fh, W, R, D)
<1>1. MoveLoop(d, fh, from, to) = s4
  BY FourPasses
<1>2. s4.err # "Run"
  <2>1. MoveLoop(d, fh, from, to).err # "Run"
    BY MoveLoopResult DEF Clean
  <2> HIDE DEF s4
  <2> QED BY <1>1, <2>1
<1>3. Good(s0)
  BY DEF Ends, Move, Clean, Starts
<1>4. ASSUME NEW s, Good(s) PROVE Good(MovePass(s, fh))
  BY <1>4, PassEnds
<1> HIDE DEF s0, Good
<1>5. Good(s1) /\ Good(s2) /\ Good(s3) /\ Good(s4)
  BY <1>3, <1>4
<1> HIDE DEF s4
<1> QED BY <1>1, <1>2, <1>5 DEF Good, Ends

-----------------------------------------------------------------------------
(* What an event says, in terms of what the index shows.                   *)
Placed(dirent, h) == [p |-> dirent.p_fh, n |-> dirent.name, h |-> h]
Knows(V, R, p) == p = R \/ \E x \in V : x.h = p

(* The directories at or below h.                                          *)
Under(h, V, D) ==
  {k \in D : \A S \in SUBSET D :
    (h \in D => h \in S) /\ (\A x \in V : x.p \in S /\ x.h \in D => x.h \in S) => k \in S}

OldEntry(e, V) == IF e.old_dirent = None THEN {} ELSE {Placed(e.old_dirent, e.fh)} \cap V
Overwritten(e, V) == {x \in V : x.p = e.new_dirent.p_fh /\ x.n = e.new_dirent.name}
Lands(e, V, R) == e.new_dirent # None /\ Knows(V, R, e.new_dirent.p_fh)

(* e turns V into W.  An entry is overwritten only if it is another's and  *)
(* has nothing below it, a directory is nowhere else than e says, and one  *)
(* that is moved here was known.                                           *)
Follows(e, V, W, R, D) ==
  /\ e \in Alter
  /\ e.old_dirent # None => e.old_dirent.p_fh \in D
  /\ e.new_dirent # None => e.new_dirent.p_fh \in D
  /\ IF Lands(e, V, R)
     THEN /\ W = (V \ (OldEntry(e, V) \cup Overwritten(e, V))) \cup {Placed(e.new_dirent, e.fh)}
          /\ \A x \in Overwritten(e, V) : x.h # e.fh /\ \A y \in V : y.p # x.h
          /\ e.fh \in D => e.fh # R /\ \A x \in V : x.h = e.fh => x \in OldEntry(e, V)
          /\ e.is_dir => e.old_dirent = None \/ OldEntry(e, V) # {}
     ELSE W = {x \in V : x \notin OldEntry(e, V)
                           /\ (OldEntry(e, V) # {} => x.p \notin Under(e.fh, V, D))}

(* The rows below a row are those of the entries below its entry.          *)
LEMMA SubtreeUnder ==
  ASSUME NEW d, NEW R, NEW D, Clean(d, R, D), NEW i \in DOMAIN d.files \ {ROOT_ID},
         NEW k \in DOMAIN d.files \ {ROOT_ID}
  PROVE  k \in Subtree(d.files, i)
         <=> k = i \/ EntryOf(d, k).p \in Under(d.files[i].file_handle, Shown(d), D)
<1> DEFINE V == Shown(d)
           h == d.files[i].file_handle
           U == Under(h, V, D)
<1>1. /\ \A j \in DOMAIN d.files : d.files[j].parent_id \in DOMAIN d.files
      /\ ROOT_ID \in DOMAIN d.files /\ d.files[ROOT_ID].parent_id = ROOT_ID
  BY DEF Clean, Sound, NoOrphans, HasRoot
<1>2. \A j \in DOMAIN d.files \ {ROOT_ID} :
        /\ EntryOf(d, j) \in V
        /\ EntryOf(d, j).p = d.files[d.files[j].parent_id].file_handle
        /\ EntryOf(d, j).p \in D /\ EntryOf(d, j).h = d.files[j].file_handle
  BY DEF Clean, Shown, Rest, EntryOf
<1>3. \A x \in V : \E j \in DOMAIN d.files \ {ROOT_ID} : x = EntryOf(d, j)
  BY DEF Shown, Rest
<1> HIDE DEF V
<1>4. /\ h \in D => h \in U
      /\ \A x \in V : x.p \in U /\ x.h \in D => x.h \in U
      /\ U \subseteq D
  BY DEF Under
<1>5. ASSUME k \in Subtree(d.files, i) PROVE k = i \/ EntryOf(d, k).p \in U
  <2> HIDE DEF U
  <2> DEFINE S == {j \in DOMAIN d.files : j = i \/ (j # ROOT_ID /\ EntryOf(d, j).p \in U)}
  <2>1. ASSUME NEW j \in DOMAIN d.files, d.files[j].parent_id \in S PROVE j \in S
    <3>1. j # ROOT_ID
      BY <1>1, <2>1
    <3> DEFINE m == d.files[j].parent_id
    <3>2. EntryOf(d, j).p = d.files[m].file_handle /\ d.files[m].file_handle \in D
      BY <1>2, <3>1
    <3>3. CASE m = i
      BY <1>4, <3>1, <3>2, <3>3
    <3>4. CASE m # ROOT_ID /\ EntryOf(d, m).p \in U
      <4>1. m \in DOMAIN d.files \ {ROOT_ID}
        BY <1>1, <3>4
      <4>2. EntryOf(d, m) \in V /\ EntryOf(d, m).h = d.files[m].file_handle
        BY <1>2, <4>1
      <4>3. d.files[m].file_handle \in U
        BY <1>4, <3>2, <3>4, <4>2
      <4> QED BY <3>1, <3>2, <4>3
    <3> QED BY <2>1, <3>3, <3>4
  <2>2. S \in SUBSET DOMAIN d.files /\ i \in S
    OBVIOUS
  <2>3. k \in S
    <3> HIDE DEF S
    <3> QED BY <1>5, <2>1, <2>2 DEF Subtree
  <2> QED BY <2>3
<1>6. ASSUME EntryOf(d, k).p \in U PROVE k \in Subtree(d.files, i)
  <2> SUFFICES ASSUME NEW S \in SUBSET DOMAIN d.files, i \in S,
                      \A j \in DOMAIN d.files : d.files[j].parent_id \in S => j \in S
               PROVE  k \in S
    BY DEF Subtree
  <2> DEFINE T == {p \in D : \E j \in S : d.files[j].file_handle = p}
  <2>1. h \in D => h \in T
    OBVIOUS
  <2>2. ASSUME NEW x \in V, x.p \in T, x.h \in D PROVE x.h \in T
    <3>1. PICK j \in DOMAIN d.files \ {ROOT_ID} : x = EntryOf(d, j)
      BY <1>3
    <3>2. PICK m \in S : d.files[m].file_handle = x.p
      BY <2>2
    <3>3. d.files[j].parent_id = m
      BY <1>1, <1>2, <3>1, <3>2 DEF Clean
    <3>4. j \in S
      BY <3>3
    <3> QED BY <1>2, <2>2, <3>1, <3>4
  <2>3. U \subseteq T
    BY <2>1, <2>2 DEF Under
  <2>4. PICK m \in S : d.files[m].file_handle = EntryOf(d, k).p
    BY <1>6, <2>3
  <2>5. d.files[k].parent_id = m
    BY <1>1, <1>2, <2>4 DEF Clean
  <2> QED BY <2>5
<1>7. i \in Subtree(d.files, i)
  BY SubtreeClosed
<1> HIDE DEF U
<1> QED BY <1>5, <1>6, <1>7 DEF U, V

(* get_ids finds the directories D, or says that they are not there.       *)
LEMMA DirentFound ==
  ASSUME NEW d, NEW R, NEW D, Clean(d, R, D), NEW dirent \in Dirent, dirent.p_fh \in D
  PROVE  LET g == GetIds(d, dirent)
         IN  /\ g.err = "Ok" /\ g.at \in Place
             /\ g.at = None <=> ~Knows(Shown(d), R, dirent.p_fh)
             /\ g.at # None => g.at.name = dirent.name /\ HandleIds(d, dirent.p_fh) = {g.at.p_id}
<1> DEFINE g == GetIds(d, dirent)
           ids == HandleIds(d, dirent.p_fh)
           one == QueryOne(d, ids)
<1>1. \A j, k \in ids : j = k
  BY DEF HandleIds, Clean
<1>2. one.err # "ManyFiles" /\ one.err \in {"Ok", "NoFile", "ManyFiles"}
  BY <1>1, QueryOneResult
<1>3. g.err = "Ok"
  <2> HIDE DEF one, ids
  <2>1. GetDirId(d, dirent.p_fh) = one
    BY DEF GetDirId, one, ids
  <2> QED BY <1>2, <2>1 DEF GetIds
<1>4. g.at \in Place
  BY GetIdsType DEF Clean
<1>5. \/ g.at = None /\ ids = {}
      \/ g.at # None /\ g.at.name = dirent.name /\ ids = {g.at.p_id}
  <2>1. Sound(d)
    BY DEF Clean
  <2> DEFINE at == GetIds(d, dirent).at
  <2>2. \/ at = None /\ ids = {}
        \/ at # None /\ at.name = dirent.name /\ ids = {at.p_id}
    BY <1>3, <2>1, DirectoryFound
  <2> QED BY <2>2
<1>6. ids # {} <=> Knows(Shown(d), R, dirent.p_fh)
  <2>1. ROOT_ID \in DOMAIN d.files /\ d.files[ROOT_ID].file_handle = R
    BY DEF Clean, Sound, HasRoot
  <2>2. \A k \in DOMAIN d.files : EntryOf(d, k).h = d.files[k].file_handle
    BY DEF EntryOf
  <2>3. /\ \A k \in DOMAIN d.files \ {ROOT_ID} : EntryOf(d, k) \in Shown(d)
        /\ \A x \in Shown(d) : \E k \in DOMAIN d.files \ {ROOT_ID} : x = EntryOf(d, k)
    BY DEF Shown, Rest
  <2>4. ids = {k \in DOMAIN d.files : d.files[k].file_handle = dirent.p_fh}
    BY DEF HandleIds
  <2> HIDE DEF ids
  <2>5. ASSUME NEW k \in ids PROVE Knows(Shown(d), R, dirent.p_fh)
    BY <2>1, <2>2, <2>3, <2>4 DEF Knows
  <2>6. ASSUME Knows(Shown(d), R, dirent.p_fh) PROVE \E k \in ids : TRUE
    <3>1. CASE dirent.p_fh = R
      BY <2>1, <2>4, <3>1
    <3>2. CASE \E x \in Shown(d) : x.h = dirent.p_fh
      BY <2>2, <2>3, <2>4, <3>2
    <3> QED BY <2>6, <3>1, <3>2 DEF Knows
  <2> QED BY <2>5, <2>6
<1> HIDE DEF g, ids
<1> QED BY <1>3, <1>4, <1>5, <1>6 DEF g, ids

(* The rows an event speaks of are those of the entries it speaks of.      *)
LEMMA SourceEntry ==
  ASSUME NEW d, NEW R, NEW D, Clean(d, R, D), NEW e \in Alter,
         e.old_dirent # None => e.old_dirent.p_fh \in D
  PROVE  LET from == GetIds(d, e.old_dirent)
             src == Source(d, e.fh, from.at)
         IN  /\ from.err = "Ok" /\ from.at \in Place
             /\ src \subseteq DOMAIN d.files \ {ROOT_ID} /\ \A j, k \in src : j = k
             /\ \A k \in DOMAIN d.files \ {ROOT_ID} :
                  k \in src <=> EntryOf(d, k) \in OldEntry(e, Shown(d))
             /\ src # {} <=> OldEntry(e, Shown(d)) # {}
             /\ src # {} => from.at # None
<1> DEFINE from == GetIds(d, e.old_dirent)
           src == Source(d, e.fh, from.at)
           old == OldEntry(e, Shown(d))
<1>1. \A k \in DOMAIN d.files \ {ROOT_ID} : EntryOf(d, k) \in Shown(d)
  BY DEF Shown, Rest
<1>2. \A x \in Shown(d) : \E k \in DOMAIN d.files \ {ROOT_ID} : x = EntryOf(d, k)
  BY DEF Shown, Rest
<1>3. \A k \in DOMAIN d.files : d.files[k].parent_id \in DOMAIN d.files
  BY DEF Clean, Sound, NoOrphans
<1>4. CASE e.old_dirent = None
  <2>1. from.err = "Ok" /\ from.at = None
    BY <1>4 DEF GetIds
  <2>2. src = {} /\ old = {}
    BY <1>4, <2>1 DEF Source, OldEntry
  <2> HIDE DEF from, src, old
  <2> QED BY <2>1, <2>2 DEF from, src, old, Place
<1>5. CASE e.old_dirent # None
  <2>1. e.old_dirent \in Dirent
    BY <1>5 DEF Alter
  <2>2. /\ from.err = "Ok" /\ from.at \in Place
        /\ from.at = None <=> ~Knows(Shown(d), R, e.old_dirent.p_fh)
        /\ from.at # None => /\ from.at.name = e.old_dirent.name
                             /\ HandleIds(d, e.old_dirent.p_fh) = {from.at.p_id}
    BY <1>5, <2>1, DirentFound
  <2>3. /\ \A j, k \in src : j = k
        /\ src \subseteq DOMAIN d.files \ {ROOT_ID}
    BY <2>2, OneSource DEF Clean
  <2>4. ASSUME NEW k \in DOMAIN d.files \ {ROOT_ID}
        PROVE  k \in src <=> EntryOf(d, k) = Placed(e.old_dirent, e.fh)
    <3> DEFINE p == d.files[k].parent_id
    <3>1. p \in DOMAIN d.files
      BY <1>3
    <3>2. EntryOf(d, k) = Placed(e.old_dirent, e.fh)
          <=> /\ p \in HandleIds(d, e.old_dirent.p_fh)
              /\ d.files[k].name = e.old_dirent.name /\ d.files[k].file_handle = e.fh
      BY <3>1 DEF EntryOf, Placed, HandleIds
    <3>3. CASE from.at = None
      <4>1. HandleIds(d, e.old_dirent.p_fh) = {}
        <5>1. d.files[ROOT_ID].file_handle = R
          BY DEF Clean
        <5>2. \A j \in DOMAIN d.files \ {ROOT_ID} : EntryOf(d, j).h = d.files[j].file_handle
          BY DEF EntryOf
        <5> QED BY <1>1, <2>2, <3>3, <5>1, <5>2 DEF Knows, HandleIds
      <4> QED BY <3>2, <3>3, <4>1 DEF Source
    <3>4. CASE from.at # None
      BY <2>2, <3>2, <3>4 DEF Source, At
    <3> QED BY <3>3, <3>4
  <2>5. old = {Placed(e.old_dirent, e.fh)} \cap Shown(d)
    BY <1>5 DEF OldEntry
  <2>6. src # {} => from.at # None
    BY DEF Source
  <2> HIDE DEF from, src, old
  <2>7. \A k \in DOMAIN d.files \ {ROOT_ID} : k \in src <=> EntryOf(d, k) \in old
    BY <1>1, <2>4, <2>5
  <2>8. src # {} <=> old # {}
    BY <1>2, <2>3, <2>5, <2>7
  <2> QED BY <2>2, <2>3, <2>6, <2>7, <2>8 DEF from, src, old
<1> QED BY <1>4, <1>5

LEMMA TargetEntry ==
  ASSUME NEW d, NEW R, NEW D, Clean(d, R, D), NEW e \in Alter,
         e.new_dirent # None => e.new_dirent.p_fh \in D
  PROVE  LET to == GetIds(d, e.new_dirent)
         IN  /\ to.err = "Ok" /\ to.at \in Place
             /\ to.at # None <=> Lands(e, Shown(d), R)
             /\ to.at # None =>
                  /\ to.at.p_id \in DOMAIN d.files /\ to.at.name = e.new_dirent.name
                  /\ d.files[to.at.p_id].file_handle = e.new_dirent.p_fh
                  /\ Target(d, to.at) \subseteq DOMAIN d.files \ {ROOT_ID}
                  /\ \A k \in DOMAIN d.files \ {ROOT_ID} :
                       k \in Target(d, to.at) <=> EntryOf(d, k) \in Overwritten(e, Shown(d))
<1> DEFINE to == GetIds(d, e.new_dirent)
<1>1. CASE e.new_dirent = None
  <2>1. to.err = "Ok" /\ to.at = None
    BY <1>1 DEF GetIds
  <2> HIDE DEF to
  <2> QED BY <1>1, <2>1 DEF to, Lands, Place
<1>2. CASE e.new_dirent # None
  <2>1. e.new_dirent \in Dirent
    BY <1>2 DEF Alter
  <2>2. /\ to.err = "Ok" /\ to.at \in Place
        /\ to.at = None <=> ~Knows(Shown(d), R, e.new_dirent.p_fh)
        /\ to.at # None => /\ to.at.name = e.new_dirent.name
                           /\ HandleIds(d, e.new_dirent.p_fh) = {to.at.p_id}
    BY <1>2, <2>1, DirentFound
  <2> HIDE DEF to
  <2>3. to.at # None <=> Lands(e, Shown(d), R)
    BY <1>2, <2>2 DEF Lands
  <2>4. ASSUME to.at # None
        PROVE  /\ to.at.p_id \in DOMAIN d.files /\ to.at.name = e.new_dirent.name
               /\ d.files[to.at.p_id].file_handle = e.new_dirent.p_fh
               /\ Target(d, to.at) \subseteq DOMAIN d.files \ {ROOT_ID}
               /\ \A k \in DOMAIN d.files \ {ROOT_ID} :
                    k \in Target(d, to.at) <=> EntryOf(d, k) \in Overwritten(e, Shown(d))
    <3>1. /\ to.at.p_id \in DOMAIN d.files /\ to.at.name = e.new_dirent.name
          /\ d.files[to.at.p_id].file_handle = e.new_dirent.p_fh
      BY <2>2, <2>4 DEF HandleIds
    <3>2. to.at.name # RootName
      BY <2>2, <2>4 DEF Place, Entry
    <3>3. Target(d, to.at) \subseteq DOMAIN d.files \ {ROOT_ID}
      BY <3>2 DEF Target, DirentIds, Clean, Sound, HasRoot
    <3>4. ASSUME NEW k \in DOMAIN d.files \ {ROOT_ID}
          PROVE  k \in Target(d, to.at) <=> EntryOf(d, k) \in Overwritten(e, Shown(d))
      <4>1. d.files[k].parent_id \in DOMAIN d.files
        BY DEF Clean, Sound, NoOrphans
      <4>2. EntryOf(d, k) \in Shown(d)
        BY DEF Shown, Rest
      <4>3. d.files[k].parent_id = to.at.p_id <=> d.files[d.files[k].parent_id].file_handle = e.new_dirent.p_fh
        BY <2>2, <2>4, <3>1, <4>1 DEF HandleIds
      <4> QED BY <3>1, <4>2, <4>3 DEF Target, DirentIds, Overwritten, EntryOf
    <3> QED BY <3>1, <3>3, <3>4
  <2> QED BY <2>2, <2>3, <2>4 DEF to
<1> QED BY <1>1, <1>2

(* A lasting destination: the row moves to it.                             *)
LEMMA EventMoves ==
  ASSUME NEW d, NEW R, NEW D, Clean(d, R, D), NEW e, NEW W, Follows(e, Shown(d), W, R, D),
         Lands(e, Shown(d), R)
  PROVE  Moving(d, e.fh, GetIds(d, e.old_dirent).at, GetIds(d, e.new_dirent).at, W, R, D)
<1> DEFINE V == Shown(d)
           at == GetIds(d, e.old_dirent).at
           to == GetIds(d, e.new_dirent).at
           src == Source(d, e.fh, at)
           tgt == Target(d, to)
           old == OldEntry(e, V)
           over == Overwritten(e, V)
           N == Placed(e.new_dirent, e.fh)
<1>1. /\ e \in Alter /\ e.new_dirent # None /\ e.new_dirent.p_fh \in D
      /\ e.old_dirent # None => e.old_dirent.p_fh \in D
      /\ W = (V \ (old \cup over)) \cup {N}
      /\ \A x \in over : x.h # e.fh /\ \A y \in V : y.p # x.h
      /\ e.fh \in D => e.fh # R /\ \A x \in V : x.h = e.fh => x \in old
  BY DEF Follows, Lands
<1>2. \A k \in DOMAIN d.files \ {ROOT_ID} : k \in src <=> EntryOf(d, k) \in old
  BY <1>1, SourceEntry
<1>3. /\ to # None /\ to.p_id \in DOMAIN d.files /\ to.name = e.new_dirent.name
      /\ d.files[to.p_id].file_handle = e.new_dirent.p_fh
      /\ tgt \subseteq DOMAIN d.files \ {ROOT_ID}
      /\ \A k \in DOMAIN d.files \ {ROOT_ID} : k \in tgt <=> EntryOf(d, k) \in over
  BY <1>1, TargetEntry
<1>4. /\ \A k \in DOMAIN d.files \ {ROOT_ID} : EntryOf(d, k) \in V
      /\ \A x \in V : \E k \in DOMAIN d.files \ {ROOT_ID} : x = EntryOf(d, k)
  BY DEF Shown, Rest
<1>5. \A k \in DOMAIN d.files : /\ EntryOf(d, k).h = d.files[k].file_handle
                                /\ EntryOf(d, k).p = d.files[d.files[k].parent_id].file_handle
  BY DEF EntryOf
<1>6. /\ \A k \in DOMAIN d.files : d.files[k].parent_id \in DOMAIN d.files
      /\ d.files[ROOT_ID].parent_id = ROOT_ID /\ d.files[ROOT_ID].file_handle = R
  BY DEF Clean, Sound, NoOrphans, HasRoot
<1>7. Rest(d, src \cup tgt) = {EntryOf(d, k) : k \in DOMAIN d.files \ (src \cup tgt \cup {ROOT_ID})}
  BY DEF Rest
<1> HIDE DEF src, tgt, old, over, V, at, to, N
<1>8. ASSUME NEW k \in DOMAIN d.files PROVE d.files[k].parent_id \notin tgt
  <2> SUFFICES ASSUME d.files[k].parent_id \in tgt PROVE FALSE
    OBVIOUS
  <2> DEFINE m == d.files[k].parent_id
  <2>1. m \in DOMAIN d.files \ {ROOT_ID} /\ EntryOf(d, m) \in over
    BY <1>3
  <2>2. k # ROOT_ID
    BY <1>6, <2>1
  <2>3. EntryOf(d, k) \in V /\ EntryOf(d, k).p = EntryOf(d, m).h
    BY <1>4, <1>5, <2>1, <2>2
  <2> QED BY <1>1, <2>1, <2>3
<1>9. ASSUME NEW k \in tgt PROVE d.files[k].file_handle # e.fh
  <2>1. k \in DOMAIN d.files \ {ROOT_ID} /\ EntryOf(d, k) \in over
    BY <1>3
  <2> QED BY <1>1, <1>5, <2>1
<1>10. ASSUME e.fh \in D, NEW k \in HandleIds(d, e.fh) PROVE k \in src
  <2>1. k \in DOMAIN d.files /\ d.files[k].file_handle = e.fh
    BY DEF HandleIds
  <2>2. k # ROOT_ID
    BY <1>1, <1>6, <1>10, <2>1
  <2>3. EntryOf(d, k) \in old
    BY <1>1, <1>4, <1>5, <1>10, <2>1, <2>2
  <2> QED BY <1>2, <2>1, <2>2, <2>3
<1>11. Rest(d, src \cup tgt) = V \ (old \cup over)
  <2>1. ASSUME NEW k \in DOMAIN d.files \ (src \cup tgt \cup {ROOT_ID})
        PROVE  EntryOf(d, k) \in V \ (old \cup over)
    BY <1>2, <1>3, <1>4
  <2>2. ASSUME NEW x \in V \ (old \cup over)
        PROVE  \E k \in DOMAIN d.files \ (src \cup tgt \cup {ROOT_ID}) : x = EntryOf(d, k)
    <3>1. PICK k \in DOMAIN d.files \ {ROOT_ID} : x = EntryOf(d, k)
      BY <1>4
    <3>2. k \notin src /\ k \notin tgt
      BY <1>2, <1>3, <3>1
    <3> QED BY <3>1, <3>2
  <2> QED BY <1>7, <2>1, <2>2
<1>12. N = [p |-> d.files[to.p_id].file_handle, n |-> to.name, h |-> e.fh]
  BY <1>3 DEF N, Placed
<1>13. W = Rest(d, src \cup tgt) \cup {[p |-> d.files[to.p_id].file_handle, n |-> to.name, h |-> e.fh]}
  BY <1>1, <1>11, <1>12
<1>14. e.fh \in D => HandleIds(d, e.fh) \subseteq src
  BY <1>10
<1>15. Moving(d, e.fh, at, to, W, R, D)
  BY <1>1, <1>3, <1>8, <1>9, <1>13, <1>14 DEF Moving, src, tgt
<1> QED BY <1>15 DEF at, to

(* No destination that the index knows: the row goes.                      *)
LEMMA EventLeaves ==
  ASSUME NEW d, NEW R, NEW D, Clean(d, R, D), NEW e, NEW W, Follows(e, Shown(d), W, R, D),
         ~Lands(e, Shown(d), R)
  PROVE  Leaving(d, e.fh, GetIds(d, e.old_dirent).at, W, R, D)
<1> DEFINE V == Shown(d)
           at == GetIds(d, e.old_dirent).at
           src == Source(d, e.fh, at)
           old == OldEntry(e, V)
           U == Under(e.fh, V, D)
           gone == Gone(d, src)
<1>1. /\ e \in Alter
      /\ e.old_dirent # None => e.old_dirent.p_fh \in D
      /\ W = {x \in V : x \notin old /\ (old # {} => x.p \notin U)}
  BY DEF Follows
<1>2. /\ src \subseteq DOMAIN d.files \ {ROOT_ID} /\ \A j, k \in src : j = k
      /\ \A k \in DOMAIN d.files \ {ROOT_ID} : k \in src <=> EntryOf(d, k) \in old
      /\ src # {} <=> old # {}
  BY <1>1, SourceEntry
<1>3. /\ \A k \in DOMAIN d.files \ {ROOT_ID} : EntryOf(d, k) \in V
      /\ \A x \in V : \E k \in DOMAIN d.files \ {ROOT_ID} : x = EntryOf(d, k)
  BY DEF Shown, Rest
<1>4. \A k \in src : d.files[k].file_handle = e.fh
  BY DEF Source, At
<1>5. \A k \in DOMAIN d.files \ {ROOT_ID} :
        k \in gone <=> EntryOf(d, k) \in old \/ (old # {} /\ EntryOf(d, k).p \in U)
  <2>1. CASE src = {}
    BY <1>2, <2>1 DEF Gone
  <2>2. CASE src # {}
    <3>1. PICK i \in src : TRUE
      BY <2>2
    <3>2. src = {i} /\ i \in DOMAIN d.files \ {ROOT_ID} /\ d.files[i].file_handle = e.fh
      BY <1>2, <1>4, <3>1
    <3>3. \A k \in DOMAIN d.files \ {ROOT_ID} :
            k \in Subtree(d.files, i) <=> k = i \/ EntryOf(d, k).p \in Under(d.files[i].file_handle, V, D)
      BY <3>2, SubtreeUnder
    <3>4. \A k \in DOMAIN d.files : k \in gone <=> k \in Subtree(d.files, i)
      BY <3>2 DEF Gone
    <3> HIDE DEF src, gone, old, V
    <3>5. \A k \in DOMAIN d.files \ {ROOT_ID} : k = i <=> EntryOf(d, k) \in old
      BY <1>2, <3>2
    <3> HIDE DEF U
    <3>6. \A k \in DOMAIN d.files \ {ROOT_ID} : k \in Subtree(d.files, i) <=> k = i \/ EntryOf(d, k).p \in U
      BY <3>2, <3>3 DEF U
    <3> QED BY <1>2, <2>2, <3>4, <3>5, <3>6
  <2> QED BY <2>1, <2>2
<1>6. Rest(d, gone) = {EntryOf(d, k) : k \in DOMAIN d.files \ (gone \cup {ROOT_ID})}
  BY DEF Rest
<1> HIDE DEF src, gone, old, V, U, at
<1>7. W = Rest(d, gone)
  <2>1. ASSUME NEW k \in DOMAIN d.files \ (gone \cup {ROOT_ID}) PROVE EntryOf(d, k) \in W
    BY <1>1, <1>3, <1>5
  <2>2. ASSUME NEW x \in W PROVE \E k \in DOMAIN d.files \ (gone \cup {ROOT_ID}) : x = EntryOf(d, k)
    <3>1. PICK k \in DOMAIN d.files \ {ROOT_ID} : x = EntryOf(d, k)
      BY <1>1, <1>3
    <3> QED BY <1>1, <1>5, <3>1
  <2> QED BY <1>6, <2>1, <2>2
<1> QED BY <1>7 DEF Leaving, gone, src, at

(* An event that follows what the index shows is applied without an error  *)
(* and asks for no discovery; the index then shows what it leads to.       *)
LEMMA EventShows ==
  ASSUME NEW d, NEW R, NEW D, Clean(d, R, D), NEW e, NEW W, Follows(e, Shown(d), W, R, D)
  PROVE  LET h == HandleEvent(d, e)
         IN  h.err = "Ok" /\ h.sent = <<>> /\ Clean(h.db, R, D) /\ Shown(h.db) = W
<1> DEFINE V == Shown(d)
           from == GetIds(d, e.old_dirent)
           to == GetIds(d, e.new_dirent)
           loop == MoveLoop(d, e.fh, from.at, to.at)
           h == HandleEvent(d, e)
<1>1. /\ e \in Alter /\ e.type = "Alter" /\ e.fh \in Handle
      /\ e.old_dirent # None => e.old_dirent.p_fh \in D
      /\ e.new_dirent # None => e.new_dirent.p_fh \in D
  BY DEF Follows, Alter
<1>2. from.err = "Ok" /\ from.at \in Place /\ (OldEntry(e, V) # {} => from.at # None)
  BY <1>1, SourceEntry
<1>3. to.err = "Ok" /\ to.at \in Place /\ (to.at # None <=> Lands(e, V, R))
  BY <1>1, TargetEntry
<1>4. Starts(d, e.fh, from.at, to.at, W, R, D)
  BY <1>3, EventMoves, EventLeaves DEF Starts
<1>5. loop.err = "Ok" /\ Clean(loop.db, R, D) /\ Shown(loop.db) = W
  <2> DEFINE f == from.at
             t == to.at
  <2> HIDE DEF from, to
  <2>1. f \in Place /\ t \in Place /\ Starts(d, e.fh, f, t, W, R, D) /\ e.fh \in Handle
    BY <1>1, <1>2, <1>3, <1>4
  <2> HIDE DEF f, t, loop
  <2>2. LET m == MoveLoop(d, e.fh, f, t)
        IN  m.err = "Ok" /\ Clean(m.db, R, D) /\ Shown(m.db) = W
    BY <2>1, LoopShows
  <2>3. loop = MoveLoop(d, e.fh, f, t)
    BY DEF loop, f, t
  <2> QED BY <2>2, <2>3
<1>6. ~(e.is_dir /\ e.old_dirent # None /\ from.at = None /\ to.at # None)
  BY <1>2, <1>3 DEF Follows
<1>7. h = HandleMove(d, e)
  BY <1>1 DEF HandleEvent
<1> HIDE DEF loop, from, to, h
<1>8. /\ h.err = loop.err /\ h.db = loop.db /\ h.sent = <<>>
  BY <1>2, <1>3, <1>6, <1>7 DEF HandleMove, loop, from, to
<1> QED BY <1>5, <1>8 DEF h

-----------------------------------------------------------------------------
(* The inductive invariant: the queues hold events, the cursor is inside   *)
(* the batch, and both the committed database and the one the transaction  *)
(* sees are sound.                                                         *)
Inv ==
  /\ chan \in Seq(Events) /\ batch \in Seq(Events)
  /\ pos \in 0 .. Len(batch) + 1 /\ (pos > 0 => batch # <<>>)
  /\ Sound(db) /\ Sound(work)
  /\ requests \in Seq(Handle)

LEMMA InitInv == Init => Inv
BY DbWriterAssumption DEF Init, Inv, Sound

LEMMA NextInv == Inv /\ [Next]_vars => Inv'
<1> SUFFICES ASSUME Inv, [Next]_vars PROVE Inv'
  OBVIOUS
<1>1. ASSUME NEW e \in Events, Send(e) PROVE Inv'
  BY <1>1 DEF Inv, Send
<1>2. CASE Recv
  BY <1>2 DEF Inv, Recv
<1>3. CASE Flush
  BY <1>3 DEF Inv, Flush
<1>4. ASSUME pos \in 1 .. Len(batch)
      PROVE  LET h == HandleEvent(work, batch[pos])
             IN  Sound(h.db) /\ h.sent \in Seq(Handle)
  <2>1. batch[pos] \in Event
    BY <1>4, DbWriterAssumption DEF Inv
  <2> QED BY <2>1, HandleEventResult DEF Inv
<1>5. CASE Apply
  <2> DEFINE r == HandleEvent(work, batch[pos])
  <2>1. /\ pos \in 1 .. Len(batch)
        /\ requests' = requests \o r.sent
        /\ UNCHANGED <<chan, db>>
        /\ \/ work' = r.db /\ pos' = pos + 1 /\ UNCHANGED batch
           \/ work' = db /\ pos' = 0 /\ batch' = <<>>
    BY <1>5 DEF Apply, EndBatch
  <2>2. Sound(r.db) /\ r.sent \in Seq(Handle)
    BY <1>4, <2>1
  <2> HIDE DEF r
  <2>3. requests' \in Seq(Handle)
    BY <2>1, <2>2 DEF Inv
  <2>4. CASE work' = r.db /\ pos' = pos + 1 /\ UNCHANGED batch
    <3>1. Sound(work') /\ Sound(db')
      BY <2>1, <2>2, <2>4 DEF Inv
    <3>2. pos' \in 0 .. Len(batch') + 1 /\ batch' # <<>>
      BY <2>1, <2>4 DEF Inv
    <3> QED BY <2>1, <2>3, <2>4, <3>1, <3>2 DEF Inv
  <2>5. CASE work' = db /\ pos' = 0 /\ batch' = <<>>
    <3>1. Sound(work') /\ Sound(db')
      BY <2>1, <2>5 DEF Inv
    <3> QED BY <2>1, <2>3, <2>5, <3>1 DEF Inv
  <2> QED BY <2>1, <2>4, <2>5
<1>6. CASE Commit
  BY <1>6 DEF Inv, Commit, EndBatch
<1>7. CASE SQLiteError
  <2> DEFINE sent == HandleEvent(work, batch[pos]).sent
  <2>1. requests' \in Seq(Handle)
    <3>1. CASE UNCHANGED requests
      BY <3>1 DEF Inv
    <3>2. CASE pos <= Len(batch) /\ requests' = requests \o sent
      <4>1. pos \in 1 .. Len(batch)
        BY <1>7, <3>2 DEF Inv, SQLiteError
      <4>2. sent \in Seq(Handle)
        BY <1>4, <4>1
      <4> HIDE DEF sent
      <4> QED BY <3>2, <4>2 DEF Inv
    <3> QED BY <1>7, <3>1, <3>2 DEF SQLiteError
  <2>2. work' = db /\ pos' = 0 /\ batch' = <<>> /\ UNCHANGED <<chan, db>>
    BY <1>7 DEF SQLiteError, EndBatch
  <2> QED BY <2>1, <2>2 DEF Inv
<1>8. CASE Restart
  BY <1>8 DEF Inv, Restart
<1>9. CASE TakeRequest
  BY <1>9 DEF Inv, TakeRequest
<1>10. CASE UNCHANGED vars
  BY <1>10 DEF Inv, vars
<1> QED BY <1>1, <1>2, <1>3, <1>5, <1>6, <1>7, <1>8, <1>9, <1>10 DEF Next, Thread

LEMMA Invariance == Spec => []Inv
BY InitInv, NextInv, PTL DEF Spec

-----------------------------------------------------------------------------
(* The types of the thread's state.                                        *)
THEOREM TypeCorrect == Spec => []TypeOK
<1>1. Inv => TypeOK
  BY DEF Inv, TypeOK, Sound
<1> QED BY <1>1, Invariance, PTL

(* The root row is never deleted, renamed or moved.                        *)
THEOREM RootStaysAlways == Spec => []RootStays
<1>1. Inv => RootStays
  BY DEF Inv, RootStays, Sound
<1> QED BY <1>1, Invariance, PTL

(* Every row's parent is a row: a cascade never leaves half a subtree.     *)
THEOREM NoOrphanRowsAlways == Spec => []NoOrphanRows
<1>1. Inv => NoOrphanRows
  BY DEF Inv, NoOrphanRows, Sound
<1> QED BY <1>1, Invariance, PTL

(* No two rows are at one entry.                                           *)
THEOREM OneRowPerEntryAlways == Spec => []OneRowPerEntry
<1>1. Inv => OneRowPerEntry
  BY DEF Inv, OneRowPerEntry, Sound
<1> QED BY <1>1, Invariance, PTL

(* suffix_array holds exactly the suffixes of the names in files.          *)
THEOREM IndexMatchesFilesAlways == Spec => []IndexMatchesFiles
<1>1. Inv => IndexMatchesFiles
  BY DEF Inv, IndexMatchesFiles, Sound
<1> QED BY <1>1, Invariance, PTL

(* handle_move's loop ends on every event in every reachable database.     *)
THEOREM LoopEndsAlways == Spec => []LoopEnds
<1>1. Inv => LoopEnds
  BY HandleEventResult, DbWriterAssumption DEF Inv, LoopEnds
<1> QED BY <1>1, Invariance, PTL
-----------------------------------------------------------------------------
(* What an event that was applied leaves in the database.                  *)
LEMMA ReflectedResult ==
  ASSUME NEW d, Sound(d), NEW e \in Alter, HandleEvent(d, e).err = "Ok"
  PROVE  Reflected(e, HandleEvent(d, e).db)
<1> DEFINE from == GetIds(d, e.old_dirent)
           to == GetIds(d, e.new_dirent)
           loop == MoveLoop(d, e.fh, from.at, to.at)
           r == HandleEvent(d, e)
           d1 == r.db
<1>1. /\ e.type = "Alter" /\ e.fh \in Handle
      /\ e.old_dirent \in Dirent \cup {None} /\ e.new_dirent \in Dirent \cup {None}
  BY DEF Alter
<1>2. /\ from.at \in Place /\ to.at \in Place
  BY <1>1, GetIdsType
<1>3. r.err = "Ok" /\ from.err = "Ok" /\ to.err = "Ok" /\ loop.err = "Ok" /\ d1 = loop.db
  <2>1. r = IF from.err # "Ok" THEN [err |-> from.err, db |-> d, sent |-> <<>>]
            ELSE IF to.err # "Ok" THEN [err |-> to.err, db |-> d, sent |-> <<>>]
            ELSE [err |-> loop.err, db |-> loop.db, sent |-> r.sent]
    BY <1>1 DEF HandleEvent, HandleMove
  <2> HIDE DEF r, from, to, loop
  <2> QED BY <2>1 DEF r
<1>4. Sound(d1)
  BY HandleEventResult DEF Event
<1>5. Outcome(d1, d, e.fh, from.at, to.at)
  BY <1>1, <1>2, <1>3, MoveLoopOutcome
<1>6. ASSUME NEW dirent \in Dirent, GetIds(d, dirent).err = "Ok"
      PROVE  LET at == GetIds(d, dirent).at
             IN  \/ at = None /\ HandleIds(d, dirent.p_fh) = {}
                 \/ /\ at # None /\ at.name = dirent.name
                    /\ HandleIds(d, dirent.p_fh) = {at.p_id}
  BY <1>6, DirectoryFound
<1>7. ASSUME NEW h, NEW k \in HandleIds(d1, h)
      PROVE  \/ k \in HandleIds(d, h)
             \/ to.at # None /\ h = e.fh /\ At(d1, k, e.fh, to.at)
  BY <1>5, <1>7 DEF Outcome, Kept, HandleIds, At
<1> HIDE DEF from, to, loop, d1
<1>8. ASSUME e.new_dirent # None, HandleIds(d1, e.new_dirent.p_fh) # {}
      PROVE  \E k \in EntriesOf(d1, e.new_dirent) : d1.files[k].file_handle = e.fh
  <2>1. e.new_dirent \in Dirent
    BY <1>1, <1>8
  <2>2. \/ to.at = None /\ HandleIds(d, e.new_dirent.p_fh) = {}
        \/ /\ to.at # None /\ to.at.name = e.new_dirent.name
           /\ HandleIds(d, e.new_dirent.p_fh) = {to.at.p_id}
    BY <1>3, <1>6, <2>1 DEF to
  <2>3. PICK j \in HandleIds(d1, e.new_dirent.p_fh) : TRUE
    BY <1>8
  <2>4. /\ to.at # None /\ to.at.name = e.new_dirent.name
        /\ HandleIds(d, e.new_dirent.p_fh) = {to.at.p_id}
    BY <1>7, <2>2, <2>3
  <2>5. PICK k \in DOMAIN d1.files : At(d1, k, e.fh, to.at)
    BY <1>5, <2>4 DEF Outcome
  <2>6. to.at.p_id \in DOMAIN d1.files
    BY <1>4, <2>5 DEF Sound, NoOrphans, At
  <2>7. to.at.p_id \in HandleIds(d1, e.new_dirent.p_fh)
    <3>1. CASE j \in HandleIds(d, e.new_dirent.p_fh)
      BY <2>3, <2>4, <3>1
    <3>2. CASE e.new_dirent.p_fh = e.fh
      <4>1. CASE Kept(d1, d, to.at.p_id)
        BY <2>4, <2>6, <4>1 DEF Kept, HandleIds
      <4>2. CASE At(d1, to.at.p_id, e.fh, to.at)
        BY <2>6, <3>2, <4>2 DEF At, HandleIds
      <4> QED BY <1>5, <2>6, <4>1, <4>2 DEF Outcome
    <3> QED BY <1>7, <2>3, <3>1, <3>2
  <2>8. k \in EntriesOf(d1, e.new_dirent)
    BY <1>8, <2>4, <2>5, <2>7 DEF EntriesOf, At
  <2> QED BY <2>5, <2>8 DEF At
<1>9. ASSUME e.old_dirent \notin {None, e.new_dirent}, e.old_dirent.p_fh # e.fh,
             NEW k \in EntriesOf(d1, e.old_dirent), d1.files[k].file_handle = e.fh
      PROVE  FALSE
  <2>1. e.old_dirent \in Dirent
    BY <1>1, <1>9
  <2>2. /\ k \in DOMAIN d1.files /\ d1.files[k].name = e.old_dirent.name
        /\ d1.files[k].parent_id \in HandleIds(d1, e.old_dirent.p_fh)
    BY <1>9 DEF EntriesOf
  <2>3. d1.files[k].parent_id \in HandleIds(d, e.old_dirent.p_fh)
    BY <1>7, <1>9, <2>2
  <2>4. /\ from.at # None /\ from.at.name = e.old_dirent.name
        /\ HandleIds(d, e.old_dirent.p_fh) = {from.at.p_id}
    BY <1>3, <1>6, <2>1, <2>3 DEF from
  <2>5. At(d1, k, e.fh, from.at)
    BY <1>9, <2>2, <2>3, <2>4 DEF At
  <2>6. from.at = to.at
    BY <1>5, <2>2, <2>4, <2>5 DEF Outcome
  <2>7. e.new_dirent \in Dirent
    <3>1. e.new_dirent = None => to.at = None
      BY DEF to, GetIds
    <3> QED BY <1>1, <2>4, <2>6, <3>1
  <2>8. to.at.name = e.new_dirent.name /\ HandleIds(d, e.new_dirent.p_fh) = {to.at.p_id}
    BY <1>3, <1>6, <2>4, <2>6, <2>7 DEF to
  <2>9. e.new_dirent.name = e.old_dirent.name
    BY <2>4, <2>6, <2>8
  <2>10. e.new_dirent.p_fh = e.old_dirent.p_fh
    BY <2>4, <2>6, <2>8 DEF HandleIds
  <2>11. e.new_dirent = e.old_dirent
    BY <2>1, <2>7, <2>9, <2>10 DEF Dirent
  <2> QED BY <1>9, <2>11
<1> QED BY <1>8, <1>9 DEF Reflected, d1

(* An applied event is in the index, whatever was in its way.              *)
THEOREM EventReflectedAlways == Spec => EventReflected
<1>1. ASSUME Inv, [Next]_vars, pos > 0, pos' = pos + 1, batch[pos].type = "Alter"
      PROVE  Reflected(batch[pos], work')
  <2>1. pos \in Nat
    BY <1>1 DEF Inv
  <2>2. CASE Apply
    <3>1. /\ pos \in 1 .. Len(batch)
          /\ HandleEvent(work, batch[pos]).err = "Ok"
          /\ work' = HandleEvent(work, batch[pos]).db
      BY <1>1, <2>1, <2>2 DEF Apply, EndBatch
    <3>2. batch[pos] \in Event
      BY <3>1, DbWriterAssumption, <1>1 DEF Inv
    <3>3. batch[pos] \in Alter
      BY <1>1, <3>2 DEF Event, Discover
    <3> QED BY <1>1, <3>1, <3>3, ReflectedResult DEF Inv
  <2>3. CASE ~Apply
    BY <1>1, <2>1, <2>3
       DEF Next, Thread, Send, Recv, Flush, Commit, SQLiteError, Restart, TakeRequest, EndBatch, vars
  <2> QED BY <2>2, <2>3
<1>2. Inv /\ [Next]_vars =>
        [pos > 0 /\ pos' = pos + 1 /\ batch[pos].type = "Alter" => Reflected(batch[pos], work')]_vars
  BY <1>1
<1> QED BY <1>2, Invariance, PTL DEF Spec, EventReflected
-----------------------------------------------------------------------------
(* The thread implements EventLog.                                         *)

(* The events of a queue can be applied one after another: there is such a *)
(* function of the number applied.                                         *)
LEMMA AppliedStep ==
  ASSUME NEW d, NEW T, NEW s \in Seq(T)
  PROVE  /\ Log!Applied(d, s)[0] = [err |-> "Ok", db |-> d, sent |-> <<>>]
         /\ \A n \in 1 .. Len(s) : Log!Applied(d, s)[n] = Log!Then(Log!Applied(d, s)[n - 1], s[n])
<1> DEFINE start == [err |-> "Ok", db |-> d, sent |-> <<>>]
           After(f, m) == f = [n \in 0 .. m |-> IF n = 0 THEN start
                                                ELSE Log!Then(f[n - 1], s[n])]
           Reached == {m \in Nat : \E f : After(f, m)}
           a == Log!Applied(d, s)
<1> HIDE DEF start
<1>1. 0 \in Reached
  <2> DEFINE f == [n \in 0 .. 0 |-> start]
  <2>1. After(f, 0)
    OBVIOUS
  <2> HIDE DEF After
  <2> QED BY <2>1
<1>2. ASSUME NEW m \in Nat, m \in Reached PROVE m + 1 \in Reached
  <2>1. PICK f : After(f, m)
    BY <1>2
  <2> DEFINE g == [n \in 0 .. m + 1 |-> IF n = m + 1 THEN Log!Then(f[m], s[m + 1]) ELSE f[n]]
  <2>2. \A n \in 0 .. m : f[n] = IF n = 0 THEN start ELSE Log!Then(f[n - 1], s[n])
    BY <2>1
  <2>3. ASSUME NEW n \in 0 .. m + 1
        PROVE  g[n] = IF n = 0 THEN start ELSE Log!Then(g[n - 1], s[n])
    <3>1. CASE n = 0
      BY <2>2, <3>1
    <3>2. CASE n \in 1 .. m
      <4>1. n # 0 /\ n \in 0 .. m /\ n # m + 1 /\ n - 1 \in 0 .. m + 1 /\ n - 1 # m + 1
        BY <3>2
      <4> QED BY <2>2, <4>1
    <3>3. CASE n = m + 1
      <4>1. n # 0 /\ n - 1 = m /\ m \in 0 .. m + 1 /\ m # m + 1
        BY <3>3
      <4> QED BY <3>3, <4>1
    <3> QED BY <3>1, <3>2, <3>3
  <2>4. After(g, m + 1)
    <3>1. g = [n \in 0 .. m + 1 |-> g[n]]
      OBVIOUS
    <3> HIDE DEF g
    <3> QED BY <2>3, <3>1
  <2> HIDE DEF After, g
  <2> QED BY <2>4
<1>3. \A m \in Nat : m \in Reached
  <2> HIDE DEF Reached
  <2> QED BY <1>1, <1>2, AllNumbers
<1>4. PICK f : After(f, Len(s))
  <2>1. Len(s) \in Nat
    OBVIOUS
  <2>2. Len(s) \in Reached
    BY <1>3, <2>1
  <2> QED BY <2>2
<1>5. a = CHOOSE g : After(g, Len(s))
  BY DEF Log!Applied, start
<1> HIDE DEF After, a
<1>6. After(a, Len(s))
  BY <1>4, <1>5
<1>7. a = [n \in 0 .. Len(s) |-> IF n = 0 THEN start ELSE Log!Then(a[n - 1], s[n])]
  BY <1>6 DEF After
<1>8. \A n \in 0 .. Len(s) : a[n] = IF n = 0 THEN start ELSE Log!Then(a[n - 1], s[n])
  BY <1>7
<1>9. 0 \in 0 .. Len(s) /\ \A n \in 1 .. Len(s) : n \in 0 .. Len(s) /\ n # 0
  OBVIOUS
<1> QED BY <1>8, <1>9 DEF a, start

(* What comes later in the queue does not matter.                          *)
LEMMA AppliedPrefix ==
  ASSUME NEW d, NEW T, NEW s \in Seq(T), NEW t \in Seq(T)
  PROVE  \A n \in 0 .. Len(s) : Log!Applied(d, s \o t)[n] = Log!Applied(d, s)[n]
<1> DEFINE a == Log!Applied(d, s)
           b == Log!Applied(d, s \o t)
           S == {n \in Nat : n <= Len(s) => b[n] = a[n]}
<1>1. s \o t \in Seq(T) /\ Len(s \o t) >= Len(s) /\ Len(s) \in Nat /\ Len(s \o t) \in Nat
  OBVIOUS
<1>2. /\ b[0] = a[0]
      /\ \A n \in 1 .. Len(s) : a[n] = Log!Then(a[n - 1], s[n])
      /\ \A n \in 1 .. Len(s \o t) : b[n] = Log!Then(b[n - 1], (s \o t)[n])
  BY <1>1, AppliedStep
<1>3. \A n \in 1 .. Len(s) : (s \o t)[n] = s[n] /\ n \in 1 .. Len(s \o t)
  BY <1>1
<1> HIDE DEF a, b
<1>4. 0 \in S
  BY <1>2
<1>5. ASSUME NEW n \in Nat, n \in S PROVE n + 1 \in S
  <2> SUFFICES ASSUME n + 1 <= Len(s) PROVE b[n + 1] = a[n + 1]
    OBVIOUS
  <2>1. n + 1 \in 1 .. Len(s) /\ n <= Len(s) /\ n + 1 - 1 = n
    BY <1>1
  <2>2. b[n] = a[n]
    BY <1>5, <2>1
  <2> QED BY <1>2, <1>3, <2>1, <2>2
<1>6. \A n \in Nat : n \in S
  <2> HIDE DEF S
  <2> QED BY <1>4, <1>5, AllNumbers
<1> QED BY <1>1, <1>6 DEF a, b

(* The open transaction holds the events before pos, applied to what is    *)
(* committed.                                                              *)
WorkIsApplied ==
  pos > 0 => LET r == Log!Applied(db, batch)[pos - 1] IN r.err = "Ok" /\ r.db = work

LEMMA NextWorkIsApplied == Inv /\ WorkIsApplied /\ [Next]_vars => WorkIsApplied'
<1> SUFFICES ASSUME Inv, WorkIsApplied, [Next]_vars, pos' > 0
             PROVE  LET r == Log!Applied(db', batch')[pos' - 1] IN r.err = "Ok" /\ r.db = work'
  BY DEF WorkIsApplied, Log!Applied, Log!Then
<1>1. CASE UNCHANGED <<db, batch, pos, work>>
  BY <1>1 DEF WorkIsApplied
<1>2. CASE Flush
  <2>1. pos' = 1 /\ work' = db /\ db' = db /\ batch' = batch /\ pos' - 1 = 0
    BY <1>2 DEF Flush
  <2>2. Log!Applied(db, batch)[0] = [err |-> "Ok", db |-> db, sent |-> <<>>]
    BY AppliedStep DEF Inv
  <2> QED BY <2>1, <2>2
<1>3. CASE Apply
  <2> DEFINE h == HandleEvent(work, batch[pos])
             r == Log!Applied(db, batch)
  <2>1. /\ pos \in 1 .. Len(batch) /\ pos' = pos + 1 /\ db' = db /\ batch' = batch
        /\ h.err = "Ok" /\ work' = h.db
    BY <1>3 DEF Apply, EndBatch
  <2>2. pos' - 1 = pos /\ pos > 0 /\ pos \in Nat
    BY <2>1
  <2>3. r[pos] = Log!Then(r[pos - 1], batch[pos])
    BY <2>1, AppliedStep DEF Inv
  <2>4. r[pos - 1].err = "Ok" /\ r[pos - 1].db = work
    BY <2>2 DEF WorkIsApplied
  <2> HIDE DEF r
  <2>5. r[pos] = h
    BY <2>3, <2>4 DEF Log!Then
  <2> HIDE DEF h
  <2> QED BY <2>1, <2>2, <2>5 DEF r
<1>4. CASE Recv
  BY <1>4 DEF Recv
<1>5. CASE Commit \/ SQLiteError \/ Restart
  BY <1>5 DEF Commit, SQLiteError, Restart, EndBatch
<1> QED BY <1>1, <1>2, <1>3, <1>4, <1>5 DEF Next, Thread, Send, TakeRequest, vars

(* Each step is one of EventLog or none of its business.                   *)
LEMMA NextLog == Inv /\ WorkIsApplied /\ [Next]_vars => [Log!Next]_Log!vars
<1> SUFFICES ASSUME Inv, WorkIsApplied, [Next]_vars PROVE [Log!Next]_Log!vars
  OBVIOUS
<1> DEFINE pending == batch \o chan
<1>1. /\ batch \in Seq(Events) /\ chan \in Seq(Events) /\ pending \in Seq(Events)
      /\ Len(batch) \in Nat /\ Len(pending) = Len(batch) + Len(chan) /\ Len(chan) \in Nat
      /\ pos \in 0 .. Len(batch) + 1 /\ (pos > 0 => batch # <<>>)
  BY DEF Inv
<1>2. SubSeq(pending, Len(batch) + 1, Len(pending)) = chan
  BY <1>1
<1>3. ASSUME batch # <<>>, batch' = <<>>, chan' = chan, db' = db
      PROVE  Log!Next
  <2>1. Len(batch) \in 1 .. Len(pending)
    BY <1>1, <1>3
  <2>2. <<>> \o chan = chan
    BY <1>1
  <2>3. Log!Skip(Len(batch))
    BY <1>2, <1>3, <2>2 DEF Log!Skip, Log!Leaves
  <2> QED BY <2>1, <2>3 DEF Log!Next
<1>4. ASSUME NEW e \in Events, Send(e) PROVE Log!Next
  <2>1. batch' \o chan' = Append(pending, e) /\ db' = db
    BY <1>1, <1>4 DEF Send
  <2> QED BY <2>1 DEF Log!Next, Log!Send
<1>5. CASE Recv
  <2>1. batch' \o chan' = pending /\ db' = db
    BY <1>1, <1>5 DEF Recv
  <2> QED BY <2>1 DEF Log!vars
<1>6. CASE Flush
  BY <1>6 DEF Flush, Log!vars
<1>7. CASE Apply
  <2>1. CASE UNCHANGED batch
    BY <1>7, <2>1 DEF Apply, Log!vars
  <2>2. CASE batch' = <<>>
    BY <1>1, <1>3, <1>7, <2>2 DEF Apply
  <2> QED BY <1>7, <2>1, <2>2 DEF Apply, EndBatch
<1>8. CASE Commit
  <2> DEFINE r == Log!Applied(db, pending)[Len(batch)]
  <2>1. pos = Len(batch) + 1 /\ batch # <<>> /\ db' = work /\ batch' = <<>> /\ chan' = chan
    BY <1>8 DEF Commit, EndBatch
  <2>2. pos > 0 /\ pos - 1 = Len(batch) /\ Len(batch) \in 0 .. Len(batch)
    BY <1>1, <2>1
  <2>3. Len(batch) \in 1 .. Len(pending)
    BY <1>1, <2>1
  <2>4. r = Log!Applied(db, batch)[Len(batch)]
    BY <1>1, <2>2, AppliedPrefix
  <2>5. r.err = "Ok" /\ r.db = work
    BY <2>2, <2>4 DEF WorkIsApplied
  <2>6. <<>> \o chan = chan
    BY <1>1
  <2> HIDE DEF r
  <2>7. Log!Write(Len(batch))
    BY <1>2, <2>1, <2>5, <2>6 DEF r, Log!Write, Log!Leaves
  <2> QED BY <2>3, <2>7 DEF Log!Next
<1>9. CASE SQLiteError
  BY <1>1, <1>3, <1>9 DEF SQLiteError, EndBatch
<1>10. CASE Restart
  <2>1. batch' \o chan' = <<>> /\ db' = db
    BY <1>10 DEF Restart
  <2>2. CASE pending = <<>>
    BY <2>1, <2>2 DEF Log!vars
  <2>3. CASE pending # <<>>
    <3>1. Len(pending) \in 1 .. Len(pending)
      BY <1>1, <2>3
    <3>2. SubSeq(pending, Len(pending) + 1, Len(pending)) = <<>>
      BY <1>1
    <3>3. Log!Skip(Len(pending))
      BY <2>1, <3>2 DEF Log!Skip, Log!Leaves
    <3> QED BY <3>1, <3>3 DEF Log!Next
  <2> QED BY <2>2, <2>3
<1>11. CASE TakeRequest
  BY <1>11 DEF TakeRequest, Log!vars
<1>12. CASE UNCHANGED vars
  BY <1>12 DEF vars, Log!vars
<1> QED BY <1>4, <1>5, <1>6, <1>7, <1>8, <1>9, <1>10, <1>11, <1>12 DEF Next, Thread

(* Readers of the database see whole batches, in order.                    *)
THEOREM WriterImplementsLog == Spec => ImplementsLog
<1>1. Init => Log!Init /\ WorkIsApplied
  BY DEF Init, Log!Init, WorkIsApplied
<1> QED BY <1>1, Invariance, NextWorkIsApplied, NextLog, PTL DEF Spec, ImplementsLog, Log!Spec
=============================================================================
