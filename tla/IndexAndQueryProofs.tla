------------------------ MODULE IndexAndQueryProofs -------------------------
(***************************************************************************)
(* `sqsearch index` on a tree that other programs change, for every tree,  *)
(* every system calls at any moments, every commit interval, any number of *)
(* runs, killed or not: the database it leaves is sound, what stays where  *)
(* it is gets its row, and a row that shows what never was is below a      *)
(* directory that was renamed.                                             *)
(***************************************************************************)
EXTENDS IndexAndQuery, FilesTableProofs, QuerySqlProofs

-----------------------------------------------------------------------------
(* The indexer on its own: whatever the tree does, the database is sound.  *)

(* The inductive invariant is the conjunction of the checked ones.         *)
Inv == IndexerTypeOK /\ IndexSound

Good(d) == Sound(d) /\ Named(d)

-----------------------------------------------------------------------------
(* The statements *)

(* A new row with a name keeps the nameless row single.                    *)
LEMMA CreateGood ==
  ASSUME NEW d, Good(d), NEW fh \in Handle, NEW name \in Name \ {RootName}, NEW p_id
  PROVE  Good(Create(d, fh, name, p_id).db)
<1> DEFINE id == NextRowId(d.files)
           row == [file_handle |-> fh, name |-> name, parent_id |-> p_id]
           new == [k \in DOMAIN d.files \cup {id} |-> IF k = id THEN row ELSE d.files[k]]
           c == Create(d, fh, name, p_id)
<1>1. Sound(c.db)
  BY CreateSound DEF Good
<1>2. c.db = d \/ c.db.files = new
  BY DEF Create, Done, Fail
<1>3. Named(c.db)
  <2>1. \A k \in DOMAIN new : k = id \/ (k \in DOMAIN d.files /\ new[k] = d.files[k])
    OBVIOUS
  <2>2. new[id].name = name
    OBVIOUS
  <2> HIDE DEF new, c
  <2> QED BY <1>2, <2>1, <2>2 DEF Good, Named
<1> QED BY <1>1, <1>3 DEF Good

(* The database with the root row alone.                                   *)
LEMMA FirstRoot ==
  /\ Good(Create(EmptyDb, Root, RootName, ROOT_ID).db)
  /\ Create(EmptyDb, Root, RootName, ROOT_ID).err = "Ok"
<1> DEFINE row == [file_handle |-> Root, name |-> RootName, parent_id |-> 1]
           new == [k \in {1} |-> row]
           sa == SuffixesOf[RootName] \X {1}
           out == [files |-> new, suffix_array |-> sa]
<1>1. DOMAIN EmptyDb.files = {} /\ EmptyDb.suffix_array = {}
  BY DEF EmptyDb
<1>2. NextRowId(EmptyDb.files) = 1
  BY <1>1 DEF NextRowId
<1>3. DirentIds(EmptyDb, RootName, ROOT_ID) = {}
  BY <1>1 DEF DirentIds
<1>4. Create(EmptyDb, Root, RootName, ROOT_ID) = [err |-> "Ok", id |-> 1, db |-> out]
  <2>1. [k \in DOMAIN EmptyDb.files \cup {1} |-> IF k = 1 THEN row ELSE EmptyDb.files[k]] = new
    BY <1>1
  <2> QED BY <1>1, <1>2, <1>3, <2>1 DEF Create, Done, ROOT_ID
<1>5. row \in Row
  BY IndexerAssumption, NamesAssumption DEF Row, Id
<1>6. /\ out.files = new /\ out.suffix_array = sa /\ DOMAIN new = {1} /\ new[1] = row
      /\ row.name = RootName /\ row.parent_id = 1 /\ new = [k \in DOMAIN new |-> new[k]]
  OBVIOUS
<1> HIDE DEF new, sa, row
<1>7. IsDb(out)
  <2>1. DOMAIN new \subseteq Id /\ IsFiniteSet(DOMAIN new)
    <3>1. IsFiniteSet({1})
      BY FS_Singleton, Zenon
    <3> QED BY <1>6, <3>1 DEF Id
  <2>2. new \in [DOMAIN new -> Row]
    BY <1>5, <1>6
  <2>3. sa \subseteq Suffix \X Id
    BY NamesAssumption DEF sa, Id
  <2> QED BY <1>6, <2>1, <2>2, <2>3 DEF IsDb
<1>8. HasRoot(out) /\ NoOrphans(out) /\ UniqueDirents(out) /\ Named(out)
  BY <1>6 DEF HasRoot, NoOrphans, UniqueDirents, Named, ROOT_ID
<1>9. SuffixesInSync(out)
  <2>1. \A e \in sa : e \in Suffix \X {1} /\ e[1] \in SuffixesOf[new[e[2]].name]
    BY <1>6, NamesAssumption DEF sa
  <2>2. \A e \in Suffix \X {1} : e[1] \in SuffixesOf[new[e[2]].name] => e \in sa
    BY <1>6 DEF sa
  <2> QED BY <1>6, <2>1, <2>2 DEF SuffixesInSync
<1> QED BY <1>4, <1>7, <1>8, <1>9 DEF Good, Sound

(* ensure_root, when it succeeds.                                          *)
LEMMA EnsureRootGood ==
  ASSUME NEW d, d = EmptyDb \/ Good(d), EnsureRoot(d, Root).err = "Ok"
  PROVE  Good(EnsureRoot(d, Root).db)
<1> DEFINE g == GetDirId(d, Root)
           made == Create(d, Root, RootName, ROOT_ID)
<1>1. g.db = d /\ g.err \in {"Ok", "NoFile", "ManyFiles"} /\ (g.err = "NoFile" <=> HandleIds(d, Root) = {})
  BY QueryOneResult DEF GetDirId
<1>2. CASE d = EmptyDb
  <2>1. HandleIds(d, Root) = {}
    BY <1>2 DEF HandleIds, EmptyDb
  <2>2. Good(made.db) /\ made.err = "Ok"
    BY <1>2, FirstRoot
  <2>3. g.err = "NoFile"
    BY <1>1, <2>1
  <2> HIDE DEF made, g
  <2>4. EnsureRoot(d, Root).db = made.db
    BY <2>3 DEF EnsureRoot, made, g, Fail
  <2> QED BY <2>2, <2>4
<1>3. CASE Good(d) /\ g.err # "NoFile"
  <2> HIDE DEF g
  <2>1. EnsureRoot(d, Root).db = d
    BY <1>1, <1>3 DEF EnsureRoot, g, Fail
  <2> QED BY <1>3, <2>1
<1>4. CASE Good(d) /\ g.err = "NoFile"
  <2>1. DirentIds(d, RootName, ROOT_ID) # {}
    BY <1>4 DEF Good, Sound, HasRoot, DirentIds
  <2>2. made = Fail(d, "NameTaken")
    BY <2>1 DEF Create
  <2> HIDE DEF made, g
  <2>3. EnsureRoot(d, Root).db = d
    BY <1>4, <2>2 DEF EnsureRoot, made, g, Fail
  <2> QED BY <1>4, <2>3
<1> QED BY <1>1, <1>2, <1>3, <1>4

-----------------------------------------------------------------------------
(* The steps *)

LEMMA InitInv == Init => Inv
<1> SUFFICES ASSUME Init PROVE Inv
  OBVIOUS
<1>1. 0 \in 0 .. CommitEvery - 1 /\ 0 \in 0 .. MaxRuns
  BY IndexerAssumption
<1> QED BY <1>1 DEF Init, Inv, IndexerTypeOK, IndexSound

(* A counter stays below its modulus.                                      *)
LEMMA Counted == \A k \in Nat : k % CommitEvery \in 0 .. CommitEvery - 1
BY IndexerAssumption

(* The end of the loop's body keeps the databases good.                    *)
LEMMA EntryDoneInv ==
  ASSUME Inv, NEW w, Good(w), EntryDone(w), running, UNCHANGED <<tree, runVars, frames>>
  PROVE  Inv'
<1>1. i' \in 0 .. CommitEvery - 1
  BY Counted, IndexerAssumption DEF EntryDone, Inv, IndexerTypeOK
<1>2. IndexerTypeOK'
  BY <1>1 DEF EntryDone, Inv, IndexerTypeOK, runVars
<1>3. IndexSound'
  BY DEF EntryDone, Inv, IndexSound, Good
<1> QED BY <1>2, <1>3 DEF Inv

(* A path that resolves, resolves to a handle.                             *)
LEMMA ResolvedHandle == \A path : Resolved(path) \subseteq Handle
BY DEF Resolved

(* A new frame of walkdir.                                                 *)
LEMMA FrameTyped ==
  ASSUME NEW path \in PathBelowRoot, NEW dirs \in SUBSET Dirs
  PROVE  Frame(path, dirs) \in FrameType
<1>1. (IF dirs = {} THEN None ELSE CHOOSE h \in dirs : TRUE) \in Dirs \cup {None}
  OBVIOUS
<1> QED BY <1>1 DEF Frame, FrameType

LEMMA NextEntryInv ==
  ASSUME Inv, NextEntry
  PROVE  Inv'
<1> DEFINE top == Head(frames)
           list == ToCome(top)
<1>1. /\ tree \subseteq DirEntry /\ frames \in Seq(FrameType) /\ i \in 0 .. CommitEvery - 1
      /\ runs \in 0 .. MaxRuns /\ running /\ frames # <<>>
      /\ UNCHANGED <<tree, db, work, running, runs, done>>
  BY DEF Inv, IndexerTypeOK, NextEntry, dbVars, runVars
<1>2. top \in FrameType /\ Tail(frames) \in Seq(FrameType)
  BY <1>1
<1>3. top.path \in PathBelowRoot /\ top.list \subseteq DirEntry
  BY <1>2 DEF FrameType
<1>4. list \subseteq DirEntry
  BY <1>1, <1>3 DEF ToCome
<1>5. i' \in 0 .. CommitEvery - 1 /\ frames' \in Seq(FrameType) /\ (item' = None \/ item' \in ItemType)
  <2>1. CASE /\ frames' = Tail(frames)
             /\ i' = IF top.dir = None THEN (i + 1) % CommitEvery ELSE i
             /\ UNCHANGED item
    <3>1. i' \in 0 .. CommitEvery - 1
      <4>1. i + 1 \in Nat
        BY <1>1, IndexerAssumption
      <4>2. (i + 1) % CommitEvery \in 0 .. CommitEvery - 1
        BY <4>1, Counted
      <4> HIDE DEF top
      <4> QED BY <1>1, <2>1, <4>2
    <3> QED BY <1>2, <2>1, <3>1 DEF Inv, IndexerTypeOK
  <2>2. ASSUME NEW e \in list,
               LET path == Append(top.path, e.n)
                   rest == <<[top EXCEPT !.read = TRUE, !.list = list \ {e}]>> \o Tail(frames)
               IN  /\ item' = [path |-> path, fh |-> None]
                   /\ frames' = IF e.h \in Dirs
                                THEN <<Frame(path, Resolved(path) \cap Dirs)>> \o rest ELSE rest
                   /\ UNCHANGED i
        PROVE  i' \in 0 .. CommitEvery - 1 /\ frames' \in Seq(FrameType) /\ item' \in ItemType
    <3> DEFINE path == Append(top.path, e.n)
               open == [top EXCEPT !.read = TRUE, !.list = list \ {e}]
               rest == <<open>> \o Tail(frames)
               below == Frame(path, Resolved(path) \cap Dirs)
    <3>1. e.n \in Name \ {RootName}
      BY <1>4, <2>2 DEF DirEntry
    <3>2. path \in PathBelowRoot /\ path # <<>>
      BY <1>3, <3>1 DEF PathBelowRoot
    <3>3. item' \in ItemType
      BY <2>2, <3>2 DEF ItemType
    <3>4. open \in FrameType
      BY <1>2, <1>4 DEF FrameType
    <3>5. below \in FrameType
      BY <3>2, FrameTyped
    <3> HIDE DEF open, below, path
    <3>6. rest \in Seq(FrameType)
      BY <1>2, <3>4
    <3>7. <<below>> \o rest \in Seq(FrameType)
      BY <3>5, <3>6
    <3>8. frames' = IF e.h \in Dirs THEN <<below>> \o rest ELSE rest
      BY <2>2 DEF below, path, open
    <3> QED BY <1>1, <2>2, <3>3, <3>6, <3>7, <3>8
  <2> QED BY <2>1, <2>2 DEF NextEntry
<1>6. IndexerTypeOK'
  BY <1>1, <1>5 DEF IndexerTypeOK
<1>7. IndexSound'
  BY <1>1 DEF Inv, IndexSound
<1> QED BY <1>6, <1>7 DEF Inv

LEMMA ReadFailsInv ==
  ASSUME Inv, ReadFails
  PROVE  Inv'
<1>1. /\ running /\ frames' = Tail(frames) /\ frames \in Seq(FrameType) /\ frames # <<>>
      /\ UNCHANGED <<tree, db, work, running, runs, done, item>>
  BY DEF ReadFails, Inv, IndexerTypeOK, dbVars, runVars
<1>2. i' \in 0 .. CommitEvery - 1
  <2>1. i' = (i + 1) % CommitEvery /\ i + 1 \in Nat
    BY IndexerAssumption DEF ReadFails, Inv, IndexerTypeOK
  <2> QED BY <2>1, Counted
<1>3. frames' \in Seq(FrameType)
  BY <1>1
<1>4. IndexerTypeOK'
  BY <1>1, <1>2, <1>3 DEF Inv, IndexerTypeOK
<1>5. IndexSound'
  BY <1>1 DEF Inv, IndexSound
<1> QED BY <1>4, <1>5 DEF Inv

LEMMA SkipInv ==
  ASSUME Inv, Skip
  PROVE  Inv'
<1>1. running /\ EntryDone(work) /\ UNCHANGED <<tree, runVars, frames>>
  BY DEF Skip
<1>2. Good(work)
  BY <1>1 DEF Inv, IndexSound, Good
<1> QED BY <1>1, <1>2, EntryDoneInv

LEMMA GetFhInv ==
  ASSUME Inv, GetFh
  PROVE  Inv'
<1> DEFINE fh == Resolved(item.path)
<1>1. running /\ item # None /\ UNCHANGED <<tree, runVars, frames>>
  BY DEF GetFh
<1>2. CASE fh = {}
  <2>1. Good(work) /\ EntryDone(work)
    BY <1>1, <1>2 DEF GetFh, Inv, IndexSound, Good
  <2> QED BY <1>1, <2>1, EntryDoneInv
<1>3. CASE fh # {}
  <2>1. item' = [item EXCEPT !.fh = CHOOSE h \in fh : TRUE] /\ UNCHANGED <<dbVars, i>>
    BY <1>3 DEF GetFh
  <2>2. (CHOOSE h \in fh : TRUE) \in Handle
    BY <1>3, ResolvedHandle
  <2>3. item' \in ItemType
    BY <1>1, <2>1, <2>2 DEF Inv, IndexerTypeOK, ItemType
  <2>4. IndexerTypeOK'
    BY <1>1, <2>1, <2>3 DEF Inv, IndexerTypeOK, runVars
  <2>5. IndexSound'
    BY <1>1, <2>1 DEF Inv, IndexSound, runVars, dbVars
  <2> QED BY <2>4, <2>5 DEF Inv
<1> QED BY <1>2, <1>3

LEMMA IndexEntryInv ==
  ASSUME Inv, IndexEntry
  PROVE  Inv'
<1> DEFINE last == Len(item.path)
           p_fh == Resolved(SubSeq(item.path, 1, last - 1))
           p == GetDirId(work, CHOOSE h \in p_fh : TRUE)
           w == Insert(work, item.fh, item.path[last], p)
<1>1. /\ running /\ item \in ItemType /\ item.fh \in Handle /\ Good(work)
      /\ UNCHANGED <<tree, runVars, frames>>
  BY DEF IndexEntry, Inv, IndexerTypeOK, IndexSound, ItemType, Good
<1>2. item.path[last] \in Name \ {RootName}
  <2>1. item.path \in Seq(Name \ {RootName}) /\ item.path # <<>>
    BY <1>1 DEF ItemType, PathBelowRoot
  <2>2. last \in 1 .. last
    BY <2>1
  <2> QED BY <2>1, <2>2
<1>3. CASE p_fh = {}
  BY <1>1, <1>3, EntryDoneInv DEF IndexEntry
<1>4. CASE p_fh # {}
  <2>1. EntryDone(w)
    BY <1>4 DEF IndexEntry
  <2> HIDE DEF p
  <2>2. Good(w)
    BY <1>1, <1>2, CreateGood DEF Insert
  <2> HIDE DEF w
  <2> QED BY <1>1, <2>1, <2>2, EntryDoneInv
<1> QED BY <1>3, <1>4

LEMMA NextInv == Inv /\ [Next]_vars => Inv'
<1> SUFFICES ASSUME Inv, [Next]_vars PROVE Inv'
  OBVIOUS
<1>1. CASE Start
  <2> DEFINE g == EnsureRoot(db, Root)
  <2>1. /\ runs < MaxRuns /\ g.err = "Ok" /\ work' = g.db
        /\ running' = TRUE /\ runs' = runs + 1
        /\ frames' = <<Frame(<<>>, {Root})>> /\ item' = None /\ i' = 1 % CommitEvery
        /\ UNCHANGED <<tree, db>>
    BY <1>1 DEF Start
  <2>2. Good(g.db)
    BY <2>1, EnsureRootGood DEF Inv, IndexSound, Good
  <2> HIDE DEF g
  <2>3. <<>> \in PathBelowRoot /\ {Root} \subseteq Dirs
    BY IndexerAssumption DEF PathBelowRoot
  <2>4. frames' \in Seq(FrameType)
    BY <2>1, <2>3, FrameTyped
  <2>5. i' \in 0 .. CommitEvery - 1
    BY <2>1, Counted
  <2>6. IndexerTypeOK'
    BY <2>1, <2>4, <2>5, IndexerAssumption DEF Inv, IndexerTypeOK
  <2>7. IndexSound'
    BY <2>1, <2>2 DEF Inv, IndexSound, Good
  <2> QED BY <2>6, <2>7 DEF Inv
<1>2. CASE NextEntry
  BY <1>2, NextEntryInv
<1>3. CASE GetFh
  BY <1>3, GetFhInv
<1>4. CASE IndexEntry
  BY <1>4, IndexEntryInv
<1>5. 0 \in 0 .. CommitEvery - 1
  BY IndexerAssumption
<1>6. CASE Finish
  BY <1>5, <1>6 DEF Finish, Stopped, Inv, IndexerTypeOK, IndexSound
<1>7. CASE Crash
  BY <1>5, <1>7 DEF Crash, Stopped, Inv, IndexerTypeOK, IndexSound
<1>8. CASE Change
  BY <1>8 DEF Change, indexVars, dbVars, runVars, walkVars, Inv, IndexerTypeOK, IndexSound
<1>9. CASE UNCHANGED vars
  BY <1>9 DEF vars, indexVars, dbVars, runVars, walkVars, Inv, IndexerTypeOK, IndexSound
<1>10. CASE ReadFails \/ Skip
  BY <1>10, ReadFailsInv, SkipInv
<1> QED BY <1>1, <1>2, <1>3, <1>4, <1>6, <1>7, <1>8, <1>9, <1>10 DEF Next, IndexStep

-----------------------------------------------------------------------------
(* The walk's stack, its current entry and its counter are what they       *)
(* should be, also when directories vanish under it.                       *)
THEOREM IndexerTypeCorrect == Spec => []IndexerTypeOK
<1>1. Inv => IndexerTypeOK
  BY DEF Inv
<1> QED BY InitInv, NextInv, <1>1, PTL DEF Spec

(* Wherever a run ends, every query and the watcher start from a database  *)
(* without orphans, doubled entries or suffixes of nothing.                *)
THEOREM IndexSoundAlways == Spec => []IndexSound
<1>1. Inv => IndexSound
  BY DEF Inv
<1> QED BY InitInv, NextInv, <1>1, PTL DEF Spec

-----------------------------------------------------------------------------
(* Trees *)

(* A part of a tree is one.                                                *)
LEMMA PartOfTree == ASSUME NEW T, IsTree(T), NEW K \in SUBSET T PROVE IsTree(K)
BY DEF IsTree

(* The calls other programs make, as system calls of Filesystem.           *)
LEMMA Calls ==
  ASSUME NEW c \in Syscalls
  PROVE  /\ c.op \in {"create", "link"} => c.p \in Dirs /\ c.n \in Name \ {RootName} /\ c.h \in Handle
         /\ c.op = "remove" => c.p \in Dirs /\ c.n \in Name \ {RootName}
         /\ c.op \in {"rename", "exchange"} => /\ c.p \in Dirs /\ c.n \in Name \ {RootName}
                                               /\ c.q \in Dirs /\ c.m \in Name \ {RootName}
BY SystemAssumption DEF Fs!Call

Handles(P) == {x.h : x \in P}

(* What a change adds: an entry of something new, or of what has one.      *)
Added(x) == /\ x \in DirEntry /\ x.h \notin TopDirs
            /\ x.h \in Handles(past) => x.h \in Handles(tree)
            /\ x.p \in TopDirs \cup Handles(tree)

(* A new entry in a place that is free.                                    *)
LEMMA PutKeepsTree ==
  ASSUME tree \subseteq DirEntry, IsTree(tree), NEW x, Added(x),
         \A y \in tree : ~(y.p = x.p /\ y.n = x.n),
         x.h \in Dirs => x.h \notin Handles(tree)
  PROVE  IsTree(tree \cup {x}) /\ tree \cup {x} \subseteq DirEntry
BY DEF IsTree, Added, Handles

(* A new entry is at a free place, for something that never was.           *)
LEMMA CreateResult ==
  ASSUME tree \subseteq DirEntry, IsTree(tree), tree \subseteq past, NEW c \in Syscalls, Fs!Create(c)
  PROVE  IsTree(tree') /\ \A x \in tree' \ tree : Added(x)
<1> DEFINE x == [p |-> c.p, n |-> c.n, h |-> c.h]
<1>1. /\ tree' = tree \cup {x} /\ \A y \in tree : ~(y.p = c.p /\ y.n = c.n)
      /\ c.h \notin TopDirs /\ c.h \notin Handles(past) /\ c.p \in TopDirs \cup Handles(tree)
  BY DEF Fs!Create, Fs!Put, Fs!Born, Fs!Linked, Fs!At, Handles
<1>2. x \in DirEntry /\ x.h = c.h /\ x.p = c.p /\ x.n = c.n
  BY Calls DEF Fs!Create, DirEntry
<1> HIDE DEF x
<1>3. Added(x)
  BY <1>1, <1>2 DEF Added
<1>4. x.h \notin Handles(tree)
  BY <1>1, <1>2 DEF Handles
<1> QED BY <1>1, <1>2, <1>3, <1>4, PutKeepsTree

(* One more entry of a file that has one.                                  *)
LEMMA LinkResult ==
  ASSUME tree \subseteq DirEntry, IsTree(tree), tree \subseteq past, NEW c \in Syscalls, Fs!Link(c)
  PROVE  IsTree(tree') /\ \A x \in tree' \ tree : Added(x)
<1> DEFINE x == [p |-> c.p, n |-> c.n, h |-> c.h]
<1>1. /\ tree' = tree \cup {x} /\ \A y \in tree : ~(y.p = c.p /\ y.n = c.n)
      /\ c.h \notin Dirs /\ c.h \in TopDirs \cup Handles(tree) /\ c.p \in TopDirs \cup Handles(tree)
  BY DEF Fs!Link, Fs!Put, Fs!Linked, Fs!At, Handles
<1>2. x \in DirEntry /\ x.h = c.h /\ x.p = c.p /\ x.n = c.n
  BY Calls DEF Fs!Link, DirEntry
<1> HIDE DEF x
<1>3. Added(x)
  BY <1>1, <1>2, SystemAssumption DEF Added
<1> QED BY <1>1, <1>2, <1>3, PutKeepsTree

(* An entry that moves to a place that is free, or made free.              *)
LEMMA RenameResult ==
  ASSUME tree \subseteq DirEntry, IsTree(tree), tree \subseteq past, NEW c \in Syscalls, Fs!Rename(c)
  PROVE  IsTree(tree') /\ \A x \in tree' \ tree : Added(x)
<1>1. PICK e \in tree :
        /\ e.p = c.p /\ e.n = c.n
        /\ tree' = (tree \ ({e} \cup Fs!At(c.q, c.m))) \cup {Fs!Move(e, c.q, c.m)}
        /\ c.q \in TopDirs \cup Handles(tree)
  BY DEF Fs!Rename, Fs!At, Fs!Linked, Handles
<1> DEFINE x == Fs!Move(e, c.q, c.m)
           K == tree \ ({e} \cup Fs!At(c.q, c.m))
<1>2. x \in DirEntry /\ x.h = e.h /\ x.p = c.q /\ x.n = c.m
  BY <1>1, Calls DEF Fs!Rename, Fs!Move, DirEntry
<1>3. /\ \A y \in K : y \in tree /\ y # e /\ ~(y.p = c.q /\ y.n = c.m)
      /\ tree' = K \cup {x} /\ K \subseteq tree
  BY <1>1 DEF Fs!At
<1> HIDE DEF x, K
<1>4. Added(x)
  BY <1>1, <1>2 DEF Added, IsTree, Handles
<1>5. \A y \in K : y.h = e.h => y.h \notin Dirs
  BY <1>1, <1>3 DEF IsTree
<1>6. IsTree(K)
  BY <1>3, PartOfTree
<1>7. IsTree(K \cup {x})
  BY <1>2, <1>3, <1>4, <1>5, <1>6 DEF IsTree, Added
<1> QED BY <1>3, <1>4, <1>7

(* Two entries that change places.                                         *)
LEMMA ExchangeResult ==
  ASSUME tree \subseteq DirEntry, IsTree(tree), Rooted(past), tree \subseteq past,
         NEW c \in Syscalls, Fs!Exchange(c)
  PROVE  IsTree(tree') /\ \A x \in tree' \ tree :
           x \in DirEntry /\ x.h \in Handles(tree) /\ \E y \in tree : x.p = y.p
<1>1. PICK e \in tree, t \in tree :
        /\ e.p = c.p /\ e.n = c.n /\ t.p = c.q /\ t.n = c.m /\ e.h # t.h
        /\ tree' = (tree \ {e, t}) \cup {Fs!Move(e, c.q, c.m), Fs!Move(t, c.p, c.n)}
  BY DEF Fs!Exchange, Fs!At
<1> DEFINE x == Fs!Move(e, c.q, c.m)
           y == Fs!Move(t, c.p, c.n)
           K == tree \ {e, t}
<1>2. /\ x \in DirEntry /\ x.h = e.h /\ x.p = t.p /\ x.n = t.n
      /\ y \in DirEntry /\ y.h = t.h /\ y.p = e.p /\ y.n = e.n
  BY <1>1, Calls DEF Fs!Exchange, Fs!Move, DirEntry
<1>3. /\ tree' = K \cup {x, y} /\ K \subseteq tree /\ e \notin K /\ t \notin K
  BY <1>1
<1> HIDE DEF x, y, K
<1>4. IsTree(K)
  BY <1>3, PartOfTree
<1>5. \A z \in K : /\ ~(z.p = x.p /\ z.n = x.n) /\ ~(z.p = y.p /\ z.n = y.n)
                   /\ z.h \in Dirs => z.h # x.h /\ z.h # y.h
  BY <1>1, <1>2, <1>3 DEF IsTree
<1>6. ~(x.p = y.p /\ x.n = y.n) /\ x.h # y.h /\ x.h \notin TopDirs /\ y.h \notin TopDirs
  BY <1>1, <1>2 DEF IsTree
<1>7. IsTree(K \cup {x, y})
  BY <1>4, <1>5, <1>6 DEF IsTree
<1> QED BY <1>1, <1>2, <1>3, <1>7 DEF Handles

(* Every change keeps the tree one, and what is not there any more, gone.  *)
LEMMA SyscallResult ==
  ASSUME tree \subseteq past, past \subseteq DirEntry, IsTree(tree), Rooted(past),
         NEW c \in Syscalls, Fs!Syscall(c)
  PROVE  /\ tree' \subseteq past' /\ past \subseteq past' /\ past' \subseteq DirEntry
         /\ IsTree(tree') /\ Rooted(past')
         /\ \A x \in tree' : x.h \in Handles(past) => x.h \in Handles(tree)
<1>1. past' = past \cup tree' /\ tree \subseteq DirEntry
  BY DEF Fs!Syscall
<1>2. /\ IsTree(tree')
      /\ \A x \in tree' \ tree : /\ x \in DirEntry /\ (x.h \in Handles(past) => x.h \in Handles(tree))
                                 /\ x.p \in TopDirs \cup Handles(tree) \/ \E y \in tree : x.p = y.p
  <2>1. CASE Fs!Create(c)
    BY <1>1, <2>1, CreateResult DEF Added
  <2>2. CASE Fs!Link(c)
    BY <1>1, <2>2, LinkResult DEF Added
  <2>3. CASE Fs!Remove(c)
    <3>1. tree' \subseteq tree
      BY <2>3 DEF Fs!Remove
    <3> QED BY <3>1, PartOfTree
  <2>4. CASE Fs!Rename(c)
    BY <1>1, <2>4, RenameResult DEF Added
  <2>5. CASE Fs!Exchange(c)
    BY <1>1, <2>5, ExchangeResult
  <2>6. CASE Fs!Open(c)
    <3>1. tree' = tree
      BY <2>6 DEF Fs!Open
    <3> QED BY <3>1, PartOfTree
  <2> QED BY <2>1, <2>2, <2>3, <2>4, <2>5, <2>6 DEF Fs!Syscall
<1>3. past' \subseteq DirEntry
  BY <1>1, <1>2
<1>4. Rooted(past')
  <2> SUFFICES ASSUME NEW x \in past' PROVE x.p \in TopDirs \/ \E y \in past' : y.h = x.p
    BY DEF Rooted
  <2>1. CASE x \in past
    BY <1>1, <2>1 DEF Rooted
  <2>2. CASE x \notin past
    <3>1. x.p \in TopDirs \cup Handles(tree) \/ \E y \in past : x.p = y.p
      BY <1>1, <1>2, <2>2
    <3> QED BY <1>1, <3>1 DEF Rooted, Handles
  <2> QED BY <2>1, <2>2
<1>5. \A x \in tree' : x.h \in Handles(past) => x.h \in Handles(tree)
  BY <1>2 DEF Handles
<1> QED BY <1>1, <1>2, <1>3, <1>4, <1>5

-----------------------------------------------------------------------------
(* What is reached *)

(* What is reached has the directories one starts from and, with a         *)
(* directory, those in it.                                                 *)
LEMMA ReachedClosed ==
  ASSUME NEW D \in SUBSET Dirs, NEW T
  PROVE  /\ D \subseteq Fs!Reached(D, T) /\ Fs!Reached(D, T) \subseteq Dirs
         /\ \A e \in T : e.p \in Fs!Reached(D, T) /\ e.h \in Dirs => e.h \in Fs!Reached(D, T)
BY DEF Fs!Reached

(* More directories or more entries to start from reach more.              *)
LEMMA ReachedGrows ==
  ASSUME NEW D, NEW E, D \subseteq E, NEW K, NEW T, K \subseteq T
  PROVE  Fs!Reached(D, K) \subseteq Fs!Reached(E, T)
BY DEF Fs!Reached

(* Every set that is closed that way has what is reached.                  *)
LEMMA ReachedLeast ==
  ASSUME NEW D, NEW T, NEW S \in SUBSET Dirs, D \subseteq S,
         \A e \in T : e.p \in S /\ e.h \in Dirs => e.h \in S
  PROVE  Fs!Reached(D, T) \subseteq S
BY DEF Fs!Reached

(* The directories that have been at their places, all the way up, since   *)
(* the first run: what the indexer must find.                              *)
StableIn(T) == Fs!Reached({Root}, T)

(* The root is always there.                                               *)
LEMMA RootStable == ASSUME NEW T PROVE Root \in StableIn(T) /\ StableIn(T) \subseteq Dirs
<1>1. {Root} \in SUBSET Dirs
  BY IndexerAssumption
<1> QED BY <1>1, ReachedClosed DEF StableIn

(* So is a directory whose entry is kept in a stable one.                  *)
LEMMA BelowStable ==
  ASSUME NEW T, NEW e \in T, e.p \in StableIn(T), e.h \in Dirs PROVE e.h \in StableIn(T)
<1>1. {Root} \in SUBSET Dirs
  BY IndexerAssumption
<1> QED BY <1>1, ReachedClosed DEF StableIn

(* More entries make more directories stable.                              *)
LEMMA StableGrows == ASSUME NEW T, NEW K \in SUBSET T PROVE StableIn(K) \subseteq StableIn(T)
BY ReachedGrows DEF StableIn

(* A stable directory other than the root has a stable entry.              *)
LEMMA AboveStable ==
  ASSUME NEW T, NEW d \in StableIn(T), d # Root
  PROVE  \E e \in T : e.h = d /\ e.p \in StableIn(T)
<1> SUFFICES ASSUME \A e \in T : e.h = d => e.p \notin StableIn(T) PROVE FALSE
  OBVIOUS
<1> DEFINE S == StableIn(T) \ {d}
<1>1. S \in SUBSET Dirs /\ {Root} \subseteq S
  BY RootStable
<1>2. ASSUME NEW e \in T, e.p \in S, e.h \in Dirs PROVE e.h \in S
  BY <1>2, BelowStable
<1> HIDE DEF S
<1>3. StableIn(T) \subseteq S
  BY <1>1, <1>2, ReachedLeast DEF StableIn
<1> QED BY <1>3 DEF S

(* In a tree it is the only entry of it.                                   *)
LEMMA StableEntry ==
  ASSUME NEW T, IsTree(T), NEW K \in SUBSET T, NEW e \in T, e.h \in StableIn(K)
  PROVE  e \in K /\ e.p \in StableIn(K)
<1>1. e.h # Root /\ e.h \in Dirs
  BY RootStable, SystemAssumption DEF IsTree
<1>2. PICK y \in K : y.h = e.h /\ y.p \in StableIn(K)
  BY <1>1, AboveStable
<1> QED BY <1>1, <1>2 DEF IsTree

-----------------------------------------------------------------------------
(* Paths *)

PathName == Name \ {RootName}
Front(path) == SubSeq(path, 1, Len(path) - 1)
Last(path) == path[Len(path)]
Step(f, path, k) == [p |-> f[k - 1], n |-> path[k], h |-> f[k]]

(* The handles that a path leads through in a tree, from the root on.      *)
Chain(T, f, path) ==
  /\ f \in [0 .. Len(path) -> Handle] /\ f[0] = Root
  /\ \A k \in 1 .. Len(path) : Step(f, path, k) \in T
PathTo(T, path, h) == \E f : Chain(T, f, path) /\ f[Len(path)] = h

(* More entries, more paths.                                               *)
LEMMA PathGrows ==
  ASSUME NEW T, NEW K \in SUBSET T, NEW path, NEW h, PathTo(K, path, h)
  PROVE  PathTo(T, path, h)
BY DEF PathTo, Chain

(* The empty path leads to the root.                                       *)
LEMMA EmptyPath == ASSUME NEW T PROVE PathTo(T, <<>>, Root)
<1> DEFINE f == [k \in 0 .. 0 |-> Root]
<1>1. Root \in Handle
  BY IndexerAssumption
<1>2. Chain(T, f, <<>>) /\ f[Len(<<>>)] = Root
  BY <1>1 DEF Chain
<1> HIDE DEF f
<1> QED BY <1>2 DEF PathTo

(* A path and an entry in the directory it leads to.                       *)
LEMMA PathAppend ==
  ASSUME NEW T, NEW path \in Seq(PathName), NEW d, PathTo(T, path, d), NEW n \in PathName, NEW h \in Handle,
         [p |-> d, n |-> n, h |-> h] \in T
  PROVE  PathTo(T, Append(path, n), h)
<1>1. PICK f : Chain(T, f, path) /\ f[Len(path)] = d
  BY DEF PathTo
<1> DEFINE m == Len(path)
           longer == Append(path, n)
           g == [k \in 0 .. m + 1 |-> IF k = m + 1 THEN h ELSE f[k]]
<1>2. /\ m \in Nat /\ Len(longer) = m + 1 /\ longer[m + 1] = n
      /\ \A k \in 1 .. m : longer[k] = path[k]
  OBVIOUS
<1>3. /\ g \in [0 .. m + 1 -> Handle] /\ g[m + 1] = h
      /\ \A k \in 0 .. m : g[k] = f[k]
  BY <1>1, <1>2 DEF Chain
<1> HIDE DEF g, longer, m
<1>4. ASSUME NEW k \in 1 .. m + 1 PROVE Step(g, longer, k) \in T
  <2>1. CASE k = m + 1
    <3>1. k - 1 = m /\ m \in 0 .. m
      BY <1>2, <2>1
    <3>2. g[k - 1] = d /\ longer[k] = n /\ g[k] = h
      BY <1>1, <1>2, <1>3, <2>1, <3>1 DEF m
    <3> QED BY <3>2 DEF Step
  <2>2. CASE k # m + 1
    <3>1. k \in 1 .. m /\ k \in 0 .. m /\ k - 1 \in 0 .. m
      BY <1>2, <2>2
    <3>2. Step(g, longer, k) = Step(f, path, k)
      BY <1>2, <1>3, <3>1 DEF Step
    <3> QED BY <1>1, <3>1, <3>2 DEF Chain, m
  <2> QED BY <2>1, <2>2
<1>5. 0 \in 0 .. m /\ g[0] = Root
  BY <1>1, <1>2, <1>3 DEF Chain
<1>6. Chain(T, g, longer) /\ g[Len(longer)] = h
  BY <1>2, <1>3, <1>4, <1>5 DEF Chain
<1> QED BY <1>6 DEF PathTo, longer

(* What is before the last name of a path.                                 *)
LEMMA SubSeqFrom1 ==
  ASSUME NEW path, NEW n \in Nat, \A k \in 1 .. n : path[k] \in PathName
  PROVE  /\ SubSeq(path, 1, n) \in Seq(PathName) /\ Len(SubSeq(path, 1, n)) = n
         /\ \A k \in 1 .. n : SubSeq(path, 1, n)[k] = path[k]
BY SubSeqProperties

(* A path that is not empty is its parent's and a name.                    *)
LEMMA FrontLast ==
  ASSUME NEW path \in Seq(PathName), path # <<>>
  PROVE  /\ Len(path) \in Nat \ {0} /\ Last(path) \in PathName
         /\ Front(path) \in Seq(PathName) /\ Len(Front(path)) = Len(path) - 1
         /\ \A k \in 1 .. Len(path) - 1 : Front(path)[k] = path[k]
         /\ path = Append(Front(path), Last(path))
<1> DEFINE m == Len(path)
<1>1. m \in Nat \ {0} /\ Last(path) \in PathName /\ \A k \in 1 .. m : path[k] \in PathName
  BY DEF Last
<1>2. /\ Front(path) \in Seq(PathName) /\ Len(Front(path)) = m - 1
      /\ \A k \in 1 .. m - 1 : Front(path)[k] = path[k]
  <2> HIDE DEF m
  <2>1. m - 1 \in Nat /\ \A k \in 1 .. m - 1 : path[k] \in PathName
    BY <1>1
  <2> QED BY <2>1, SubSeqFrom1 DEF Front, m
<1>3. path = Append(Front(path), Last(path))
  <2> DEFINE t == Append(Front(path), Last(path))
  <2>1. /\ t \in Seq(PathName) /\ Len(t) = Len(Front(path)) + 1
        /\ \A k \in 1 .. Len(Front(path)) : t[k] = Front(path)[k]
        /\ t[Len(Front(path)) + 1] = Last(path)
    BY <1>1, <1>2, AppendProperties
  <2> HIDE DEF t, m
  <2>2. Len(t) = m /\ t[m] = path[m]
    BY <1>1, <1>2, <2>1 DEF Last, m
  <2>3. \A k \in 1 .. m : path[k] = t[k]
    BY <1>1, <1>2, <2>1, <2>2
  <2>4. path = t
    BY <2>1, <2>2, <2>3, SeqEqual DEF m
  <2> QED BY <2>4 DEF t
<1> QED BY <1>1, <1>2, <1>3

(* A path that is not empty leads through its parent.                      *)
LEMMA PathFront ==
  ASSUME NEW T, NEW path \in Seq(PathName), path # <<>>, NEW h, PathTo(T, path, h)
  PROVE  /\ Front(path) \in Seq(PathName) /\ Last(path) \in PathName
         /\ path = Append(Front(path), Last(path))
         /\ \E d : PathTo(T, Front(path), d) /\ [p |-> d, n |-> Last(path), h |-> h] \in T
<1>1. PICK f : Chain(T, f, path) /\ f[Len(path)] = h
  BY DEF PathTo
<1> DEFINE m == Len(path)
           g == [k \in 0 .. m - 1 |-> f[k]]
<1>2. /\ m \in Nat \ {0} /\ Front(path) \in Seq(PathName) /\ Len(Front(path)) = m - 1
      /\ \A k \in 1 .. m - 1 : Front(path)[k] = path[k]
      /\ Last(path) \in PathName /\ path = Append(Front(path), Last(path))
  BY FrontLast
<1>3. \A k \in 0 .. m - 1 : g[k] = f[k] /\ k \in 0 .. m
  BY <1>2
<1>4. g \in [0 .. m - 1 -> Handle]
  BY <1>1, <1>3 DEF Chain
<1> HIDE DEF g
<1>5. ASSUME NEW k \in 1 .. m - 1 PROVE Step(g, Front(path), k) \in T
  <2>1. k \in 0 .. m - 1 /\ k - 1 \in 0 .. m - 1 /\ k \in 1 .. m
    BY <1>2
  <2>2. Step(g, Front(path), k) = Step(f, path, k)
    BY <1>2, <1>3, <2>1 DEF Step
  <2> QED BY <1>1, <2>1, <2>2 DEF Chain
<1>6. Chain(T, g, Front(path)) /\ g[m - 1] = f[m - 1]
  <2>1. 0 \in 0 .. m - 1 /\ m - 1 \in 0 .. m - 1
    BY <1>2
  <2> QED BY <1>1, <1>2, <1>3, <1>4, <1>5, <2>1 DEF Chain
<1>7. [p |-> f[m - 1], n |-> Last(path), h |-> h] \in T
  <2>1. m \in 1 .. m
    BY <1>2
  <2> QED BY <1>1, <2>1 DEF Chain, Step, Last
<1>8. PathTo(T, Front(path), f[m - 1])
  BY <1>2, <1>6 DEF PathTo
<1> QED BY <1>2, <1>7, <1>8

(* A path to a stable directory is a path of stable entries.               *)
LEMMA StableChain ==
  ASSUME NEW T, IsTree(T), NEW K \in SUBSET T, NEW path \in Seq(PathName), NEW f, Chain(T, f, path),
         f[Len(path)] \in StableIn(K)
  PROVE  Chain(K, f, path)
<1> DEFINE m == Len(path)
           S == {j \in Nat : j <= m => f[m - j] \in StableIn(K)}
<1>1. m \in Nat
  OBVIOUS
<1>2. ASSUME NEW k \in 1 .. m, f[k] \in StableIn(K)
      PROVE  Step(f, path, k) \in K /\ f[k - 1] \in StableIn(K)
  <2>1. Step(f, path, k) \in T /\ Step(f, path, k).h = f[k] /\ Step(f, path, k).p = f[k - 1]
    BY DEF Chain, Step
  <2> QED BY <1>2, <2>1, StableEntry
<1>3. 0 \in S
  BY <1>1
<1>4. ASSUME NEW j \in Nat, j \in S PROVE j + 1 \in S
  <2> SUFFICES ASSUME j + 1 <= m PROVE f[m - (j + 1)] \in StableIn(K)
    OBVIOUS
  <2>1. j <= m /\ m - j \in 1 .. m /\ (m - j) - 1 = m - (j + 1)
    BY <1>1
  <2>2. f[m - j] \in StableIn(K)
    BY <1>4, <2>1
  <2>3. f[(m - j) - 1] \in StableIn(K)
    BY <1>2, <2>1, <2>2
  <2> QED BY <2>1, <2>3
<1>5. \A j \in Nat : j \in S
  <2> HIDE DEF S
  <2> QED BY <1>3, <1>4, AllNumbers
<1>6. ASSUME NEW k \in 1 .. m PROVE Step(f, path, k) \in K
  <2>1. m - k \in Nat /\ m - k <= m /\ m - (m - k) = k
    BY <1>1
  <2>2. f[m - (m - k)] \in StableIn(K)
    BY <1>5, <2>1
  <2> QED BY <1>2, <2>1, <2>2
<1> QED BY <1>6 DEF Chain

(* The same of where it leads.                                             *)
LEMMA StablePath ==
  ASSUME NEW T, IsTree(T), NEW K \in SUBSET T, NEW path \in Seq(PathName), NEW h, PathTo(T, path, h),
         h \in StableIn(K)
  PROVE  PathTo(K, path, h)
<1>1. PICK f : Chain(T, f, path) /\ f[Len(path)] = h
  BY DEF PathTo
<1>2. Chain(K, f, path)
  BY <1>1, StableChain
<1> QED BY <1>1, <1>2 DEF PathTo

(* Where a path leads is computed from the root on.                        *)
LEMMA ResolvedSteps ==
  ASSUME NEW path \in Seq(PathName)
  PROVE  \E reach : /\ Resolved(path) = {h \in Handle : h \in reach[Len(path)]}
                    /\ reach[0] = {Root}
                    /\ \A k \in 1 .. Len(path) :
                         reach[k] = {e.h : e \in {x \in tree : x.p \in reach[k - 1] /\ x.n = path[k]}}
<1> DEFINE Below(S, k) == {e.h : e \in {x \in tree : x.p \in S /\ x.n = path[k]}}
           To(f, m) == f = [k \in 0 .. m |-> IF k = 0 THEN {Root} ELSE Below(f[k - 1], k)]
           Computed == {m \in Nat : \E f : To(f, m)}
           reach == CHOOSE g : To(g, Len(path))
<1> HIDE DEF Below
<1>1. 0 \in Computed
  <2> DEFINE f == [k \in 0 .. 0 |-> {Root}]
  <2>1. To(f, 0)
    OBVIOUS
  <2> HIDE DEF To
  <2> QED BY <2>1
<1>2. ASSUME NEW m \in Nat, m \in Computed PROVE m + 1 \in Computed
  <2>1. PICK f : To(f, m)
    BY <1>2
  <2> DEFINE g == [k \in 0 .. m + 1 |-> IF k = m + 1 THEN Below(f[m], m + 1) ELSE f[k]]
  <2>2. \A k \in 0 .. m : f[k] = IF k = 0 THEN {Root} ELSE Below(f[k - 1], k)
    BY <2>1
  <2>3. ASSUME NEW k \in 0 .. m + 1
        PROVE  g[k] = IF k = 0 THEN {Root} ELSE Below(g[k - 1], k)
    <3>1. CASE k = 0
      BY <2>2, <3>1
    <3>2. CASE k \in 1 .. m
      <4>1. k # 0 /\ k \in 0 .. m /\ k # m + 1 /\ k - 1 \in 0 .. m + 1 /\ k - 1 # m + 1
        BY <3>2
      <4> QED BY <2>2, <4>1
    <3>3. CASE k = m + 1
      <4>1. k # 0 /\ k - 1 = m /\ m \in 0 .. m + 1 /\ m # m + 1
        BY <3>3
      <4> QED BY <3>3, <4>1
    <3> QED BY <3>1, <3>2, <3>3
  <2>4. To(g, m + 1)
    <3>1. g = [k \in 0 .. m + 1 |-> g[k]]
      OBVIOUS
    <3> HIDE DEF g
    <3> QED BY <2>3, <3>1
  <2> HIDE DEF To, g
  <2> QED BY <2>4
<1>3. \A m \in Nat : m \in Computed
  <2> HIDE DEF Computed
  <2> QED BY <1>1, <1>2, AllNumbers
<1>4. PICK f : To(f, Len(path))
  <2>1. Len(path) \in Nat
    OBVIOUS
  <2>2. Len(path) \in Computed
    BY <1>3, <2>1
  <2> QED BY <2>2
<1>5. Resolved(path) = {h \in Handle : h \in reach[Len(path)]}
  BY DEF Resolved, Below
<1> HIDE DEF To
<1>6. To(reach, Len(path))
  BY <1>4
<1> HIDE DEF reach
<1>7. \A k \in 0 .. Len(path) : reach[k] = IF k = 0 THEN {Root} ELSE Below(reach[k - 1], k)
  BY <1>6 DEF To
<1>8. 0 \in 0 .. Len(path) /\ \A k \in 1 .. Len(path) : k \in 0 .. Len(path) /\ k # 0
  OBVIOUS
<1>9. reach[0] = {Root} /\ \A k \in 1 .. Len(path) : reach[k] = Below(reach[k - 1], k)
  BY <1>7, <1>8
<1>10. \A k \in 1 .. Len(path) :
         reach[k] = {e.h : e \in {x \in tree : x.p \in reach[k - 1] /\ x.n = path[k]}}
  BY <1>9 DEF Below
<1> QED BY <1>5, <1>9, <1>10, Zenon

(* What a path leads to is at the end of a chain of entries ...            *)
LEMMA ResolvedPath ==
  ASSUME tree \subseteq DirEntry, NEW path \in Seq(PathName), NEW h \in Resolved(path)
  PROVE  PathTo(tree, path, h)
<1>1. PICK reach : /\ h \in Handle /\ h \in reach[Len(path)] /\ reach[0] = {Root}
                   /\ \A k \in 1 .. Len(path) :
                        reach[k] = {e.h : e \in {x \in tree : x.p \in reach[k - 1] /\ x.n = path[k]}}
  BY ResolvedSteps
<1> DEFINE To(f, m) == /\ f \in [0 .. m -> Handle] /\ f[0] = Root
                       /\ \A k \in 1 .. m : Step(f, path, k) \in tree
           S == {m \in Nat : m <= Len(path) =>
                   \A d \in reach[m] : \E f : To(f, m) /\ f[m] = d}
<1>2. 0 \in S
  <2> DEFINE f == [k \in 0 .. 0 |-> Root]
  <2>1. To(f, 0) /\ f[0] = Root
    BY IndexerAssumption
  <2> HIDE DEF To, f
  <2> QED BY <1>1, <2>1
<1>3. ASSUME NEW m \in Nat, m \in S PROVE m + 1 \in S
  <2> SUFFICES ASSUME m + 1 <= Len(path), NEW d \in reach[m + 1]
               PROVE  \E f : To(f, m + 1) /\ f[m + 1] = d
    OBVIOUS
  <2>1. m + 1 \in 1 .. Len(path) /\ m <= Len(path) /\ (m + 1) - 1 = m
    OBVIOUS
  <2>2. PICK x \in tree : x.p \in reach[m] /\ x.n = path[m + 1] /\ x.h = d
    BY <1>1, <2>1
  <2>3. PICK f : To(f, m) /\ f[m] = x.p
    BY <1>3, <2>1, <2>2
  <2> DEFINE g == [k \in 0 .. m + 1 |-> IF k = m + 1 THEN d ELSE f[k]]
  <2>4. /\ x = [p |-> x.p, n |-> x.n, h |-> x.h] /\ x.h \in Handle
    BY <2>2 DEF DirEntry
  <2>5. /\ g \in [0 .. m + 1 -> Handle] /\ g[m + 1] = d
        /\ \A k \in 0 .. m : g[k] = f[k]
    BY <2>2, <2>3, <2>4
  <2> HIDE DEF g
  <2>6. ASSUME NEW k \in 1 .. m + 1 PROVE Step(g, path, k) \in tree
    <3>1. CASE k = m + 1
      <4>1. k - 1 = m /\ m \in 0 .. m
        BY <3>1
      <4>2. g[k - 1] = x.p /\ path[k] = x.n /\ g[k] = x.h
        BY <2>2, <2>3, <2>5, <3>1, <4>1
      <4> QED BY <2>2, <2>4, <4>2 DEF Step
    <3>2. CASE k # m + 1
      <4>1. k \in 1 .. m /\ k \in 0 .. m /\ k - 1 \in 0 .. m
        BY <3>2
      <4>2. Step(g, path, k) = Step(f, path, k)
        BY <2>5, <4>1 DEF Step
      <4> QED BY <2>3, <4>1, <4>2
    <3> QED BY <3>1, <3>2
  <2>7. g[0] = Root
    BY <2>3, <2>5
  <2>8. To(g, m + 1)
    BY <2>5, <2>6, <2>7
  <2> HIDE DEF To
  <2> QED BY <2>5, <2>8
<1>4. \A m \in Nat : m \in S
  <2> HIDE DEF S
  <2> QED BY <1>2, <1>3, AllNumbers
<1>5. PICK f : To(f, Len(path)) /\ f[Len(path)] = h
  <2>1. Len(path) \in Nat
    OBVIOUS
  <2> HIDE DEF To
  <2> QED BY <1>1, <1>4, <2>1
<1> QED BY <1>5 DEF PathTo, Chain

(* ... and, in a tree, nothing else is.                                    *)
LEMMA PathResolved ==
  ASSUME IsTree(tree), NEW path \in Seq(PathName), NEW h, PathTo(tree, path, h)
  PROVE  Resolved(path) = {h}
<1>1. PICK f : Chain(tree, f, path) /\ f[Len(path)] = h
  BY DEF PathTo
<1>2. PICK reach : /\ Resolved(path) = {d \in Handle : d \in reach[Len(path)]}
                   /\ reach[0] = {Root}
                   /\ \A k \in 1 .. Len(path) :
                        reach[k] = {e.h : e \in {x \in tree : x.p \in reach[k - 1] /\ x.n = path[k]}}
  BY ResolvedSteps
<1> DEFINE S == {m \in Nat : m <= Len(path) => reach[m] = {f[m]}}
<1>3. 0 \in S
  BY <1>1, <1>2 DEF Chain
<1>4. ASSUME NEW m \in Nat, m \in S PROVE m + 1 \in S
  <2> SUFFICES ASSUME m + 1 <= Len(path) PROVE reach[m + 1] = {f[m + 1]}
    OBVIOUS
  <2>1. m + 1 \in 1 .. Len(path) /\ m <= Len(path) /\ (m + 1) - 1 = m
    OBVIOUS
  <2>2. reach[m] = {f[m]}
    BY <1>4, <2>1
  <2> DEFINE e == Step(f, path, m + 1)
  <2>3. e \in tree /\ e.p = f[m] /\ e.n = path[m + 1] /\ e.h = f[m + 1]
    BY <1>1, <2>1 DEF Chain, Step
  <2> HIDE DEF e
  <2>4. \A x \in tree : x.p \in reach[m] /\ x.n = path[m + 1] <=> x = e
    BY <2>2, <2>3 DEF IsTree
  <2>5. {x \in tree : x.p \in reach[m] /\ x.n = path[m + 1]} = {e}
    BY <2>3, <2>4
  <2>6. reach[m + 1] = {x.h : x \in {e}}
    BY <1>2, <2>1, <2>5
  <2> QED BY <2>3, <2>6
<1>5. \A m \in Nat : m \in S
  <2> HIDE DEF S
  <2> QED BY <1>3, <1>4, AllNumbers
<1>6. reach[Len(path)] = {h}
  <2>1. Len(path) \in Nat /\ Len(path) <= Len(path)
    OBVIOUS
  <2> QED BY <1>1, <1>5, <2>1
<1>7. h \in Handle
  <2>1. Len(path) \in 0 .. Len(path)
    OBVIOUS
  <2> QED BY <1>1, <2>1 DEF Chain
<1> QED BY <1>2, <1>6, <1>7

-----------------------------------------------------------------------------
(* What a run keeps *)

(* The parts the rest builds on: the index's soundness and the tree.       *)
TreeInv ==
  /\ IsTree(tree) /\ Rooted(past) /\ tree \subseteq past /\ past \subseteq DirEntry /\ kept \subseteq tree
  /\ runs = 0 => db = EmptyDb /\ ~running /\ ~done
  /\ running => ~done

Base == Inv /\ TreeInv

(* Before the first run.                                                   *)
LEMMA InitBase == SystemInit => Base
<1> SUFFICES ASSUME SystemInit PROVE Base
  OBVIOUS
<1>1. TreeInv
  BY SystemAssumption DEF SystemInit, TreeInv
<1>2. Inv
  <2>1. Init
    BY SystemAssumption DEF SystemInit, Init
  <2> QED BY <2>1, InitInv
<1> QED BY <1>1, <1>2 DEF Base

(* What programs do to the tree and what is left of it.                    *)
LEMMA ProgramsResult ==
  ASSUME Base, Programs
  PROVE  /\ tree' \subseteq DirEntry /\ TreeInv' /\ past \subseteq past' /\ UNCHANGED indexVars
         /\ runs # 0 => kept' \subseteq kept
         /\ \A x \in tree' : x.h \in Handles(past) => x.h \in Handles(tree)
<1>1. /\ tree \subseteq past /\ past \subseteq DirEntry /\ IsTree(tree) /\ Rooted(past) /\ kept \subseteq tree
      /\ kept' = IF runs = 0 THEN tree' ELSE kept \cap tree'
      /\ UNCHANGED indexVars
  BY DEF Base, TreeInv, Programs
<1>2. /\ tree' \subseteq past' /\ past \subseteq past' /\ past' \subseteq DirEntry
      /\ IsTree(tree') /\ Rooted(past')
      /\ \A x \in tree' : x.h \in Handles(past) => x.h \in Handles(tree)
  <2>1. PICK c \in Syscalls : Fs!Syscall(c)
    BY DEF Programs
  <2> QED BY <1>1, <2>1, SyscallResult
<1>3. TreeInv'
  BY <1>1, <1>2 DEF TreeInv, Base, indexVars, dbVars, runVars, Rooted, IsTree
<1> QED BY <1>1, <1>2, <1>3

(* The index stays sound whatever the tree is, and the tree stays one.     *)
LEMMA NextBase == Base /\ [SystemNext]_allVars => Base'
<1> SUFFICES ASSUME Base, [SystemNext]_allVars PROVE Base'
  OBVIOUS
<1>1. Inv /\ TreeInv /\ runs \in Nat
  BY IndexerAssumption DEF Base, Inv, IndexerTypeOK
<1>2. CASE Index
  <2>1. Inv'
    BY <1>1, <1>2, NextInv DEF Index, Next, IndexStep
  <2>2. UNCHANGED <<tree, past, kept>>
    BY <1>2 DEF Index, fsVars, Start, NextEntry, ReadFails, GetFh, IndexEntry, Skip, Finish
  <2>3. /\ runs' # 0 \/ (runs' = runs /\ db' = db /\ running' = running /\ done' = done)
        /\ running' => ~done'
    <3>1. CASE Start
      <4>1. runs' = runs + 1 /\ done' = FALSE
        BY <3>1 DEF Start
      <4> QED BY <1>1, <4>1
    <3>2. CASE Finish
      BY <1>1, <3>2 DEF Finish, Stopped, TreeInv
    <3>3. CASE NextEntry \/ ReadFails \/ GetFh \/ IndexEntry \/ Skip
      <4>1. running /\ UNCHANGED runVars
        BY <3>3 DEF NextEntry, ReadFails, GetFh, IndexEntry, Skip
      <4> QED BY <1>1, <4>1 DEF runVars, TreeInv
    <3> QED BY <1>2, <3>1, <3>2, <3>3 DEF Index
  <2>4. TreeInv'
    BY <1>1, <2>2, <2>3 DEF TreeInv, IsTree, Rooted
  <2> QED BY <2>1, <2>4 DEF Base
<1>3. CASE Killed
  <2>1. Inv'
    BY <1>1, <1>3, NextInv DEF Killed, Next
  <2>2. TreeInv'
    BY <1>1, <1>3 DEF Killed, Crash, Stopped, fsVars, TreeInv, IsTree, Rooted
  <2> QED BY <2>1, <2>2 DEF Base
<1>4. CASE Programs
  <2>1. tree' \in SUBSET DirEntry /\ UNCHANGED indexVars /\ TreeInv'
    BY <1>4, ProgramsResult
  <2>2. Inv'
    BY <1>1, <2>1, NextInv DEF Next, Change
  <2> QED BY <2>1, <2>2 DEF Base
<1>5. CASE UNCHANGED <<vars, fsVars>>
  <2>1. Inv'
    BY <1>1, <1>5, NextInv
  <2>2. TreeInv'
    BY <1>1, <1>5 DEF TreeInv, vars, indexVars, dbVars, runVars, fsVars, IsTree, Rooted
  <2> QED BY <2>1, <2>2 DEF Base
<1> QED BY <1>2, <1>3, <1>4, <1>5 DEF SystemNext, Query, allVars

(* A row that is made: it is at a place that was free.                     *)
NameIsTaken(d, n, p) == DirentIds(d, n, p) # {}
Created(d, h, n, p) == Create(d, h, n, p).db
Shown(d, p, n, h) == [p |-> d.files[p].file_handle, n |-> n, h |-> h]

RowMade(d, h, n, p) ==
  /\ Indexed(Created(d, h, n, p)) = Indexed(d) \cup {Shown(d, p, n, h)}
  /\ \E id \in Id \ DOMAIN d.files :
       /\ id # ROOT_ID /\ DOMAIN Created(d, h, n, p).files = DOMAIN d.files \cup {id}
       /\ Created(d, h, n, p).files[id] = [file_handle |-> h, name |-> n, parent_id |-> p]
       /\ \A k \in DOMAIN d.files : Created(d, h, n, p).files[k] = d.files[k]

(* At a taken place no row is made.                                        *)
LEMMA CreateTaken ==
  ASSUME NEW d, NEW fh, NEW n, NEW p, NameIsTaken(d, n, p)
  PROVE  Created(d, fh, n, p) = d
BY DEF NameIsTaken, Created, Create, Fail

(* At a free one a row is, with an id of its own.                          *)
LEMMA CreateRow ==
  ASSUME NEW d, Good(d), NEW fh \in Handle, NEW n \in PathName, NEW p \in DOMAIN d.files,
         ~NameIsTaken(d, n, p)
  PROVE  RowMade(d, fh, n, p)
<1> DEFINE id == NextRowId(d.files)
           row == [file_handle |-> fh, name |-> n, parent_id |-> p]
           new == [k \in DOMAIN d.files \cup {id} |-> IF k = id THEN row ELSE d.files[k]]
           x == Shown(d, p, n, fh)
           w == Created(d, fh, n, p)
<1>1. w.files = new
  BY DEF NameIsTaken, Created, Create, Done
<1>2. id \in Id \ DOMAIN d.files /\ ROOT_ID \in DOMAIN d.files
  <2>1. DOMAIN d.files \subseteq Id /\ IsFiniteSet(DOMAIN d.files) /\ ROOT_ID \in DOMAIN d.files
    BY DEF Good, Sound, IsDb, HasRoot
  <2>2. id \in Id /\ \A k \in DOMAIN d.files : k < id
    BY <2>1, NextRowIdFresh
  <2>3. ~(id < id)
    BY <2>2 DEF Id
  <2> QED BY <2>1, <2>2, <2>3
<1>3. /\ DOMAIN w.files = DOMAIN d.files \cup {id} /\ w.files[id] = row
      /\ \A k \in DOMAIN d.files : w.files[k] = d.files[k]
  BY <1>1, <1>2
<1> HIDE DEF id, w
<1>4. Indexed(w) = Indexed(d) \cup {x}
  <2> DEFINE Shows(e, k) == [p |-> e.files[e.files[k].parent_id].file_handle, n |-> e.files[k].name,
                             h |-> e.files[k].file_handle]
  <2>1. \A k \in DOMAIN d.files : d.files[k].parent_id \in DOMAIN d.files
    BY DEF Good, Sound, NoOrphans
  <2>2. \A k \in DOMAIN d.files : Shows(w, k) = Shows(d, k)
    BY <1>3, <2>1
  <2>3. Shows(w, id) = x
    BY <1>3 DEF Shown
  <2>4. DOMAIN w.files \ {ROOT_ID} = (DOMAIN d.files \ {ROOT_ID}) \cup {id}
    BY <1>2, <1>3
  <2>5. Indexed(w) = {Shows(w, k) : k \in DOMAIN w.files \ {ROOT_ID}}
        /\ Indexed(d) = {Shows(d, k) : k \in DOMAIN d.files \ {ROOT_ID}}
    BY DEF Indexed
  <2> HIDE DEF Shows
  <2> QED BY <2>2, <2>3, <2>4, <2>5
<1>5. id # ROOT_ID
  BY <1>2
<1>6. \E c \in Id \ DOMAIN d.files :
        /\ c # ROOT_ID /\ DOMAIN w.files = DOMAIN d.files \cup {c} /\ w.files[c] = row
        /\ \A k \in DOMAIN d.files : w.files[k] = d.files[k]
  BY <1>2, <1>3, <1>5
<1> HIDE DEF x
<1> QED BY <1>4, <1>6 DEF RowMade, w, x
-----------------------------------------------------------------------------
(* What a run keeps of the entries K that have been there all the time *)

(* The database: a stable directory has one row, at its place, and at the  *)
(* place of an entry in a stable directory is no other.                    *)
Placed(K, d) ==
  /\ d.files[ROOT_ID].file_handle = Root
  /\ \A j, k \in DOMAIN d.files :
       d.files[j].file_handle = d.files[k].file_handle /\ d.files[j].file_handle \in StableIn(K) => j = k
  /\ \A x \in Indexed(d) : x.h \in StableIn(K) => x \in K
  /\ \A x \in Indexed(d), e \in K : x.p \in StableIn(K) /\ e.p = x.p /\ e.n = x.n => x = e

(* A frame: a stable directory is open under a path of kept entries.       *)
Opens(K, frame) ==
  /\ frame.dir \in StableIn(K) => PathTo(K, frame.path, frame.dir)
  /\ frame.read => \A x \in frame.list : x.p = frame.dir

(* The current entry: whether it is at the place of e; and, once its handle*)
(* is taken, that it is the right one.                                     *)
ItemAt(K, it, e) == Last(it.path) = e.n /\ PathTo(K, Front(it.path), e.p)

Taken(K, it) ==
  it.fh # None =>
    /\ it.fh \in StableIn(K) => PathTo(K, it.path, it.fh)
    /\ \A e \in K : ItemAt(K, it, e) => it.fh = e.h

(* The walk: of the directories V it has found, each has its row, or will  *)
(* have it next, and each entry in them is still to come or has been met.  *)
On(stack) == {stack[j] : j \in DOMAIN stack}
Waits(fs, e) == \E frame \in fs : frame.dir = e.p /\ (~frame.read \/ e \in frame.list)
Seen(K, w, it, e) == e \in Indexed(w) \/ (it # None /\ it.fh \in {None, e.h} /\ ItemAt(K, it, e))

Covers(K, w, fs, it, V) ==
  /\ Root \in V
  /\ \A d \in V \cap StableIn(K) : d = Root \/ \E e \in K : e.h = d /\ e.p \in V /\ Seen(K, w, it, e)
  /\ \A e \in K : e.p \in V \cap StableIn(K) =>
       Waits(fs, e) \/ (Seen(K, w, it, e) /\ (e.h \in Dirs => e.h \in V))

RowsInv == (db = EmptyDb \/ Placed(kept, db)) /\ (running => Placed(kept, work))
FramesInv == \A frame \in On(frames) : Opens(kept, frame)
ItemInv == item # None => Taken(kept, item)
CoverInv == running => \E V \in SUBSET Dirs : Covers(Stays, work, On(frames), item, V)
WalkInv == RowsInv /\ FramesInv /\ ItemInv /\ CoverInv

-----------------------------------------------------------------------------
(* Fewer entries stay: what was kept of them all is kept of the rest.      *)

(* A stack is its top and the rest.                                        *)
LEMMA StackTop ==
  ASSUME NEW S, NEW stack \in Seq(S), stack # <<>>
  PROVE  On(stack) = {Head(stack)} \cup On(Tail(stack))
<1>1. /\ Len(stack) \in Nat \ {0} /\ DOMAIN stack = 1 .. Len(stack) /\ Head(stack) = stack[1]
      /\ DOMAIN Tail(stack) = 1 .. Len(stack) - 1
      /\ \A j \in 1 .. Len(stack) - 1 : Tail(stack)[j] = stack[j + 1]
  OBVIOUS
<1>2. ASSUME NEW x \in On(stack) PROVE x \in {Head(stack)} \cup On(Tail(stack))
  <2>1. PICK j \in 1 .. Len(stack) : x = stack[j]
    BY <1>1, <1>2 DEF On
  <2>2. j # 1 => j - 1 \in 1 .. Len(stack) - 1 /\ (j - 1) + 1 = j
    BY <1>1
  <2>3. j # 1 => x = Tail(stack)[j - 1]
    BY <1>1, <2>1, <2>2
  <2> QED BY <1>1, <2>1, <2>2, <2>3 DEF On
<1>3. ASSUME NEW x \in {Head(stack)} \cup On(Tail(stack)) PROVE x \in On(stack)
  <2>1. 1 \in 1 .. Len(stack) /\ \A j \in 1 .. Len(stack) - 1 : j + 1 \in 1 .. Len(stack)
    BY <1>1
  <2> QED BY <1>1, <1>3, <2>1 DEF On
<1> QED BY <1>2, <1>3

(* A frame more.                                                           *)
LEMMA StackPush ==
  ASSUME NEW S, NEW stack \in Seq(S), NEW x \in S
  PROVE  <<x>> \o stack \in Seq(S) /\ On(<<x>> \o stack) = {x} \cup On(stack)
<1> DEFINE t == <<x>> \o stack
<1>1. t \in Seq(S) /\ t # <<>> /\ Head(t) = x /\ Tail(t) = stack
  OBVIOUS
<1> HIDE DEF t
<1>2. On(t) = {Head(t)} \cup On(Tail(t))
  BY <1>1, StackTop
<1> QED BY <1>1, <1>2 DEF t

(* Of the rows.                                                            *)
LEMMA FewerPlaced ==
  ASSUME NEW K, IsTree(K), NEW L \in SUBSET K, NEW d, Placed(K, d)
  PROVE  Placed(L, d)
<1>1. StableIn(L) \subseteq StableIn(K)
  BY StableGrows
<1>2. \A x \in Indexed(d) : x.h \in StableIn(L) => x \in L
  BY <1>1, StableEntry DEF Placed
<1> QED BY <1>1, <1>2 DEF Placed

(* Of a frame.                                                             *)
LEMMA FewerOpens ==
  ASSUME NEW K, IsTree(K), NEW L \in SUBSET K, NEW frame, frame.path \in Seq(PathName), Opens(K, frame)
  PROVE  Opens(L, frame)
<1>1. frame.dir \in StableIn(L) => PathTo(L, frame.path, frame.dir)
  BY StableGrows, StablePath DEF Opens
<1> QED BY <1>1 DEF Opens

(* Of the current entry's handle.                                          *)
LEMMA FewerTaken ==
  ASSUME NEW K, IsTree(K), NEW L \in SUBSET K, NEW it, it.path \in Seq(PathName), Taken(K, it)
  PROVE  Taken(L, it)
<1>1. it.fh # None /\ it.fh \in StableIn(L) => PathTo(L, it.path, it.fh)
  BY StableGrows, StablePath DEF Taken
<1>2. \A e \in L : ItemAt(L, it, e) => ItemAt(K, it, e)
  BY PathGrows DEF ItemAt
<1> QED BY <1>1, <1>2 DEF Taken

(* Of the walk: what it has found and met.                                 *)
LEMMA FewerCovered ==
  ASSUME NEW K, IsTree(K), NEW L \in SUBSET K, NEW w, NEW fs, NEW it,
         it # None => Front(it.path) \in Seq(PathName), NEW V, Covers(K, w, fs, it, V)
  PROVE  Covers(L, w, fs, it, V)
<1>1. StableIn(L) \subseteq StableIn(K)
  BY StableGrows
<1>2. ASSUME NEW e \in L, e.p \in StableIn(L), Seen(K, w, it, e) PROVE Seen(L, w, it, e)
  <2>1. it # None /\ ItemAt(K, it, e) => ItemAt(L, it, e)
    BY <1>2, StablePath DEF ItemAt
  <2> QED BY <1>2, <2>1 DEF Seen
<1>3. ASSUME NEW d \in V \cap StableIn(L), d # Root
      PROVE  \E e \in L : e.h = d /\ e.p \in V /\ Seen(L, w, it, e)
  <2>1. PICK e \in K : e.h = d /\ e.p \in V /\ Seen(K, w, it, e)
    BY <1>1, <1>3 DEF Covers
  <2>2. e \in L /\ e.p \in StableIn(L)
    BY <2>1, StableEntry
  <2> QED BY <1>2, <2>1, <2>2
<1>4. ASSUME NEW e \in L, e.p \in V \cap StableIn(L)
      PROVE  Waits(fs, e) \/ (Seen(L, w, it, e) /\ (e.h \in Dirs => e.h \in V))
  BY <1>1, <1>2, <1>4 DEF Covers
<1> QED BY <1>3, <1>4 DEF Covers

(* Where the paths of the walk are.                                        *)
LEMMA PathsTyped ==
  ASSUME Inv
  PROVE  /\ \A frame \in On(frames) : frame \in FrameType /\ frame.path \in Seq(PathName)
         /\ item # None => /\ item.path \in Seq(PathName) /\ item.path # <<>>
                           /\ item.fh \in Handle \cup {None}
                           /\ Front(item.path) \in Seq(PathName) /\ Last(item.path) \in PathName
<1>1. \A frame \in On(frames) : frame \in FrameType
  BY DEF Inv, IndexerTypeOK, On
<1>2. item # None => item.path \in Seq(PathName) /\ item.path # <<>> /\ item.fh \in Handle \cup {None}
  BY DEF Inv, IndexerTypeOK, ItemType, PathBelowRoot, PathName
<1>3. item # None => Front(item.path) \in Seq(PathName) /\ Last(item.path) \in PathName
  BY <1>2, FrontLast
<1> QED BY <1>1, <1>2, <1>3 DEF FrameType, PathBelowRoot, PathName

(* What stays are kept entries, and a tree.                                *)
LEMMA StaysKept ==
  ASSUME Base
  PROVE  /\ IsTree(kept) /\ kept \subseteq tree /\ tree \subseteq DirEntry
         /\ Stays \in SUBSET kept /\ IsTree(Stays) /\ StableIn(Stays) \subseteq StableIn(kept)
<1>1. IsTree(kept) /\ kept \subseteq tree /\ tree \subseteq DirEntry
  BY PartOfTree DEF Base, TreeInv
<1>2. Stays \in SUBSET kept
  BY DEF Stays
<1> QED BY <1>1, <1>2, PartOfTree, StableGrows

(* A path of them is one of kept entries; and a path of kept entries to a  *)
(* directory that stays is one of them.                                    *)
LEMMA StaysPath ==
  ASSUME Base, NEW path \in Seq(PathName), NEW h
  PROVE  /\ PathTo(Stays, path, h) => PathTo(kept, path, h)
         /\ PathTo(kept, path, h) /\ h \in StableIn(Stays) => PathTo(Stays, path, h)
<1>1. Stays \in SUBSET kept /\ IsTree(kept)
  BY StaysKept
<1>2. PathTo(Stays, path, h) => PathTo(kept, path, h)
  BY <1>1, PathGrows
<1>3. PathTo(kept, path, h) /\ h \in StableIn(Stays) => PathTo(Stays, path, h)
  BY <1>1, StablePath
<1> QED BY <1>2, <1>3

(* So it is with the place of the current entry.                           *)
LEMMA StaysAt ==
  ASSUME Base, NEW it, Front(it.path) \in Seq(PathName), NEW e, ItemAt(Stays, it, e)
  PROVE  ItemAt(kept, it, e)
BY StaysPath DEF ItemAt

(* Programs change the tree.                                               *)
LEMMA ProgramsKeep ==
  ASSUME Base, WalkInv, StableIndexed, Programs
  PROVE  WalkInv' /\ StableIndexed'
<1>1. UNCHANGED <<db, work, running, runs, done, frames, item, i, lost>>
  BY DEF Programs, indexVars, dbVars, runVars, walkVars
<1>2. CASE runs = 0
  <2>1. db = EmptyDb /\ ~running /\ ~done /\ frames = <<>> /\ item = None
    BY <1>2 DEF Base, TreeInv, Inv, IndexerTypeOK
  <2> QED BY <1>1, <2>1 DEF WalkInv, RowsInv, FramesInv, On, ItemInv, CoverInv, StableIndexed
<1>3. CASE runs # 0
  <2>1. kept' \in SUBSET kept /\ IsTree(kept)
    <3>1. kept' \subseteq kept
      BY <1>3, ProgramsResult
    <3> QED BY <3>1, PartOfTree DEF Base, TreeInv
  <2>2. RowsInv'
    BY <1>1, <2>1, FewerPlaced DEF WalkInv, RowsInv
  <2>3. FramesInv'
    BY <1>1, <2>1, FewerOpens, PathsTyped DEF WalkInv, FramesInv, Base
  <2>4. ItemInv'
    BY <1>1, <2>1, FewerTaken, PathsTyped DEF WalkInv, ItemInv, Base
  <2>5. Stays' \in SUBSET Stays /\ IsTree(Stays)
    BY <1>1, <2>1, StaysKept DEF Stays
  <2>6. CoverInv'
    <3> SUFFICES ASSUME running PROVE \E V \in SUBSET Dirs : Covers(Stays', work, On(frames), item, V)
      BY <1>1 DEF CoverInv
    <3>1. PICK V \in SUBSET Dirs : Covers(Stays, work, On(frames), item, V)
      BY DEF WalkInv, CoverInv
    <3>2. Covers(Stays', work, On(frames), item, V)
      BY <2>5, <3>1, FewerCovered, PathsTyped DEF Base
    <3> QED BY <3>2
  <2>7. StableIndexed'
    <3> SUFFICES ASSUME done, NEW e \in Stays', e.p \in StableIn(Stays') PROVE e \in Indexed(db)
      BY <1>1 DEF StableIndexed, StableIn
    <3>1. e \in Stays /\ e.p \in StableIn(Stays)
      BY <2>5, StableGrows
    <3> QED BY <3>1 DEF StableIndexed, StableIn
  <2> QED BY <2>2, <2>3, <2>4, <2>6, <2>7 DEF WalkInv
<1> QED BY <1>2, <1>3
-----------------------------------------------------------------------------
(* The start of a run *)

(* ensure_root, when it succeeds: the root row alone, or nothing new.      *)
LEMMA EnsureRootResult ==
  ASSUME NEW d, d = EmptyDb \/ Good(d), EnsureRoot(d, Root).err = "Ok"
  PROVE  LET w == EnsureRoot(d, Root).db
         IN  \/ d # EmptyDb /\ w = d
             \/ d = EmptyDb /\ DOMAIN w.files = {ROOT_ID} /\ w.files[ROOT_ID].file_handle = Root
<1> DEFINE g == GetDirId(d, Root)
           made == Create(d, Root, RootName, ROOT_ID)
<1>1. g.db = d /\ g.err \in {"Ok", "NoFile", "ManyFiles"} /\ (g.err = "NoFile" <=> HandleIds(d, Root) = {})
  BY QueryOneResult DEF GetDirId
<1>2. CASE d = EmptyDb
  <2>1. DOMAIN d.files = {}
    BY <1>2 DEF EmptyDb
  <2>2. HandleIds(d, Root) = {} /\ DirentIds(d, RootName, ROOT_ID) = {}
    BY <2>1 DEF HandleIds, DirentIds
  <2>3. NextRowId(d.files) = ROOT_ID
    BY <2>1 DEF NextRowId, ROOT_ID
  <2>4. /\ made.err = "Ok" /\ DOMAIN made.db.files = {ROOT_ID}
        /\ made.db.files[ROOT_ID].file_handle = Root
    BY <2>1, <2>2, <2>3 DEF Create, Done
  <2>5. g.err = "NoFile"
    BY <1>1, <2>2
  <2> HIDE DEF made, g
  <2>6. EnsureRoot(d, Root).db = made.db
    BY <2>5 DEF EnsureRoot, made, g, Fail
  <2> QED BY <1>2, <2>4, <2>6
<1>3. CASE d # EmptyDb /\ g.err # "NoFile"
  <2> HIDE DEF g
  <2>1. EnsureRoot(d, Root).db = d
    BY <1>1, <1>3 DEF EnsureRoot, g, Fail
  <2> QED BY <1>3, <2>1
<1>4. CASE d # EmptyDb /\ g.err = "NoFile"
  <2>1. DirentIds(d, RootName, ROOT_ID) # {}
    BY <1>4 DEF Good, Sound, HasRoot, DirentIds
  <2>2. made = Fail(d, "NameTaken")
    BY <2>1 DEF Create
  <2> HIDE DEF made, g
  <2>3. EnsureRoot(d, Root).db = d
    BY <1>4, <2>2 DEF EnsureRoot, made, g, Fail
  <2> QED BY <1>4, <2>3
<1> QED BY <1>1, <1>2, <1>3, <1>4

(* The root row is placed.                                                 *)
LEMMA RootPlaced ==
  ASSUME NEW K, NEW w, DOMAIN w.files = {ROOT_ID}, w.files[ROOT_ID].file_handle = Root
  PROVE  Placed(K, w)
<1>1. Indexed(w) = {}
  BY DEF Indexed
<1> QED BY <1>1 DEF Placed

(* The walk starts with the root found, and all in it to come.             *)
LEMMA StartKeeps ==
  ASSUME Base, WalkInv, Start, UNCHANGED kept
  PROVE  WalkInv' /\ StableIndexed'
<1> DEFINE first == Frame(<<>>, {Root})
<1>1. /\ EnsureRoot(db, Root).err = "Ok" /\ work' = EnsureRoot(db, Root).db
      /\ running' = TRUE /\ done' = FALSE
      /\ frames' = <<first>> /\ item' = None /\ UNCHANGED db
  BY DEF Start
<1>2. Placed(kept, work')
  <2>1. db = EmptyDb \/ Good(db)
    BY DEF Base, Inv, IndexSound, Good
  <2>2. \/ db # EmptyDb /\ work' = db
        \/ DOMAIN work'.files = {ROOT_ID} /\ work'.files[ROOT_ID].file_handle = Root
    BY <1>1, <2>1, EnsureRootResult
  <2> QED BY <2>2, RootPlaced DEF WalkInv, RowsInv
<1>3. RowsInv'
  BY <1>1, <1>2 DEF WalkInv, RowsInv
<1>4. first.path = <<>> /\ first.dir = Root /\ ~first.read
  BY DEF Frame
<1> HIDE DEF first
<1>5. On(frames') = {first}
  BY <1>1 DEF On
<1>6. FramesInv'
  BY <1>1, <1>4, <1>5, EmptyPath DEF FramesInv, Opens
<1>7. ItemInv'
  BY <1>1 DEF ItemInv
<1>8. Covers(Stays', work', On(frames'), item', {Root})
  <2>1. \A e \in Stays' : e.p = Root => Waits(On(frames'), e)
    BY <1>4, <1>5 DEF Waits
  <2> QED BY <2>1 DEF Covers
<1>9. CoverInv'
  <2>1. {Root} \in SUBSET Dirs
    BY IndexerAssumption
  <2> QED BY <1>8, <2>1 DEF CoverInv
<1> QED BY <1>1, <1>3, <1>6, <1>7, <1>9 DEF WalkInv, StableIndexed

-----------------------------------------------------------------------------
(* The next entry *)

(* What a path to a kept entry of a stable directory leads to.             *)
LEMMA KeptPath ==
  ASSUME Base, NEW path \in Seq(PathName), NEW h, PathTo(kept, path, h)
  PROVE  Resolved(path) = {h}
<1>1. IsTree(tree) /\ kept \in SUBSET tree
  BY DEF Base, TreeInv
<1>2. PathTo(tree, path, h)
  BY <1>1, PathGrows
<1> QED BY <1>1, <1>2, PathResolved

(* What leads to a stable directory is a path of kept entries.             *)
LEMMA PathKept ==
  ASSUME Base, NEW path \in Seq(PathName), NEW h \in Resolved(path), h \in StableIn(kept)
  PROVE  PathTo(kept, path, h)
<1>1. IsTree(tree) /\ kept \in SUBSET tree /\ tree \subseteq DirEntry
  BY DEF Base, TreeInv
<1>2. PathTo(tree, path, h)
  BY <1>1, ResolvedPath
<1> QED BY <1>1, <1>2, StablePath

(* A path that goes on to a kept entry.                                    *)
LEMMA ItemPath ==
  ASSUME Base, NEW path \in Seq(PathName), NEW e \in kept, PathTo(kept, path, e.p)
  PROVE  PathTo(kept, Append(path, e.n), e.h)
<1>1. e \in DirEntry
  BY DEF Base, TreeInv
<1>2. e.n \in PathName /\ e.h \in Handle /\ e = [p |-> e.p, n |-> e.n, h |-> e.h]
  BY <1>1 DEF DirEntry, PathName
<1> QED BY <1>2, PathAppend

(* A path and a name.                                                      *)
LEMMA AppendFrontLast ==
  ASSUME NEW path \in Seq(PathName), NEW n \in PathName
  PROVE  /\ Append(path, n) \in Seq(PathName) /\ Append(path, n) # <<>>
         /\ Front(Append(path, n)) = path /\ Last(Append(path, n)) = n
<1> DEFINE t == Append(path, n)
           m == Len(path)
<1>1. /\ m \in Nat /\ t \in Seq(PathName) /\ Len(t) = m + 1 /\ t[m + 1] = n /\ t # <<>>
      /\ \A k \in 1 .. m : t[k] = path[k]
  OBVIOUS
<1>2. /\ Front(t) \in Seq(PathName) /\ Len(Front(t)) = Len(t) - 1
      /\ \A k \in 1 .. Len(t) - 1 : Front(t)[k] = t[k]
  BY <1>1, FrontLast
<1>3. Len(t) - 1 = m
  BY <1>1
<1> HIDE DEF t
<1>4. Front(t) = path
  BY <1>1, <1>2, <1>3, SeqEqual
<1> QED BY <1>1, <1>4 DEF Last, t

(* A directory is left: what of it was still to come does not stay.        *)
LEMMA ReadKeeps ==
  ASSUME Base, WalkInv, running, item = None, frames # <<>>,
         frames' = Tail(frames), UNCHANGED <<item, work, running>>,
         Stays' \in SUBSET Stays, \A e \in Stays' : e \notin ToCome(Head(frames))
  PROVE  (\A frame \in On(frames') : Opens(kept, frame)) /\ CoverInv'
<1> DEFINE top == Head(frames)
<1>1. frames \in Seq(FrameType)
  BY DEF Base, Inv, IndexerTypeOK
<1>2. On(frames) = {top} \cup On(frames')
  BY <1>1, StackTop
<1> HIDE DEF top
<1>3. \A frame \in On(frames') : Opens(kept, frame)
  BY <1>2 DEF WalkInv, FramesInv
<1>4. ASSUME NEW e \in Stays', Waits(On(frames), e) PROVE Waits(On(frames'), e)
  <2>1. PICK frame \in On(frames) : frame.dir = e.p /\ (~frame.read \/ e \in frame.list)
    BY <1>4 DEF Waits
  <2>2. e \in tree
    BY StaysKept
  <2>3. frame # top
    BY <2>1, <2>2 DEF top, ToCome
  <2> QED BY <1>2, <2>1, <2>3 DEF Waits
<1>5. PICK V \in SUBSET Dirs : Covers(Stays, work, On(frames), item, V)
  BY DEF WalkInv, CoverInv
<1>6. Covers(Stays', work, On(frames), item, V)
  BY <1>5, StaysKept, FewerCovered
<1>7. Covers(Stays', work, On(frames'), item, V)
  BY <1>4, <1>6 DEF Covers
<1> QED BY <1>3, <1>7 DEF CoverInv

(* A step from (fs, it) to (gs, jt), with the directories found growing    *)
(* from V to U: only the entry e stops waiting, nothing met is lost, e is  *)
(* met, and the directory it leads to, the one found now, has a frame.     *)
Advances(K, w, fs, it, V, gs, jt, U, e) ==
  /\ V \subseteq U
  /\ \A x \in K : Waits(fs, x) => Waits(gs, x) \/ x = e
  /\ \A x \in K : Seen(K, w, it, x) => Seen(K, w, jt, x)
  /\ e \in K /\ e.p \in StableIn(K) => Seen(K, w, jt, e)
  /\ e \in K /\ e.p \in V \cap StableIn(K) /\ e.h \in Dirs => e.h \in U
  /\ \A d \in U \ V : /\ d = e.h /\ e \in K /\ e.p \in V \cap StableIn(K)
                     /\ \A x \in K : x.p = d => Waits(gs, x)

(* A step of the walk meets e: the directories found become U.             *)
LEMMA Meets ==
  ASSUME NEW K, NEW w, NEW fs, NEW it, NEW V, NEW gs, NEW jt, NEW e, NEW U,
         Covers(K, w, fs, it, V), Advances(K, w, fs, it, V, gs, jt, U, e)
  PROVE  Covers(K, w, gs, jt, U)
<1>1. V \subseteq U /\ \A x \in K : Seen(K, w, it, x) => Seen(K, w, jt, x)
  BY DEF Advances
<1>2. Root \in U
  BY <1>1 DEF Covers
<1>3. ASSUME NEW d \in U \cap StableIn(K), d # Root
      PROVE  \E x \in K : x.h = d /\ x.p \in U /\ Seen(K, w, jt, x)
  <2>1. CASE d \in V
    <3>1. PICK x \in K : x.h = d /\ x.p \in V /\ Seen(K, w, it, x)
      BY <1>3, <2>1 DEF Covers
    <3>2. x.p \in U /\ Seen(K, w, jt, x)
      BY <1>1, <3>1
    <3> QED BY <3>1, <3>2
  <2>2. CASE d \notin V
    <3>1. d = e.h /\ e \in K /\ e.p \in V /\ e.p \in StableIn(K)
      BY <1>3, <2>2 DEF Advances
    <3>2. e.p \in U /\ Seen(K, w, jt, e)
      BY <1>1, <3>1 DEF Advances
    <3> QED BY <3>1, <3>2
  <2> QED BY <2>1, <2>2
<1>4. ASSUME NEW x \in K, x.p \in U \cap StableIn(K)
      PROVE  Waits(gs, x) \/ (Seen(K, w, jt, x) /\ (x.h \in Dirs => x.h \in U))
  <2>1. CASE x.p \notin V
    BY <1>4, <2>1 DEF Advances
  <2>2. CASE x.p \in V
    <3>1. Waits(fs, x) \/ (Seen(K, w, it, x) /\ (x.h \in Dirs => x.h \in V))
      BY <1>4, <2>2 DEF Covers
    <3>2. CASE Waits(fs, x)
      <4>1. Waits(gs, x) \/ x = e
        BY <3>2 DEF Advances
      <4>2. x = e => Seen(K, w, jt, x) /\ (x.h \in Dirs => x.h \in U)
        BY <1>4, <2>2 DEF Advances
      <4> QED BY <4>1, <4>2
    <3>3. CASE Seen(K, w, it, x) /\ (x.h \in Dirs => x.h \in V)
      BY <1>1, <3>3
    <3> QED BY <3>1, <3>2, <3>3
  <2> QED BY <2>1, <2>2
<1>5. \A d \in U \cap StableIn(K) : d = Root \/ \E x \in K : x.h = d /\ x.p \in U /\ Seen(K, w, jt, x)
  BY <1>3
<1>6. \A x \in K : x.p \in U \cap StableIn(K) =>
                    Waits(gs, x) \/ (Seen(K, w, jt, x) /\ (x.h \in Dirs => x.h \in U))
  BY <1>4
<1> QED BY <1>2, <1>5, <1>6 DEF Covers

(* A name that is handed out, and a directory that is opened with it.      *)
HandsOut(top, others, list, e, path, open, first) ==
  /\ running /\ item = None /\ UNCHANGED <<kept, lost, work, running>>
  /\ On(frames) = {top} \cup others
  /\ list = ToCome(top)
  /\ e \in list /\ path = Append(top.path, e.n)
  /\ open.path = top.path /\ open.dir = top.dir /\ open.read /\ open.list = list \ {e}
  /\ first.path = path /\ ~first.read
  /\ first.dir = IF Resolved(path) \cap Dirs = {} THEN None ELSE CHOOSE h \in Resolved(path) \cap Dirs : TRUE
  /\ item' # None /\ item'.fh = None /\ item'.path = path
  /\ On(frames') = (IF e.h \in Dirs THEN {first} ELSE {}) \cup {open} \cup others

(* A kept entry of a directory found is met, and the directory it leads to *)
(* is found: its frame waits for what is in it.                            *)
LEMMA HandOutKeeps ==
  ASSUME Base, WalkInv, NEW top, NEW others, NEW list, NEW e, NEW path, NEW open, NEW first,
         HandsOut(top, others, list, e, path, open, first)
  PROVE  FramesInv' /\ CoverInv' /\ ItemInv'
<1>0. UNCHANGED <<kept, Stays, work, running>>
  BY DEF HandsOut, Stays
<1> USE DEF HandsOut
<1>1. /\ top \in FrameType /\ top.path \in Seq(PathName) /\ Opens(kept, top)
      /\ tree \subseteq DirEntry /\ kept \subseteq tree
  BY PathsTyped DEF Base, TreeInv, WalkInv, FramesInv
<1>2. e.p = top.dir /\ e \in DirEntry /\ \A x \in list : x.p = top.dir
  BY <1>1 DEF Opens, FrameType, ToCome
<1>3. path \in Seq(PathName) /\ path # <<>> /\ Front(path) = top.path /\ Last(path) = e.n
  <2>1. e.n \in PathName
    BY <1>2 DEF DirEntry, PathName
  <2> QED BY <1>1, <2>1, AppendFrontLast
<1>4. Opens(kept, first)
  <2>1. CASE first.dir \in StableIn(kept)
    <3>1. first.dir \in Dirs /\ first.dir # None
      BY <2>1, RootStable, IndexerAssumption
    <3>2. first.dir \in Resolved(path)
      BY <3>1
    <3> QED BY <1>3, <2>1, <3>2, PathKept DEF Opens
  <2>2. CASE first.dir \notin StableIn(kept)
    BY <2>2 DEF Opens
  <2> QED BY <2>1, <2>2
<1>5. Opens(kept, open)
  BY <1>1, <1>2 DEF Opens
<1>6. FramesInv'
  BY <1>4, <1>5 DEF WalkInv, FramesInv
<1>7. ItemInv'
  BY DEF ItemInv, Taken
<1>8. ASSUME NEW x \in Stays, Waits(On(frames), x) PROVE Waits(On(frames'), x) \/ x = e
  <2>1. PICK frame \in On(frames) : frame.dir = x.p /\ (~frame.read \/ x \in frame.list)
    BY <1>8 DEF Waits
  <2>2. CASE frame = top
    <3>1. open.dir = x.p /\ x \in list
      BY <1>1, <2>1, <2>2, StaysKept DEF ToCome
    <3> QED BY <3>1 DEF Waits
  <2>3. CASE frame # top
    BY <2>1, <2>3 DEF Waits
  <2> QED BY <2>2, <2>3
<1>9. e \in Stays /\ e.p \in StableIn(Stays) => ItemAt(Stays, item', e) /\ PathTo(kept, path, e.h)
  <2> SUFFICES ASSUME e \in Stays, e.p \in StableIn(Stays)
               PROVE  ItemAt(Stays, item', e) /\ PathTo(kept, path, e.h)
    OBVIOUS
  <2>1. e \in kept /\ e.p \in StableIn(kept)
    BY StaysKept
  <2>2. PathTo(kept, top.path, e.p)
    BY <1>1, <1>2, <2>1 DEF Opens
  <2>3. PathTo(Stays, top.path, e.p)
    BY <1>1, <2>2, StaysPath
  <2> QED BY <1>1, <1>3, <2>1, <2>2, <2>3, ItemPath DEF ItemAt
<1>10. PICK V \in SUBSET Dirs : Covers(Stays, work, On(frames), item, V)
  BY DEF WalkInv, CoverInv
<1>11. \A x \in Stays : Seen(Stays, work, item, x) => Seen(Stays, work, item', x)
  BY DEF Seen
<1>12. e \in Stays /\ e.p \in StableIn(Stays) => Seen(Stays, work, item', e)
  BY <1>9 DEF Seen
<1>13. CASE e \in Stays /\ e.p \in V \cap StableIn(Stays) /\ e.h \in Dirs
  <2> DEFINE U == V \cup {e.h}
  <2>1. PathTo(kept, path, e.h)
    BY <1>9, <1>13
  <2>2. Resolved(path) = {e.h}
    BY <1>3, <2>1, KeptPath
  <2>3. first.dir = e.h
    BY <1>13, <2>2
  <2>4. \A x \in Stays : x.p = e.h => Waits(On(frames'), x)
    BY <1>13, <2>3 DEF Waits
  <2>5. /\ V \subseteq U /\ U \in SUBSET Dirs /\ e.h \in U
        /\ \A d \in U \ V : /\ d = e.h /\ e \in Stays /\ e.p \in V \cap StableIn(Stays)
                         /\ \A x \in Stays : x.p = d => Waits(On(frames'), x)
    BY <1>13, <2>4
  <2> HIDE DEF U
  <2>6. Advances(Stays, work, On(frames), item, V, On(frames'), item', U, e)
    BY <1>8, <1>11, <1>12, <2>5 DEF Advances
  <2>7. Covers(Stays, work, On(frames'), item', U)
    BY <1>10, <2>6, Meets
  <2> QED BY <1>0, <1>6, <1>7, <2>5, <2>7 DEF CoverInv
<1>14. CASE ~(e \in Stays /\ e.p \in V \cap StableIn(Stays) /\ e.h \in Dirs)
  <2>1. Advances(Stays, work, On(frames), item, V, On(frames'), item', V, e)
    BY <1>8, <1>11, <1>12, <1>14 DEF Advances
  <2>2. Covers(Stays, work, On(frames'), item', V)
    BY <1>10, <2>1, Meets
  <2> QED BY <1>0, <1>6, <1>7, <2>2 DEF CoverInv
<1> QED BY <1>13, <1>14

(* Either way of WalkDir::next.                                            *)
LEMMA NextEntryKeeps ==
  ASSUME Base, WalkInv, NextEntry, UNCHANGED <<kept, lost>>
  PROVE  WalkInv'
<1> DEFINE top == Head(frames)
           list == ToCome(top)
           Opened(e) == [top EXCEPT !.read = TRUE, !.list = list \ {e}]
           First(path) == Frame(path, Resolved(path) \cap Dirs)
<1>1. /\ running /\ item = None /\ frames # <<>> /\ UNCHANGED <<tree, db, work, running>>
      /\ frames \in Seq(FrameType) /\ tree \subseteq DirEntry
  BY DEF NextEntry, dbVars, runVars, Base, Inv, IndexerTypeOK
<1>2. RowsInv'
  BY <1>1 DEF WalkInv, RowsInv
<1>3. CASE list = {} /\ frames' = Tail(frames) /\ UNCHANGED item
  <2>1. Stays' = Stays
    BY DEF Stays
  <2>2. FramesInv' /\ CoverInv'
    BY <1>1, <1>3, <2>1, ReadKeeps DEF FramesInv
  <2>3. ItemInv'
    BY <1>1, <1>3 DEF ItemInv
  <2> QED BY <1>2, <2>2, <2>3 DEF WalkInv
<1>4. ASSUME NEW e \in list, NEW path, path = Append(top.path, e.n), item' = [path |-> path, fh |-> None],
             frames' = IF e.h \in Dirs THEN <<First(path)>> \o (<<Opened(e)>> \o Tail(frames))
                       ELSE <<Opened(e)>> \o Tail(frames)
      PROVE  WalkInv'
  <2>1. /\ top \in FrameType /\ Tail(frames) \in Seq(FrameType)
        /\ On(frames) = {top} \cup On(Tail(frames))
    BY <1>1, StackTop
  <2>2. list \subseteq DirEntry /\ top.path \in PathBelowRoot
    BY <1>1, <2>1 DEF FrameType, ToCome
  <2>3. path \in PathBelowRoot /\ path # <<>>
    <3>1. e.n \in PathName /\ top.path \in Seq(PathName)
      BY <2>2, <1>4 DEF DirEntry, PathBelowRoot, PathName
    <3> QED BY <1>4, <3>1, AppendFrontLast DEF PathBelowRoot, PathName
  <2>4. /\ Opened(e) \in FrameType /\ Opened(e).path = top.path /\ Opened(e).dir = top.dir
        /\ Opened(e).read /\ Opened(e).list = list \ {e}
    BY <2>1, <2>2 DEF FrameType
  <2>5. /\ First(path) \in FrameType /\ First(path).path = path /\ ~First(path).read
        /\ First(path).dir = IF Resolved(path) \cap Dirs = {} THEN None
                             ELSE CHOOSE h \in Resolved(path) \cap Dirs : TRUE
    BY <2>3, FrameTyped DEF Frame
  <2>6. item' # None /\ item'.fh = None /\ item'.path = path
    <3>1. item' \in ItemType
      BY <1>4, <2>3 DEF ItemType
    <3> QED BY <1>4, <3>1, SystemAssumption
  <2> HIDE DEF Opened, First, top, list
  <2>7. On(frames') = (IF e.h \in Dirs THEN {First(path)} ELSE {}) \cup {Opened(e)} \cup On(Tail(frames))
    <3>1. /\ <<Opened(e)>> \o Tail(frames) \in Seq(FrameType)
          /\ On(<<Opened(e)>> \o Tail(frames)) = {Opened(e)} \cup On(Tail(frames))
      BY <2>1, <2>4, StackPush
    <3>2. On(<<First(path)>> \o (<<Opened(e)>> \o Tail(frames)))
            = {First(path)} \cup On(<<Opened(e)>> \o Tail(frames))
      BY <2>5, <3>1, StackPush
    <3> QED BY <1>4, <3>1, <3>2
  <2>8. list = ToCome(top)
    BY DEF list
  <2>9. HandsOut(top, On(Tail(frames)), list, e, path, Opened(e), First(path))
    BY <1>1, <1>4, <2>1, <2>4, <2>5, <2>6, <2>7, <2>8 DEF HandsOut
  <2>10. FramesInv' /\ CoverInv' /\ ItemInv'
    BY <2>9, HandOutKeeps
  <2> QED BY <1>2, <2>10 DEF WalkInv
<1>5. CASE \E e \in list :
             LET path == Append(top.path, e.n)
                 rest == <<[top EXCEPT !.read = TRUE, !.list = list \ {e}]>> \o Tail(frames)
             IN  /\ item' = [path |-> path, fh |-> None]
                 /\ frames' = IF e.h \in Dirs
                              THEN <<Frame(path, Resolved(path) \cap Dirs)>> \o rest ELSE rest
  <2>1. PICK e \in list :
             LET path == Append(top.path, e.n)
                 rest == <<Opened(e)>> \o Tail(frames)
             IN  /\ item' = [path |-> path, fh |-> None]
                 /\ frames' = IF e.h \in Dirs THEN <<First(path)>> \o rest ELSE rest
    BY <1>5
  <2> HIDE DEF Opened, First, list, top
  <2>2. PICK path : path = Append(top.path, e.n)
    OBVIOUS
  <2> QED BY <1>4, <2>1, <2>2
<1> QED BY <1>3, <1>5 DEF NextEntry
-----------------------------------------------------------------------------
(* The entry's handle *)

(* No entry is current any more: those that were met have their rows.      *)
LEMMA CoverDone ==
  ASSUME NEW K, IsTree(K), NEW d, NEW w, NEW fs, NEW it, NEW V, Covers(K, d, fs, it, V),
         \A e \in K : e.p \in V \cap StableIn(K) /\ Seen(K, d, it, e) => e \in Indexed(w)
  PROVE  Covers(K, w, fs, None, V)
<1>1. \A e \in K : e.p \in V \cap StableIn(K) /\ Seen(K, d, it, e) => Seen(K, w, None, e)
  BY DEF Seen
<1>2. \A q \in V \cap StableIn(K) :
        q = Root \/ \E e \in K : e.h = q /\ e.p \in V /\ Seen(K, w, None, e)
  <2> SUFFICES ASSUME NEW q \in V \cap StableIn(K), q # Root
               PROVE  \E e \in K : e.h = q /\ e.p \in V /\ Seen(K, w, None, e)
    OBVIOUS
  <2>1. PICK e \in K : e.h = q /\ e.p \in V /\ Seen(K, d, it, e)
    BY DEF Covers
  <2>2. e.p \in StableIn(K)
    BY <2>1, StableEntry
  <2> QED BY <1>1, <2>1, <2>2
<1> QED BY <1>1, <1>2 DEF Covers

(* The end of the loop's body, when the database keeps what it has and has *)
(* the entry that was met, if it stays and is one of a directory found.    *)
LEMMA EntryDoneKeeps ==
  ASSUME Base, WalkInv, running, NEW w, EntryDone(w), UNCHANGED <<kept, frames, running>>,
         Stays' \in SUBSET Stays, Placed(kept, w),
         \A V : Covers(Stays', work, On(frames), item, V) =>
           \A e \in Stays' : e.p \in V \cap StableIn(Stays') /\ Seen(Stays', work, item, e) => e \in Indexed(w)
  PROVE  WalkInv'
<1>1. work' = w /\ item' = None /\ (db' = w \/ db' = db)
  BY DEF EntryDone
<1>2. RowsInv'
  BY <1>1 DEF WalkInv, RowsInv
<1>3. FramesInv' /\ ItemInv'
  BY <1>1 DEF WalkInv, FramesInv, ItemInv
<1>4. PICK V \in SUBSET Dirs : Covers(Stays, work, On(frames), item, V)
  BY DEF WalkInv, CoverInv
<1>5. IsTree(Stays) /\ IsTree(Stays')
  BY StaysKept, PartOfTree
<1>6. Covers(Stays', work, On(frames), item, V)
  BY <1>4, <1>5, FewerCovered, PathsTyped DEF Base
<1>7. \A e \in Stays' : e.p \in V \cap StableIn(Stays') /\ Seen(Stays', work, item, e) => e \in Indexed(w)
  BY <1>6
<1>8. Covers(Stays', w, On(frames), None, V)
  BY <1>5, <1>6, <1>7, CoverDone
<1>9. CoverInv'
  BY <1>1, <1>8 DEF CoverInv
<1> QED BY <1>2, <1>3, <1>9 DEF WalkInv

(* The path of a kept entry still leads to it, so that it has its handle   *)
(* and is not given up.                                                    *)
LEMMA GetFhKeeps ==
  ASSUME Base, WalkInv, GetFh, UNCHANGED <<kept, lost>>
  PROVE  WalkInv'
<1> DEFINE fh == Resolved(item.path)
<1>1. running /\ item # None /\ item.fh = None /\ UNCHANGED <<tree, running, frames>>
  BY DEF GetFh, runVars
<1>2. /\ item.path \in Seq(PathName) /\ item.path # <<>> /\ Front(item.path) \in Seq(PathName)
      /\ item.path = Append(Front(item.path), Last(item.path))
  BY <1>1, PathsTyped, FrontLast DEF Base
<1>0. Stays' = Stays /\ Stays \in SUBSET kept
  BY DEF Stays
<1>3. ASSUME NEW e \in kept, ItemAt(kept, item, e) PROVE fh = {e.h}
  <2>1. PathTo(kept, Append(Front(item.path), e.n), e.h)
    BY <1>2, <1>3, ItemPath DEF ItemAt
  <2>2. PathTo(kept, item.path, e.h)
    BY <1>2, <1>3, <2>1 DEF ItemAt
  <2> QED BY <1>2, <2>2, KeptPath
<1> HIDE DEF fh
<1>6. ASSUME NEW e \in Stays, ItemAt(Stays, item, e) PROVE fh = {e.h}
  BY <1>0, <1>2, <1>3, <1>6, StaysAt
<1>4. CASE fh = {}
  <2>1. EntryDone(work)
    BY <1>4 DEF GetFh, fh
  <2>2. \A e \in Stays : Seen(Stays, work, item, e) => e \in Indexed(work)
    BY <1>4, <1>6 DEF Seen
  <2>3. Placed(kept, work)
    BY <1>1 DEF WalkInv, RowsInv
  <2> QED BY <1>0, <1>1, <2>1, <2>2, <2>3, EntryDoneKeeps
<1>5. CASE fh # {}
  <2> DEFINE h == CHOOSE h \in fh : TRUE
  <2>1. item' = [item EXCEPT !.fh = h] /\ UNCHANGED <<db, work>>
    BY <1>5 DEF GetFh, fh, dbVars
  <2>2. h \in fh /\ h \in Handle /\ h # None
    BY <1>5, ResolvedHandle, IndexerAssumption DEF fh
  <2> HIDE DEF h
  <2>3. item' \in ItemType /\ item'.fh = h /\ item'.path = item.path
    BY <1>1, <2>1, <2>2 DEF Base, Inv, IndexerTypeOK, ItemType
  <2>4. item' # None
    BY <2>3, SystemAssumption
  <2>5. \A e \in kept : ItemAt(kept, item', e) <=> ItemAt(kept, item, e)
    BY <2>3 DEF ItemAt
  <2>6. ItemInv'
    <3>1. h \in StableIn(kept) => PathTo(kept, item.path, h)
      BY <1>2, <2>2, PathKept DEF fh
    <3>2. \A e \in kept : ItemAt(kept, item', e) => h = e.h
      BY <1>3, <2>2, <2>5
    <3>3. Taken(kept, item')
      BY <2>3, <3>1, <3>2 DEF Taken
    <3> QED BY <3>3 DEF ItemInv
  <2>7. \A e \in Stays : Seen(Stays, work, item, e) => Seen(Stays, work, item', e)
    BY <1>6, <2>2, <2>3, <2>4 DEF Seen, ItemAt
  <2>8. CoverInv'
    <3>1. PICK V \in SUBSET Dirs : Covers(Stays, work, On(frames), item, V)
      BY <1>1 DEF WalkInv, CoverInv
    <3>2. Covers(Stays, work, On(frames), item', V)
      BY <2>7, <3>1 DEF Covers
    <3> QED BY <1>0, <1>1, <2>1, <3>2 DEF CoverInv
  <2>9. RowsInv' /\ FramesInv'
    BY <1>1, <2>1 DEF WalkInv, RowsInv, FramesInv
  <2> QED BY <2>6, <2>8, <2>9 DEF WalkInv
<1> QED BY <1>4, <1>5

-----------------------------------------------------------------------------
(* The entry's row *)

(* A stable directory is not in itself.                                    *)
LEMMA NoLoop ==
  ASSUME NEW K, IsTree(K), NEW e \in K, e.h \in StableIn(K)
  PROVE  e.p # e.h
<1> SUFFICES ASSUME e.p = e.h PROVE FALSE
  OBVIOUS
<1> DEFINE S == StableIn(K) \ {e.h}
<1>1. e.h # Root /\ e.h \in Dirs
  BY RootStable, SystemAssumption DEF IsTree
<1>2. S \in SUBSET Dirs /\ {Root} \subseteq S
  BY <1>1, RootStable
<1>3. ASSUME NEW x \in K, x.p \in S, x.h \in Dirs PROVE x.h \in S
  BY <1>1, <1>3, BelowStable DEF IsTree
<1> HIDE DEF S
<1>4. StableIn(K) \subseteq S
  BY <1>2, <1>3, ReachedLeast DEF StableIn
<1> QED BY <1>4 DEF S

(* The row of a directory that has one is found.                           *)
LEMMA DirFound ==
  ASSUME NEW K, NEW d, Placed(K, d), NEW q \in StableIn(K), NEW k \in DOMAIN d.files,
         d.files[k].file_handle = q
  PROVE  GetDirId(d, q).err = "Ok" /\ GetDirId(d, q).id = k
<1>1. HandleIds(d, q) = {k}
  BY DEF Placed, HandleIds
<1>2. (CHOOSE j \in {k} : TRUE) = k
  OBVIOUS
<1> QED BY <1>1, <1>2 DEF GetDirId, QueryOne, Done

(* A row that is found is one of the directory.                            *)
LEMMA FoundDir ==
  ASSUME NEW d, NEW q, GetDirId(d, q).err = "Ok"
  PROVE  GetDirId(d, q).id \in DOMAIN d.files /\ d.files[GetDirId(d, q).id].file_handle = q
<1> DEFINE ids == HandleIds(d, q)
<1>1. ids # {} /\ GetDirId(d, q).id = CHOOSE j \in ids : TRUE
  BY DEF GetDirId, QueryOne, Done, Fail
<1>2. (CHOOSE j \in ids : TRUE) \in ids
  BY <1>1
<1> QED BY <1>1, <1>2 DEF HandleIds

(* What the row of an id shows.                                            *)
LEMMA RowShown ==
  ASSUME NEW d, NEW k \in DOMAIN d.files, k # ROOT_ID
  PROVE  [p |-> d.files[d.files[k].parent_id].file_handle,
          n |-> d.files[k].name, h |-> d.files[k].file_handle] \in Indexed(d)
BY DEF Indexed

(* And back.                                                               *)
LEMMA ShownRow ==
  ASSUME NEW d, NEW x \in Indexed(d)
  PROVE  \E k \in DOMAIN d.files : /\ k # ROOT_ID /\ d.files[k].file_handle = x.h /\ d.files[k].name = x.n
                                   /\ d.files[d.files[k].parent_id].file_handle = x.p
BY DEF Indexed

(* A row that is made of what the walk has found is placed.                *)
LEMMA NewRowPlaced ==
  ASSUME NEW K, K \subseteq DirEntry, IsTree(K), NEW d, Good(d), Placed(K, d),
         NEW h \in Handle, NEW n \in PathName, NEW pid \in DOMAIN d.files,
         NEW w, w = Created(d, h, n, pid),
         NEW x, x = Shown(d, pid, n, h),
         h \in StableIn(K) => x \in K,
         x.p \in StableIn(K) => \A e \in K : e.p = x.p /\ e.n = n => e.h = h
  PROVE  Placed(K, w)
<1>1. CASE NameIsTaken(d, n, pid)
  BY <1>1, CreateTaken
<1>2. CASE ~NameIsTaken(d, n, pid)
  <2>1. /\ ~NameIsTaken(d, n, pid) /\ Indexed(w) = Indexed(d) \cup {x}
        /\ \E id \in Id \ DOMAIN d.files :
             /\ id # ROOT_ID /\ DOMAIN w.files = DOMAIN d.files \cup {id}
             /\ w.files[id] = [file_handle |-> h, name |-> n, parent_id |-> pid]
             /\ \A k \in DOMAIN d.files : w.files[k] = d.files[k]
    <3>1. RowMade(d, h, n, pid)
      BY <1>2, CreateRow
    <3> QED BY <1>2, <3>1 DEF RowMade
  <2>2. PICK id \in Id \ DOMAIN d.files :
          /\ id # ROOT_ID /\ DOMAIN w.files = DOMAIN d.files \cup {id}
          /\ w.files[id].file_handle = h
          /\ \A k \in DOMAIN d.files : w.files[k] = d.files[k]
    BY <2>1
  <2>3. ROOT_ID \in DOMAIN d.files
    BY DEF Good, Sound, HasRoot
  <2>4. w.files[ROOT_ID].file_handle = Root
    BY <2>2, <2>3 DEF Placed
  <2>5. \A y \in Indexed(w) : y.h \in StableIn(K) => y \in K
    <3>1. x.h = h
      BY DEF Shown
    <3> QED BY <2>1, <3>1 DEF Placed
  <2>6. \A y \in Indexed(w), e \in K : y.p \in StableIn(K) /\ e.p = y.p /\ e.n = y.n => y = e
    <3>1. ASSUME NEW e \in K, x.p \in StableIn(K), e.p = x.p, e.n = x.n PROVE x = e
      <4>1. e = [p |-> e.p, n |-> e.n, h |-> e.h]
        BY DEF DirEntry
      <4> QED BY <3>1, <4>1 DEF Shown
    <3>2. x.n = n
      BY DEF Shown
    <3> QED BY <2>1, <3>1 DEF Placed
  <2>7. ASSUME NEW k \in DOMAIN d.files, d.files[k].file_handle = h, h \in StableIn(K) PROVE FALSE
    <3>1. x \in K /\ x.h = h /\ x.p = d.files[pid].file_handle /\ x.n = n /\ h \in Dirs /\ h # Root
      BY <2>7, RootStable, SystemAssumption DEF IsTree, Shown
    <3>2. k # ROOT_ID
      BY <2>7, <3>1 DEF Placed
    <3> DEFINE y == [p |-> d.files[d.files[k].parent_id].file_handle,
                     n |-> d.files[k].name, h |-> d.files[k].file_handle]
    <3>3. y \in Indexed(d) /\ y.h = h
      BY <2>7, <3>2, RowShown
    <3>4. y = x
      BY <2>7, <3>1, <3>3 DEF Placed, IsTree
    <3>5. d.files[d.files[k].parent_id].file_handle = d.files[pid].file_handle /\ d.files[k].name = n
      BY <3>1, <3>4
    <3>6. d.files[pid].file_handle \in StableIn(K)
      BY <2>7, <3>1, StableEntry
    <3>7. d.files[k].parent_id \in DOMAIN d.files
      BY DEF Good, Sound, NoOrphans
    <3>8. d.files[k].parent_id = pid
      BY <3>5, <3>6, <3>7 DEF Placed
    <3> QED BY <2>1, <3>5, <3>8 DEF NameIsTaken, DirentIds
  <2>8. \A j, k \in DOMAIN w.files :
          w.files[j].file_handle = w.files[k].file_handle /\ w.files[j].file_handle \in StableIn(K) => j = k
    BY <2>2, <2>7 DEF Placed
  <2> QED BY <2>4, <2>5, <2>6, <2>8 DEF Placed
<1> QED BY <1>1, <1>2

(* A kept entry has its row afterwards.                                    *)
LEMMA NewRowShown ==
  ASSUME NEW K, NEW d, Good(d), Placed(K, d), NEW h \in Handle, NEW n \in PathName, NEW pid \in DOMAIN d.files,
         NEW w, w = Created(d, h, n, pid),
         NEW e, e = Shown(d, pid, n, h), e \in K, e.p \in StableIn(K)
  PROVE  e \in Indexed(w)
<1>1. CASE ~NameIsTaken(d, n, pid)
  <2>1. RowMade(d, h, n, pid)
    BY <1>1, CreateRow
  <2>2. e \in Indexed(w)
    BY <2>1 DEF RowMade
  <2> QED BY <2>2
<1>2. CASE NameIsTaken(d, n, pid)
  <2>1. PICK k \in DOMAIN d.files : d.files[k].name = n /\ d.files[k].parent_id = pid
    BY <1>2 DEF NameIsTaken, DirentIds
  <2>2. k # ROOT_ID
    BY <2>1 DEF Good, Sound, HasRoot, PathName
  <2> DEFINE x == [p |-> d.files[d.files[k].parent_id].file_handle,
                   n |-> d.files[k].name, h |-> d.files[k].file_handle]
  <2>3. x \in Indexed(d)
    BY <2>2, RowShown
  <2>4. x.p = e.p /\ x.n = e.n
    BY <2>1 DEF Shown
  <2> HIDE DEF x
  <2>5. x = e
    BY <2>3, <2>4 DEF Placed
  <2>6. w = d
    BY <1>2, CreateTaken
  <2> QED BY <2>3, <2>5, <2>6
<1> QED BY <1>1, <1>2
(* A kept entry that is current has its row next, if what was found above  *)
(* it has its own.                                                         *)
LEMMA ItemShown ==
  ASSUME NEW K, K \subseteq DirEntry, IsTree(K), NEW d, Good(d), Placed(K, d),
         NEW V, NEW fs, NEW it, it.fh \in Handle, Covers(K, d, fs, it, V),
         NEW e \in K, e.p \in V \cap StableIn(K), it.fh = e.h, ItemAt(K, it, e),
         NEW g, g = GetDirId(d, e.p)
  PROVE  g.err = "Ok" /\ e \in Indexed(Created(d, e.h, e.n, g.id))
<1>1. e.h \in Handle /\ e.n \in PathName /\ e = [p |-> e.p, n |-> e.n, h |-> e.h]
  BY DEF DirEntry, PathName
<1>2. \E k \in DOMAIN d.files : d.files[k].file_handle = e.p
  <2>1. CASE e.p = Root
    BY <2>1 DEF Placed, Good, Sound, HasRoot
  <2>2. CASE e.p # Root
    <3>1. PICK y \in K : y.h = e.p /\ y.p \in V /\ Seen(K, d, it, y)
      BY <2>2 DEF Covers
    <3>2. y \in Indexed(d)
      <4>1. y.h # e.h
        <5> SUFFICES ASSUME y.h = e.h PROVE FALSE
          OBVIOUS
        <5>1. e.h \in StableIn(K) /\ e.p = e.h
          BY <3>1
        <5> QED BY <5>1, NoLoop
      <4>2. it.fh # None /\ it.fh # y.h
        BY <4>1, IndexerAssumption
      <4> QED BY <3>1, <4>2 DEF Seen
    <3> QED BY <3>1, <3>2, ShownRow
  <2> QED BY <2>1, <2>2
<1>3. PICK k \in DOMAIN d.files : d.files[k].file_handle = e.p
  BY <1>2
<1>4. g.err = "Ok" /\ g.id = k
  BY <1>3, DirFound
<1>5. e = Shown(d, k, e.n, e.h)
  BY <1>1, <1>3 DEF Shown
<1>6. e \in Indexed(Created(d, e.h, e.n, k))
  BY <1>1, <1>5, NewRowShown
<1> QED BY <1>4, <1>6

(* The parent's path still leads to it, too, if the entry is kept or its   *)
(* directory stable: no other row takes its place.                         *)
LEMMA IndexEntryKeeps ==
  ASSUME Base, WalkInv, IndexEntry, UNCHANGED <<kept, lost>>
  PROVE  WalkInv'
<1> DEFINE front == Front(item.path)
           n == Last(item.path)
           q == CHOOSE h \in Resolved(front) : TRUE
           g == GetDirId(work, q)
           w == Insert(work, item.fh, n, g)
<1>1. /\ running /\ item # None /\ item.fh # None /\ UNCHANGED <<tree, running, frames>>
      /\ Resolved(front) = {} => EntryDone(work)
      /\ Resolved(front) # {} => EntryDone(w)
  BY DEF IndexEntry, runVars, Front, Last
<1>2. /\ item.path \in Seq(PathName) /\ item.path # <<>> /\ item.fh \in Handle
      /\ front \in Seq(PathName) /\ n \in PathName
  BY <1>1, PathsTyped DEF Base
<1>3. /\ Good(work) /\ Placed(kept, work) /\ Taken(kept, item)
      /\ kept \subseteq DirEntry /\ IsTree(kept)
  BY <1>1, PartOfTree DEF Base, Inv, IndexSound, Good, TreeInv, WalkInv, RowsInv, ItemInv
<1>0. Stays' = Stays /\ Stays \in SUBSET kept /\ IsTree(Stays)
  BY StaysKept DEF Stays
<1> HIDE DEF front, n
<1>4. ASSUME NEW e \in kept, ItemAt(kept, item, e) PROVE Resolved(front) = {e.p}
  BY <1>2, <1>4, KeptPath DEF ItemAt, front
<1>7. ASSUME NEW e \in Stays, ItemAt(Stays, item, e) PROVE Resolved(front) = {e.p}
  BY <1>0, <1>2, <1>4, <1>7, StaysAt DEF front
<1>5. CASE Resolved(front) = {}
  <2>1. \A e \in Stays : Seen(Stays, work, item, e) => e \in Indexed(work)
    BY <1>5, <1>7 DEF Seen
  <2> QED BY <1>0, <1>1, <1>3, <1>5, <2>1, EntryDoneKeeps
<1>6. CASE Resolved(front) # {}
  <2>1. q \in Resolved(front)
    BY <1>6
  <2> HIDE DEF q
  <2>2. w = IF g.err = "Ok" THEN Created(work, item.fh, n, g.id) ELSE work
    BY DEF Insert, Created
  <2>3. g.err = "Ok" => g.id \in DOMAIN work.files /\ work.files[g.id].file_handle = q
    BY FoundDir
  <2> HIDE DEF g, w
  <2>4. Placed(kept, w)
    <3>1. CASE g.err # "Ok"
      BY <1>3, <2>2, <3>1
    <3>2. CASE g.err = "Ok"
      <4> DEFINE x == Shown(work, g.id, n, item.fh)
      <4>1. x = [p |-> q, n |-> n, h |-> item.fh]
        BY <2>3, <3>2 DEF Shown
      <4>2. item.fh \in StableIn(kept) => x \in kept
        <5> SUFFICES ASSUME item.fh \in StableIn(kept) PROVE x \in kept
          OBVIOUS
        <5>1. PathTo(kept, item.path, item.fh)
          BY <1>1, <1>3 DEF Taken
        <5>2. PICK c : PathTo(kept, front, c) /\ [p |-> c, n |-> n, h |-> item.fh] \in kept
          BY <1>2, <5>1, PathFront DEF front, n
        <5>3. Resolved(front) = {c}
          BY <1>2, <5>2, KeptPath
        <5> QED BY <2>1, <4>1, <5>2, <5>3
      <4>3. ASSUME x.p \in StableIn(kept), NEW e \in kept, e.p = x.p, e.n = n PROVE e.h = item.fh
        <5>1. PathTo(kept, front, q)
          BY <1>2, <2>1, <4>1, <4>3, PathKept
        <5>2. ItemAt(kept, item, e)
          BY <4>1, <4>3, <5>1 DEF ItemAt, front, n
        <5> QED BY <1>1, <1>3, <5>2 DEF Taken
      <4> HIDE DEF x
      <4>4. w = Created(work, item.fh, n, g.id) /\ g.id \in DOMAIN work.files
        BY <2>2, <2>3, <3>2
      <4> QED BY <1>2, <1>3, <4>2, <4>3, <4>4, NewRowPlaced DEF x
    <3> QED BY <3>1, <3>2
  <2>5. \A e \in Indexed(work) : e \in Indexed(w)
    <3>1. CASE g.err # "Ok"
      BY <2>2, <3>1
    <3>2. CASE g.err = "Ok" /\ NameIsTaken(work, n, g.id)
      BY <2>2, <3>2, CreateTaken
    <3>3. CASE g.err = "Ok" /\ ~NameIsTaken(work, n, g.id)
      <4>1. RowMade(work, item.fh, n, g.id)
        BY <1>2, <1>3, <2>3, <3>3, CreateRow
      <4> QED BY <2>2, <3>3, <4>1 DEF RowMade
    <3> QED BY <3>1, <3>2, <3>3
  <2>6. ASSUME NEW V, Covers(Stays, work, On(frames), item, V),
               NEW e \in Stays, e.p \in V \cap StableIn(Stays), Seen(Stays, work, item, e)
        PROVE  e \in Indexed(w)
    <3>1. CASE e \in Indexed(work)
      BY <2>5, <3>1
    <3>2. CASE e \notin Indexed(work)
      <4>1. item.fh = e.h /\ ItemAt(Stays, item, e)
        BY <1>1, <2>6, <3>2 DEF Seen
      <4>2. e.p = q /\ e.n = n
        BY <1>7, <2>1, <4>1 DEF ItemAt, n
      <4>3. g = GetDirId(work, e.p)
        BY <4>2 DEF g
      <4>4. g.err = "Ok" /\ e \in Indexed(Created(work, e.h, e.n, g.id))
        <5>1. Placed(Stays, work) /\ Stays \subseteq DirEntry
          BY <1>0, <1>3, FewerPlaced
        <5> QED BY <1>0, <1>2, <1>3, <2>6, <4>1, <4>3, <5>1, ItemShown
      <4> QED BY <2>2, <4>1, <4>2, <4>4
    <3> QED BY <3>1, <3>2
  <2> QED BY <1>0, <1>1, <1>6, <2>4, <2>6, EntryDoneKeeps DEF w, g
<1> QED BY <1>5, <1>6

-----------------------------------------------------------------------------
(* Errors *)

(* What a directory that fails still had to hand out does not stay.        *)
LEMMA ReadFailsKeeps ==
  ASSUME Base, WalkInv, ReadFails, UNCHANGED kept, lost' = lost \cup ToCome(Head(frames))
  PROVE  WalkInv'
<1>1. /\ running /\ item = None /\ frames # <<>> /\ frames' = Tail(frames)
      /\ UNCHANGED <<db, work, running, item>>
  BY DEF ReadFails, dbVars, runVars
<1>2. Stays' \in SUBSET Stays /\ \A e \in Stays' : e \notin ToCome(Head(frames))
  BY DEF Stays
<1>3. FramesInv' /\ CoverInv'
  BY <1>1, <1>2, ReadKeeps DEF FramesInv
<1>4. RowsInv' /\ ItemInv'
  BY <1>1 DEF WalkInv, RowsInv, ItemInv
<1> QED BY <1>3, <1>4 DEF WalkInv

(* The current entry does not stay, if it is skipped.                      *)
LEMMA SkipKeeps ==
  ASSUME Base, WalkInv, Skip, UNCHANGED kept, lost' = lost \cup Refused
  PROVE  WalkInv'
<1>1. /\ running /\ item # None /\ EntryDone(work) /\ UNCHANGED <<frames, running>>
  BY DEF Skip, runVars
<1>2. Front(item.path) \in Seq(PathName)
  BY <1>1, PathsTyped DEF Base
<1>3. Stays' \in SUBSET Stays /\ \A e \in Stays' : e \notin Refused
  BY DEF Stays
<1>4. ASSUME NEW e \in Stays', ItemAt(Stays', item, e) PROVE FALSE
  <2>1. PathTo(kept, Front(item.path), e.p)
    <3>1. PathTo(Stays', Front(item.path), e.p)
      BY <1>4 DEF ItemAt
    <3>2. Stays' \in SUBSET kept
      BY <1>3, StaysKept
    <3> QED BY <3>1, <3>2, PathGrows
  <2>2. Resolved(Front(item.path)) = {e.p}
    BY <1>2, <2>1, KeptPath
  <2>3. e \in tree /\ e.n = Last(item.path)
    BY <1>3, <1>4, StaysKept DEF ItemAt
  <2> QED BY <1>3, <2>2, <2>3 DEF Refused, Front, Last
<1>5. \A e \in Stays' : Seen(Stays', work, item, e) => e \in Indexed(work)
  BY <1>4 DEF Seen
<1>6. Placed(kept, work)
  BY <1>1 DEF WalkInv, RowsInv
<1> QED BY <1>1, <1>3, <1>5, <1>6, EntryDoneKeeps

-----------------------------------------------------------------------------
(* The end of a run *)

(* Nothing is to come any more: every stable directory has been found, and *)
(* everything kept in it met, hence has its row.                           *)
LEMMA FinishKeeps ==
  ASSUME Base, WalkInv, Finish, UNCHANGED <<kept, lost>>
  PROVE  WalkInv' /\ StableIndexed'
<1>1. /\ running /\ item = None /\ frames = <<>> /\ db' = work /\ work' = work
      /\ running' = FALSE /\ frames' = <<>> /\ item' = None
  BY DEF Finish, Stopped
<1>2. WalkInv'
  BY <1>1 DEF WalkInv, RowsInv, FramesInv, On, ItemInv, CoverInv
<1>3. PICK V \in SUBSET Dirs : Covers(Stays, work, On(frames), item, V)
  BY <1>1 DEF WalkInv, CoverInv
<1>4. On(frames) = {}
  BY <1>1 DEF On
<1>5. ASSUME NEW e \in Stays, e.p \in V \cap StableIn(Stays)
      PROVE  e \in Indexed(work) /\ (e.h \in Dirs => e.h \in V)
  BY <1>1, <1>3, <1>4, <1>5 DEF Covers, Waits, Seen
<1>6. StableIn(Stays) \subseteq V
  <2> DEFINE S == V \cap StableIn(Stays)
  <2>1. S \in SUBSET Dirs /\ {Root} \subseteq S
    BY <1>3, RootStable DEF Covers
  <2>2. \A e \in Stays : e.p \in S /\ e.h \in Dirs => e.h \in S
    BY <1>5, BelowStable
  <2> HIDE DEF S
  <2>3. StableIn(Stays) \subseteq S
    BY <2>1, <2>2, ReachedLeast DEF StableIn
  <2> QED BY <2>3 DEF S
<1>7. \A e \in Stays : e.p \in StableIn(Stays) => e \in Indexed(work)
  BY <1>5, <1>6
<1>8. StableIndexed'
  BY <1>1, <1>7 DEF Stays, StableIndexed, StableIn
<1> QED BY <1>2, <1>8

(* A run that is killed leaves rows that are placed, and promises no more. *)
LEMMA CrashKeeps ==
  ASSUME Base, WalkInv, Crash, UNCHANGED <<kept, lost>>
  PROVE  WalkInv' /\ StableIndexed'
<1>1. /\ running /\ work' = db /\ db' = db /\ done' = done
      /\ running' = FALSE /\ frames' = <<>> /\ item' = None
  BY DEF Crash, Stopped
<1>2. ~done
  BY <1>1 DEF Base, TreeInv
<1> QED BY <1>1, <1>2 DEF WalkInv, RowsInv, FramesInv, On, ItemInv, CoverInv, StableIndexed

-----------------------------------------------------------------------------
(* What a run leaves behind: the inductive invariant.                      *)
StableInv == Base /\ WalkInv /\ StableIndexed

(* Nothing is kept of nothing.                                             *)
LEMMA InitStable == SystemInit => StableInv
<1> SUFFICES ASSUME SystemInit PROVE StableInv
  OBVIOUS
<1>1. db = EmptyDb /\ ~running /\ ~done /\ frames = <<>> /\ item = None
  BY DEF SystemInit
<1>2. WalkInv /\ StableIndexed
  BY <1>1 DEF WalkInv, RowsInv, FramesInv, On, ItemInv, CoverInv, StableIndexed
<1> QED BY <1>2, InitBase DEF StableInv

(* Every step keeps it.                                                    *)
LEMMA NextStable == StableInv /\ [SystemNext]_allVars => StableInv'
<1> SUFFICES ASSUME StableInv, [SystemNext]_allVars PROVE WalkInv' /\ StableIndexed'
  BY NextBase DEF StableInv
<1>1. Base /\ WalkInv /\ StableIndexed
  BY DEF StableInv
<1>2. CASE Start /\ UNCHANGED kept
  BY <1>1, <1>2, StartKeeps
<1>3. CASE (NextEntry \/ GetFh \/ IndexEntry) /\ UNCHANGED <<kept, lost>>
  <2>1. running /\ done' = done
    BY <1>3 DEF NextEntry, GetFh, IndexEntry, runVars
  <2>2. ~done
    BY <1>1, <2>1 DEF Base, TreeInv
  <2>3. StableIndexed'
    BY <2>1, <2>2 DEF StableIndexed
  <2> QED BY <1>1, <1>3, <2>3, NextEntryKeeps, GetFhKeeps, IndexEntryKeeps
<1>4. CASE Finish /\ UNCHANGED <<kept, lost>>
  BY <1>1, <1>4, FinishKeeps
<1>5. CASE Crash /\ UNCHANGED <<kept, lost>>
  BY <1>1, <1>5, CrashKeeps
<1>6. CASE Programs
  BY <1>1, <1>6, ProgramsKeep
<1>7. CASE UNCHANGED <<vars, fsVars, lost>>
  BY <1>1, <1>7 DEF vars, indexVars, dbVars, runVars, walkVars, fsVars, WalkInv, RowsInv, FramesInv, On,
                    ItemInv, CoverInv, Stays, StableIndexed
<1>8. CASE ReadFails /\ UNCHANGED kept /\ lost' = lost \cup ToCome(Head(frames))
  <2>1. ~done /\ done' = done
    BY <1>1, <1>8 DEF ReadFails, runVars, Base, TreeInv
  <2>2. StableIndexed'
    BY <2>1 DEF StableIndexed
  <2> QED BY <1>1, <1>8, <2>2, ReadFailsKeeps
<1>9. CASE Skip /\ UNCHANGED kept /\ lost' = lost \cup Refused
  <2>1. ~done /\ done' = done
    BY <1>1, <1>9 DEF Skip, runVars, Base, TreeInv
  <2>2. StableIndexed'
    BY <2>1 DEF StableIndexed
  <2> QED BY <1>1, <1>9, <2>2, SkipKeeps
<1>10. Query \/ UNCHANGED allVars => UNCHANGED <<vars, fsVars, lost>>
  BY DEF Query, allVars
<1> QED BY <1>2, <1>3, <1>4, <1>5, <1>6, <1>7, <1>8, <1>9, <1>10 DEF SystemNext, Index, Killed, fsVars

(* An entry that has been at its place since the first run, and the        *)
(* directories above it at theirs, has its row once a run has come to its  *)
(* end in which no error fell on any of them: whatever other programs did  *)
(* around it, whatever else was skipped, and wherever earlier runs skipped *)
(* it or were killed.                                                      *)
THEOREM StableIndexedAlways == SystemSpec => []StableIndexed
<1>1. StableInv => StableIndexed
  BY DEF StableInv
<1> QED BY InitStable, NextStable, <1>1, PTL DEF SystemSpec
-----------------------------------------------------------------------------
(* Rows of what never was *)

(* What has been renamed stays so, and what is below it.                   *)
LEMMA RenamedStays ==
  ASSUME past \subseteq past', NEW h, BelowRenamed(h)
  PROVE  BelowRenamed(h)'
<1>1. \A d : Renamed(d) => Renamed(d)'
  BY DEF Renamed
<1>2. Moved \subseteq Moved'
  <2> DEFINE D == {d \in Dirs : Renamed(d)}
             E == {d \in Dirs : Renamed(d)'}
  <2>1. D \subseteq E
    BY <1>1
  <2>2. Fs!Reached(D, past) \subseteq Fs!Reached(E, past')
    BY <2>1, ReachedGrows
  <2> QED BY <2>2 DEF Moved, Fs!Reached
<1> QED BY <1>1, <1>2 DEF BelowRenamed

(* A directory below a renamed one is what can be reached from one.        *)
LEMMA MovedBelow ==
  ASSUME NEW h \in Dirs, BelowRenamed(h)
  PROVE  h \in Moved
<1> DEFINE D == {d \in Dirs : Renamed(d)}
<1>1. D \in SUBSET Dirs
  OBVIOUS
<1> HIDE DEF D
<1>2. /\ D \subseteq Fs!Reached(D, past)
      /\ \A e \in past : e.p \in Fs!Reached(D, past) /\ e.h \in Dirs => e.h \in Fs!Reached(D, past)
  BY <1>1, ReachedClosed
<1>3. Moved = Fs!Reached(D, past)
  BY DEF Moved, D
<1> QED BY <1>2, <1>3 DEF BelowRenamed, D

(* The rows of d are of what has been in P; a row that shows what never was*)
(* is below a directory that was renamed.                                  *)
KnownRows(d, P) == \A k \in DOMAIN d.files : d.files[k].file_handle \in {Root} \cup Handles(P)
Explained(d) == \A e \in Indexed(d) : e \in past \/ BelowRenamed(e.p)

(* When the current entry's handle was taken, the tree was T and past was P*)
(* (as far as this matters): it was at the end of its path, the rows were  *)
(* of what had been, and what had been and is still there was there.       *)
Before(P, T) ==
  /\ T \subseteq P /\ P \subseteq past /\ IsTree(T) /\ Rooted(P)
  /\ \A x \in tree : x.h \in Handles(P) => x.h \in Handles(T)
  /\ KnownRows(work, P) /\ PathTo(T, item.path, item.fh)

KnownInv ==
  /\ KnownRows(db, past) /\ Explained(db)
  /\ KnownRows(work, past) /\ Explained(work)
BeforeInv == item # None /\ item.fh # None => \E P, T : Before(P, T)
RenamedInv == Base /\ KnownInv /\ BeforeInv

(* Where a path led then and where it leads now: to the same, or below what*)
(* was renamed since, or to something new.                                 *)
LEMMA PathMoves ==
  ASSUME Base, NEW P, NEW T, T \subseteq P, P \subseteq past, IsTree(T), Rooted(P),
         \A x \in tree : x.h \in Handles(P) => x.h \in Handles(T),
         NEW path \in Seq(PathName), NEW c, PathTo(T, path, c), NEW q, PathTo(tree, path, q)
  PROVE  q = c \/ BelowRenamed(q) \/ q \notin TopDirs \cup Handles(P)
<1>1. PICK f : Chain(tree, f, path) /\ f[Len(path)] = q
  BY DEF PathTo
<1>2. PICK g : Chain(T, g, path) /\ g[Len(path)] = c
  BY DEF PathTo
<1>3. /\ tree \subseteq past /\ past \subseteq DirEntry /\ IsTree(tree)
      /\ Len(path) \in Nat
  BY DEF Base, TreeInv
<1> DEFINE MovedTo(k) == f[k] = g[k] \/ BelowRenamed(f[k]) \/ f[k] \notin TopDirs \cup Handles(P)
           S == {k \in Nat : k <= Len(path) => MovedTo(k)}
<1>4. 0 \in S
  BY <1>1, <1>2 DEF Chain
<1>5. ASSUME NEW k \in Nat, k \in S PROVE k + 1 \in S
  <2> SUFFICES ASSUME k + 1 <= Len(path) PROVE MovedTo(k + 1)
    OBVIOUS
  <2>1. k + 1 \in 1 .. Len(path) /\ k <= Len(path) /\ (k + 1) - 1 = k
    BY <1>3
  <2>2. MovedTo(k)
    BY <1>5, <2>1
  <2> DEFINE e == Step(f, path, k + 1)
             y == Step(g, path, k + 1)
  <2>3. e \in tree /\ e.p = f[k] /\ e.h = f[k + 1] /\ e.n = path[k + 1]
    BY <1>1, <2>1 DEF Chain, Step
  <2>4. y \in T /\ y.p = g[k] /\ y.h = g[k + 1] /\ y.n = path[k + 1]
    BY <1>2, <2>1 DEF Chain, Step
  <2> HIDE DEF e, y
  <2>5. e.p \in Dirs /\ e \in past /\ e.h \notin TopDirs
    BY <1>3, <2>3 DEF IsTree, DirEntry
  <2>6. CASE e.h \notin Handles(P)
    BY <2>3, <2>5, <2>6
  <2>7. CASE e.h \in Handles(P)
    <3>1. PICK z \in T : z.h = e.h
      BY <2>3, <2>7 DEF Handles
    <3>2. CASE z # e
      BY <2>3, <2>5, <3>1, <3>2 DEF BelowRenamed, Renamed
    <3>3. CASE z = e
      <4>1. CASE f[k] = g[k]
        BY <2>3, <2>4, <3>3, <4>1 DEF IsTree
      <4>2. CASE BelowRenamed(f[k])
        <5>1. e.p \in Moved
          BY <2>3, <2>5, <4>2, MovedBelow
        <5> QED BY <2>3, <2>5, <5>1 DEF BelowRenamed
      <4>3. CASE f[k] \notin TopDirs \cup Handles(P)
        BY <2>3, <3>3, <4>3 DEF Rooted, Handles
      <4> QED BY <2>2, <4>1, <4>2, <4>3
    <3> QED BY <3>2, <3>3
  <2> QED BY <2>6, <2>7
<1>6. \A k \in Nat : k \in S
  <2> HIDE DEF S
  <2> QED BY <1>4, <1>5, AllNumbers
<1>7. MovedTo(Len(path))
  BY <1>3, <1>6
<1> QED BY <1>1, <1>2, <1>7

(* What holds of the rows also holds when more has been.                   *)
LEMMA MoreKnown ==
  ASSUME past \subseteq past', NEW d
  PROVE  (KnownRows(d, past) => KnownRows(d, past')) /\ (Explained(d) => Explained(d)')
<1>1. \A h : BelowRenamed(h) => BelowRenamed(h)'
  BY RenamedStays
<1>2. Explained(d) => Explained(d)'
  BY <1>1 DEF Explained
<1> QED BY <1>2 DEF KnownRows, Handles

(* A row that is made of the current entry.                                *)
LEMMA NewRowExplained ==
  ASSUME Base, KnownInv, NEW P, NEW T, Before(P, T), running,
         item.path \in Seq(PathName), item.path # <<>>, item.fh \in Handle,
         NEW n, n = Last(item.path), NEW q \in Resolved(Front(item.path)),
         NEW pid \in DOMAIN work.files, work.files[pid].file_handle = q,
         NEW w, w = Created(work, item.fh, n, pid)
  PROVE  KnownRows(w, past) /\ Explained(w)
<1>1. CASE NameIsTaken(work, n, pid)
  <2>1. w = work
    BY <1>1, CreateTaken
  <2> QED BY <2>1 DEF KnownInv
<1>2. CASE ~NameIsTaken(work, n, pid)
  <2>1. Front(item.path) \in Seq(PathName) /\ n \in PathName /\ tree \subseteq DirEntry /\ Good(work)
    BY FrontLast DEF Base, TreeInv, Inv, IndexSound, Good
  <2>2. RowMade(work, item.fh, n, pid)
    BY <1>2, <2>1, CreateRow
  <2> DEFINE x == Shown(work, pid, n, item.fh)
  <2>3. x = [p |-> q, n |-> n, h |-> item.fh]
    BY DEF Shown
  <2> HIDE DEF x
  <2>4. PICK c : PathTo(T, Front(item.path), c) /\ [p |-> c, n |-> n, h |-> item.fh] \in T
    BY PathFront DEF Before
  <2>5. [p |-> c, n |-> n, h |-> item.fh] \in past
    BY <2>4 DEF Before
  <2>6. item.fh \in Handles(past)
    BY <2>5 DEF Handles
  <2>7. q \in TopDirs \cup Handles(P)
    BY SystemAssumption DEF Before, KnownRows
  <2>8. PathTo(tree, Front(item.path), q)
    BY <2>1, ResolvedPath
  <2>9. q = c \/ BelowRenamed(q)
    <3>1. q = c \/ BelowRenamed(q) \/ q \notin TopDirs \cup Handles(P)
      BY <2>1, <2>4, <2>8, PathMoves DEF Before
    <3> QED BY <2>7, <3>1
  <2>10. x \in past \/ BelowRenamed(x.p)
    BY <2>3, <2>5, <2>9
  <2>11. Explained(w)
    <3>1. Indexed(w) = Indexed(work) \cup {x}
      BY <2>2 DEF RowMade, x
    <3> QED BY <2>10, <3>1 DEF KnownInv, Explained
  <2>12. KnownRows(w, past)
    <3>1. PICK id : /\ DOMAIN w.files = DOMAIN work.files \cup {id} /\ w.files[id].file_handle = item.fh
                    /\ \A k \in DOMAIN work.files : w.files[k] = work.files[k]
      BY <2>2 DEF RowMade
    <3> QED BY <2>6, <3>1 DEF KnownInv, KnownRows
  <2> QED BY <2>11, <2>12
<1> QED BY <1>1, <1>2

(* The end of the loop's body.                                             *)
LEMMA EntryDoneRenamed ==
  ASSUME KnownInv, NEW w, EntryDone(w), KnownRows(w, past), Explained(w), UNCHANGED past
  PROVE  KnownInv' /\ BeforeInv'
<1>1. work' = w /\ item' = None /\ (db' = w \/ db' = db)
  BY DEF EntryDone
<1>2. \A h : BelowRenamed(h)' <=> BelowRenamed(h)
  BY DEF BelowRenamed, Moved, Renamed, Fs!Reached
<1> QED BY <1>1, <1>2 DEF KnownInv, KnownRows, Explained, BeforeInv

(* Every step keeps that rows are known and explained.                     *)
LEMMA NextRenamed ==
  ASSUME Base, KnownInv, BeforeInv, [SystemNext]_allVars
  PROVE  KnownInv' /\ BeforeInv'
<1>1. \A h : UNCHANGED past => (BelowRenamed(h)' <=> BelowRenamed(h))
  BY DEF BelowRenamed, Moved, Renamed, Fs!Reached
<1>2. CASE Start /\ UNCHANGED past
  <2>1. /\ EnsureRoot(db, Root).err = "Ok" /\ work' = EnsureRoot(db, Root).db
        /\ item' = None /\ UNCHANGED <<db, past>>
    BY <1>2 DEF Start
  <2>2. db = EmptyDb \/ Good(db)
    BY DEF Base, Inv, IndexSound, Good
  <2>3. \/ work' = db
        \/ DOMAIN work'.files = {ROOT_ID} /\ work'.files[ROOT_ID].file_handle = Root
    BY <2>1, <2>2, EnsureRootResult
  <2>4. DOMAIN work'.files = {ROOT_ID} => Indexed(work') = {}
    BY DEF Indexed
  <2>5. KnownRows(work', past) /\ Explained(work')
    BY <2>3, <2>4 DEF KnownInv, KnownRows, Explained
  <2> QED BY <1>1, <2>1, <2>5 DEF KnownInv, KnownRows, Explained, BeforeInv
<1>3. CASE NextEntry /\ UNCHANGED past
  <2>1. item = None /\ (item' = None \/ item'.fh = None) /\ UNCHANGED <<db, work, past>>
    <3>1. item = None /\ UNCHANGED <<db, work, past>>
      BY <1>3 DEF NextEntry, dbVars
    <3>2. item' = item \/ \E path : item' = [path |-> path, fh |-> None]
      BY <1>3, Zenon DEF NextEntry
    <3> QED BY <3>1, <3>2
  <2> QED BY <1>1, <2>1 DEF KnownInv, KnownRows, Explained, BeforeInv
<1>4. CASE GetFh /\ UNCHANGED past
  <2> DEFINE fh == Resolved(item.path)
  <2>1. running /\ item # None /\ item.fh = None /\ UNCHANGED <<tree, past>>
    BY <1>4 DEF GetFh
  <2>2. CASE fh = {}
    <3>1. EntryDone(work)
      BY <1>4, <2>2 DEF GetFh
    <3> QED BY <2>1, <3>1, EntryDoneRenamed DEF KnownInv
  <2>3. CASE fh # {}
    <3> DEFINE h == CHOOSE h \in fh : TRUE
    <3>1. item' = [item EXCEPT !.fh = h] /\ UNCHANGED <<db, work>>
      BY <1>4, <2>3 DEF GetFh, dbVars
    <3>2. h \in Resolved(item.path)
      BY <2>3
    <3> HIDE DEF h
    <3>3. item'.fh = h /\ item'.path = item.path /\ item.path \in Seq(PathName)
      BY <2>1, <3>1, PathsTyped DEF Base, Inv, IndexerTypeOK, ItemType
    <3>4. PathTo(tree, item.path, h)
      BY <3>2, <3>3, ResolvedPath DEF Base, TreeInv
    <3>5. Before(past, tree)'
      BY <2>1, <3>1, <3>3, <3>4 DEF Before, Base, TreeInv, KnownInv, KnownRows, IsTree, Rooted, Handles
    <3>6. BeforeInv'
      BY <3>5 DEF BeforeInv
    <3>7. KnownInv'
      BY <1>1, <2>1, <3>1 DEF KnownInv, KnownRows, Explained
    <3> QED BY <3>6, <3>7
  <2> QED BY <2>2, <2>3
<1>5. CASE IndexEntry /\ UNCHANGED past
  <2> DEFINE q == CHOOSE h \in Resolved(Front(item.path)) : TRUE
             g == GetDirId(work, q)
             n == Last(item.path)
             w == Insert(work, item.fh, n, g)
  <2>1. /\ running /\ item # None /\ item.fh # None
        /\ Resolved(Front(item.path)) = {} => EntryDone(work)
        /\ Resolved(Front(item.path)) # {} => EntryDone(w)
    BY <1>5 DEF IndexEntry, Front, Last
  <2>2. item.path \in Seq(PathName) /\ item.path # <<>> /\ item.fh \in Handle
    BY <2>1, PathsTyped DEF Base
  <2>3. PICK P, T : Before(P, T)
    BY <2>1 DEF BeforeInv
  <2>4. CASE Resolved(Front(item.path)) = {}
    BY <1>5, <2>1, <2>4, EntryDoneRenamed DEF KnownInv
  <2>5. CASE Resolved(Front(item.path)) # {}
    <3>1. q \in Resolved(Front(item.path))
      BY <2>5
    <3> HIDE DEF q
    <3>2. w = IF g.err = "Ok" THEN Created(work, item.fh, n, g.id) ELSE work
      BY DEF Insert, Created
    <3>3. g.err = "Ok" => g.id \in DOMAIN work.files /\ work.files[g.id].file_handle = q
      BY FoundDir
    <3> HIDE DEF g, w
    <3>4. KnownRows(w, past) /\ Explained(w)
      <4>1. CASE g.err # "Ok"
        BY <3>2, <4>1 DEF KnownInv
      <4>2. CASE g.err = "Ok"
        BY <2>1, <2>2, <2>3, <3>1, <3>2, <3>3, <4>2, NewRowExplained
      <4> QED BY <4>1, <4>2
    <3> QED BY <1>5, <2>1, <2>5, <3>4, EntryDoneRenamed
  <2> QED BY <2>4, <2>5
<1>6. CASE Finish /\ UNCHANGED past
  <2>1. db' = work /\ work' = work /\ item' = None
    BY <1>6 DEF Finish, Stopped
  <2> QED BY <1>1, <1>6, <2>1 DEF KnownInv, KnownRows, Explained, BeforeInv
<1>7. CASE Crash /\ UNCHANGED past
  <2>1. db' = db /\ work' = db /\ item' = None
    BY <1>7 DEF Crash, Stopped
  <2> QED BY <1>1, <1>7, <2>1 DEF KnownInv, KnownRows, Explained, BeforeInv
<1>8. CASE Programs
  <2>1. UNCHANGED <<db, work, item>> /\ past \subseteq past'
        /\ \A x \in tree' : x.h \in Handles(past) => x.h \in Handles(tree)
    BY <1>8, ProgramsResult DEF indexVars, dbVars, walkVars
  <2>2. KnownInv'
    BY <2>1, MoreKnown DEF KnownInv
  <2>3. BeforeInv'
    <3> SUFFICES ASSUME item # None, item.fh # None PROVE \E P, T : Before(P, T)'
      BY <2>1 DEF BeforeInv
    <3>1. PICK P, T : Before(P, T)
      BY DEF BeforeInv
    <3>2. ASSUME NEW x \in tree', x.h \in Handles(P) PROVE x.h \in Handles(T)
      <4>1. Handles(P) \subseteq Handles(past)
        BY <3>1 DEF Before, Handles
      <4>2. PICK y \in tree : y.h = x.h
        BY <2>1, <3>2, <4>1 DEF Handles
      <4> QED BY <3>1, <3>2, <4>2 DEF Before
    <3>3. Before(P, T)'
      BY <2>1, <3>1, <3>2 DEF Before
    <3> QED BY <3>3
  <2> QED BY <2>2, <2>3
<1>13. CASE Skip /\ UNCHANGED past
  BY <1>13, EntryDoneRenamed DEF Skip, KnownInv
<1>14. CASE ReadFails /\ UNCHANGED past
  <2>1. item = None /\ item' = item /\ UNCHANGED <<db, work>>
    BY <1>14 DEF ReadFails, dbVars
  <2> QED BY <1>1, <1>14, <2>1 DEF KnownInv, KnownRows, Explained, BeforeInv
<1>9. CASE UNCHANGED <<vars, fsVars>>
  <2>1. UNCHANGED <<tree, past, db, work, item>>
    BY <1>9 DEF vars, indexVars, dbVars, walkVars, fsVars
  <2> QED BY <1>1, <2>1 DEF KnownInv, KnownRows, Explained, BeforeInv, Before
<1>10. Index => (Start \/ NextEntry \/ ReadFails \/ GetFh \/ IndexEntry \/ Skip \/ Finish) /\ UNCHANGED past
  BY DEF Index, fsVars
<1>11. Killed => Crash /\ UNCHANGED past
  BY DEF Killed, fsVars
<1>12. Query \/ UNCHANGED allVars => UNCHANGED <<vars, fsVars>>
  BY DEF Query, allVars
<1> QED BY <1>2, <1>3, <1>4, <1>5, <1>6, <1>7, <1>8, <1>9, <1>10, <1>11, <1>12, <1>13, <1>14 DEF SystemNext

(* What a row shows, has been: unless it is below a directory that was     *)
(* renamed, when the path of an entry and that of its parent may lead to   *)
(* directories that never had to do with each other.                       *)
THEOREM InventedBelowRenamedAlways == SystemSpec => []InventedBelowRenamed
<1>1. SystemInit => RenamedInv
  <2>1. SystemInit => db = EmptyDb /\ work = EmptyDb /\ item = None
    BY DEF SystemInit
  <2>2. DOMAIN EmptyDb.files = {} /\ Indexed(EmptyDb) = {}
    BY DEF EmptyDb, Indexed
  <2>3. SystemInit => KnownInv /\ BeforeInv
    BY <2>1, <2>2 DEF KnownInv, KnownRows, Explained, BeforeInv
  <2> QED BY <2>3, InitBase DEF RenamedInv
<1>2. RenamedInv /\ [SystemNext]_allVars => RenamedInv'
  BY NextBase, NextRenamed DEF RenamedInv
<1>3. RenamedInv => InventedBelowRenamed
  BY DEF RenamedInv, KnownInv, Explained, InventedBelowRenamed
<1> QED BY <1>1, <1>2, <1>3, PTL DEF SystemSpec

-----------------------------------------------------------------------------
(* Queries *)

(* What the queries rely on: the parent of a row was made before it, in    *)
(* the index and in what the statement of a query reads.                   *)
Readable(d) == d = EmptyDb \/ Walkable(d)

SearchInv ==
  /\ QueryInv
  /\ Ordered(db) /\ Ordered(work)
  /\ phase # "none" => Readable(snap)

LEMMA EmptyOrdered == Ordered(EmptyDb)
BY DEF Ordered, EmptyDb

(* A row has a greater id than the rows that were there, its parent's too. *)
LEMMA CreateOrdered ==
  ASSUME NEW d, Good(d), Ordered(d), NEW fh, NEW n, NEW p \in DOMAIN d.files
  PROVE  Ordered(Create(d, fh, n, p).db)
<1> DEFINE id == NextRowId(d.files)
           row == [file_handle |-> fh, name |-> n, parent_id |-> p]
           new == [k \in DOMAIN d.files \cup {id} |-> IF k = id THEN row ELSE d.files[k]]
           w == Create(d, fh, n, p).db
<1>1. w = d \/ w.files = new
  BY DEF Create, Done, Fail
<1>2. \A k \in DOMAIN d.files : k < id
  BY NextRowIdFresh DEF Good, Sound, IsDb
<1> HIDE DEF id, w
<1>3. \A k \in DOMAIN new : new[k].parent_id = IF k = id THEN p ELSE d.files[k].parent_id
  OBVIOUS
<1> HIDE DEF new
<1>4. DOMAIN new = DOMAIN d.files \cup {id}
  BY DEF new
<1> QED BY <1>1, <1>2, <1>3, <1>4 DEF Ordered, w

LEMMA InsertOrdered ==
  ASSUME NEW d, Good(d), Ordered(d), NEW fh, NEW n, NEW q
  PROVE  Ordered(Insert(d, fh, n, GetDirId(d, q)))
<1>1. CASE GetDirId(d, q).err = "Ok"
  BY <1>1, FoundDir, CreateOrdered DEF Insert
<1>2. CASE GetDirId(d, q).err # "Ok"
  BY <1>2 DEF Insert
<1> QED BY <1>1, <1>2

LEMMA EnsureRootOrdered ==
  ASSUME NEW d, d = EmptyDb \/ Good(d), Ordered(d), EnsureRoot(d, Root).err = "Ok"
  PROVE  Ordered(EnsureRoot(d, Root).db)
<1> DEFINE w == EnsureRoot(d, Root).db
<1>1. w = d \/ DOMAIN w.files = {ROOT_ID}
  BY EnsureRootResult
<1> HIDE DEF w
<1>2. Ordered(w)
  BY <1>1 DEF Ordered
<1> QED BY <1>2 DEF w

(* No step of the indexer makes a row below a later one.                   *)
LEMMA IndexKeepsOrder ==
  ASSUME Base, SearchInv, IndexStep \/ Crash
  PROVE  Ordered(db)' /\ Ordered(work)'
<1>1. /\ Ordered(db) /\ Ordered(work)
      /\ db = EmptyDb \/ Good(db)
      /\ running => Good(work)
  BY DEF SearchInv, Base, Inv, IndexSound, Good
<1>2. ASSUME NEW w, Ordered(w), EntryDone(w) PROVE Ordered(db)' /\ Ordered(work)'
  BY <1>1, <1>2 DEF EntryDone, Ordered
<1>3. CASE Start
  <2> DEFINE w == EnsureRoot(db, Root).db
  <2>1. EnsureRoot(db, Root).err = "Ok" /\ work' = w /\ db' = db
    BY <1>3 DEF Start
  <2>2. Ordered(w)
    BY <1>1, <2>1, EnsureRootOrdered
  <2> HIDE DEF w
  <2> QED BY <1>1, <2>1, <2>2 DEF Ordered
<1>4. CASE NextEntry
  BY <1>1, <1>4 DEF NextEntry, dbVars, Ordered
<1>5. CASE GetFh
  <2>1. EntryDone(work) \/ UNCHANGED <<db, work>>
    BY <1>5 DEF GetFh, dbVars
  <2> QED BY <1>1, <1>2, <2>1 DEF Ordered
<1>6. CASE IndexEntry
  <2> DEFINE p_fh == Resolved(SubSeq(item.path, 1, Len(item.path) - 1))
             q == CHOOSE h \in p_fh : TRUE
             w == Insert(work, item.fh, item.path[Len(item.path)], GetDirId(work, q))
  <2>1. EntryDone(work) \/ EntryDone(w)
    BY <1>6 DEF IndexEntry
  <2>2. Ordered(w)
    BY <1>1, <1>6, InsertOrdered DEF IndexEntry
  <2> HIDE DEF w
  <2> QED BY <1>1, <1>2, <2>1, <2>2
<1>7. CASE Finish \/ Crash
  BY <1>1, <1>7 DEF Finish, Crash, Ordered
<1>8. CASE ReadFails
  BY <1>1, <1>8 DEF ReadFails, dbVars, Ordered
<1>9. CASE Skip
  BY <1>1, <1>2, <1>9 DEF Skip
<1> QED BY <1>3, <1>4, <1>5, <1>6, <1>7, <1>8, <1>9 DEF IndexStep

(* A query that nothing touches stays what it is.                          *)
LEMMA QueryStays ==
  ASSUME QueryInv, UNCHANGED queryVars
  PROVE  QueryInv'
BY QueryNextInv

(* A step of a query: it starts on what the index has left.                *)
LEMMA QueryMoves ==
  ASSUME Base, SearchInv, Query
  PROVE  SearchInv'
<1>1. UNCHANGED <<db, work>>
  BY DEF Query, vars, indexVars, dbVars
<1>2. Ordered(db)' /\ Ordered(work)'
  BY <1>1 DEF SearchInv, Ordered
<1>3. CASE ~running /\ \E q \in Queries : Prepare(q, db)
  <2>1. PICK q \in Queries : Prepare(q, db)
    BY <1>3
  <2>2. db = EmptyDb \/ (Sound(db) /\ Named(db))
    BY DEF Base, Inv, IndexSound
  <2>3. Queried(db) /\ Readable(db)
    BY <2>2 DEF Queried, Readable, Walkable, SearchInv
  <2>4. q \in Seq(Segment) \ {<<>>}
    BY SystemAssumption
  <2>5. QueryInv'
    BY <2>1, <2>3, <2>4, PrepareInv
  <2>6. snap' = db
    BY <2>1 DEF Prepare
  <2>7. Readable(snap)'
    BY <2>3, <2>6 DEF Readable, Walkable, Ordered, Sound, Named, IsDb, HasRoot, NoOrphans, UniqueDirents,
                      SuffixesInSync
  <2> QED BY <1>2, <2>5, <2>7 DEF SearchInv
<1>4. CASE QueryStep
  <2>1. QueryInv'
    BY <1>4, QueryNextInv DEF QueryNext, SearchInv
  <2>2. phase' # "none" => phase # "none" /\ snap' = snap
    BY <1>4 DEF QueryStep, Grow, Run, Close
  <2>3. phase' # "none" => Readable(snap)'
    BY <2>2 DEF SearchInv, Readable, Walkable, Ordered, Sound, Named, IsDb, HasRoot, NoOrphans, UniqueDirents,
                SuffixesInSync
  <2> QED BY <1>2, <2>1, <2>3 DEF SearchInv
<1> QED BY <1>3, <1>4 DEF Query

LEMMA NextSearch ==
  ASSUME Base, SearchInv, [SystemNext]_allVars
  PROVE  SearchInv'
<1>1. CASE UNCHANGED queryVars /\ Ordered(db)' /\ Ordered(work)'
  <2>1. QueryInv'
    BY <1>1, QueryStays DEF SearchInv
  <2>2. phase' # "none" => Readable(snap)'
    BY <1>1 DEF SearchInv, queryVars, Readable, Walkable, Ordered, Sound, Named, IsDb, HasRoot, NoOrphans,
                UniqueDirents, SuffixesInSync
  <2> QED BY <1>1, <2>1, <2>2 DEF SearchInv
<1>2. CASE Index \/ Killed
  BY <1>1, <1>2, IndexKeepsOrder DEF Index, IndexStep, Killed
<1>3. CASE Programs \/ UNCHANGED allVars
  <2>1. UNCHANGED <<db, work, queryVars>>
    BY <1>3 DEF Programs, allVars, vars, indexVars, dbVars
  <2>2. Ordered(db)' /\ Ordered(work)'
    BY <2>1 DEF SearchInv, Ordered
  <2> QED BY <1>1, <2>1, <2>2
<1> QED BY <1>2, <1>3, QueryMoves DEF SystemNext

LEMMA SearchInvariance == SystemSpec => [](Base /\ SearchInv)
<1>1. SystemInit => SearchInv
  <2> SUFFICES ASSUME SystemInit PROVE SearchInv
    OBVIOUS
  <2>1. QueryInv
    BY DEF SystemInit, QueryInit, QueryInv, JoinsCover
  <2>2. Ordered(db) /\ Ordered(work) /\ phase = "none"
    BY EmptyOrdered DEF SystemInit, QueryInit
  <2> QED BY <2>1, <2>2 DEF SearchInv
<1>2. Base /\ SearchInv /\ [SystemNext]_allVars => (Base /\ SearchInv)'
  BY NextBase, NextSearch
<1> QED BY <1>1, <1>2, InitBase, PTL DEF SystemSpec

(* Each path that is printed leads from the root to the row it is printed  *)
(* for, and get_path ends: on whatever a run has left, finished or killed. *)
THEOREM PathsLeadAlways == SystemSpec => []PathsLead
<1>1. Base /\ SearchInv => PathsLead
  BY QueryPathsLead DEF SearchInv, Readable
<1> QED BY <1>1, SearchInvariance, PTL

(* What QuerySqlProofs shows of any database holds of those that are left: *)
(* the join is whole, and finds what was asked for.                        *)
THEOREM SystemFinds == SystemSpec => [](JoinsCover /\ FindsAsked)
<1>1. SearchInv => JoinsCover /\ FindsAsked
  BY QueryFindsAsked DEF SearchInv, QueryInv
<1> QED BY <1>1, SearchInvariance, PTL
=============================================================================
