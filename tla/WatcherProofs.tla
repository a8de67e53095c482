--------------------------- MODULE WatcherProofs ---------------------------
(***************************************************************************)
(* The watcher as a whole, for every filesystem, every change of it, any   *)
(* number of crashes and SQLite errors, and every filter: types, the index *)
(* tables, and the Reconstructer's stack of parents.                       *)
(***************************************************************************)
EXTENDS Watcher, FiniteSetTheorems, SequenceTheorems, TLAPS

(* What is proved of the database thread on its own.                       *)
Proved == INSTANCE DbWriterProofs
  WITH Name <- Name \cup {RootName}, MaxQueue <- 100, MaxId <- 100, MaxRequests <- 100

-----------------------------------------------------------------------------
(* The database thread of the composition is the one that DbWriterProofs   *)
(* is about, on the reader's events.                                       *)
LEMMA ReaderEvents == Events \subseteq Proved!Event
<1>1. Dirent \subseteq Proved!Dirent /\ Name \subseteq (Name \cup {RootName}) \ {RootName}
  BY FilesystemAssumption, WatcherAssumption DEF Dirent, Proved!Dirent
<1> QED BY <1>1 DEF Events, Proved!Event, Proved!Alter, Proved!Discover

(* Both instances say the same of a database.                              *)
LEMMA SameSound ==
  ASSUME NEW d
  PROVE  /\ Writer!IsDb(d) <=> Proved!IsDb(d)
         /\ Writer!HasRoot(d) <=> Proved!HasRoot(d)
         /\ Writer!NoOrphans(d) <=> Proved!NoOrphans(d)
         /\ Writer!UniqueDirents(d) <=> Proved!UniqueDirents(d)
         /\ Writer!SuffixesInSync(d) <=> Proved!SuffixesInSync(d)
<1>1. Writer!IsDb(d) <=> Proved!IsDb(d)
  BY DEF Writer!IsDb, Proved!IsDb, Writer!Row, Proved!Row, Writer!Id, Proved!Id,
    Writer!IsFiniteSet, Proved!IsFiniteSet
<1>2. Writer!HasRoot(d) <=> Proved!HasRoot(d)
  BY DEF Writer!HasRoot, Proved!HasRoot, Writer!ROOT_ID, Proved!ROOT_ID
<1>3. Writer!NoOrphans(d) <=> Proved!NoOrphans(d)
  BY DEF Writer!NoOrphans, Proved!NoOrphans
<1>4. Writer!UniqueDirents(d) <=> Proved!UniqueDirents(d)
  BY DEF Writer!UniqueDirents, Proved!UniqueDirents
<1>5. Writer!SuffixesInSync(d) <=> Proved!SuffixesInSync(d)
  BY DEF Writer!SuffixesInSync, Proved!SuffixesInSync
<1> QED BY <1>1, <1>2, <1>3, <1>4, <1>5

(* The composition meets what the database thread assumes.                 *)
LEMMA Assumptions == Proved!NamesAssumption /\ Proved!NoneAssumption /\ Proved!DbWriterAssumption
<1>1. Proved!NamesAssumption
  BY WatcherAssumption DEF Proved!NamesAssumption
<1>2. Proved!NoneAssumption
  <2>1. Proved!Entry = Writer!Entry
    BY DEF Proved!Entry, Writer!Entry, Proved!Id, Writer!Id
  <2>2. Proved!Dirent = Writer!Dirent
    BY DEF Proved!Dirent, Writer!Dirent
  <2> QED BY <2>1, <2>2, WatcherAssumption DEF Proved!NoneAssumption
<1>3. Proved!DbWriterAssumption
  BY ReaderEvents, SameSound, WatcherAssumption DEF Proved!DbWriterAssumption, Writer!Sound
<1> QED BY <1>1, <1>2, <1>3

(* Both instances handle an event alike, statement by statement.           *)
LEMMA SameHandleEvent ==
  ASSUME NEW d, NEW e
  PROVE  Writer!HandleEvent(d, e) = Proved!HandleEvent(d, e)
<1>1. \A db1, x : Writer!Fail(db1, x) = Proved!Fail(db1, x) /\ Writer!Done(db1, x) = Proved!Done(db1, x)
  BY DEF Writer!Fail, Proved!Fail, Writer!Done, Proved!Done
<1>2. \A db1, ids : Writer!QueryOne(db1, ids) = Proved!QueryOne(db1, ids)
  BY <1>1 DEF Writer!QueryOne, Proved!QueryOne
<1>3. \A db1, fh : Writer!HandleIds(db1, fh) = Proved!HandleIds(db1, fh)
  BY DEF Writer!HandleIds, Proved!HandleIds
<1>4. \A db1, n, p : Writer!DirentIds(db1, n, p) = Proved!DirentIds(db1, n, p)
  BY DEF Writer!DirentIds, Proved!DirentIds
<1>5. \A db1, fh, n, p : Writer!EntryIds(db1, fh, n, p) = Proved!EntryIds(db1, fh, n, p)
  BY <1>3, <1>4 DEF Writer!EntryIds, Proved!EntryIds
<1>6. \A db1, fh : Writer!GetDirId(db1, fh) = Proved!GetDirId(db1, fh)
  BY <1>2, <1>3 DEF Writer!GetDirId, Proved!GetDirId
<1>7. \A db1, n, p : Writer!GetDirentId(db1, n, p) = Proved!GetDirentId(db1, n, p)
  BY <1>2, <1>4 DEF Writer!GetDirentId, Proved!GetDirentId
<1>8. \A files : Writer!NextRowId(files) = Proved!NextRowId(files)
  BY DEF Writer!NextRowId, Proved!NextRowId
<1>9. \A db1, fh, n, p : Writer!Create(db1, fh, n, p) = Proved!Create(db1, fh, n, p)
  <2> SUFFICES ASSUME NEW db1, NEW fh, NEW n, NEW p
               PROVE  Writer!Create(db1, fh, n, p) = Proved!Create(db1, fh, n, p)
    OBVIOUS
  <2>1. PICK id : id = Writer!NextRowId(db1.files) /\ id = Proved!NextRowId(db1.files)
    BY <1>8
  <2> DEFINE grown == [files |-> [k \in DOMAIN db1.files \cup {id} |->
                                    IF k = id
                                    THEN [file_handle |-> fh, name |-> n, parent_id |-> p]
                                    ELSE db1.files[k]],
                       suffix_array |-> db1.suffix_array \cup (SuffixesOf[n] \X {id})]
  <2>2. Writer!Create(db1, fh, n, p) = IF Writer!DirentIds(db1, n, p) # {} \/ p \notin DOMAIN db1.files \cup {id}
                                       THEN Writer!Fail(db1, "NameTaken") ELSE Writer!Done(grown, id)
    BY <2>1 DEF Writer!Create
  <2>3. Proved!Create(db1, fh, n, p) = IF Proved!DirentIds(db1, n, p) # {} \/ p \notin DOMAIN db1.files \cup {id}
                                       THEN Proved!Fail(db1, "NameTaken") ELSE Proved!Done(grown, id)
    BY <2>1 DEF Proved!Create
  <2> HIDE DEF grown
  <2> QED BY <1>1, <1>4, <2>2, <2>3
<1>10. \A files, id : Writer!Subtree(files, id) = Proved!Subtree(files, id)
  BY DEF Writer!Subtree, Proved!Subtree
<1>11. \A db1, id : Writer!DeleteWithId(db1, id) = Proved!DeleteWithId(db1, id)
  BY <1>1, <1>10 DEF Writer!DeleteWithId, Proved!DeleteWithId
<1>12. \A db1, fh, n, p : Writer!Delete(db1, fh, n, p) = Proved!Delete(db1, fh, n, p)
  BY <1>2, <1>5, <1>11 DEF Writer!Delete, Proved!Delete
<1>13. \A db1, id, n, p : Writer!UpdateRow(db1, id, n, p) = Proved!UpdateRow(db1, id, n, p)
  BY DEF Writer!UpdateRow, Proved!UpdateRow
<1>14. \A db1, fh, n, p, m, q : Writer!Update(db1, fh, n, p, m, q) = Proved!Update(db1, fh, n, p, m, q)
  BY <1>1, <1>2, <1>4, <1>5, <1>13 DEF Writer!Update, Proved!Update
<1>15. \A db1, x : Writer!GetIds(db1, x) = Proved!GetIds(db1, x)
  BY <1>6 DEF Writer!GetIds, Proved!GetIds
<1>16. \A db1, fh, from, to :
         Writer!MoveStatement(db1, fh, from, to) = Proved!MoveStatement(db1, fh, from, to)
  BY <1>1, <1>9, <1>12, <1>14 DEF Writer!MoveStatement, Proved!MoveStatement
<1>17. \A s, fh : Writer!MovePass(s, fh) = Proved!MovePass(s, fh)
  <2> SUFFICES ASSUME NEW s, NEW fh
               PROVE  Writer!MovePass(s, fh) = Proved!MovePass(s, fh)
    OBVIOUS
  <2> DEFINE r1 == Writer!MoveStatement(s.db, fh, s.from, s.to)
             r2 == Proved!MoveStatement(s.db, fh, s.from, s.to)
             q1 == Writer!GetDirentId(s.db, s.to.name, s.to.p_id)
             q2 == Proved!GetDirentId(s.db, s.to.name, s.to.p_id)
             c1 == IF q1.err = "Ok" THEN Writer!DeleteWithId(s.db, q1.id) ELSE q1
             c2 == IF q2.err = "Ok" THEN Proved!DeleteWithId(s.db, q2.id) ELSE q2
             Is(r, c, t) == Proved!PassResult(s, r, c, t)
  <2>1. Is(r1, c1, Writer!MovePass(s, fh))
    BY DEF Writer!MovePass, Proved!PassResult
  <2>2. Is(r2, c2, Proved!MovePass(s, fh))
    BY Assumptions, Proved!MovePassCases
      DEF Proved!NamesAssumption, Proved!NoneAssumption, Proved!DbWriterAssumption
  <2>3. r1 = r2 /\ q1 = q2
    BY <1>7, <1>16
  <2>4. c1 = c2
    BY <1>11, <2>3
  <2>5. \A r, c, t, u : Is(r, c, t) /\ Is(r, c, u) => t = u
    BY DEF Proved!PassResult
  <2> HIDE DEF r1, r2, c1, c2, Is
  <2> QED BY <2>1, <2>2, <2>3, <2>4, <2>5
<1>18. \A S, fh : Writer!Passes(S, fh) = Proved!Passes(S, fh)
  BY <1>17 DEF Writer!Passes, Proved!Passes
<1>19. \A db1, fh, from, to : Writer!MoveLoop(db1, fh, from, to) = Proved!MoveLoop(db1, fh, from, to)
  BY <1>18 DEF Writer!MoveLoop, Proved!MoveLoop
<1>20. Writer!HandleMove(d, e) = Proved!HandleMove(d, e)
  BY <1>15, <1>19 DEF Writer!HandleMove, Proved!HandleMove
<1>21. Writer!HandleDiscover(d, e) = Proved!HandleDiscover(d, e)
  BY <1>6, <1>9 DEF Writer!HandleDiscover, Proved!HandleDiscover
<1> QED BY <1>20, <1>21 DEF Writer!HandleEvent, Proved!HandleEvent

(* The steps of the thread, with the events of the reader.                 *)
LEMMA SameNext ==
  Writer!Thread \/ Writer!SQLiteError \/ Writer!Restart => Proved!Next
<1>1. Writer!Recv => Proved!Recv
  BY DEF Writer!Recv, Proved!Recv
<1>2. Writer!Flush => Proved!Flush
  BY DEF Writer!Flush, Proved!Flush
<1>3. Writer!Apply => Proved!Apply
  BY SameHandleEvent DEF Writer!Apply, Proved!Apply, Writer!EndBatch, Proved!EndBatch
<1>4. Writer!Commit => Proved!Commit
  BY DEF Writer!Commit, Proved!Commit, Writer!EndBatch, Proved!EndBatch
<1>5. Writer!SQLiteError => Proved!SQLiteError
  BY SameHandleEvent DEF Writer!SQLiteError, Proved!SQLiteError, Writer!EndBatch, Proved!EndBatch
<1>6. Writer!Restart => Proved!Restart
  BY DEF Writer!Restart, Proved!Restart
<1> QED BY <1>1, <1>2, <1>3, <1>4, <1>5, <1>6 DEF Writer!Thread, Proved!Next, Proved!Thread

(* Induction over the numbers.                                             *)
LEMMA Induction ==
  ASSUME NEW S, 0 \in S, \A n \in Nat : n \in S => n + 1 \in S
  PROVE  \A n \in Nat : n \in S
BY Assumptions, Proved!AllNumbers
  DEF Proved!NamesAssumption, Proved!NoneAssumption, Proved!DbWriterAssumption


-----------------------------------------------------------------------------
(* The types of the inductive invariant.  An event of another thread names *)
(* a place, and a rename two; one of the walker is an open and nothing     *)
(* else, which merging cannot change.                                      *)
Place == [p : Dirs, n : Name]
Mask == {"CREATE", "DELETE", "RENAME", "OPEN"}
Change ==
  {ev \in [mask : SUBSET Mask, tid : Nat \ {WalkerTid}, old : Place \cup {None}, new : Place,
           fh : Handle, is_dir : BOOLEAN] :
     "RENAME" \in ev.mask => ev.old \in Place}
WalkerOpen ==
  [mask : {{"OPEN"}}, tid : {WalkerTid}, old : {None},
   new : [p : Dirs \cup {None}, n : Name \cup {None}], fh : Handle, is_dir : BOOLEAN]
KernelEvent == Change \cup WalkerOpen

(* A merge keeps the type: the two reports are of one thread, and a rename *)
(* is only merged with a rename of the same two places.                    *)
LEMMA MergeTyped ==
  ASSUME NEW a \in KernelEvent, NEW ev \in KernelEvent,
         \E type \in Mask : ev.mask = {type}, Reports(a) = Reports(ev)
  PROVE  [a EXCEPT !.mask = @ \cup ev.mask] \in KernelEvent
<1>1. a.tid = ev.tid
  <2>1. Reports(a)[1] = a.tid /\ Reports(ev)[1] = ev.tid
    BY DEF Reports
  <2> QED BY <2>1
<1>2. a \in WalkerOpen <=> ev \in WalkerOpen
  BY <1>1 DEF KernelEvent, Change, WalkerOpen
<1>3. CASE a \in WalkerOpen
  BY <1>2, <1>3 DEF KernelEvent, WalkerOpen
<1>4. CASE a \notin WalkerOpen
  <2>1. a \in Change /\ ev \in Change
    BY <1>2, <1>4 DEF KernelEvent
  <2>2. "RENAME" \in ev.mask => "RENAME" \in a.mask
    <3> SUFFICES ASSUME "RENAME" \in ev.mask, "RENAME" \notin a.mask PROVE FALSE
      OBVIOUS
    <3>1. Reports(ev) = <<ev.tid, ev.fh, ev.is_dir, ev.old, ev.new, TRUE>>
      BY DEF Reports
    <3>2. Len(Reports(ev)) = 6 /\ Reports(ev)[6] = TRUE
      BY <3>1
    <3>3. \/ Reports(a) = <<a.tid, a.fh>>
          \/ Reports(a) = <<a.tid, a.fh, a.is_dir, a.old, a.new, FALSE>>
      BY DEF Reports
    <3>4. Len(<<a.tid, a.fh>>) = 2 /\ <<a.tid, a.fh, a.is_dir, a.old, a.new, FALSE>>[6] = FALSE
      OBVIOUS
    <3>5. CASE Reports(a) = <<a.tid, a.fh>>
      <4>1. Len(Reports(a)) = 2
        BY <3>4, <3>5, Zenon
      <4> QED BY <3>2, <4>1
    <3>6. CASE Reports(a) = <<a.tid, a.fh, a.is_dir, a.old, a.new, FALSE>>
      <4>1. Reports(a)[6] = FALSE
        BY <3>4, <3>6, Zenon
      <4> QED BY <3>2, <4>1
    <3> QED BY <3>3, <3>5, <3>6
  <2> QED BY <2>1, <2>2 DEF KernelEvent, Change
<1> QED BY <1>3, <1>4

(* So the queue keeps its type.                                            *)
LEMMA EnqueueTyped ==
  ASSUME NEW q \in Seq(KernelEvent), NEW ev \in KernelEvent,
         \E type \in Mask : ev.mask = {type}
  PROVE  Enqueue(ev, q) \in Seq(KernelEvent)
<1>1. CASE \E i \in DOMAIN q : Reports(q[i]) = Reports(ev)
  <2> DEFINE r == [i \in DOMAIN q |-> IF Reports(q[i]) = Reports(ev)
                                   THEN [q[i] EXCEPT !.mask = @ \cup ev.mask] ELSE q[i]]
  <2>1. \A i \in 1 .. Len(q) : r[i] \in KernelEvent
    BY MergeTyped
  <2>2. r = [i \in 1 .. Len(q) |-> r[i]]
    OBVIOUS
  <2>3. r \in Seq(KernelEvent)
    <3> HIDE DEF r
    <3>1. Len(q) \in Nat
      OBVIOUS
    <3> QED BY <2>1, <2>2, <3>1
  <2> QED BY <1>1, <2>3 DEF Enqueue
<1>2. CASE ~\E i \in DOMAIN q : Reports(q[i]) = Reports(ev)
  BY <1>2 DEF Enqueue
<1> QED BY <1>1, <1>2

(* What other threads do is reported as a change.                          *)
LEMMA ChangeTyped ==
  ASSUME NEW c, ops \in Nat, NEW type \in Mask, NEW old \in Place \cup {None}, NEW new \in Place,
         NEW h \in Handle, type = "RENAME" => old \in Place,
         NEW q \in Seq(KernelEvent)
  PROVE  Enqueue(Ev(type, UserTid(c), old, new, h), q) \in Seq(KernelEvent)
<1> DEFINE ev == Ev(type, UserTid(c), old, new, h)
<1>1. UserTid(c) \in Nat \ {WalkerTid}
  BY DEF UserTid, WalkerTid
<1>2. ev \in Change /\ ev.mask = {type}
  BY <1>1 DEF Ev, Change
<1>3. Enqueue(ev, q) \in Seq(KernelEvent)
  <2> HIDE DEF ev
  <2> QED BY <1>2, EnqueueTyped DEF KernelEvent
<1> QED BY <1>3

(* What the walker opens is reported as an open of the walker.             *)
LEMMA OpenTyped ==
  ASSUME NEW e \in [p : Dirs \cup {None}, n : Name \cup {None}, h : Handle],
         NEW q \in Seq(KernelEvent)
  PROVE  Enqueue(Ev("OPEN", WalkerTid, None, Where(e), e.h), q) \in Seq(KernelEvent)
<1> DEFINE ev == Ev("OPEN", WalkerTid, None, Where(e), e.h)
<1>1. ev \in WalkerOpen /\ ev.mask = {"OPEN"} /\ "OPEN" \in Mask
  BY DEF Ev, WalkerOpen, Where, Mask
<1>2. Enqueue(ev, q) \in Seq(KernelEvent)
  <2> HIDE DEF ev
  <2> QED BY <1>1, EnqueueTyped DEF KernelEvent
<1> QED BY <1>2

-----------------------------------------------------------------------------
(* The types of the filesystem and its queue.                              *)
FsTyped ==
  /\ tree \subseteq past /\ past \subseteq Entry
  /\ ops \in 0 .. MaxOps /\ watched \in BOOLEAN
  /\ evq \in Seq(KernelEvent)

(* A system call keeps the types of the filesystem and its queue.          *)
LEMMA SyscallTyped ==
  ASSUME FsTyped, NEW c \in Syscalls, Syscall(c)
  PROVE  FsTyped'
<1>1. c \in Call
  BY FilesystemAssumption
<1>2. ops \in Nat /\ MaxOps \in Nat /\ evq \in Seq(KernelEvent) /\ tree \subseteq Entry
  BY WatcherAssumption DEF FsTyped
<1>3. \A e \in tree : e.h \in Handle /\ Where(e) \in Place
  BY <1>2 DEF Entry, Where, Place
<1> DEFINE Typed == tree' \subseteq Entry /\ evq' \in Seq(KernelEvent)
<1> SUFFICES Typed
  <2>1. ops' \in 0 .. MaxOps /\ past' = past \cup tree' /\ watched' = watched
    BY <1>2 DEF Syscall
  <2> QED BY <1>2, <2>1 DEF FsTyped
<1>4. ASSUME NEW h \in Handle, Put(c, h), c.op \in {"create", "link"} PROVE Typed
  <2>1. [p |-> c.p, n |-> c.n] \in Place /\ [p |-> c.p, n |-> c.n, h |-> h] \in Entry
    BY <1>1, <1>4 DEF Call, Place, Entry
  <2>2. evq' \in Seq(KernelEvent)
    BY <1>2, <1>4, <2>1, ChangeTyped DEF Put, Notify, Mask
  <2> QED BY <1>2, <1>4, <2>1, <2>2 DEF Put
<1>5. CASE Create(c)
  <2>1. c.op = "create" /\ c.h \in Handle
    BY <1>1, <1>5 DEF Call, Create
  <2> QED BY <1>4, <1>5, <2>1 DEF Create
<1>6. CASE Link(c)
  <2>1. c.op = "link" /\ c.h \in Handle
    BY <1>1, <1>6 DEF Call, Link
  <2> QED BY <1>4, <1>6, <2>1 DEF Link
<1>7. CASE Remove(c)
  <2>1. PICK e \in tree : /\ tree' = tree \ {e}
                          /\ Notify(Ev("DELETE", UserTid(c), None, Where(e), e.h))
    BY <1>7 DEF Remove, At
  <2>2. evq' \in Seq(KernelEvent)
    BY <1>2, <1>3, <2>1, ChangeTyped DEF Notify, Mask
  <2> QED BY <1>2, <2>1, <2>2
<1>8. ASSUME c.op \in {"rename", "exchange"} PROVE [p |-> c.q, n |-> c.m] \in Place
  BY <1>1, <1>8 DEF Call, Place
<1>9. CASE Rename(c)
  <2>1. PICK e \in tree :
          /\ tree' = (tree \ ({e} \cup At(c.q, c.m))) \cup {Move(e, c.q, c.m)}
          /\ Notify(Ev("RENAME", UserTid(c), Where(e), [p |-> c.q, n |-> c.m], e.h))
    BY <1>9 DEF Rename, At
  <2>2. [p |-> c.q, n |-> c.m] \in Place
    BY <1>8, <1>9 DEF Rename
  <2>3. evq' \in Seq(KernelEvent)
    BY <1>2, <1>3, <2>1, <2>2, ChangeTyped DEF Notify, Mask
  <2>4. Move(e, c.q, c.m) \in Entry
    BY <1>3, <2>2 DEF Move, Entry, Place
  <2> QED BY <1>2, <2>1, <2>3, <2>4
<1>10. CASE Exchange(c)
  <2>1. PICK e \in tree, t \in tree :
          /\ tree' = (tree \ {e, t}) \cup {Move(e, c.q, c.m), Move(t, c.p, c.n)}
          /\ evq' = IF watched
                    THEN Enqueue(Ev("RENAME", UserTid(c), Where(t), Where(e), t.h),
                           Enqueue(Ev("RENAME", UserTid(c), Where(e), Where(t), e.h), evq))
                    ELSE evq
    BY <1>10 DEF Exchange, At
  <2>2. [p |-> c.q, n |-> c.m] \in Place /\ [p |-> c.p, n |-> c.n] \in Place
    BY <1>1, <1>8, <1>10 DEF Exchange, Call, Place
  <2>3. Enqueue(Ev("RENAME", UserTid(c), Where(e), Where(t), e.h), evq) \in Seq(KernelEvent)
    BY <1>2, <1>3, ChangeTyped DEF Mask
  <2>4. evq' \in Seq(KernelEvent)
    BY <1>2, <1>3, <2>1, <2>3, ChangeTyped DEF Mask
  <2>5. Move(e, c.q, c.m) \in Entry /\ Move(t, c.p, c.n) \in Entry
    BY <1>3, <2>2 DEF Move, Entry, Place
  <2> QED BY <1>2, <2>1, <2>4, <2>5
<1>11. CASE Open(c)
  <2>1. PICK e \in tree : Notify(Ev("OPEN", UserTid(c), None, Where(e), e.h))
    BY <1>11 DEF Open, At
  <2>2. evq' \in Seq(KernelEvent)
    BY <1>2, <1>3, <2>1, ChangeTyped DEF Notify, Mask
  <2> QED BY <1>2, <1>11, <2>2 DEF Open
<1> QED BY <1>5, <1>6, <1>7, <1>9, <1>10, <1>11 DEF Syscall

-----------------------------------------------------------------------------
(* What the walker may send.                                               *)
Hint == {Begin, PopChildren} \cup {PushChildren(n) : n \in Name}

(* D[i] is the height of the stack after the first i of the hints hs, if   *)
(* it is d now.                                                            *)
Heights(D, hs, d) ==
  /\ D \in [0 .. Len(hs) -> Nat] /\ D[0] = d
  /\ \A i \in 1 .. Len(hs) :
       /\ hs[i].type # "Begin" => D[i - 1] > 0
       /\ D[i] = IF hs[i].type = "PopChildren" THEN D[i - 1] - 1 ELSE D[i - 1] + 1

(* One more hint: there are heights for it, if it does not take the last   *)
(* element that a later hint needs.                                        *)
LEMMA HeightsAppend ==
  ASSUME NEW hs \in Seq(Hint), NEW D, NEW d, Heights(D, hs, d), NEW h \in Hint,
         h.type # "Begin" => D[Len(hs)] > 0
  PROVE  \E E : /\ Heights(E, Append(hs, h), d)
                /\ E[Len(hs) + 1] = IF h.type = "PopChildren" THEN D[Len(hs)] - 1 ELSE D[Len(hs)] + 1
<1> DEFINE n == Len(hs)
           top == IF h.type = "PopChildren" THEN D[n] - 1 ELSE D[n] + 1
           E == [i \in 0 .. n + 1 |-> IF i = n + 1 THEN top ELSE D[i]]
           hh == Append(hs, h)
<1>1. n \in Nat /\ Len(hh) = n + 1 /\ hh[n + 1] = h /\ \A i \in 1 .. n : hh[i] = hs[i]
  OBVIOUS
<1>2. D \in [0 .. n -> Nat] /\ D[0] = d
  BY DEF Heights
<1>3. D[n] \in Nat
  BY <1>1, <1>2
<1>4. top \in Nat
  <2>1. CASE h.type = "PopChildren"
    BY <1>3, <2>1
  <2>2. CASE h.type # "PopChildren"
    BY <1>3, <2>2
  <2> QED BY <2>1, <2>2
<1>5. E \in [0 .. n + 1 -> Nat] /\ E[0] = d /\ E[n + 1] = top /\ \A i \in 0 .. n : E[i] = D[i]
  <2> HIDE DEF top
  <2> QED BY <1>1, <1>2, <1>4
<1>6. ASSUME NEW i \in 1 .. n + 1
      PROVE  /\ hh[i].type # "Begin" => E[i - 1] > 0
             /\ E[i] = IF hh[i].type = "PopChildren" THEN E[i - 1] - 1 ELSE E[i - 1] + 1
  <2>1. CASE i = n + 1
    <3>1. hh[i] = h /\ E[i - 1] = D[n] /\ E[i] = top
      <4> HIDE DEF E, top
      <4> QED BY <1>1, <1>5, <2>1
    <3> QED BY <3>1
  <2>2. CASE i \in 1 .. n
    <3>1. hh[i] = hs[i] /\ E[i - 1] = D[i - 1] /\ E[i] = D[i]
      <4>1. i - 1 \in 0 .. n /\ i \in 0 .. n
        BY <1>1, <2>2
      <4> HIDE DEF E, top
      <4> QED BY <1>1, <1>5, <2>2, <4>1
    <3> HIDE DEF E
    <3> QED BY <2>2, <3>1 DEF Heights
  <2> QED BY <1>1, <2>1, <2>2
<1>7. Heights(E, hh, d)
  <2> HIDE DEF E, hh, top
  <2> QED BY <1>1, <1>5, <1>6 DEF Heights
<1> QED BY <1>5, <1>7

(* The heights of the hints that are left once the first i are used.       *)
LEMMA HeightsRest ==
  ASSUME NEW hs \in Seq(Hint), NEW D, NEW d, Heights(D, hs, d), NEW i \in 1 .. Len(hs)
  PROVE  LET rest == SubSeq(hs, i + 1, Len(hs))
         IN  /\ rest \in Seq(Hint) /\ Len(rest) = Len(hs) - i
             /\ Heights([j \in 0 .. Len(hs) - i |-> D[i + j]], rest, D[i])
<1> DEFINE n == Len(hs)
           rest == SubSeq(hs, i + 1, n)
           E == [j \in 0 .. n - i |-> D[i + j]]
<1>1. n \in Nat /\ i \in Nat /\ i <= n
  OBVIOUS
<1>2. \A j \in i + 1 .. n : hs[j] \in Hint
  BY <1>1
<1>3. /\ rest \in Seq(Hint) /\ Len(rest) = n - i
      /\ \A j \in 1 .. n - i : rest[j] = hs[i + j]
  <2>1. /\ rest \in Seq(Hint) 
        /\ Len(rest) = IF i + 1 <= n THEN n - (i + 1) + 1 ELSE 0
        /\ \A j \in 1 .. n - (i + 1) + 1 : rest[j] = hs[(i + 1) + j - 1]
    BY <1>1, <1>2, SubSeqProperties
  <2> HIDE DEF rest
  <2>2. \A j \in 1 .. n - i : j \in 1 .. n - (i + 1) + 1 /\ (i + 1) + j - 1 = i + j
    BY <1>1
  <2> QED BY <1>1, <2>1, <2>2
<1>4. D \in [0 .. n -> Nat]
  BY DEF Heights
<1>5. E \in [0 .. n - i -> Nat] /\ E[0] = D[i] /\ \A j \in 0 .. n - i : E[j] = D[i + j]
  BY <1>1, <1>4
<1>6. ASSUME NEW j \in 1 .. n - i
      PROVE  /\ rest[j].type # "Begin" => E[j - 1] > 0
             /\ E[j] = IF rest[j].type = "PopChildren" THEN E[j - 1] - 1 ELSE E[j - 1] + 1
  <2>1. i + j \in 1 .. n /\ (i + j) - 1 = i + (j - 1) /\ j - 1 \in 0 .. n - i /\ j \in 0 .. n - i
    BY <1>1
  <2>2. rest[j] = hs[i + j] /\ E[j] = D[i + j] /\ E[j - 1] = D[(i + j) - 1]
    <3> HIDE DEF rest, E
    <3> QED BY <1>3, <1>5, <2>1
  <2> HIDE DEF rest, E
  <2> QED BY <2>1, <2>2 DEF Heights
<1>7. Heights(E, rest, D[i])
  <2> HIDE DEF rest, E
  <2> QED BY <1>3, <1>5, <1>6 DEF Heights
<1> QED BY <1>3, <1>7

(* Among leading PopChildren the stack shrinks by one each time.           *)
LEMMA HeightPopped ==
  ASSUME NEW hs \in Seq(Hint), NEW D, NEW d \in Nat, Heights(D, hs, d), NEW n \in 0 .. Len(hs),
         \A j \in 1 .. n : hs[j].type = "PopChildren"
  PROVE  D[n] = d - n
<1> DEFINE S == {k \in Nat : k <= n => D[k] = d - k}
<1>1. 0 \in S
  BY DEF Heights
<1>2. ASSUME NEW k \in Nat, k \in S PROVE k + 1 \in S
  <2> SUFFICES ASSUME k + 1 <= n PROVE D[k + 1] = d - (k + 1)
    OBVIOUS
  <2>1. k + 1 \in 1 .. n /\ k + 1 \in 1 .. Len(hs) /\ (k + 1) - 1 = k /\ D[k] = d - k
    BY <1>2
  <2>2. D[k + 1] = D[k] - 1
    BY <2>1 DEF Heights
  <2> QED BY <2>1, <2>2
<1>3. n \in S
  <2> HIDE DEF S
  <2> QED BY <1>1, <1>2, Induction
<1> QED BY <1>3

(* Heights are what StackHasParent computes: one up for every hint that is *)
(* not PopChildren, one down for every one that is.                        *)
LEMMA HeightCounted ==
  ASSUME NEW hs \in Seq(Hint), NEW D, NEW d \in Nat, Heights(D, hs, d), NEW n \in 0 .. Len(hs)
  PROVE  D[n] = d + n - 2 * Pops(SubSeq(hs, 1, n))
<1> DEFINE P(k) == {j \in 1 .. k : hs[j].type = "PopChildren"}
           S == {k \in Nat : k <= Len(hs) =>
                  /\ IsFiniteSet(P(k)) /\ Cardinality(P(k)) \in Nat
                  /\ D[k] = d + k - 2 * Cardinality(P(k))}
<1>1. 0 \in S
  <2>1. P(0) = {} /\ D[0] = d
    BY DEF Heights
  <2>2. IsFiniteSet(P(0)) /\ Cardinality(P(0)) = 0
    BY <2>1, FS_EmptySet
  <2> HIDE DEF P
  <2> QED BY <2>1, <2>2
<1>2. ASSUME NEW k \in Nat, k \in S PROVE k + 1 \in S
  <2> SUFFICES ASSUME k + 1 <= Len(hs)
               PROVE  /\ IsFiniteSet(P(k + 1)) /\ Cardinality(P(k + 1)) \in Nat
                      /\ D[k + 1] = d + (k + 1) - 2 * Cardinality(P(k + 1))
    OBVIOUS
  <2>1. /\ IsFiniteSet(P(k)) /\ Cardinality(P(k)) \in Nat
        /\ D[k] = d + k - 2 * Cardinality(P(k))
    BY <1>2
  <2>2. /\ k + 1 \in 1 .. Len(hs) /\ (k + 1) - 1 = k
        /\ D[k + 1] = IF hs[k + 1].type = "PopChildren" THEN D[k] - 1 ELSE D[k] + 1
    <3>1. k + 1 \in 1 .. Len(hs) /\ (k + 1) - 1 = k
      OBVIOUS
    <3> QED BY <3>1 DEF Heights
  <2>3. CASE hs[k + 1].type = "PopChildren"
    <3>1. P(k + 1) = P(k) \cup {k + 1} /\ k + 1 \notin P(k)
      BY <2>3
    <3>2. IsFiniteSet(P(k + 1)) /\ Cardinality(P(k + 1)) = Cardinality(P(k)) + 1
      <4> HIDE DEF P
      <4> QED BY <2>1, <3>1, FS_AddElement
    <3>3. D[k + 1] = D[k] - 1
      BY <2>2, <2>3
    <3>4. ASSUME NEW c \in Nat, D[k] = d + k - 2 * c
          PROVE  D[k + 1] = d + (k + 1) - 2 * (c + 1)
      BY <3>3, <3>4
    <3> HIDE DEF P
    <3> QED BY <2>1, <3>2, <3>4
  <2>4. CASE hs[k + 1].type # "PopChildren"
    <3>1. P(k + 1) = P(k)
      BY <2>4
    <3>2. D[k + 1] = D[k] + 1
      BY <2>2, <2>4
    <3>3. ASSUME NEW c \in Nat, D[k] = d + k - 2 * c
          PROVE  D[k + 1] = d + (k + 1) - 2 * c
      BY <3>2, <3>3
    <3> HIDE DEF P
    <3> QED BY <2>1, <3>1, <3>3, Zenon
  <2> QED BY <2>3, <2>4
<1>3. n \in S
  <2> HIDE DEF S
  <2> QED BY <1>1, <1>2, Induction
<1>4. /\ SubSeq(hs, 1, n) \in Seq(Hint) /\ Len(SubSeq(hs, 1, n)) = n
      /\ \A j \in 1 .. n : SubSeq(hs, 1, n)[j] = hs[j]
  OBVIOUS
<1>5. {i \in DOMAIN SubSeq(hs, 1, n) : SubSeq(hs, 1, n)[i].type = "PopChildren"} = P(n)
  BY <1>4
<1>6. Pops(SubSeq(hs, 1, n)) = Cardinality(P(n))
  BY <1>5 DEF Pops
<1>7. D[n] = d + n - 2 * Cardinality(P(n))
  BY <1>3
<1> QED BY <1>6, <1>7

-----------------------------------------------------------------------------
(* The types of the two threads' own state: a walk's first open is of no   *)
(* entry and starts when nothing is being walked.                          *)
Frame == [dir : Dirs, todo : SUBSET Name]
Walkable == [p : {None}, n : {None}, h : Handle]

WalkTyped ==
  /\ requests \in Seq(Handle) /\ frames \in Seq(Frame)
  /\ \/ fd = None
     \/ fd \in Walkable /\ frames = <<>>
     \/ fd \in Entry /\ frames # <<>>
  /\ hints \in Seq(Hint) /\ stack \in Seq(Handle)

(* The hints sent so far never empty the stack, and leave on it at least   *)
(* the directories that are being walked.                                  *)
Balanced ==
  \E D : Heights(D, hints, Len(stack)) /\ D[Len(hints)] >= Len(frames)

(* What the three kinds of hints are.                                      *)
LEMMA HintTypes ==
  /\ Begin \in Hint /\ PopChildren \in Hint /\ \A n \in Name : PushChildren(n) \in Hint
  /\ Begin.type = "Begin" /\ PopChildren.type = "PopChildren"
  /\ \A n \in Name : PushChildren(n).type = "PushChildren" /\ PushChildren(n).name = n
  /\ \A h \in Hint : h.type \notin {"Begin", "PopChildren"} => h.name \in Name
<1>1. Begin \in Hint /\ PopChildren \in Hint /\ \A n \in Name : PushChildren(n) \in Hint
  BY DEF Hint
<1>2. Begin.type = "Begin" /\ PopChildren.type = "PopChildren"
  BY DEF Begin, PopChildren
<1>3. \A n \in Name : PushChildren(n).type = "PushChildren" /\ PushChildren(n).name = n
  BY DEF PushChildren
<1>4. \A h \in Hint : h.type \notin {"Begin", "PopChildren"} => h.name \in Name
  BY <1>2, <1>3 DEF Hint
<1> QED BY <1>1, <1>2, <1>3, <1>4

(* readdir yields names.                                                   *)
LEMMA ReadDirTyped ==
  ASSUME FsTyped, NEW d \in Dirs
  PROVE  ReadDir(d) \in Frame
<1>1. \A e \in tree : e.n \in Name
  BY DEF FsTyped, Entry
<1> QED BY <1>1 DEF ReadDir, Frame

(* A sequence without its last element.                                    *)
LEMMA FrontTyped ==
  ASSUME NEW S, NEW s \in Seq(S), s # <<>>
  PROVE  /\ LastOf(s) \in S /\ Front(s) \in Seq(S) /\ Len(Front(s)) = Len(s) - 1 /\ Len(s) \in Nat \ {0}
<1>1. Len(s) \in Nat \ {0}
  BY EmptySeq
<1>2. \A i \in 1 .. Len(s) - 1 : s[i] \in S
  BY <1>1
<1> DEFINE n == Len(s) - 1
<1>3. SubSeq(s, 1, n) \in Seq(S) /\ Len(SubSeq(s, 1, n)) = n
  <2>1. n \in Nat
    BY <1>1
  <2>2. SubSeq(s, 1, n) \in Seq(S) /\ Len(SubSeq(s, 1, n)) = IF 1 <= n THEN n - 1 + 1 ELSE 0
    <3> HIDE DEF n
    <3> QED BY <1>2, <2>1, SubSeqProperties DEF n
  <2> HIDE DEF n
  <2> QED BY <2>1, <2>2
<1> QED BY <1>1, <1>3 DEF LastOf, Front

(* walk_fh.                                                                *)
LEMMA OpenRequestInv ==
  ASSUME FsTyped, WalkTyped, Balanced, OpenRequest
  PROVE  FsTyped' /\ WalkTyped' /\ Balanced'
<1> DEFINE h == Head(requests)
           e == [p |-> None, n |-> None, h |-> h]
<1>1. /\ frames = <<>> /\ fd = None /\ requests # <<>> /\ requests' = Tail(requests)
      /\ \/ fd' = e /\ Notify(Ev("OPEN", WalkerTid, None, Where(e), h))
         \/ UNCHANGED <<fd, evq>>
      /\ UNCHANGED <<tree, past, ops, watched, frames, hints, stack>>
  BY DEF OpenRequest
<1>2. h \in Handle /\ requests' \in Seq(Handle)
  BY <1>1 DEF WalkTyped
<1>3. e \in Walkable /\ e \in [p : Dirs \cup {None}, n : Name \cup {None}, h : Handle] /\ e.h = h
  BY <1>2 DEF Walkable
<1>4. evq' \in Seq(KernelEvent)
  <2>1. evq \in Seq(KernelEvent)
    BY DEF FsTyped
  <2> HIDE DEF e
  <2> QED BY <1>1, <1>3, <2>1, OpenTyped DEF Notify
<1>5. FsTyped'
  BY <1>1, <1>4 DEF FsTyped
<1>6. WalkTyped'
  <2> HIDE DEF e
  <2> QED BY <1>1, <1>2, <1>3 DEF WalkTyped
<1>7. Balanced'
  BY <1>1 DEF Balanced
<1> QED BY <1>5, <1>6, <1>7

(* An openat that finds the entry, one that does not, and one that fails.  *)
LEMMA OpenChildInv ==
  ASSUME FsTyped, WalkTyped, Balanced, OpenChild
  PROVE  FsTyped' /\ WalkTyped' /\ Balanced'
<1> DEFINE top == LastOf(frames)
<1>1. PICK n \in top.todo :
        /\ frames' = Append(Front(frames), [top EXCEPT !.todo = @ \ {n}])
        /\ \/ UNCHANGED <<fd, evq>>
           \/ \E e \in At(top.dir, n) :
                fd' = e /\ Notify(Ev("OPEN", WalkerTid, None, Where(e), e.h))
  BY DEF OpenChild
<1>2. frames # <<>> /\ fd = None /\ UNCHANGED <<tree, past, ops, watched, requests, hints, stack>>
  BY DEF OpenChild
<1>3. /\ top \in Frame /\ Front(frames) \in Seq(Frame) /\ Len(Front(frames)) = Len(frames) - 1
      /\ Len(frames) \in Nat \ {0}
  BY <1>2, FrontTyped DEF WalkTyped
<1>4. [top EXCEPT !.todo = @ \ {n}] \in Frame
  BY <1>3 DEF Frame
<1>5. frames' \in Seq(Frame) /\ Len(frames') = Len(frames) /\ frames' # <<>>
  <2> HIDE DEF top
  <2> QED BY <1>1, <1>3, <1>4, AppendProperties
<1>6. evq' \in Seq(KernelEvent) /\ (fd' = None \/ fd' \in Entry)
  <2>1. CASE UNCHANGED <<fd, evq>>
    BY <1>2, <2>1 DEF FsTyped
  <2>2. CASE \E e \in At(top.dir, n) : fd' = e /\ Notify(Ev("OPEN", WalkerTid, None, Where(e), e.h))
    <3>1. PICK e \in tree : fd' = e /\ Notify(Ev("OPEN", WalkerTid, None, Where(e), e.h))
      BY <2>2 DEF At
    <3>2. e \in Entry /\ e \in [p : Dirs \cup {None}, n : Name \cup {None}, h : Handle]
      BY DEF FsTyped, Entry
    <3> QED BY <3>1, <3>2, OpenTyped DEF FsTyped, Notify
  <2> QED BY <1>1, <2>1, <2>2
<1>7. FsTyped'
  BY <1>2, <1>6 DEF FsTyped
<1>8. WalkTyped'
  BY <1>2, <1>5, <1>6 DEF WalkTyped
<1>9. Balanced'
  BY <1>2, <1>5 DEF Balanced
<1> QED BY <1>7, <1>8, <1>9

(* HeightsAppend, for hints_log.                                           *)
LEMMA HintSent ==
  ASSUME WalkTyped, NEW D, Heights(D, hints, Len(stack)), D[Len(hints)] \in Nat,
         NEW h \in Hint, h.type # "Begin" => D[Len(hints)] > 0
  PROVE  /\ Append(hints, h) \in Seq(Hint) /\ Len(Append(hints, h)) = Len(hints) + 1
         /\ \E E : /\ Heights(E, Append(hints, h), Len(stack))
                   /\ E[Len(hints) + 1] =
                        IF h.type = "PopChildren" THEN D[Len(hints)] - 1 ELSE D[Len(hints)] + 1
BY HeightsAppend DEF WalkTyped

(* The hint for a walk starts from any height; the one for a child needs   *)
(* its directory on the stack, which is there because the walk of the      *)
(* directory has not ended.                                                *)
LEMMA SendHintInv ==
  ASSUME FsTyped, WalkTyped, Balanced, SendHint
  PROVE  FsTyped' /\ WalkTyped' /\ Balanced'
<1>1. fd # None /\ fd' = None /\ UNCHANGED <<tree, past, ops, watched, evq, requests, stack>>
  BY DEF SendHint
<1>2. FsTyped'
  BY <1>1 DEF FsTyped
<1>3. PICK D : Heights(D, hints, Len(stack)) /\ D[Len(hints)] >= Len(frames)
  BY DEF Balanced
<1> DEFINE n == Len(hints)
<1>4. n \in Nat /\ Len(frames) \in Nat /\ D[n] \in Nat
  <2>1. n \in Nat /\ Len(frames) \in Nat
    BY DEF WalkTyped
  <2>2. D \in [0 .. n -> Nat]
    BY <1>3 DEF Heights
  <2> HIDE DEF n
  <2> QED BY <2>1, <2>2
<1> SUFFICES hints' \in Seq(Hint) /\ frames' \in Seq(Frame) /\ Balanced'
  BY <1>1, <1>2 DEF WalkTyped
<1>5. CASE fd \in Walkable /\ frames = <<>>
  <2>1. /\ hints' = Append(hints, Begin)
        /\ frames' = IF fd.h \in Dirs THEN <<ReadDir(fd.h)>> ELSE <<>>
    BY <1>5 DEF SendHint, Walkable
  <2>2. frames' \in Seq(Frame) /\ Len(frames') \in 0 .. 1
    BY <2>1, ReadDirTyped
  <2>3. /\ hints' \in Seq(Hint) /\ Len(hints') = n + 1
        /\ \E E : Heights(E, hints', Len(stack)) /\ E[n + 1] = D[n] + 1
    BY <1>3, <1>4, <2>1, HintSent, HintTypes
  <2>4. Balanced'
    <3>1. PICK E : Heights(E, hints', Len(stack)) /\ E[n + 1] = D[n] + 1
      BY <2>3
    <3>2. E[Len(hints')] >= Len(frames')
      <4>1. E[Len(hints')] = D[n] + 1
        BY <2>3, <3>1
      <4>2. D[n] \in Nat /\ Len(frames') \in 0 .. 1
        BY <1>4, <2>2
      <4>3. \A x \in Nat, y \in 0 .. 1 : x + 1 >= y
        OBVIOUS
      <4> HIDE DEF n
      <4> QED BY <4>1, <4>2, <4>3
    <3> QED BY <1>1, <3>1, <3>2 DEF Balanced
  <2> QED BY <2>2, <2>3, <2>4
<1>6. CASE fd \in Entry /\ frames # <<>>
  <2>1. fd.n \in Name /\ fd.n # None
    BY <1>6, FilesystemAssumption DEF Entry
  <2>2. Len(frames) > 0 /\ D[n] > 0
    <3>1. Len(frames) \in Nat \ {0}
      BY <1>6, EmptySeq DEF WalkTyped
    <3> QED BY <1>3, <1>4, <3>1
  <2> DEFINE h == PushChildren(fd.n)
             hs == Append(hints, h)
  <2>3. h \in Hint /\ h.type = "PushChildren"
    BY <2>1, HintTypes
  <2>4. PICK E : Heights(E, hs, Len(stack)) /\ E[n + 1] = D[n] + 1
    <3> HIDE DEF h
    <3> QED BY <1>3, <1>4, <2>2, <2>3, HintSent
  <2>5. hs \in Seq(Hint) /\ Len(hs) = n + 1
    <3> HIDE DEF h
    <3> QED BY <2>3 DEF WalkTyped
  <2>6. CASE fd.h \in Dirs
    <3>1. hints' = hs /\ frames' = Append(frames, ReadDir(fd.h))
      <4>1. hints' = hints \o <<h>>
        BY <2>1, <2>6 DEF SendHint
      <4>2. hints \o <<h>> = hs
        <5> HIDE DEF h
        <5> QED BY <2>3, AppendIsConcat DEF WalkTyped
      <4> QED BY <2>1, <2>6, <4>1, <4>2 DEF SendHint
    <3>2. frames' \in Seq(Frame) /\ Len(frames') = Len(frames) + 1
      BY <2>6, <3>1, ReadDirTyped DEF WalkTyped
    <3>3. Balanced'
      <4>1. E[Len(hs)] >= Len(frames')
        <5> HIDE DEF hs
        <5> QED BY <1>3, <1>4, <2>4, <2>5, <3>2
      <4> HIDE DEF hs
      <4> QED BY <1>1, <2>4, <3>1, <4>1 DEF Balanced
    <3> HIDE DEF hs
    <3> QED BY <2>5, <3>1, <3>2, <3>3
  <2>7. CASE fd.h \notin Dirs
    <3> DEFINE hs2 == Append(hs, PopChildren)
    <3>1. hints' = hs2 /\ frames' = frames
      <4>1. hints' = hints \o <<h, PopChildren>> /\ frames' = frames
        BY <2>1, <2>7 DEF SendHint
      <4>2. hints \o <<h, PopChildren>> = hs2
        <5> HIDE DEF h
        <5> QED BY <2>3, HintTypes DEF WalkTyped
      <4> QED BY <4>1, <4>2
    <3>2. hs2 \in Seq(Hint) /\ Len(hs2) = n + 2
      <4> HIDE DEF hs
      <4> QED BY <1>4, <2>5, HintTypes
    <3>3. PICK F : Heights(F, hs2, Len(stack)) /\ F[n + 2] = D[n]
      <4>1. E[Len(hs)] = D[n] + 1 /\ PopChildren \in Hint /\ PopChildren.type = "PopChildren"
        BY <2>4, <2>5, HintTypes
      <4>2. \E F : Heights(F, hs2, Len(stack)) /\ F[Len(hs) + 1] = E[Len(hs)] - 1
        <5> HIDE DEF hs
        <5> QED BY <1>4, <2>4, <2>5, <4>1, HeightsAppend
      <4>3. Len(hs) + 1 = n + 2 /\ E[Len(hs)] - 1 = D[n]
        <5> HIDE DEF hs
        <5> QED BY <1>4, <2>5, <4>1
      <4> HIDE DEF hs2
      <4> QED BY <4>2, <4>3
    <3>4. Balanced'
      <4> HIDE DEF hs2
      <4> QED BY <1>1, <1>3, <3>1, <3>2, <3>3 DEF Balanced
    <3> HIDE DEF hs2
    <3> QED BY <3>1, <3>2, <3>4 DEF WalkTyped
  <2> QED BY <2>6, <2>7
<1> QED BY <1>1, <1>5, <1>6 DEF WalkTyped

(* The PopChildren at the end of a child's walk takes what the             *)
(* An openat that blocks changes nothing the types or the heights are of.  *)
LEMMA OpenBlocksInv ==
  ASSUME FsTyped, WalkTyped, Balanced, OpenBlocks
  PROVE  FsTyped' /\ WalkTyped' /\ Balanced'
<1>1. UNCHANGED <<fsVars, requests, frames, fd, hints, stack>>
  BY DEF OpenBlocks
<1> QED BY <1>1 DEF FsTyped, WalkTyped, Balanced, fsVars

(* PushChildren before it put there.                                       *)
LEMMA EndDirInv ==
  ASSUME FsTyped, WalkTyped, Balanced, EndDir
  PROVE  FsTyped' /\ WalkTyped' /\ Balanced'
<1>1. /\ frames # <<>> /\ fd = None /\ frames' = Front(frames)
      /\ hints' = IF Len(frames) > 1 THEN Append(hints, PopChildren) ELSE hints
      /\ UNCHANGED <<tree, past, ops, watched, evq, requests, fd, stack>>
  BY DEF EndDir
<1>2. FsTyped'
  BY <1>1 DEF FsTyped
<1>3. frames' \in Seq(Frame) /\ Len(frames') = Len(frames) - 1 /\ Len(frames) \in Nat \ {0}
  BY <1>1, FrontTyped DEF WalkTyped
<1>4. PICK D : Heights(D, hints, Len(stack)) /\ D[Len(hints)] >= Len(frames)
  BY DEF Balanced
<1>5. Len(hints) \in Nat /\ D[Len(hints)] \in Nat
  BY <1>4 DEF WalkTyped, Heights
<1>6. PopChildren \in Hint /\ PopChildren.type = "PopChildren"
  BY HintTypes
<1>7. hints' \in Seq(Hint)
  BY <1>1, <1>6 DEF WalkTyped
<1>8. Balanced'
  <2>1. CASE Len(frames) > 1
    <3>1. D[Len(hints)] > 0 /\ hints' = Append(hints, PopChildren)
      BY <1>1, <1>3, <1>4, <1>5, <2>1
    <3>2. /\ Len(hints') = Len(hints) + 1
          /\ \E E : Heights(E, hints', Len(stack)) /\ E[Len(hints) + 1] = D[Len(hints)] - 1
      BY <1>4, <1>5, <1>6, <3>1, HintSent
    <3>3. D[Len(hints)] - 1 >= Len(frames')
      BY <1>3, <1>4, <1>5
    <3> QED BY <1>1, <3>2, <3>3 DEF Balanced
  <2>2. CASE ~(Len(frames) > 1)
    <3>1. hints' = hints /\ D[Len(hints)] >= Len(frames')
      BY <1>1, <1>3, <1>4, <1>5, <2>2
    <3> QED BY <1>1, <1>4, <3>1 DEF Balanced
  <2> QED BY <2>1, <2>2
<1>9. WalkTyped'
  BY <1>1, <1>3, <1>7 DEF WalkTyped
<1> QED BY <1>2, <1>8, <1>9

(* submit: what is left of the hints fits the new stack, and an open that  *)
(* is not the first of a walk gets a parent.                               *)
LEMMA SubmitResult ==
  ASSUME WalkTyped, Balanced, NEW i \in NextHint, NEW fh \in Handle
  PROVE  LET s == Submit(fh, i)
             rest == SubSeq(hints, i + 1, Len(hints))
         IN  /\ rest \in Seq(Hint) /\ s.stack \in Seq(Handle)
             /\ s.found = None \/ s.found \in [p_fh : Handle, name : Name]
             /\ \E E : Heights(E, rest, Len(s.stack)) /\ E[Len(rest)] >= Len(frames)
<1> DEFINE s == Submit(fh, i)
           rest == SubSeq(hints, i + 1, Len(hints))
           n == Len(hints)
           d == Len(stack)
           below == Popped(i)
<1>1. PICK D : Heights(D, hints, d) /\ D[n] >= Len(frames)
  BY DEF Balanced
<1>2. /\ i \in 1 .. n /\ hints[i].type # "PopChildren"
      /\ \A j \in 1 .. i - 1 : hints[j].type = "PopChildren"
  BY DEF NextHint, WalkTyped
<1>3. n \in Nat /\ d \in Nat /\ i \in Nat /\ i - 1 \in 0 .. n /\ hints \in Seq(Hint)
  BY <1>2 DEF WalkTyped
<1>4. D[i - 1] = d - (i - 1)
  <2> HIDE DEF n, d
  <2> QED BY <1>1, <1>2, <1>3, HeightPopped DEF n
<1>5. D[i - 1] \in Nat
  BY <1>1, <1>3 DEF Heights
<1>6. below \in Seq(Handle) /\ Len(below) = D[i - 1]
  <2>1. d - (i - 1) \in 0 .. d
    BY <1>2, <1>3, <1>4, <1>5
  <2>2. \A j \in 1 .. d - (i - 1) : stack[j] \in Handle
    BY <2>1 DEF WalkTyped
  <2>3. below \in Seq(Handle) /\ Len(below) = IF 1 <= d - (i - 1) THEN d - (i - 1) - 1 + 1 ELSE 0
    BY <1>3, <2>1, <2>2, SubSeqProperties DEF Popped
  <2> HIDE DEF d, below
  <2> QED BY <1>4, <2>1, <2>3, <1>3
<1>7. s.stack \in Seq(Handle) /\ Len(s.stack) = D[i - 1] + 1
  <2>1. s.stack = Append(below, fh)
    BY DEF Submit
  <2> HIDE DEF s, below
  <2> QED BY <1>6, <2>1
<1>8. s.found = None \/ s.found \in [p_fh : Handle, name : Name]
  <2>1. CASE hints[i].type = "Begin"
    BY <2>1 DEF Submit
  <2>2. CASE hints[i].type # "Begin"
    <3>1. D[i - 1] > 0
      BY <1>1, <1>2, <2>2 DEF Heights
    <3>2. LastOf(below) \in Handle
      <4> HIDE DEF below
      <4> QED BY <1>5, <1>6, <3>1 DEF LastOf
    <3>3. hints[i] \in Hint
      BY <1>2, <1>3
    <3>4. hints[i].name \in Name
      BY <1>2, <2>2, <3>3, HintTypes
    <3>5. s.found = [p_fh |-> LastOf(below), name |-> hints[i].name]
      BY <2>2 DEF Submit
    <3> QED BY <3>2, <3>4, <3>5
  <2> QED BY <2>1, <2>2
<1> DEFINE E == [j \in 0 .. n - i |-> D[i + j]]
<1>9. D[i] = Len(s.stack)
  <2>1. D[i] = D[i - 1] + 1
    BY <1>1, <1>2 DEF Heights
  <2> HIDE DEF s
  <2> QED BY <1>7, <2>1
<1>10. rest \in Seq(Hint) /\ Len(rest) = n - i /\ Heights(E, rest, D[i])
  BY <1>1, <1>2, <1>3, HeightsRest
<1>11. E[Len(rest)] >= Len(frames)
  <2>1. E[n - i] = D[i + (n - i)] /\ i + (n - i) = n
    BY <1>2, <1>3
  <2> HIDE DEF E, rest
  <2> QED BY <1>1, <1>10, <2>1
<1> HIDE DEF s, rest, E
<1>12. \E F : Heights(F, rest, Len(s.stack)) /\ F[Len(rest)] >= Len(frames)
  BY <1>9, <1>10, <1>11
<1> QED BY <1>7, <1>8, <1>10, <1>12 DEF s, rest

-----------------------------------------------------------------------------
(* A place names a directory entry.                                        *)
LEMMA KnownTyped == \A w \in Place : Known(w) \in Dirent
BY DEF Place, Known, Dirent

(* An event about places of the kernel is one about entries.               *)
LEMMA AlterTyped ==
  ASSUME NEW ev \in KernelEvent, NEW old \in Dirent \cup {None}, NEW new \in Dirent \cup {None}
  PROVE  <<Alter(old, new, ev)>> \in Seq(Events)
<1>1. ev.fh \in Handle /\ ev.is_dir \in BOOLEAN
  BY DEF KernelEvent, Change, WalkerOpen
<1>2. Alter(old, new, ev) \in Events
  BY <1>1 DEF Alter, Events
<1> QED BY <1>2

(* What the reader sends for a change.                                     *)
LEMMA ChangeReported ==
  ASSUME NEW ev \in Change
  PROVE  /\ Altered(ev) \in Seq(Events)
         /\ "RENAME" \in ev.mask => Renamed(ev) \in Seq(Events)
<1>1. ev \in KernelEvent /\ ev.new \in Place /\ ("RENAME" \in ev.mask => ev.old \in Place)
  BY DEF KernelEvent, Change
<1>2. Altered(ev) \in Seq(Events)
  <2> DEFINE a == IF "CREATE" \in ev.mask THEN <<Alter(None, Known(ev.new), ev)>> ELSE <<>>
             b == IF "DELETE" \in ev.mask THEN <<Alter(Known(ev.new), None, ev)>> ELSE <<>>
  <2>1. a \in Seq(Events) /\ b \in Seq(Events)
    BY <1>1, KnownTyped, AlterTyped
  <2>2. Altered(ev) = <<>> \/ Altered(ev) = a \o b
    BY DEF Altered
  <2>3. a \o b \in Seq(Events) /\ <<>> \in Seq(Events)
    <3> HIDE DEF a, b
    <3> QED BY <2>1
  <2> HIDE DEF a, b
  <2> QED BY <2>2, <2>3, Zenon
<1>3. ASSUME "RENAME" \in ev.mask PROVE Renamed(ev) \in Seq(Events)
  <2> DEFINE old == IF Allow(ev.fh, ev.old.n) THEN Known(ev.old) ELSE None
             new == IF Allow(ev.fh, ev.new.n) THEN Known(ev.new) ELSE None
  <2>1. <<Alter(old, new, ev)>> \in Seq(Events)
    <3>1. old \in Dirent \cup {None} /\ new \in Dirent \cup {None}
      BY <1>1, <1>3, KnownTyped
    <3> HIDE DEF old, new
    <3> QED BY <1>1, <3>1, AlterTyped
  <2>2. Renamed(ev) = <<>> \/ Renamed(ev) = <<Alter(old, new, ev)>>
    BY DEF Renamed
  <2>3. <<>> \in Seq(Events)
    OBVIOUS
  <2> HIDE DEF old, new
  <2> QED BY <2>1, <2>2, <2>3, Zenon
<1> QED BY <1>2, <1>3

(* What the reader sends for an open of the walker.                        *)
LEMMA OpenReported ==
  ASSUME NEW ev \in KernelEvent, NEW found, found = None \/ found \in [p_fh : Handle, name : Name]
  PROVE  Discovered(ev, found) \in Seq(Events)
<1>1. CASE found = None
  BY <1>1 DEF Discovered
<1>2. CASE found \in [p_fh : Handle, name : Name]
  <2>1. ev.fh \in Handle
    BY DEF KernelEvent, Change, WalkerOpen
  <2>2. [type |-> "Discover", p_fh |-> found.p_fh, fh |-> ev.fh, name |-> found.name] \in Events
    BY <1>2, <2>1 DEF Events
  <2> QED BY <2>2 DEF Discovered
<1> QED BY <1>1, <1>2

(* One read of the stream.                                                 *)
LEMMA ReadTyped ==
  ASSUME FsTyped, Read
  PROVE  FsTyped' /\ buf' \in Seq(KernelEvent)
<1> DEFINE n == IF Len(evq) < BufEvents THEN Len(evq) ELSE BufEvents
<1>1. evq \in Seq(KernelEvent) /\ Len(evq) \in Nat
  BY DEF FsTyped
<1>2. n \in 0 .. Len(evq)
  BY <1>1, WatcherAssumption
<1>3. /\ buf' = SubSeq(evq, 1, n) /\ evq' = SubSeq(evq, n + 1, Len(evq))
      /\ UNCHANGED <<tree, past, ops, watched>>
  BY DEF Read
<1>4. \A i \in 1 .. Len(evq) : evq[i] \in KernelEvent
  BY <1>1
<1>5. buf' \in Seq(KernelEvent) /\ evq' \in Seq(KernelEvent)
  <2>1. /\ \A i \in 1 .. n : evq[i] \in KernelEvent
        /\ \A i \in n + 1 .. Len(evq) : evq[i] \in KernelEvent
    BY <1>1, <1>2, <1>4
  <2> HIDE DEF n
  <2> QED BY <1>1, <1>2, <1>3, <2>1, SubSeqProperties
<1> QED BY <1>3, <1>5 DEF FsTyped

(* The reader's send.                                                      *)
LEMMA ReportTyped ==
  ASSUME buf \in Seq(KernelEvent), buf # <<>>, chan \in Seq(Events),
         NEW events \in Seq(Events), Report(events)
  PROVE  /\ chan' \in Seq(Events) /\ buf' \in Seq(KernelEvent)
         /\ UNCHANGED <<fsVars, requests, frames, fd, batch, pos, db, work, crashes>>
BY DEF Report

(* Handling a change keeps the types and leaves hints and stack alone.     *)
LEMMA HandleChangeInv ==
  ASSUME FsTyped, WalkTyped, Balanced, buf \in Seq(KernelEvent), chan \in Seq(Events), HandleChange
  PROVE  /\ FsTyped' /\ WalkTyped' /\ Balanced' /\ buf' \in Seq(KernelEvent) /\ chan' \in Seq(Events)
         /\ UNCHANGED <<requests, batch, pos, db, work, crashes>>
<1> DEFINE ev == Head(buf)
           events == IF ev.mask = {"OPEN"} THEN <<>>
                     ELSE IF "RENAME" \in ev.mask THEN Renamed(ev) ELSE Altered(ev)
<1>1. /\ buf # <<>> /\ ~(ev.mask = {"OPEN"} /\ ev.tid = WalkerTid) /\ Report(events)
      /\ UNCHANGED <<hints, stack>>
  BY DEF HandleChange
<1>2. ev \in Change
  <2>1. ev \in KernelEvent
    BY <1>1
  <2> HIDE DEF ev
  <2> QED BY <1>1, <2>1 DEF KernelEvent, WalkerOpen
<1>3. events \in Seq(Events)
  <2> HIDE DEF ev
  <2> QED BY <1>2, ChangeReported
<1>4. /\ chan' \in Seq(Events) /\ buf' \in Seq(KernelEvent)
      /\ UNCHANGED <<fsVars, requests, frames, fd, batch, pos, db, work, crashes>>
  <2> HIDE DEF events
  <2> QED BY <1>1, <1>3, ReportTyped
<1>5. FsTyped' /\ WalkTyped'
  BY <1>1, <1>4 DEF FsTyped, WalkTyped, fsVars
<1>6. Balanced'
  BY <1>1, <1>4 DEF Balanced
<1> QED BY <1>4, <1>5, <1>6

(* What is handled is an open of the walker, under the handle it reports.  *)
LEMMA OpenRead ==
  ASSUME HandleOpen
  PROVE  /\ buf # <<>> /\ Head(buf).mask = {"OPEN"} /\ Head(buf).tid = WalkerTid
         /\ \E i \in NextHint :
              /\ stack' = Submit(Head(buf).fh, i).stack
              /\ hints' = SubSeq(hints, i + 1, Len(hints))
              /\ Report(Discovered(Head(buf), Submit(Head(buf).fh, i).found))
BY DEF HandleOpen, ReadOpen

(* Handling an open of the walker keeps hints and stack in step.           *)
LEMMA HandleOpenInv ==
  ASSUME FsTyped, WalkTyped, Balanced, buf \in Seq(KernelEvent), chan \in Seq(Events), HandleOpen
  PROVE  /\ FsTyped' /\ WalkTyped' /\ Balanced' /\ buf' \in Seq(KernelEvent) /\ chan' \in Seq(Events)
         /\ UNCHANGED <<requests, batch, pos, db, work, crashes>>
<1> DEFINE ev == Head(buf)
<1>1. PICK i \in NextHint :
        /\ stack' = Submit(ev.fh, i).stack
        /\ hints' = SubSeq(hints, i + 1, Len(hints))
        /\ Report(Discovered(ev, Submit(ev.fh, i).found))
  BY OpenRead
<1>2. buf # <<>>
  BY OpenRead
<1>3. ev \in KernelEvent /\ ev.fh \in Handle
  <2>1. ev \in KernelEvent
    BY <1>2
  <2> HIDE DEF ev
  <2> QED BY <2>1 DEF KernelEvent, Change, WalkerOpen
<1> DEFINE s == Submit(ev.fh, i)
<1>4. /\ hints' \in Seq(Hint) /\ stack' \in Seq(Handle)
      /\ s.found = None \/ s.found \in [p_fh : Handle, name : Name]
      /\ \E E : Heights(E, hints', Len(stack')) /\ E[Len(hints')] >= Len(frames)
  <2> HIDE DEF ev
  <2> QED BY <1>1, <1>3, SubmitResult
<1>5. Discovered(ev, s.found) \in Seq(Events)
  <2> HIDE DEF s, ev
  <2> QED BY <1>3, <1>4, OpenReported
<1>6. /\ chan' \in Seq(Events) /\ buf' \in Seq(KernelEvent)
      /\ UNCHANGED <<fsVars, requests, frames, fd, batch, pos, db, work, crashes>>
  <2> HIDE DEF s, ev
  <2> QED BY <1>1, <1>2, <1>5, ReportTyped DEF s
<1>7. FsTyped'
  BY <1>6 DEF FsTyped, fsVars
<1>8. WalkTyped'
  BY <1>4, <1>6 DEF WalkTyped
<1>9. Balanced'
  BY <1>4, <1>6 DEF Balanced
<1> QED BY <1>6, <1>7, <1>8, <1>9

-----------------------------------------------------------------------------
(* The inductive invariant: types, the stack's heights, and the database   *)
(* thread's invariant.                                                     *)
Inv ==
  /\ FsTyped /\ crashes \in 0 .. MaxCrashes
  /\ buf \in Seq(KernelEvent)
  /\ WalkTyped /\ Balanced
  /\ Proved!Inv

(* A watcher that has just been started.                                   *)
LEMMA EmptyBalanced ==
  ASSUME hints = <<>>, stack = <<>>, frames = <<>>
  PROVE  Balanced
<1> DEFINE D == [i \in 0 .. 0 |-> 0]
<1>1. Heights(D, <<>>, 0) /\ D[0] >= 0
  BY DEF Heights
<1>2. Len(hints) = 0 /\ Len(stack) = 0 /\ Len(frames) = 0
  OBVIOUS
<1> HIDE DEF D
<1> QED BY <1>1, <1>2 DEF Balanced

(* The first state.                                                        *)
LEMMA InitInv == Init => Inv
<1> SUFFICES ASSUME Init PROVE Inv
  OBVIOUS
<1>1. FsTyped /\ crashes \in 0 .. MaxCrashes /\ buf \in Seq(KernelEvent)
  BY FilesystemAssumption, WatcherAssumption DEF Init, FsInit, FsTyped
<1>2. WalkTyped
  BY DEF Init, DiscovererInit, WalkTyped
<1>3. Balanced
  BY EmptyBalanced DEF Init, DiscovererInit
<1>4. Proved!Init
  BY DEF Init, Writer!Init, Proved!Init
<1>5. Proved!Inv
  BY <1>4, Assumptions, Proved!InitInv
    DEF Proved!NamesAssumption, Proved!NoneAssumption, Proved!DbWriterAssumption
<1> QED BY <1>1, <1>2, <1>3, <1>5 DEF Inv

(* A step of the database thread's process.                                *)
LEMMA WriterInv ==
  ASSUME Proved!Inv, Writer!Thread \/ Writer!SQLiteError \/ Writer!Restart
  PROVE  Proved!Inv'
<1>1. Proved!Next
  BY SameNext
<1> QED BY <1>1, Assumptions, Proved!NextInv
          DEF Proved!NamesAssumption, Proved!NoneAssumption, Proved!DbWriterAssumption

(* The steps of the other threads leave it alone but for its queues.       *)
LEMMA QueuesInv ==
  ASSUME Proved!Inv, chan' \in Seq(Events), requests' \in Seq(Handle),
         UNCHANGED <<batch, pos, db, work>>
  PROVE  Proved!Inv'
BY DEF Proved!Inv

(* A process that dies leaves nothing but the database.                    *)
LEMMA DieInv ==
  ASSUME Inv, Die
  PROVE  FsTyped' /\ buf' \in Seq(KernelEvent) /\ WalkTyped' /\ Balanced' /\ Proved!Inv'
<1>1. /\ watched' = FALSE /\ evq' = <<>> /\ buf' = <<>>
      /\ frames' = <<>> /\ fd' = None /\ hints' = <<>> /\ stack' = <<>>
      /\ Writer!Restart /\ UNCHANGED <<tree, past, ops>>
  BY DEF Die
<1>2. Proved!Inv'
  BY <1>1, WriterInv DEF Inv
<1>3. requests' \in Seq(Handle)
  BY <1>2 DEF Proved!Inv
<1>4. <<>> \in Seq(KernelEvent) /\ <<>> \in Seq(Frame) /\ <<>> \in Seq(Hint) /\ <<>> \in Seq(Handle)
  OBVIOUS
<1>5. FsTyped'
  BY <1>1, <1>4 DEF Inv, FsTyped
<1>6. WalkTyped'
  BY <1>1, <1>3, <1>4 DEF WalkTyped
<1>7. Balanced'
  <2>1. Heights([i \in 0 .. 0 |-> 0], <<>>, 0)
    BY DEF Heights
  <2>2. Len(hints') = 0 /\ Len(stack') = 0 /\ Len(frames') = 0
    BY <1>1
  <2> QED BY <1>1, <2>1, <2>2 DEF Balanced
<1> QED BY <1>1, <1>2, <1>4, <1>5, <1>6, <1>7

(* One step of each thread, of other programs, and of systemd.             *)
LEMMA NextInv == Inv /\ [Next]_vars => Inv'
<1> SUFFICES ASSUME Inv, [Next]_vars PROVE Inv'
  OBVIOUS
<1>1. /\ FsTyped /\ crashes \in 0 .. MaxCrashes /\ buf \in Seq(KernelEvent)
      /\ WalkTyped /\ Balanced /\ Proved!Inv
  BY DEF Inv
<1>2. chan \in Seq(Events) /\ requests \in Seq(Handle)
  BY <1>1 DEF Proved!Inv
<1>3. CASE Programs
  <2>1. PICK c \in Syscalls : Syscall(c)
    BY <1>3 DEF Programs
  <2>2. UNCHANGED <<walkVars, writerVars, buf, crashes>>
    BY <1>3 DEF Programs
  <2>3. FsTyped'
    BY <1>1, <2>1, SyscallTyped
  <2>4. WalkTyped' /\ Balanced'
    BY <1>1, <2>2 DEF WalkTyped, Balanced, walkVars
  <2>5. Proved!Inv'
    BY <1>1, <1>2, <2>2, QueuesInv DEF walkVars, writerVars
  <2> QED BY <1>1, <2>2, <2>3, <2>4, <2>5 DEF Inv
<1>4. CASE Read
  <2>1. UNCHANGED <<walkVars, writerVars, crashes>>
    BY <1>4 DEF Read
  <2>2. FsTyped' /\ buf' \in Seq(KernelEvent)
    BY <1>1, <1>4, ReadTyped
  <2>3. WalkTyped' /\ Balanced'
    BY <1>1, <2>1 DEF WalkTyped, Balanced, walkVars
  <2>4. Proved!Inv'
    BY <1>1, <1>2, <2>1, QueuesInv DEF walkVars, writerVars
  <2> QED BY <1>1, <2>1, <2>2, <2>3, <2>4 DEF Inv
<1>5. CASE HandleChange \/ HandleOpen
  <2>1. /\ FsTyped' /\ WalkTyped' /\ Balanced' /\ buf' \in Seq(KernelEvent) /\ chan' \in Seq(Events)
        /\ UNCHANGED <<requests, batch, pos, db, work, crashes>>
    BY <1>1, <1>2, <1>5, HandleChangeInv, HandleOpenInv
  <2>2. Proved!Inv'
    BY <1>1, <1>2, <2>1, QueuesInv
  <2> QED BY <1>1, <2>1, <2>2 DEF Inv
<1>6. CASE WalkerThread
  <2>1. Walk /\ UNCHANGED <<writerVars, buf, crashes>>
    BY <1>6 DEF WalkerThread
  <2>2. FsTyped' /\ WalkTyped' /\ Balanced'
    BY <1>1, <2>1, OpenRequestInv, OpenChildInv, OpenBlocksInv, SendHintInv, EndDirInv DEF Walk
  <2>3. requests' \in Seq(Handle)
    BY <2>2 DEF WalkTyped
  <2>4. Proved!Inv'
    BY <1>1, <1>2, <2>1, <2>3, QueuesInv DEF writerVars
  <2> QED BY <1>1, <2>1, <2>2, <2>4 DEF Inv
<1>7. CASE DbThread \/ DbError
  <2>1. /\ Writer!Thread \/ Writer!SQLiteError
        /\ UNCHANGED <<fsVars, frames, fd, hints, stack, buf, crashes>>
    BY <1>7 DEF DbThread, DbError
  <2>2. Proved!Inv'
    BY <1>1, <2>1, WriterInv
  <2>3. requests' \in Seq(Handle)
    BY <2>2 DEF Proved!Inv
  <2>4. FsTyped' /\ WalkTyped' /\ Balanced'
    BY <1>1, <2>1, <2>3 DEF FsTyped, WalkTyped, Balanced, fsVars
  <2> QED BY <1>1, <2>1, <2>2, <2>4 DEF Inv
<1>8. CASE Crash \/ ReaderPanics
  <2>1. Die
    BY <1>8 DEF Crash, ReaderPanics
  <2>2. crashes' \in 0 .. MaxCrashes
    BY <1>1, <1>8, WatcherAssumption DEF Crash, ReaderPanics
  <2> QED BY <1>1, <2>1, <2>2, DieInv DEF Inv
<1>9. CASE Start
  <2>1. watched' = TRUE
        /\ UNCHANGED <<tree, past, ops, evq, walkVars, writerVars, buf, crashes>>
    BY <1>9 DEF Start
  <2>2. FsTyped' /\ WalkTyped' /\ Balanced'
    BY <1>1, <2>1 DEF FsTyped, WalkTyped, Balanced, walkVars
  <2>3. Proved!Inv'
    BY <1>1, <1>2, <2>1, QueuesInv DEF walkVars, writerVars
  <2> QED BY <1>1, <2>1, <2>2, <2>3 DEF Inv
<1>10. CASE UNCHANGED vars
  <2>1. UNCHANGED <<fsVars, walkVars, writerVars, buf, crashes>>
    BY <1>10 DEF vars
  <2>2. FsTyped' /\ WalkTyped' /\ Balanced'
    BY <1>1, <2>1 DEF FsTyped, WalkTyped, Balanced, fsVars, walkVars
  <2>3. Proved!Inv'
    BY <1>1, <1>2, <2>1, QueuesInv DEF walkVars, writerVars
  <2> QED BY <1>1, <2>1, <2>2, <2>3 DEF Inv
<1> QED BY <1>3, <1>4, <1>5, <1>6, <1>7, <1>8, <1>9, <1>10 DEF Next, FanotifyThread, Idle

(* The invariant holds for ever.                                           *)
LEMMA Invariance == Spec => []Inv
BY InitInv, NextInv, PTL DEF Spec

-----------------------------------------------------------------------------
(* The walker hangs or it does not.                                        *)
HangTyped == blocked \in BOOLEAN

(* Every step keeps that.                                                  *)
LEMMA BlockedTyped == Spec => []HangTyped
<1>1. Init => HangTyped
  BY DEF HangTyped, Init, DiscovererInit
<1>2. HangTyped /\ [Next]_vars => HangTyped'
  <2> SUFFICES ASSUME blocked \in BOOLEAN, [Next]_vars PROVE blocked' \in BOOLEAN
    BY DEF HangTyped
  <2>1. CASE Programs
    BY <2>1 DEF Programs, walkVars
  <2>2. CASE FanotifyThread
    <3>1. CASE Read
      BY <3>1 DEF Read, walkVars
    <3>2. CASE HandleChange
      BY <3>2 DEF HandleChange, Report
    <3>3. CASE HandleOpen
      <4>1. PICK events : Report(events)
        BY <3>3, OpenRead
      <4> QED BY <4>1 DEF Report
    <3>4. CASE ReaderPanics
      BY <3>4 DEF ReaderPanics, Die
    <3> QED BY <2>2, <3>1, <3>2, <3>3, <3>4 DEF FanotifyThread
  <2>3. CASE WalkerThread
    BY <2>3
      DEF WalkerThread, Walk, OpenRequest, OpenChild, OpenBlocks, SendHint, EndDir
  <2>4. CASE DbThread \/ DbError
    BY <2>4 DEF DbThread, DbError
  <2>5. CASE Crash
    BY <2>5 DEF Crash, Die
  <2>6. CASE Start \/ Idle \/ UNCHANGED vars
    BY <2>6 DEF Start, Idle, vars, walkVars
  <2> QED BY <2>1, <2>2, <2>3, <2>4, <2>5, <2>6 DEF Next
<1> QED BY <1>1, <1>2, PTL DEF Spec

(* Types: the reader never sends an event that handle_events cannot take,  *)
(* and the walker is never asked for what is no handle.                    *)
THEOREM WatcherTypeCorrect == Spec => []WatcherTypeOK
<1>1. Inv /\ HangTyped => WatcherTypeOK
  <2> SUFFICES ASSUME Inv, blocked \in BOOLEAN PROVE WatcherTypeOK
    BY DEF HangTyped
  <2>1. Writer!TypeOK
    BY SameSound DEF Inv, Proved!Inv, Proved!Sound, Writer!TypeOK
  <2>2. /\ tree \subseteq past /\ past \subseteq Entry /\ ops \in 0 .. MaxOps
        /\ watched \in BOOLEAN /\ crashes \in 0 .. MaxCrashes
    BY DEF Inv, FsTyped
  <2>3. /\ requests \in Seq(Handle) /\ stack \in Seq(Handle)
        /\ \A i \in DOMAIN frames : frames[i].dir \in Dirs /\ frames[i].todo \subseteq Name
        /\ fd = None \/ fd.h \in Handle
    <3>1. /\ requests \in Seq(Handle) /\ stack \in Seq(Handle) /\ frames \in Seq(Frame)
          /\ fd = None \/ fd \in Walkable \/ fd \in Entry
      BY DEF Inv, WalkTyped
    <3>2. \A i \in DOMAIN frames : frames[i] \in Frame
      BY <3>1
    <3> QED BY <3>1, <3>2 DEF Frame, Walkable, Entry
  <2> QED BY <2>1, <2>2, <2>3 DEF WatcherTypeOK
<1> QED BY <1>1, Invariance, BlockedTyped, PTL

(* Neither expect of submit ("Discover stack bottomed out") ever fails,    *)
(* however the walks end and whatever the queues still hold.               *)
THEOREM StackHasParentAlways == Spec => []StackHasParent
<1>1. Inv => StackHasParent
  <2> SUFFICES ASSUME Inv, NEW i \in DOMAIN hints, hints[i].type # "Begin"
               PROVE  Len(stack) + i - 1 - 2 * Pops(SubSeq(hints, 1, i - 1)) > 0
    BY DEF StackHasParent
  <2>1. PICK D : Heights(D, hints, Len(stack))
    BY DEF Inv, Balanced
  <2>2. hints \in Seq(Hint) /\ Len(stack) \in Nat /\ i \in 1 .. Len(hints) /\ i - 1 \in 0 .. Len(hints)
    BY DEF Inv, WalkTyped
  <2>3. D[i - 1] > 0
    BY <2>1, <2>2 DEF Heights
  <2>4. D[i - 1] = Len(stack) + (i - 1) - 2 * Pops(SubSeq(hints, 1, i - 1))
    BY <2>1, <2>2, HeightCounted
  <2>5. Len(stack) + (i - 1) = Len(stack) + i - 1
    BY <2>2
  <2> QED BY <2>3, <2>4, <2>5
<1> QED BY <1>1, Invariance, PTL

(* Whatever is lost on the way (events while the process is down, batches  *)
(* that fail, walks that end early, reports that are merged), the tables   *)
(* of the index fit together.                                              *)
THEOREM IndexIntactAlways == Spec => []IndexIntact
<1>1. Inv => IndexIntact
  BY SameSound
    DEF Inv, Proved!Inv, Proved!Sound, IndexIntact, Writer!RootStays, Writer!NoOrphanRows,
        Writer!OneRowPerEntry, Writer!IndexMatchesFiles
<1> QED BY <1>1, Invariance, PTL
=============================================================================
