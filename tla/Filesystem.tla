----------------------------- MODULE Filesystem -----------------------------
(***************************************************************************)
(* The kernel as sqsearch uses it: a filesystem that other programs change *)
(* through system calls, and the fanotify group that create_fanotify_stream*)
(* opens on all of it (CREATE, DELETE, RENAME and OPEN, with the handles   *)
(* of the parent and the target, names, and the thread that did it).       *)
(* Nothing here is code of the repository.                                 *)
(*                                                                         *)
(* An event that is still queued absorbs a later one of the same thread    *)
(* about the same object: the masks are or'ed, the order is lost.          *)
(***************************************************************************)
EXTENDS Naturals, Sequences, FiniteSets

CONSTANTS
  Handle,     (* file handles, never reused                                *)
  Dirs,       (* the handles of directories                                *)
  Symlinks,   (* the handles of symbolic links                             *)
  Unopenable, (* the handles of what open() refuses (sockets: ENXIO)       *)
  Fifos,      (* the handles of named pipes; no other program opens one    *)
  Name,       (* names of directory entries                                *)
  None,
  TopDirs,    (* directories that are never removed or renamed             *)
  InitTree,   (* the entries there are at the start                        *)
  Syscalls,   (* the changes other programs may make                       *)
  OneThread,  (* those one thread makes; each other one has its own thread *)
  MaxOps      (* bound: how many of them are made                          *)

Entry == [p : Dirs, n : Name, h : Handle]

Call ==
  [op : {"create", "link"}, p : Dirs, n : Name, h : Handle]
  \cup [op : {"remove", "open"}, p : Dirs, n : Name]
  \cup [op : {"rename", "exchange"}, p : Dirs, n : Name, q : Dirs, m : Name]

ASSUME FilesystemAssumption ==
  /\ Dirs \subseteq Handle /\ Symlinks \subseteq Handle \ Dirs /\ Unopenable \subseteq Handle \ Dirs
  /\ Fifos \subseteq Handle \ (Dirs \cup Symlinks \cup Unopenable)
  /\ InitTree \subseteq Entry
  /\ TopDirs \subseteq Dirs
  /\ Syscalls \subseteq Call /\ OneThread \subseteq Syscalls
  /\ None \notin Name /\ None \notin [p : Dirs \cup {None}, n : Name \cup {None}, h : Handle]

VARIABLES
  tree,     (* the directory entries: a set of [p, n, h]                   *)
  past,     (* every entry there has been                                  *)
  ops,      (* changes made so far                                         *)
  watched,  (* whether the fanotify group exists                           *)
  evq       (* its event queue                                             *)

fsVars == <<tree, past, ops, watched, evq>>

At(p, n) == {e \in tree : e.p = p /\ e.n = n}
Born(h) == h \in TopDirs \/ \E e \in past : e.h = h
Linked(h) == h \in TopDirs \/ \E e \in tree : e.h = h
Empty(d) == \A e \in tree : e.p # d
Where(e) == [p |-> e.p, n |-> e.n]

(* The directories that can be reached from the directories D through      *)
(* entries T.                                                              *)
Reached(D, T) ==
  {k \in Dirs : \A S \in SUBSET Dirs :
    D \subseteq S /\ (\A e \in T : e.p \in S /\ e.h \in Dirs => e.h \in S) => k \in S}

-----------------------------------------------------------------------------
(* The event queue *)

WalkerTid == 0
UserTid(c) == IF c \in OneThread THEN 1 ELSE ops + 2

(* An open of a directory reports the directory itself, as its own '.';    *)
(* every other event reports the entry (a rename two).                     *)
Reports(ev) ==
  IF "OPEN" \in ev.mask /\ ev.is_dir
  THEN <<ev.tid, ev.fh>>
  ELSE <<ev.tid, ev.fh, ev.is_dir, ev.old, ev.new, "RENAME" \in ev.mask>>

Enqueue(ev, q) ==
  IF \E i \in DOMAIN q : Reports(q[i]) = Reports(ev)
  THEN [i \in DOMAIN q |-> IF Reports(q[i]) = Reports(ev)
                           THEN [q[i] EXCEPT !.mask = @ \cup ev.mask] ELSE q[i]]
  ELSE Append(q, ev)

Ev(type, tid, old, new, h) ==
  [mask |-> {type}, tid |-> tid, old |-> old, new |-> new, fh |-> h, is_dir |-> h \in Dirs]

Notify(ev) == evq' = IF watched THEN Enqueue(ev, evq) ELSE evq

-----------------------------------------------------------------------------
(* System calls of other programs *)

Put(c, h) ==
  /\ At(c.p, c.n) = {} /\ Linked(c.p)
  /\ tree' = tree \cup {[p |-> c.p, n |-> c.n, h |-> h]}
  /\ Notify(Ev("CREATE", UserTid(c), None, [p |-> c.p, n |-> c.n], h))

(* creat, mkdir, symlink, ...                                              *)
Create(c) ==
  /\ c.op = "create" /\ ~Born(c.h)
  /\ Put(c, c.h)

(* link                                                                    *)
Link(c) ==
  /\ c.op = "link" /\ Linked(c.h) /\ c.h \notin Dirs
  /\ Put(c, c.h)

(* unlink, rmdir                                                           *)
Remove(c) ==
  /\ c.op = "remove"
  /\ \E e \in At(c.p, c.n) :
       /\ e.h \notin Dirs \/ Empty(e.h)
       /\ tree' = tree \ {e}
       /\ Notify(Ev("DELETE", UserTid(c), None, Where(e), e.h))

Move(e, q, m) == [p |-> q, n |-> m, h |-> e.h]

(* rename: what the new entry named is replaced, and not reported.         *)
Rename(c) ==
  /\ c.op = "rename" /\ Linked(c.q)
  /\ \E e \in At(c.p, c.n) :
       /\ c.q \notin Reached({e.h} \cap Dirs, tree)
       /\ \A t \in At(c.q, c.m) :
            t.h # e.h /\ (t.h \in Dirs <=> e.h \in Dirs) /\ Empty(t.h)
       /\ tree' = (tree \ ({e} \cup At(c.q, c.m))) \cup {Move(e, c.q, c.m)}
       /\ Notify(Ev("RENAME", UserTid(c), Where(e), [p |-> c.q, n |-> c.m], e.h))

(* renameat2 with RENAME_EXCHANGE: reported as two renames.                *)
Exchange(c) ==
  /\ c.op = "exchange"
  /\ \E e \in At(c.p, c.n), t \in At(c.q, c.m) :
       /\ e.h # t.h
       /\ c.q \notin Reached({e.h} \cap Dirs, tree) /\ c.p \notin Reached({t.h} \cap Dirs, tree)
       /\ tree' = (tree \ {e, t}) \cup {Move(e, c.q, c.m), Move(t, c.p, c.n)}
       /\ evq' = IF watched
                 THEN Enqueue(Ev("RENAME", UserTid(c), Where(t), Where(e), t.h),
                        Enqueue(Ev("RENAME", UserTid(c), Where(e), Where(t), e.h), evq))
                 ELSE evq

(* open: of interest only because the group sees it.                       *)
Open(c) ==
  /\ c.op = "open"
  /\ \E e \in At(c.p, c.n) : e.h \notin Fifos /\ Notify(Ev("OPEN", UserTid(c), None, Where(e), e.h))
  /\ UNCHANGED tree

Syscall(c) ==
  /\ ops < MaxOps /\ ops' = ops + 1
  /\ Create(c) \/ Link(c) \/ Remove(c) \/ Rename(c) \/ Exchange(c) \/ Open(c)
  /\ past' = past \cup tree'
  /\ UNCHANGED watched

FsInit ==
  /\ tree = InitTree
  /\ past = InitTree
  /\ ops = 0 /\ watched = TRUE /\ evq = <<>>
=============================================================================
