----------------------------- MODULE Discoverer -----------------------------
(***************************************************************************)
(* Discovery (src/discoverer.rs).  A thread of its own walks the           *)
(* directories it is asked for.  Opening an entry makes fanotify report    *)
(* the open between the other changes of the filesystem, which is what     *)
(* orders discovery against them; the report of a directory names neither  *)
(* its parent nor its name, so the walker also logs what it opens (hints), *)
(* and the Reconstructer, on the fanotify thread, matches the two.         *)
(***************************************************************************)
EXTENDS Filesystem

VARIABLES
  requests,  (* request_rx: directories to walk                            *)
  frames,    (* the recursion of walk: [dir, todo], innermost last         *)
  fd,        (* None, or the entry openat just opened                      *)
  blocked,   (* openat waits for the other end of a named pipe             *)
  hints,     (* hints_log                                                  *)
  stack      (* Reconstructer.stack                                        *)

walkVars == <<requests, frames, fd, blocked, hints, stack>>

Begin == [type |-> "Begin"]
PushChildren(n) == [type |-> "PushChildren", name |-> n]
PopChildren == [type |-> "PopChildren"]

DiscovererInit ==
  /\ requests = <<>> /\ frames = <<>> /\ fd = None /\ blocked = FALSE
  /\ hints = <<>> /\ stack = <<>>

Front(s) == SubSeq(s, 1, Len(s) - 1)
LastOf(s) == s[Len(s)]

-----------------------------------------------------------------------------
(* The walker thread *)

(* The entries readdir will yield: one read of the directory gets them.    *)
ReadDir(d) == [dir |-> d, todo |-> {e.n : e \in {x \in tree : x.p = d}}]

(* walk_fh: open_by_handle_at fails with ESTALE for a directory that is    *)
(* gone.  (Only directories are requested: is_dir.)                        *)
OpenRequest ==
  /\ frames = <<>> /\ fd = None /\ requests # <<>>
  /\ requests' = Tail(requests)
  /\ LET h == Head(requests)
         e == [p |-> None, n |-> None, h |-> h]
     IN  IF Linked(h)
         THEN fd' = e /\ Notify(Ev("OPEN", WalkerTid, None, Where(e), h))
         ELSE UNCHANGED <<fd, evq>>
  /\ UNCHANGED <<tree, past, ops, watched, frames, blocked, hints, stack>>

(* openat of the next entry n: ENOENT if it is gone, ELOOP for a symbolic  *)
(* link; both go on with the next entry.                                   *)
OpenChild ==
  /\ frames # <<>> /\ fd = None /\ ~blocked
  /\ \E n \in LastOf(frames).todo :
       LET top == LastOf(frames)
           found == {e \in At(top.dir, n) : e.h \notin Symlinks}
       IN  /\ \A e \in found : e.h \notin Unopenable \cup Fifos
           /\ frames' = Append(Front(frames), [top EXCEPT !.todo = @ \ {n}])
           /\ IF found = {} THEN UNCHANGED <<fd, evq>>
              ELSE \E e \in found : fd' = e /\ Notify(Ev("OPEN", WalkerTid, None, Where(e), e.h))
  /\ UNCHANGED <<tree, past, ops, watched, requests, blocked, hints, stack>>

(* Without O_NONBLOCK, openat of a named pipe returns when another program *)
(* opens it for writing, and none does: not even once the name is gone.    *)
OpenBlocks ==
  /\ frames # <<>> /\ fd = None /\ ~blocked
  /\ \E n \in LastOf(frames).todo : \E e \in At(LastOf(frames).dir, n) : e.h \in Fifos
  /\ blocked' = TRUE
  /\ UNCHANGED <<fsVars, requests, frames, fd, hints, stack>>

\* Mutant of EndDir: the walk of a child is not followed by PopChildren.
EndDirSilently ==
  /\ frames # <<>> /\ fd = None /\ ~blocked
  /\ LET top == LastOf(frames)
     IN  top.todo = {} \/ \E n \in top.todo : \E e \in At(top.dir, n) : e.h \in Unopenable
  /\ frames' = Front(frames)
  /\ UNCHANGED <<tree, past, ops, watched, evq, requests, fd, blocked, hints, stack>>

(* walk returns: at the end of the directory, or with the error of an      *)
(* openat, the entries that are left unread.  Only the walk of a child is  *)
(* followed by PopChildren.                                                *)
EndDir ==
  /\ frames # <<>> /\ fd = None /\ ~blocked
  /\ LET top == LastOf(frames)
     IN  top.todo = {} \/ \E n \in top.todo : \E e \in At(top.dir, n) : e.h \in Unopenable
  /\ frames' = Front(frames)
  /\ hints' = IF Len(frames) > 1 THEN Append(hints, PopChildren) ELSE hints
  /\ UNCHANGED <<tree, past, ops, watched, evq, requests, fd, blocked, stack>>

\* Mutant of SendHint: no hint for what is no directory.
SendHintForDirs ==
  /\ fd # None /\ fd' = None
  /\ IF fd.n = None THEN hints' = Append(hints, Begin) /\ frames' = <<ReadDir(fd.h)>>
     ELSE IF fd.h \in Dirs
     THEN hints' = Append(hints, PushChildren(fd.n)) /\ frames' = Append(frames, ReadDir(fd.h))
     ELSE UNCHANGED <<hints, frames>>
  /\ UNCHANGED <<tree, past, ops, watched, evq, requests, blocked, stack>>

\* Mutant of SendHint: the walk of a file pops twice.
SendHintTwice ==
  /\ fd # None /\ fd' = None
  /\ IF fd.n = None THEN hints' = Append(hints, Begin) /\ frames' = <<ReadDir(fd.h)>>
     ELSE IF fd.h \in Dirs
     THEN hints' = Append(hints, PushChildren(fd.n)) /\ frames' = Append(frames, ReadDir(fd.h))
     ELSE /\ hints' = hints \o <<PushChildren(fd.n), PopChildren, PopChildren>>
          /\ UNCHANGED frames
  /\ UNCHANGED <<tree, past, ops, watched, evq, requests, blocked, stack>>

(* The hint for what was opened, and, for a directory, the walk of it;     *)
(* the walk of a file ends at once (ENOTDIR).                              *)
SendHint ==
  /\ fd # None /\ fd' = None
  /\ IF fd.n = None
     THEN /\ hints' = Append(hints, Begin)
          /\ frames' = IF fd.h \in Dirs THEN <<ReadDir(fd.h)>> ELSE <<>>
     ELSE /\ hints' = hints \o IF fd.h \in Dirs THEN <<PushChildren(fd.n)>>
                               ELSE <<PushChildren(fd.n), PopChildren>>
          /\ frames' = IF fd.h \in Dirs THEN Append(frames, ReadDir(fd.h)) ELSE frames
  /\ UNCHANGED <<tree, past, ops, watched, evq, requests, blocked, stack>>

Walk == OpenRequest \/ OpenChild \/ OpenBlocks \/ SendHint \/ EndDir

-----------------------------------------------------------------------------
(* Reconstructer::submit, on the fanotify thread *)

(* The first hint that is not PopChildren, if it has been sent.            *)
NextHint == {i \in DOMAIN hints : /\ hints[i].type # "PopChildren"
                                  /\ \A j \in 1 .. i - 1 : hints[j].type = "PopChildren"}

(* The stack once the PopChildren before hint i are done.                  *)
Popped(i) == SubSeq(stack, 1, Len(stack) - (i - 1))

(* submit(fh) with hint i: the new stack, and the parent and name, if any. *)
Submit(fh, i) ==
  [stack |-> Append(Popped(i), fh),
   found |-> IF hints[i].type = "Begin" THEN None
             ELSE [p_fh |-> LastOf(Popped(i)), name |-> hints[i].name]]
=============================================================================
