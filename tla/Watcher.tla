------------------------------ MODULE Watcher ------------------------------
(***************************************************************************)
(* `sqsearch watch` as a whole (src/watcher.rs): the fanotify thread, the  *)
(* discoverer and the database thread, on a filesystem that other programs *)
(* change.                                                                 *)
(*                                                                         *)
(*   syscalls -> evq -> buf -> chan -> batch -> work -> db                 *)
(*                ^      ^                        |                        *)
(*                |      +--- hints --- walker <--+ requests               *)
(*                +------ opens ----------+                                *)
(***************************************************************************)
EXTENDS Discoverer

CONSTANTS
  Root,         (* the directory that was indexed                          *)
  RootName, Suffix, SuffixesOf, InitDb,  (* see FilesTable and DbWriter    *)
  Ignores,      (* Filter.ignores                                          *)
  Foreign,      (* handles outside btrfs_subvol (none without btrfs_root)  *)
  DirOpenInfo,  (* the record that reports the open of a directory: DFID,  *)
                (* which the code reads, or DFID_NAME, as '.' in itself    *)
  BufEvents,    (* bound: events one read of the stream returns            *)
  DbErrors,     (* whether SQLite may fail                                 *)
  MaxCrashes    (* bound: how often the process dies                       *)

VARIABLES
  buf,      (* the events read from the stream and not yet handled         *)
  chan, batch, pos, db, work,  (* see DbWriter                             *)
  crashes

writerVars == <<chan, batch, pos, db, work>>
vars == <<fsVars, walkVars, writerVars, buf, crashes>>

Dirent == [p_fh : Dirs, name : Name]
Events ==
  [type : {"Alter"}, old_dirent : Dirent \cup {None}, new_dirent : Dirent \cup {None},
   fh : Handle, is_dir : BOOLEAN]
  \cup [type : {"Discover"}, p_fh : Handle, fh : Handle, name : Name]

Writer == INSTANCE DbWriter
  WITH Name <- Name \cup {RootName}, MaxQueue <- 100, MaxId <- 100, MaxRequests <- 100

ASSUME WatcherAssumption ==
  /\ Root \in TopDirs
  /\ RootName \notin Name
  /\ SuffixesOf \in [Name \cup {RootName} -> SUBSET Suffix]
  /\ Writer!Sound(InitDb)
  /\ None \notin Writer!Dirent \cup Writer!Entry
  /\ DirOpenInfo \subseteq {"DFID", "DFID_NAME"}
  /\ BufEvents \in Nat \ {0} /\ MaxOps \in Nat /\ MaxCrashes \in Nat

-----------------------------------------------------------------------------
(* FanotifyState::run *)

Allow(fh, n) == n \notin Ignores /\ fh \notin Foreign

Known(w) == [p_fh |-> w.p, name |-> w.n]
Alter(old, new, ev) ==
  [type |-> "Alter", old_dirent |-> old, new_dirent |-> new, fh |-> ev.fh, is_dir |-> ev.is_dir]

NetZero(ev) == ev.mask = {"CREATE", "DELETE"}

\* Mutant of Altered: DELETE before CREATE.
AlteredSwapped(ev) ==
  IF NetZero(ev) \/ ~Allow(ev.fh, ev.new.n) THEN <<>>
  ELSE (IF "DELETE" \in ev.mask THEN <<Alter(Known(ev.new), None, ev)>> ELSE <<>>)
       \o (IF "CREATE" \in ev.mask THEN <<Alter(None, Known(ev.new), ev)>> ELSE <<>>)

Altered(ev) ==
  IF NetZero(ev) \/ ~Allow(ev.fh, ev.new.n) THEN <<>>
  ELSE (IF "CREATE" \in ev.mask THEN <<Alter(None, Known(ev.new), ev)>> ELSE <<>>)
       \o (IF "DELETE" \in ev.mask THEN <<Alter(Known(ev.new), None, ev)>> ELSE <<>>)

Renamed(ev) ==
  LET old == IF Allow(ev.fh, ev.old.n) THEN Known(ev.old) ELSE None
      new == IF Allow(ev.fh, ev.new.n) THEN Known(ev.new) ELSE None
  IN  IF old = None /\ new = None THEN <<>> ELSE <<Alter(old, new, ev)>>

Discovered(ev, found) ==
  IF found = None \/ ~Allow(ev.fh, found.name) THEN <<>>
  ELSE <<[type |-> "Discover", p_fh |-> found.p_fh, fh |-> ev.fh, name |-> found.name]>>

(* read: the events there are, or as many as fit.                          *)
Read ==
  /\ watched /\ buf = <<>> /\ evq # <<>>
  /\ LET n == IF Len(evq) < BufEvents THEN Len(evq) ELSE BufEvents
     IN  buf' = SubSeq(evq, 1, n) /\ evq' = SubSeq(evq, n + 1, Len(evq))
  /\ UNCHANGED <<tree, past, ops, watched, walkVars, writerVars, crashes>>

Report(events) ==
  /\ chan' = chan \o events
  /\ buf' = Tail(buf)
  /\ UNCHANGED <<fsVars, requests, frames, fd, blocked, batch, pos, db, work, crashes>>

(* An event of another thread; opens of other threads are skipped.         *)
HandleChange ==
  /\ buf # <<>>
  /\ LET ev == Head(buf)
     IN  /\ ~(ev.mask = {"OPEN"} /\ ev.tid = WalkerTid)
         /\ Report(IF ev.mask = {"OPEN"} THEN <<>>
                   ELSE IF "RENAME" \in ev.mask THEN Renamed(ev) ELSE Altered(ev))
  /\ UNCHANGED <<hints, stack>>

(* read_open: the handle in a report of an open, if it has one where the   *)
(* code looks for it: in an FID, or, of a directory, in a DFID.            *)
OpenInfo(ev) == IF ev.is_dir THEN DirOpenInfo ELSE {"FID"}
ReadOpen(ev, info) == IF info = "FID" \/ (info = "DFID" /\ ev.is_dir) THEN {ev.fh} ELSE {}

(* An open of the walker: waits for the hint that goes with it.            *)
HandleOpen ==
  /\ buf # <<>>
  /\ LET ev == Head(buf)
     IN  /\ ev.mask = {"OPEN"} /\ ev.tid = WalkerTid
         /\ \E info \in OpenInfo(ev), i \in NextHint : \E fh \in ReadOpen(ev, info) :
              LET s == Submit(fh, i)
              IN  /\ stack' = s.stack
                  /\ hints' = SubSeq(hints, i + 1, Len(hints))
                  /\ Report(Discovered(ev, s.found))

(* The process dies, and with it the fanotify group and every queue.       *)
Die ==
  /\ watched' = FALSE /\ evq' = <<>> /\ buf' = <<>>
  /\ frames' = <<>> /\ fd' = None /\ blocked' = FALSE /\ hints' = <<>> /\ stack' = <<>>
  /\ Writer!Restart
  /\ UNCHANGED <<tree, past, ops>>

(* An open of the walker without a handle where read_open looks for it:    *)
(* the expect fails, and the fanotify thread is gone.  The database thread *)
(* finds the channel closed once it is done with its transaction, or fails *)
(* to send to the walker, whose next hint nobody takes; it panics, and the *)
(* process ends.  What happens meanwhile reaches nobody, so all of it is   *)
(* one step, after that transaction or at that request.                    *)
ReaderPanics ==
  /\ buf # <<>>
  /\ LET ev == Head(buf)
     IN  /\ ev.mask = {"OPEN"} /\ ev.tid = WalkerTid
         /\ \E info \in OpenInfo(ev) : ReadOpen(ev, info) = {}
  /\ pos = 0 \/ \E k \in DOMAIN batch : k = pos /\ Writer!HandleEvent(work, batch[k]).sent # <<>>
  /\ Die
  /\ UNCHANGED crashes

FanotifyThread == Read \/ HandleChange \/ HandleOpen \/ ReaderPanics

-----------------------------------------------------------------------------
DbThread == Writer!Thread /\ UNCHANGED <<fsVars, frames, fd, blocked, hints, stack, buf, crashes>>

DbError ==
  /\ DbErrors
  /\ Writer!SQLiteError
  /\ UNCHANGED <<fsVars, frames, fd, blocked, hints, stack, buf, crashes>>

WalkerThread == Walk /\ UNCHANGED <<writerVars, buf, crashes>>

(* The process is killed.                                                  *)
Crash ==
  /\ watched /\ crashes < MaxCrashes
  /\ crashes' = crashes + 1
  /\ Die

(* systemd starts it again: exec marks the filesystem and looks at nothing.*)
Start ==
  /\ ~watched
  /\ watched' = TRUE
  /\ UNCHANGED <<tree, past, ops, evq, walkVars, writerVars, buf, crashes>>

Programs == (\E c \in Syscalls : Syscall(c)) /\ UNCHANGED <<walkVars, writerVars, buf, crashes>>

(* Nothing is on its way from the filesystem to the database.              *)
Quiescent ==
  /\ watched /\ evq = <<>> /\ buf = <<>> /\ chan = <<>> /\ batch = <<>>
  /\ requests = <<>> /\ frames = <<>> /\ fd = None

(* Nothing is, but the walker hangs.                                       *)
Hung == blocked /\ evq = <<>> /\ buf = <<>> /\ chan = <<>> /\ batch = <<>>

Idle == (Quiescent \/ Hung) /\ UNCHANGED vars

Init ==
  /\ FsInit /\ DiscovererInit /\ Writer!Init
  /\ buf = <<>> /\ crashes = 0

Next ==
  \/ Programs
  \/ FanotifyThread
  \/ WalkerThread
  \/ DbThread
  \/ DbError
  \/ Crash
  \/ Start
  \/ Idle

Spec == Init /\ [][Next]_vars

(* Each thread goes on running; systemd restarts the process.  Programs    *)
(* need not do anything, SQLite need not fail.                             *)
Fairness ==
  /\ WF_vars(FanotifyThread) /\ WF_vars(WalkerThread) /\ WF_vars(DbThread)
  /\ WF_vars(Start)

FairSpec == Spec /\ Fairness

-----------------------------------------------------------------------------
(* Properties *)

(* What the index should hold: the entries below the root, without those   *)
(* that are ignored or below an ignored entry.                             *)
Visible(t) ==
  LET allowed == {e \in t : Allow(e.h, e.n)}
  IN  {e \in allowed : e.p \in Reached({Root}, allowed)}

(* What it holds.                                                          *)
View(d) == {[p |-> d.files[d.files[k].parent_id].file_handle,
             n |-> d.files[k].name, h |-> d.files[k].file_handle]
            : k \in DOMAIN d.files \ {Writer!ROOT_ID}}

WatcherTypeOK ==
  /\ tree \subseteq past /\ past \subseteq Entry /\ ops \in 0 .. MaxOps
  /\ watched \in BOOLEAN /\ crashes \in 0 .. MaxCrashes
  /\ requests \in Seq(Handle) /\ stack \in Seq(Handle)
  /\ \A i \in DOMAIN frames : frames[i].dir \in Dirs /\ frames[i].todo \subseteq Name
  /\ (fd = None \/ fd.h \in Handle) /\ blocked \in BOOLEAN
  /\ Writer!TypeOK

(* When everything has been handled, the index shows the filesystem as it  *)
(* is: whatever the changes were, however they fell between the walker's   *)
(* opens, the reads of the event queue and the batches.                    *)
Converged == Quiescent => View(db) = Visible(tree)

(* Once the programs stop, the pipeline drains and the index stays right:  *)
(* no thread waits for ever (the fanotify thread for a hint, the walker    *)
(* for a request it was never sent).                                       *)
EventuallyConverged == <>[](Quiescent /\ View(db) = Visible(tree))

(* The Reconstructer names every open after the entry the walker opened:   *)
(* hints and opens never get out of step.                                  *)
NamesMatchOpens ==
  [][\A i \in NextHint : HandleOpen /\ hints[i].type = "PushChildren" =>
       Submit(Head(buf).fh, i).found = Known(Head(buf).new)]_vars

(* A discovery never empties the stack of parents: neither expect of       *)
(* submit ("Discover stack bottomed out") fails.                           *)
Pops(s) == Cardinality({i \in DOMAIN s : s[i].type = "PopChildren"})
StackHasParent ==
  \A i \in DOMAIN hints :
    LET depth == Len(stack) + i - 1 - 2 * Pops(SubSeq(hints, 1, i - 1))
    IN  hints[i].type # "Begin" => depth > 0

(* The index shows no entry that never existed, and its tables fit         *)
(* together, whatever was lost on the way: batches that failed, events     *)
(* while the process was down, walks cut short.                            *)
NothingInvented == View(db) \subseteq past
IndexIntact ==
  Writer!RootStays /\ Writer!NoOrphanRows /\ Writer!OneRowPerEntry /\ Writer!IndexMatchesFiles

(* Only files share handles; a directory has one row.                      *)
DirHandlesUnique ==
  \A j, k \in DOMAIN db.files :
    db.files[j].file_handle = db.files[k].file_handle /\ db.files[j].file_handle \in Dirs => j = k

(* A failing event costs no event about a directory the database knows.    *)
Parents(e) ==
  IF e.type = "Discover" THEN {e.p_fh}
  ELSE {x.p_fh : x \in {e.old_dirent, e.new_dirent} \ {None}}
KnownReported ==
  [][DbThread /\ pos > 0 /\ pos <= Len(batch) /\ pos' = 0 =>
       \A i \in DOMAIN batch : \A p \in Parents(batch[i]) : Writer!HandleIds(work, p) = {}]_vars
(* A thread that waits for a hint waits for one the walker is about to     *)
(* send: an open at the head of the queue has its hint, or the walker has  *)
(* just made that open.                                                    *)
HintIsComing ==
  buf # <<>> /\ Head(buf).mask = {"OPEN"} /\ Head(buf).tid = WalkerTid =>
    NextHint # {} \/ fd # None

(* The walker opens something while the report of an earlier open of it is *)
(* still queued, and the kernel reports the two as one.                    *)
OpenMerges == fd = None /\ fd' # None /\ Len(evq') = Len(evq)
DistinctOpens == [][~OpenMerges]_vars

(* An event that arrives for a directory whose row its own destination     *)
(* takes away can make a row that is its own parent.                       *)
NoLoops == \A k \in DOMAIN db.files : db.files[k].parent_id = k => k = Writer!ROOT_ID
=============================================================================
