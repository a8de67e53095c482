------------------------------ MODULE DbWriter ------------------------------
(***************************************************************************)
(* The database thread of `sqsearch watch` (DbState in src/watcher.rs):    *)
(* it collects the events the fanotify thread sends into a debounce queue  *)
(* and, once the channel has been quiet for 100 ms, applies the queue in   *)
(* one transaction.  An error of any event drops the transaction, and the  *)
(* queue with it.  Directories that arrive from a place the index does not *)
(* know are handed to the discoverer through `requests`.                   *)
(***************************************************************************)
EXTENDS HandleEvents, Sequences

CONSTANTS
  Events,      (* the events the environment may send                      *)
  InitDb,      (* the database `sqsearch index` left                       *)
  MaxQueue,    (* bound: events in the channel and the debounce queue      *)
  MaxId,       (* bound: no more is sent once a row id reaches it          *)
  MaxRequests  (* bound: discovery requests nobody has taken yet           *)

ASSUME DbWriterAssumption ==
  /\ Events \subseteq Event
  /\ IsDb(InitDb) /\ HasRoot(InitDb) /\ NoOrphans(InitDb)
  /\ UniqueDirents(InitDb) /\ SuffixesInSync(InitDb)

VARIABLES
  chan,      (* fanotify_tx -> fanotify_rx, unbounded                      *)
  batch,     (* debounce_queue                                             *)
  pos,       (* 0: collecting; otherwise the next event of the transaction *)
  db,        (* the committed database, what other connections read        *)
  work,      (* the database as the open transaction sees it               *)
  requests   (* discover_tx: directories to walk                           *)

vars == <<chan, batch, pos, db, work, requests>>

-----------------------------------------------------------------------------
(* DbState::run and DbState::handle_events *)

Init ==
  /\ chan = <<>> /\ batch = <<>> /\ pos = 0
  /\ db = InitDb /\ work = InitDb
  /\ requests = <<>>

(* The environment: the fanotify thread sends an event.                    *)
Send(e) ==
  /\ chan' = Append(chan, e)
  /\ UNCHANGED <<batch, pos, db, work, requests>>

(* recv, and recv_timeout answered in time.                                *)
Recv ==
  /\ pos = 0 /\ chan # <<>>
  /\ batch' = Append(batch, Head(chan))
  /\ chan' = Tail(chan)
  /\ UNCHANGED <<pos, db, work, requests>>

(* recv_timeout timed out: the transaction opens.                          *)
Flush ==
  /\ pos = 0 /\ batch # <<>> /\ chan = <<>>
  /\ pos' = 1 /\ work' = db
  /\ UNCHANGED <<chan, batch, db, requests>>

\* Mutants of EndBatch: the position, or the queue, is not reset.
EndBatchStays == pos' = pos /\ batch' = <<>>
EndBatchKeeps == pos' = 0 /\ batch' = batch

(* handle_events returned: the queue is cleared whatever it returned.      *)
EndBatch == pos' = 0 /\ batch' = <<>>

Apply ==
  /\ pos \in 1 .. Len(batch)
  /\ LET r == HandleEvent(work, batch[pos])
     IN  /\ requests' = requests \o r.sent
         /\ IF r.err = "Ok"
            THEN work' = r.db /\ pos' = pos + 1 /\ UNCHANGED batch
            ELSE work' = db /\ EndBatch
  /\ UNCHANGED <<chan, db>>

Commit ==
  /\ pos = Len(batch) + 1 /\ batch # <<>>
  /\ db' = work
  /\ EndBatch
  /\ UNCHANGED <<chan, work, requests>>

(* A statement or the commit fails with an SQLite error: the database is   *)
(* busy (busy_timeout is negative, so SQLite does not wait), full, ...     *)
(* A request the event at pos sends before its statements is sent.         *)
SQLiteError ==
  /\ pos > 0
  /\ work' = db
  /\ EndBatch
  /\ \/ UNCHANGED requests
     \/ /\ pos <= Len(batch)
        /\ requests' = requests \o HandleEvent(work, batch[pos]).sent
  /\ UNCHANGED <<chan, db>>

(* The process dies and is started again: only the database is left.       *)
Restart ==
  /\ chan' = <<>> /\ batch' = <<>> /\ pos' = 0 /\ requests' = <<>>
  /\ work' = db
  /\ UNCHANGED db

(* The discoverer takes a request.                                         *)
TakeRequest ==
  /\ requests # <<>>
  /\ requests' = Tail(requests)
  /\ UNCHANGED <<chan, batch, pos, db, work>>

Thread == Recv \/ Flush \/ Apply \/ Commit

Next ==
  \/ /\ Len(chan) + Len(batch) < MaxQueue
     /\ \A k \in DOMAIN work.files : k < MaxId
     /\ Len(requests) < MaxRequests
     /\ \E e \in Events : Send(e)
  \/ Thread
  \/ SQLiteError
  \/ Restart
  \/ TakeRequest

Spec == Init /\ [][Next]_vars

-----------------------------------------------------------------------------
(* Properties *)

(* Types of the state; the queues hold events of the alphabet.             *)
TypeOK ==
  /\ chan \in Seq(Events) /\ batch \in Seq(Events)
  /\ pos \in 0 .. Len(batch) + 1 /\ (pos > 0 => batch # <<>>)
  /\ IsDb(db) /\ IsDb(work)
  /\ requests \in Seq(Handle)

(* No event, however wrong about the tree it is, takes the root row away,  *)
(* leaves a row without its parent, puts two rows at one entry or lets the *)
(* substring index name an entry that is not there (or miss one that is):  *)
(* neither in the committed database nor inside a transaction.             *)
RootStays == HasRoot(db) /\ HasRoot(work)
NoOrphanRows == NoOrphans(db) /\ NoOrphans(work)
OneRowPerEntry == UniqueDirents(db) /\ UniqueDirents(work)
IndexMatchesFiles == SuffixesInSync(db) /\ SuffixesInSync(work)

(* The retry loop of handle_move ends on every event in every database     *)
(* the thread can meet: dropping the source or clearing the destination    *)
(* always makes progress.                                                  *)
LoopEnds == \A e \in Events : HandleEvent(work, e).err # "Run"

(* An event that was applied is in the index: its handle is at the new     *)
(* entry if the index knows that entry's directory, and it is no longer at *)
(* the old one, whatever was in the way before (an overwritten file, a     *)
(* missing source, a source below the overwritten directory).  Of an old   *)
(* entry in the very directory that moves, which no filesystem has, it     *)
(* says nothing.                                                           *)
EntriesOf(d, dirent) ==
  IF dirent = None THEN {}
  ELSE {k \in DOMAIN d.files : /\ d.files[k].name = dirent.name
                               /\ d.files[k].parent_id \in HandleIds(d, dirent.p_fh)}

Reflected(e, d) ==
  /\ e.new_dirent # None /\ HandleIds(d, e.new_dirent.p_fh) # {} =>
       \E k \in EntriesOf(d, e.new_dirent) : d.files[k].file_handle = e.fh
  /\ e.old_dirent \notin {None, e.new_dirent} /\ e.old_dirent.p_fh # e.fh =>
       \A k \in EntriesOf(d, e.old_dirent) : d.files[k].file_handle # e.fh

EventReflected ==
  [][pos > 0 /\ pos' = pos + 1 /\ batch[pos].type = "Alter" => Reflected(batch[pos], work')]_vars

(* The thread implements EventLog: what other connections read is always   *)
(* the result of whole batches, in order.  A failing event, an SQLite      *)
(* error or a crash between two events leaves nothing of its batch behind, *)
(* and nothing of it is applied again with the next batch.                 *)
Log == INSTANCE EventLog WITH pending <- batch \o chan
ImplementsLog == Log!Spec
=============================================================================
