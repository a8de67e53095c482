--------------------------- MODULE IndexAndQuery ----------------------------
(***************************************************************************)
(* `sqsearch index` on a filesystem that other programs change, and        *)
(* queries on what it has left: after a run, after a run that was killed,  *)
(* and before the first.  A query reads a snapshot, so nothing else need   *)
(* happen while it is under way.                                           *)
(***************************************************************************)
EXTENDS Indexer, QuerySql

CONSTANTS
  TopDirs, InitTree, Syscalls, MaxOps,  (* see Filesystem                  *)
  Queries       (* sequences of segments: split yields at least one        *)

VARIABLES
  past, ops, watched, evq,  (* see Filesystem; nobody watches              *)
  kept,         (* the entries that have been there since the first run    *)
  lost          (* those an error has cost the last run                    *)

Fs == INSTANCE Filesystem WITH
  Name <- Name \ {RootName}, Symlinks <- {}, Unopenable <- {}, Fifos <- {}, OneThread <- {}

\* What is a tree of directory entries: one entry at a place, one of a directory,
\* none of a top directory.
IsTree(T) ==
  /\ \A x, y \in T : x.p = y.p /\ x.n = y.n => x = y
  /\ \A x, y \in T : x.h = y.h /\ x.h \in Dirs => x = y
  /\ \A x \in T : x.h \notin TopDirs

\* Who has an entry in it is a top directory or has an entry itself.
Rooted(T) == \A x \in T : x.p \in TopDirs \/ \E y \in T : y.h = x.p

ASSUME SystemAssumption ==
  /\ InitTree \subseteq DirEntry /\ IsTree(InitTree) /\ Rooted(InitTree)
  /\ TopDirs \subseteq Dirs /\ Root \in TopDirs
  /\ Syscalls \subseteq Fs!Call
  /\ None \notin ItemType
  /\ Queries \subseteq Seq(Segment) \ {<<>>}

fsVars == <<past, ops, watched, evq, kept>>
allVars == <<vars, queryVars, fsVars, lost>>

SystemInit ==
  /\ tree = InitTree /\ past = InitTree /\ ops = 0 /\ watched = FALSE /\ evq = <<>>
  /\ kept = InitTree /\ lost = {}
  /\ db = EmptyDb /\ work = EmptyDb
  /\ running = FALSE /\ runs = 0 /\ done = FALSE
  /\ frames = <<>> /\ item = None /\ i = 0
  /\ QueryInit

(* The entry that the current path leads to.                               *)
Refused ==
  LET last == Len(item.path)
  IN  {e \in tree : e.n = item.path[last] /\ e.p \in Resolved(SubSeq(item.path, 1, last - 1))}

Index ==
  /\ phase = "none"
  /\ \/ Start /\ lost' = {}
     \/ (NextEntry \/ GetFh \/ IndexEntry \/ Finish) /\ UNCHANGED lost
     \/ ReadFails /\ lost' = lost \cup ToCome(Head(frames))
     \/ Skip /\ lost' = lost \cup Refused
  /\ UNCHANGED <<queryVars, fsVars>>

Killed == phase = "none" /\ Crash /\ UNCHANGED <<queryVars, fsVars, lost>>

Programs ==
  /\ phase = "none"
  /\ \E c \in Syscalls : Fs!Syscall(c)
  /\ kept' = IF runs = 0 THEN tree' ELSE kept \cap tree'
  /\ UNCHANGED <<indexVars, queryVars, lost>>

Query ==
  /\ (~running /\ \E q \in Queries : Prepare(q, db)) \/ QueryStep
  /\ UNCHANGED <<vars, fsVars, lost>>

SystemNext == Index \/ Killed \/ Programs \/ Query

SystemSpec == SystemInit /\ [][SystemNext]_allVars

-----------------------------------------------------------------------------
(* Properties *)

(* A run that comes to its end has indexed every entry that was there all  *)
(* the time, if so were the directories above it and no error of this run  *)
(* fell on one of them: whatever happened around it, whichever other       *)
(* entries were skipped, and whatever an earlier run had skipped, or had   *)
(* committed before it was killed.                                         *)
Stays == kept \ lost
StableIndexed ==
  done => \A e \in Stays : e.p \in Fs!Reached({Root}, Stays) => e \in Indexed(db)

(* Handles are taken by path, so a row may pair an entry with a directory  *)
(* it was never in; but only one that was renamed, or is below one that    *)
(* was.                                                                    *)
Renamed(h) == \E x, y \in past : x.h = h /\ y.h = h /\ x # y
Moved == Fs!Reached({h \in Dirs : Renamed(h)}, past)
BelowRenamed(h) == Renamed(h) \/ \E x \in past : x.h = h /\ x.p \in Moved
InventedBelowRenamed == \A e \in Indexed(db) : e \in past \/ BelowRenamed(e.p)
=============================================================================
