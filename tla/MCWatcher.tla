----------------------------- MODULE MCWatcher -----------------------------
(* The watcher on small filesystems.  R is the indexed directory, O another*)
(* directory of the same filesystem; D and E are directories, S a          *)
(* subvolume, F, G and K files, L a symbolic link; the name I is ignored.  *)
EXTENDS Watcher

CONSTANTS R, O, D, E, S, F, G, K, L, A, B, C, I, root

Ent(p, n, h) == [p |-> p, n |-> n, h |-> h]
Create_(p, n, h) == [op |-> "create", p |-> p, n |-> n, h |-> h]
Link_(p, n, h) == [op |-> "link", p |-> p, n |-> n, h |-> h]
Remove_(p, n) == [op |-> "remove", p |-> p, n |-> n]
Open_(p, n) == [op |-> "open", p |-> p, n |-> n]
Rename_(p, n, q, m) == [op |-> "rename", p |-> p, n |-> n, q |-> q, m |-> m]
Exchange_(p, n, q, m) == [op |-> "exchange", p |-> p, n |-> n, q |-> q, m |-> m]

MCSuffixesOf == [n \in {A, B, C, I, root} |-> {}]
OwnSuffix == [n \in {A, B, C, I, root} |-> {n} \ {root}]

RootRow == [file_handle |-> R, name |-> root, parent_id |-> 1]
Row(h, n, p_id) == [file_handle |-> h, name |-> n, parent_id |-> p_id]
Db(rows) == [files |-> rows, suffix_array |-> {}]

-----------------------------------------------------------------------------
(* Changes among what the index knows: files and directories come, go,     *)
(* move, change places, are overwritten, leave for O or an ignored name.   *)
LocalTree == {Ent(R, A, D), Ent(D, A, F)}
LocalDb == Db(<<RootRow, Row(D, A, 1), Row(F, A, 2)>>)

(* One thread makes, opens and removes an entry, which the kernel merges;  *)
(* the entry is not made again for the same file.                          *)
LocalOneThread == {Create_(R, C, G), Create_(R, C, E), Open_(R, C), Remove_(R, C)}

LocalSyscalls ==
  {Create_(D, B, E), Create_(R, C, S), Create_(S, A, K), Create_(E, A, G), Create_(R, B, G), Link_(R, B, F),
   Remove_(D, A), Remove_(R, B), Remove_(E, A), Open_(D, A),
   Rename_(D, A, R, B), Rename_(R, B, D, A), Rename_(D, A, D, I), Rename_(D, I, D, A),
   Rename_(R, A, R, C), Rename_(D, B, R, A), Rename_(R, C, O, A),
   Rename_(D, B, R, C), Rename_(D, A, O, B), Rename_(O, B, R, B), Exchange_(D, A, R, B)}
  \cup LocalOneThread

(* A directory D arrives from O, with E below it and G below E, while they *)
(* and their contents go on changing.                                      *)
ArrivalTree == {Ent(O, A, D), Ent(D, B, E), Ent(E, A, G)}
EmptyIndex == Db(<<RootRow>>)
ArrivalSyscalls ==
  {Rename_(O, A, R, A), Rename_(R, A, R, B), Rename_(E, A, D, C), Rename_(D, C, E, B),
   Create_(D, C, K), Create_(E, B, K), Link_(D, C, G), Remove_(E, A), Remove_(D, B)}

-----------------------------------------------------------------------------
(* Arrivals while batches fail, walks end early (K cannot be opened) or    *)
(* stop (F is a pipe), opens cannot be read and the process is restarted;  *)
(* L is in the way of the walk as well.                                    *)
FaultTree == ArrivalTree \cup {Ent(E, C, L)}
FaultSyscalls ==
  {Rename_(O, A, R, A), Rename_(R, A, R, B), Rename_(E, A, D, C), Create_(E, B, K), Create_(D, C, F),
   Remove_(D, C)}

-----------------------------------------------------------------------------
(* Filesystems and changes the index does not follow.                      *)

(* D arrives with an ignored directory E, and G in E.                      *)
IgnoredTree == {Ent(O, A, D), Ent(D, B, F), Ent(D, I, E), Ent(E, A, G)}
ArriveOnly == {Rename_(O, A, R, A)}

(* One thread links F to a second name, unlinks it, and links it again.    *)
RelinkSyscalls == {Link_(R, B, F), Remove_(R, B)}

(* D is renamed, perhaps while nobody watches.                             *)
RenameSyscalls == {Rename_(R, A, R, B), Rename_(R, B, R, C)}

(* D arrives, then E in D, and E is walked twice.                          *)
TwiceTree == {Ent(O, A, D), Ent(O, B, E), Ent(E, A, G)}
TwiceSyscalls == {Rename_(O, A, R, A), Rename_(O, B, D, B), Create_(E, C, K), Create_(E, B, F)}
=============================================================================
