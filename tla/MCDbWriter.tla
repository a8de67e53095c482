----------------------------- MODULE MCDbWriter -----------------------------
(* The database thread in an environment that sends any events at all: the *)
(* index starts with directories D and E below the root (E in D) and a     *)
(* file F in E; X is a handle the index does not know.                     *)
EXTENDS DbWriter

CONSTANTS R, D, E, F, X, root, A, B

MCSuffixes == [n \in Name |-> CASE n = root -> {} [] n = A -> {"a", "ba"} [] n = B -> {"a", "b"}]

MCInitDb ==
  LET d1 == EnsureRoot(EmptyDb, R).db
      d2 == Create(d1, D, A, 1).db
      d3 == Create(d2, E, B, 2).db
  IN  Create(d3, F, A, 3).db

At(p, n) == [p_fh |-> p, name |-> n]
Alt(old, new, h) ==
  [type |-> "Alter", old_dirent |-> old, new_dirent |-> new, fh |-> h, is_dir |-> h \in {D, E}]

(* Events that fit the tree and events that do not: entries appear, vanish *)
(* and move, onto free names and onto taken ones (a directory, or the      *)
(* directory the source is in), into their own subtree, and at parents the *)
(* index does not know.  Two of them fail in some databases.               *)
MCEvents ==
  {Alt(None, At(R, B), F), Alt(None, At(R, B), D),
   Alt(At(R, A), None, D),
   Alt(At(R, B), At(D, A), F), Alt(At(R, B), At(R, A), F), Alt(At(E, A), At(R, A), F),
   Alt(At(D, B), At(R, B), E), Alt(At(R, A), At(R, B), D), Alt(At(R, A), At(E, B), D),
   Alt(At(X, A), At(R, B), D),
   [type |-> "Discover", p_fh |-> D, fh |-> F, name |-> B],
   [type |-> "Discover", p_fh |-> X, fh |-> F, name |-> A]}
=============================================================================
