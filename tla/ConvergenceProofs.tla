------------------------- MODULE ConvergenceProofs --------------------------
(***************************************************************************)
(* The index shows the filesystem once everything has been handled, for    *)
(* every tree, every filter, and every sequence of changes that the        *)
(* watcher can follow: those that reach it one by one, and that bring no   *)
(* directory from where it does not look.                                  *)
(***************************************************************************)
EXTENDS MatchingProofs

-----------------------------------------------------------------------------
(* What the index should show, and how it changes with the tree.           *)
Allowed(t) == {e \in t : Allow(e.h, e.n)}
Found(A) == Reached({Root}, A)
Seen(A) == {e \in A : e.p \in Found(A)}

LEMMA VisibleSeen == ASSUME NEW t PROVE Visible(t) = Seen(Allowed(t))
BY DEF Visible, Seen, Allowed, Found

(* What is found has the root and, with a directory, those in it, ...      *)
LEMMA FoundClosed ==
  ASSUME NEW A
  PROVE  /\ Root \in Found(A) /\ Found(A) \subseteq Dirs
         /\ \A e \in A : e.p \in Found(A) /\ e.h \in Dirs => e.h \in Found(A)
<1>1. Root \in Dirs
  BY FilesystemAssumption, WatcherAssumption
<1> QED BY <1>1 DEF Found, Reached

(* ... and is in every such set.                                           *)
LEMMA FoundLeast ==
  ASSUME NEW A, NEW S \in SUBSET Dirs, Root \in S, \A e \in A : e.p \in S /\ e.h \in Dirs => e.h \in S
  PROVE  Found(A) \subseteq S
BY DEF Found, Reached

(* A directory is found if it is the root, or if an entry of it is seen.   *)
LEMMA FoundKnown ==
  ASSUME NEW A, NEW p \in Dirs
  PROVE  p \in Found(A) <=> Proved!Knows(Seen(A), Root, p)
<1> DEFINE V == Seen(A)
           S == {k \in Found(A) : k = Root \/ \E x \in V : x.h = k}
<1>1. /\ Root \in Found(A) /\ Found(A) \subseteq Dirs
      /\ \A e \in A : e.p \in Found(A) /\ e.h \in Dirs => e.h \in Found(A)
  BY FoundClosed
<1>2. V = {e \in A : e.p \in Found(A)}
  BY DEF Seen
<1> HIDE DEF V
<1>3. Found(A) \subseteq S
  <2>1. S \in SUBSET Dirs /\ Root \in S
    BY <1>1
  <2>2. \A e \in A : e.p \in S /\ e.h \in Dirs => e.h \in S
    BY <1>1, <1>2
  <2> HIDE DEF S
  <2> QED BY <2>1, <2>2, FoundLeast
<1>4. p \in Found(A) => Proved!Knows(V, Root, p)
  BY <1>3 DEF Proved!Knows
<1>5. Proved!Knows(V, Root, p) => p \in Found(A)
  BY <1>1, <1>2 DEF Proved!Knows
<1> QED BY <1>4, <1>5 DEF V

(* What is below a directory: it and, with a directory, those in it, ...   *)
LEMMA UnderClosed ==
  ASSUME NEW h, NEW V
  PROVE  /\ h \in Dirs => h \in Proved!Under(h, V, Dirs)
         /\ Proved!Under(h, V, Dirs) \subseteq Dirs
         /\ \A x \in V : x.p \in Proved!Under(h, V, Dirs) /\ x.h \in Dirs
                           => x.h \in Proved!Under(h, V, Dirs)
BY DEF Proved!Under

(* ... and in every such set.                                              *)
LEMMA UnderLeast ==
  ASSUME NEW h, NEW V, NEW S \in SUBSET Dirs, h \in Dirs => h \in S,
         \A x \in V : x.p \in S /\ x.h \in Dirs => x.h \in S
  PROVE  Proved!Under(h, V, Dirs) \subseteq S
BY DEF Proved!Under

(* A new entry in a directory that is found is seen, and nothing in it is. *)
LEMMA SeenGains ==
  ASSUME NEW A, NEW N, N.p \in Found(A), N.h \in Dirs => \A x \in A : x.p # N.h
  PROVE  Seen(A \cup {N}) = Seen(A) \cup {N}
<1> DEFINE B == A \cup {N}
           K == Found(A)
           L == Found(B)
           S == K \cup ({N.h} \cap Dirs)
<1>1. /\ Root \in K /\ K \subseteq Dirs
      /\ \A e \in A : e.p \in K /\ e.h \in Dirs => e.h \in K
  BY FoundClosed
<1>2. /\ Root \in L /\ L \subseteq Dirs
      /\ \A e \in B : e.p \in L /\ e.h \in Dirs => e.h \in L
  BY FoundClosed
<1> HIDE DEF K, L
<1>3. K \subseteq L
  BY <1>2, FoundLeast DEF K
<1>4. L \subseteq S
  <2>1. S \in SUBSET Dirs /\ Root \in S
    BY <1>1
  <2>2. \A e \in B : e.p \in S /\ e.h \in Dirs => e.h \in S
    <3> TAKE e \in B
    <3>1. CASE e = N
      BY <3>1
    <3>2. CASE e # N
      BY <1>1, <3>2
    <3> QED BY <3>1, <3>2
  <2> HIDE DEF S, B
  <2> QED BY <2>1, <2>2, FoundLeast DEF L
<1>5. \A e \in A : e.p \in L <=> e.p \in K
  BY <1>3, <1>4
<1>6. N.p \in L
  BY <1>3 DEF K
<1> QED BY <1>5, <1>6 DEF Seen, K, L

(* A directory that an entry moves to, and that is not below it, is found  *)
(* if it was found before.                                                 *)
LEMMA StillFound ==
  ASSUME NEW A, NEW src, NEW dst, NEW N, N.p \in Found(A), N.h \in Dirs,
         \A x \in dst : \A y \in A : y.p # x.h,
         \A x \in dst : x.p = N.p,
         \A x \in src : x.h = N.h, \A x \in dst : x.h \in Dirs,
         dst \subseteq A, N.p \notin Reached({N.h}, A)
  PROVE  N.p \in Found((A \ (src \cup dst)) \cup {N})
<1> DEFINE B == (A \ (src \cup dst)) \cup {N}
           K == Found(A)
           L == Found(B)
           U == Reached({N.h}, A)
           E == {x.h : x \in dst}
           T == L \cup E \cup U
<1>1. /\ Root \in L /\ L \subseteq Dirs
      /\ \A e \in B : e.p \in L /\ e.h \in Dirs => e.h \in L
  BY FoundClosed
<1>2. /\ N.h \in U /\ U \subseteq Dirs
      /\ \A e \in A : e.p \in U /\ e.h \in Dirs => e.h \in U
  BY DEF Reached
<1>3. N.p \in K
  OBVIOUS
<1> HIDE DEF K, L, U
<1>4. \A e \in A : e.p \notin E
  OBVIOUS
<1>5. T \in SUBSET Dirs /\ Root \in T
  BY <1>1, <1>2
<1>6. ASSUME NEW e \in A, e.p \in T, e.h \in Dirs PROVE e.h \in T
  <2>1. CASE e \in src
    BY <1>2, <2>1
  <2>2. CASE e \in dst
    BY <2>2
  <2>3. CASE e \in B
    BY <1>1, <1>2, <1>4, <1>6, <2>3
  <2> QED BY <2>1, <2>2, <2>3
<1>7. K \subseteq T
  <2> HIDE DEF T
  <2> QED BY <1>5, <1>6, FoundLeast DEF K
<1>8. N.p \notin E
  OBVIOUS
<1> QED BY <1>3, <1>7, <1>8 DEF U, L

(* An entry that moves to a directory that is found: with a directory all  *)
(* below it moves.  What it replaces had nothing below it.                 *)
Moves(A, src, dst, N) ==
  /\ N.p \in Found(A) /\ N \notin src \cup dst /\ src \cup dst \subseteq A
  /\ \A x \in src : x.h = N.h
  /\ \A x \in dst : x.p = N.p /\ (x.h \in Dirs <=> N.h \in Dirs) /\ \A y \in A : y.p # x.h
  /\ N.h \in Dirs => (\E x \in src : x \in Seen(A)) /\ N.p \notin Reached({N.h}, A)

LEMMA SeenMoves ==
  ASSUME NEW A, NEW src, NEW dst, NEW N, Moves(A, src, dst, N)
  PROVE  Seen((A \ (src \cup dst)) \cup {N}) = (Seen(A) \ (src \cup dst)) \cup {N}
<1> DEFINE B == (A \ (src \cup dst)) \cup {N}
           K == Found(A)
           L == Found(B)
<1>1. /\ Root \in K /\ K \subseteq Dirs
      /\ \A e \in A : e.p \in K /\ e.h \in Dirs => e.h \in K
  BY FoundClosed
<1>2. /\ Root \in L /\ L \subseteq Dirs
      /\ \A e \in B : e.p \in L /\ e.h \in Dirs => e.h \in L
  BY FoundClosed
<1>3. Seen(A) = {e \in A : e.p \in K} /\ Seen(B) = {e \in B : e.p \in L}
  BY DEF Seen
<1>4. /\ N.p \in K /\ N \notin src \cup dst /\ src \cup dst \subseteq A
      /\ \A x \in src : x.h = N.h
      /\ \A x \in dst : x.p = N.p /\ (x.h \in Dirs <=> N.h \in Dirs) /\ \A y \in A : y.p # x.h
      /\ N.h \in Dirs => (\E x \in src : x \in Seen(A)) /\ N.p \notin Reached({N.h}, A)
  BY DEF Moves
<1> HIDE DEF K, L
<1>5. CASE N.h \notin Dirs
  <2>1. \A e \in B : e.p \in K /\ e.h \in Dirs => e.h \in K
    BY <1>1, <1>4, <1>5
  <2>2. L \subseteq K
    <3> HIDE DEF B
    <3> QED BY <1>1, <2>1, FoundLeast DEF L
  <2>3. \A e \in A : e.p \in L /\ e.h \in Dirs => e.h \in L
    BY <1>2, <1>4, <1>5
  <2>4. K \subseteq L
    BY <1>2, <2>3, FoundLeast DEF K
  <2> QED BY <1>3, <1>4, <2>2, <2>4
<1>6. CASE N.h \in Dirs
  <2>1. N.h \in K
    <3>1. PICK x \in src : x \in Seen(A)
      BY <1>4, <1>6
    <3> QED BY <1>1, <1>3, <1>4, <1>6, <3>1
  <2>2. L \subseteq K
    <3>1. \A e \in B : e.p \in K /\ e.h \in Dirs => e.h \in K
      BY <1>1, <2>1
    <3> HIDE DEF B
    <3> QED BY <1>1, <3>1, FoundLeast DEF L
  <2> DEFINE E == {x.h : x \in dst}
  <2>3. \A e \in A : e.p \notin E
    BY <1>4
  <2>4. N.p \in L
    BY <1>4, <1>6, StillFound DEF K, L
  <2>5. N.h \in L
    BY <1>2, <1>4, <1>6, <2>4
  <2>6. K \subseteq L \cup E
    <3>1. L \cup E \in SUBSET Dirs /\ Root \in L \cup E
      BY <1>2, <1>4, <1>6
    <3>2. ASSUME NEW e \in A, e.p \in L \cup E, e.h \in Dirs PROVE e.h \in L \cup E
      BY <1>2, <1>4, <2>3, <2>5, <3>2
    <3> HIDE DEF E
    <3> QED BY <3>1, <3>2, FoundLeast DEF K
  <2>7. \A e \in A : e.p \in L <=> e.p \in K
    BY <2>2, <2>3, <2>6
  <2> HIDE DEF E
  <2> QED BY <1>3, <1>4, <2>4, <2>7
<1> QED BY <1>5, <1>6

(* An entry that is not seen any more takes all below it away.             *)
Without(V, e) == {x \in V : x # e /\ (e \in V => x.p \notin Proved!Under(e.h, V, Dirs))}

Hides(A, e, dst, new) ==
  /\ dst \cap Seen(A) = {} /\ \A x \in new : x.p \notin Found(A)
  /\ e.h \notin TopDirs /\ \A x \in A : x.h \notin TopDirs
  /\ e.h \in Dirs => \A x \in A : x.h = e.h => x = e
  /\ \A x, y \in A : x.h = y.h /\ x.h \in Dirs => x = y

LEMMA SeenLoses ==
  ASSUME NEW A, NEW e, NEW dst, NEW new, Hides(A, e, dst, new)
  PROVE  Seen((A \ ({e} \cup dst)) \cup new) = Without(Seen(A), e)
<1> DEFINE V == Seen(A)
           B == (A \ ({e} \cup dst)) \cup new
           K == Found(A)
           L == Found(B)
           U == Proved!Under(e.h, V, Dirs)
<1>1. /\ Root \in K /\ K \subseteq Dirs
      /\ \A x \in A : x.p \in K /\ x.h \in Dirs => x.h \in K
  BY FoundClosed
<1>2. /\ Root \in L /\ L \subseteq Dirs
      /\ \A x \in B : x.p \in L /\ x.h \in Dirs => x.h \in L
  BY FoundClosed
<1>3. V = {x \in A : x.p \in K} /\ Seen(B) = {x \in B : x.p \in L}
  BY DEF Seen
<1>4. /\ e.h \in Dirs => e.h \in U
      /\ U \subseteq Dirs
      /\ \A x \in V : x.p \in U /\ x.h \in Dirs => x.h \in U
  BY UnderClosed
<1>5. /\ \A x \in new : x.p \notin K
      /\ \A x \in V : x \notin dst
      /\ e.h \notin TopDirs /\ \A x \in A : x.h \notin TopDirs
      /\ e.h \in Dirs => \A x \in A : x.h = e.h => x = e
      /\ \A x, y \in A : x.h = y.h /\ x.h \in Dirs => x = y
  BY DEF Hides
<1>6. Root \in TopDirs
  BY WatcherAssumption
<1> HIDE DEF V, K, L, U
<1>7. CASE e \notin V
  <2>1. L \subseteq K
    <3>1. \A x \in B : x.p \in K /\ x.h \in Dirs => x.h \in K
      BY <1>1, <1>5
    <3> HIDE DEF B
    <3> QED BY <1>1, <3>1, FoundLeast DEF L
  <2>2. K \subseteq L
    <3>1. ASSUME NEW x \in A, x.p \in L, x.h \in Dirs PROVE x.h \in L
      <4>1. x \in V /\ x # e /\ x \notin dst
        BY <1>3, <1>5, <1>7, <2>1, <3>1
      <4> QED BY <1>2, <3>1, <4>1
    <3> QED BY <1>2, <3>1, FoundLeast DEF K
  <2>3. Seen(B) = V
    BY <1>3, <1>5, <1>7, <2>1, <2>2
  <2>4. Without(V, e) = V
    BY <1>7 DEF Without
  <2> QED BY <2>3, <2>4 DEF B, V
<1>8. CASE e \in V
  <2>1. L \subseteq K \ U
    <3>1. Root \notin U
      <4> DEFINE S == Dirs \ {Root}
      <4>1. e.h \in Dirs => e.h \in S
        BY <1>5, <1>6
      <4>2. \A x \in V : x.p \in S /\ x.h \in Dirs => x.h \in S
        BY <1>3, <1>5, <1>6
      <4> HIDE DEF S
      <4>3. U \subseteq S
        BY <4>1, <4>2, UnderLeast DEF U, S
      <4> QED BY <4>3 DEF S
    <3>2. ASSUME NEW x \in B, x.p \in K \ U, x.h \in Dirs PROVE x.h \in K \ U
      <4>1. x \in V /\ x # e /\ x.h \in K
        BY <1>1, <1>3, <1>5, <3>2
      <4>2. x.h # e.h
        BY <1>3, <1>5, <3>2, <4>1
      <4>3. SUFFICES ASSUME x.h \in U PROVE FALSE
        BY <4>1
      <4> DEFINE S == U \ {x.h}
      <4>4. e.h \in Dirs => e.h \in S
        BY <1>4, <4>2
      <4>5. \A y \in V : y.p \in S /\ y.h \in Dirs => y.h \in S
        BY <1>3, <1>4, <1>5, <3>2, <4>1
      <4>6. S \in SUBSET Dirs
        BY <1>4
      <4> HIDE DEF S
      <4>7. U \subseteq S
        BY <4>4, <4>5, <4>6, UnderLeast DEF U
      <4> QED BY <4>3, <4>7 DEF S
    <3> HIDE DEF B
    <3> QED BY <1>1, <3>1, <3>2, FoundLeast DEF L
  <2>2. U \subseteq K
    <3>1. e.h \in Dirs => e.h \in K
      BY <1>1, <1>3, <1>8
    <3>2. \A x \in V : x.p \in K /\ x.h \in Dirs => x.h \in K
      BY <1>1, <1>3
    <3> QED BY <1>1, <3>1, <3>2, UnderLeast DEF U
  <2>3. K \subseteq L \cup U
    <3>1. ASSUME NEW x \in A, x.p \in L \cup U, x.h \in Dirs PROVE x.h \in L \cup U
      <4>1. x \in V
        BY <1>3, <2>1, <2>2, <3>1
      <4>2. CASE x = e
        BY <1>4, <3>1, <4>2
      <4>3. CASE x.p \in U
        BY <1>4, <3>1, <4>1, <4>3
      <4>4. CASE x # e /\ x.p \in L
        <5>1. x \notin dst
          BY <1>5, <4>1
        <5> QED BY <1>2, <3>1, <4>4, <5>1
      <4> QED BY <3>1, <4>2, <4>3, <4>4
    <3>2. L \cup U \in SUBSET Dirs /\ Root \in L \cup U
      BY <1>2, <1>4
    <3> QED BY <3>1, <3>2, FoundLeast DEF K
  <2>4. \A x \in B : x.p \in L <=> x.p \in K \ U
    BY <2>1, <2>3
  <2>5. Seen(B) = {x \in V : x # e /\ x.p \notin U}
    BY <1>3, <1>5, <2>4
  <2>6. Without(V, e) = {x \in V : x # e /\ x.p \notin U}
    BY <1>8 DEF Without, U
  <2> QED BY <2>5, <2>6 DEF B, V
<1> QED BY <1>7, <1>8

-----------------------------------------------------------------------------
(* What the reader says of a change, and what it should say.               *)
Said(ev) ==
  IF ev.mask = {"OPEN"} THEN <<>> ELSE IF "RENAME" \in ev.mask THEN Renamed(ev) ELSE Altered(ev)

(* An event of the database thread that turns one view into another.       *)
Turns ==
  {t \in Events \X (SUBSET Entry) \X (SUBSET Entry) : Proved!Follows(t[1], t[2], t[3], Root, Dirs)}

(* An event of the kernel of which the reader says so.                     *)
Sends ==
  {t \in KernelEvent \X (SUBSET Entry) \X (SUBSET Entry) :
     \/ Said(t[1]) = <<>> /\ t[2] = t[3]
     \/ \E x : Said(t[1]) = <<x>> /\ <<x, t[2], t[3]>> \in Turns}

(* A tree: one entry at a place, one of a directory, none of those that    *)
(* stay where they are, and all of them in directories that are there.     *)
IsTree(t) ==
  /\ \A x, y \in t : x.p = y.p /\ x.n = y.n => x = y
  /\ \A x, y \in t : x.h = y.h /\ x.h \in Dirs => x = y
  /\ \A x \in t : x.h \notin TopDirs /\ (x.p \in TopDirs \/ \E y \in t : y.h = x.p)

LEMMA KnownIsSome ==
  ASSUME NEW w \in Place
  PROVE  /\ Known(w) \in Dirent /\ Known(w) # None
         /\ Known(w).p_fh = w.p /\ Known(w).name = w.n
         /\ \A h : Proved!Placed(Known(w), h) = [p |-> w.p, n |-> w.n, h |-> h]
<1>1. Known(w) \in Dirent /\ Known(w).p_fh = w.p /\ Known(w).name = w.n
  BY KnownTyped DEF Known
<1>2. Dirent \subseteq Writer!Dirent
  BY FilesystemAssumption, WatcherAssumption DEF Dirent, Writer!Dirent
<1>3. \A h : Proved!Placed(Known(w), h) = [p |-> w.p, n |-> w.n, h |-> h]
  BY <1>1 DEF Proved!Placed
<1> QED BY <1>1, <1>2, <1>3, WatcherAssumption

LEMMA EntryIsRecord == \A x \in Entry : x = [p |-> x.p, n |-> x.n, h |-> x.h]
BY DEF Entry

(* What a creation or a removal is reported as.                            *)
LEMMA SaidAltered ==
  ASSUME NEW type \in {"CREATE", "DELETE"}, NEW tid, NEW w, NEW h
  PROVE  LET ev == Ev(type, tid, None, w, h)
             x == [type |-> "Alter",
                   old_dirent |-> IF type = "CREATE" THEN None ELSE Known(w),
                   new_dirent |-> IF type = "CREATE" THEN Known(w) ELSE None,
                   fh |-> h, is_dir |-> h \in Dirs]
         IN  Said(ev) = IF Allow(h, w.n) THEN <<x>> ELSE <<>>
<1> DEFINE ev == Ev(type, tid, None, w, h)
<1>1. /\ ev.mask = {type} /\ ev.new = w /\ ev.fh = h /\ ev.is_dir = (h \in Dirs)
  BY DEF Ev
<1> HIDE DEF ev
<1>2. Said(ev) = Altered(ev) /\ ~NetZero(ev)
  <2>1. {type} # {"OPEN"} /\ "RENAME" \notin {type}
    OBVIOUS
  <2>2. "CREATE" \notin {type} \/ "DELETE" \notin {type}
    OBVIOUS
  <2> QED BY <1>1, <2>1, <2>2 DEF Said, NetZero
<1>3. CASE type = "CREATE"
  BY <1>1, <1>2, <1>3 DEF Altered, Alter, ev
<1>4. CASE type = "DELETE"
  BY <1>1, <1>2, <1>4 DEF Altered, Alter, ev
<1> QED BY <1>3, <1>4

(* What a rename is reported as.                                           *)
LEMMA SaidRenamed ==
  ASSUME NEW tid, NEW v, NEW w, NEW h
  PROVE  LET ev == Ev("RENAME", tid, v, w, h)
             old == IF Allow(h, v.n) THEN Known(v) ELSE None
             new == IF Allow(h, w.n) THEN Known(w) ELSE None
             x == [type |-> "Alter", old_dirent |-> old, new_dirent |-> new,
                   fh |-> h, is_dir |-> h \in Dirs]
         IN  Said(ev) = IF old = None /\ new = None THEN <<>> ELSE <<x>>
<1> DEFINE ev == Ev("RENAME", tid, v, w, h)
<1>1. /\ ev.mask = {"RENAME"} /\ ev.old = v /\ ev.new = w /\ ev.fh = h /\ ev.is_dir = (h \in Dirs)
  BY DEF Ev
<1> HIDE DEF ev
<1>2. Said(ev) = Renamed(ev)
  BY <1>1 DEF Said
<1> QED BY <1>1, <1>2 DEF Renamed, Alter, ev

(* The view of a tree.                                                     *)
LEMMA VisibleParts ==
  ASSUME NEW t \in SUBSET Entry
  PROVE  /\ Allowed(t) \in SUBSET Entry /\ Visible(t) \in SUBSET Entry
         /\ Visible(t) = {x \in Allowed(t) : x.p \in Found(Allowed(t))}
BY VisibleSeen DEF Seen, Allowed

(* A new entry: creat, mkdir, link.                                        *)
LEMMA AddedSaid ==
  ASSUME tree \subseteq Entry, NEW N \in Entry, NEW tid,
         \A x \in tree : ~(x.p = N.p /\ x.n = N.n),
         N.h \in Dirs => N.h \notin TopDirs /\ \A x \in tree : x.h # N.h /\ x.p # N.h,
         Ev("CREATE", tid, None, Where(N), N.h) \in KernelEvent
  PROVE  <<Ev("CREATE", tid, None, Where(N), N.h), Visible(tree), Visible(tree \cup {N})>> \in Sends
<1> DEFINE ev == Ev("CREATE", tid, None, Where(N), N.h)
           V == Visible(tree)
           W == Visible(tree \cup {N})
           A == Allowed(tree)
<1>1. Where(N) \in Place /\ Where(N).p = N.p /\ Where(N).n = N.n /\ N = [p |-> N.p, n |-> N.n, h |-> N.h]
      /\ N.p \in Dirs
  BY EntryIsRecord DEF Where, Place, Entry
<1>2. /\ V \in SUBSET Entry /\ W \in SUBSET Entry /\ ev \in KernelEvent /\ A \in SUBSET Entry
      /\ V = Seen(A) /\ A \subseteq tree
  BY VisibleParts, VisibleSeen DEF Allowed
<1>3. CASE ~Allow(N.h, N.n)
  <2>1. Said(ev) = <<>>
    BY <1>1, <1>3, SaidAltered
  <2>2. Allowed(tree \cup {N}) = A
    BY <1>3 DEF Allowed
  <2>3. V = W
    BY <2>2, VisibleSeen
  <2> HIDE DEF ev, V, W
  <2> QED BY <1>2, <2>1, <2>3 DEF Sends, ev, V, W
<1>4. CASE Allow(N.h, N.n)
  <2> DEFINE x == [type |-> "Alter", old_dirent |-> None, new_dirent |-> Known(Where(N)),
                   fh |-> N.h, is_dir |-> N.h \in Dirs]
  <2>1. Said(ev) = <<x>>
    BY <1>1, <1>4, SaidAltered
  <2>2. Allowed(tree \cup {N}) = A \cup {N}
    BY <1>4 DEF Allowed
  <2>3. /\ x \in Events /\ x \in Proved!Alter
        /\ x.old_dirent = None /\ x.new_dirent # None /\ x.new_dirent.p_fh = N.p
        /\ x.new_dirent.name = N.n /\ x.fh = N.h /\ x.is_dir = (N.h \in Dirs)
        /\ Proved!Placed(x.new_dirent, x.fh) = N
    <3>1. x \in Events
      BY <1>1, KnownIsSome DEF Events, Entry
    <3>2. x \in Proved!Alter
      BY <1>1, KnownIsSome, FilesystemAssumption, WatcherAssumption
        DEF Proved!Alter, Dirent, Proved!Dirent, Entry
    <3> QED BY <1>1, <3>1, <3>2, KnownIsSome
  <2> HIDE DEF x, A
  <2>4. /\ Proved!OldEntry(x, V) = {} /\ Proved!Overwritten(x, V) = {}
        /\ Proved!Lands(x, V, Root) <=> N.p \in Found(A)
    <3>1. Proved!Knows(V, Root, N.p) <=> N.p \in Found(A)
      BY <1>1, <1>2, FoundKnown
    <3>2. V \subseteq tree
      BY <1>2 DEF Seen
    <3> QED BY <2>3, <3>1, <3>2 DEF Proved!OldEntry, Proved!Overwritten, Proved!Lands
  <2>5. CASE N.p \in Found(A)
    <3>1. Seen(A \cup {N}) = V \cup {N}
      BY <1>2, <2>5, SeenGains
    <3>2. W = V \cup {N}
      BY <2>2, <3>1, VisibleSeen
    <3>3. N.h \in Dirs => N.h # Root /\ \A y \in V : y.h # N.h
      BY <1>2, WatcherAssumption DEF Seen
    <3> HIDE DEF V, W
    <3>4. Proved!Follows(x, V, W, Root, Dirs)
      BY <1>1, <2>3, <2>4, <2>5, <3>2, <3>3 DEF Proved!Follows
    <3>5. <<x, V, W>> \in Turns
      BY <1>2, <2>3, <3>4 DEF Turns
    <3> HIDE DEF ev
    <3> QED BY <1>2, <2>1, <3>5 DEF Sends, V, W, ev
  <2>6. CASE N.p \notin Found(A)
    <3>1. Seen(A \cup {N}) = V
      <4>1. /\ Root \in Found(A) /\ Found(A) \subseteq Dirs
            /\ \A y \in A : y.p \in Found(A) /\ y.h \in Dirs => y.h \in Found(A)
        BY FoundClosed
      <4>2. /\ Root \in Found(A \cup {N}) /\ Found(A \cup {N}) \subseteq Dirs
            /\ \A y \in A \cup {N} : y.p \in Found(A \cup {N}) /\ y.h \in Dirs => y.h \in Found(A \cup {N})
        BY FoundClosed
      <4>3. Found(A \cup {N}) \subseteq Found(A)
        BY <2>6, <4>1, FoundLeast
      <4>4. Found(A) \subseteq Found(A \cup {N})
        BY <4>2, FoundLeast
      <4> QED BY <1>2, <2>6, <4>3, <4>4 DEF Seen
    <3>2. W = V
      BY <2>2, <3>1, VisibleSeen
    <3> HIDE DEF V, W
    <3>4. Proved!Follows(x, V, W, Root, Dirs)
      BY <1>1, <2>3, <2>4, <2>6, <3>2 DEF Proved!Follows
    <3>5. <<x, V, W>> \in Turns
      BY <1>2, <2>3, <3>4 DEF Turns
    <3> HIDE DEF ev
    <3> QED BY <1>2, <2>1, <3>5 DEF Sends, V, W, ev
  <2> QED BY <2>5, <2>6
<1> QED BY <1>3, <1>4

(* A removal: unlink, rmdir.                                               *)
LEMMA RemovedSaid ==
  ASSUME tree \subseteq Entry, IsTree(tree), NEW e \in tree, NEW tid,
         Ev("DELETE", tid, None, Where(e), e.h) \in KernelEvent
  PROVE  <<Ev("DELETE", tid, None, Where(e), e.h), Visible(tree), Visible(tree \ {e})>> \in Sends
<1> DEFINE ev == Ev("DELETE", tid, None, Where(e), e.h)
           V == Visible(tree)
           W == Visible(tree \ {e})
           A == Allowed(tree)
<1>1. /\ Where(e) \in Place /\ Where(e).p = e.p /\ Where(e).n = e.n
      /\ e = [p |-> e.p, n |-> e.n, h |-> e.h] /\ e.p \in Dirs /\ e \in Entry
  BY EntryIsRecord DEF Where, Place, Entry
<1>2. /\ V \in SUBSET Entry /\ W \in SUBSET Entry /\ ev \in KernelEvent /\ A \in SUBSET Entry
      /\ V = Seen(A) /\ A \subseteq tree /\ W = Seen(Allowed(tree \ {e}))
  BY VisibleParts, VisibleSeen DEF Allowed
<1>3. Allowed(tree \ {e}) = (A \ ({e} \cup {})) \cup {}
  BY DEF Allowed
<1> HIDE DEF A
<1>4. W = Without(V, e)
  <2>1. Hides(A, e, {}, {})
    BY <1>2 DEF IsTree, Hides
  <2>2. Seen((A \ ({e} \cup {})) \cup {}) = Without(Seen(A), e)
    BY <2>1, SeenLoses
  <2> QED BY <1>2, <1>3, <2>2
<1>5. CASE ~Allow(e.h, e.n)
  <2>1. Said(ev) = <<>>
    BY <1>1, <1>5, SaidAltered
  <2>2. e \notin V
    BY <1>2, <1>5 DEF Seen, A, Allowed
  <2>3. V = W
    BY <1>4, <2>2 DEF Without
  <2> HIDE DEF ev, V, W
  <2> QED BY <1>2, <2>1, <2>3 DEF Sends, ev, V, W
<1>6. CASE Allow(e.h, e.n)
  <2> DEFINE x == [type |-> "Alter", old_dirent |-> Known(Where(e)), new_dirent |-> None,
                   fh |-> e.h, is_dir |-> e.h \in Dirs]
  <2>1. Said(ev) = <<x>>
    BY <1>1, <1>6, SaidAltered
  <2>2. /\ x \in Events /\ x \in Proved!Alter
        /\ x.new_dirent = None /\ x.old_dirent # None /\ x.old_dirent.p_fh = e.p
        /\ x.fh = e.h /\ Proved!Placed(x.old_dirent, x.fh) = e
    <3>1. x \in Events
      BY <1>1, KnownIsSome DEF Events, Entry
    <3>2. x \in Proved!Alter
      BY <1>1, KnownIsSome, FilesystemAssumption, WatcherAssumption
        DEF Proved!Alter, Dirent, Proved!Dirent, Entry
    <3> QED BY <1>1, <3>1, <3>2, KnownIsSome
  <2> HIDE DEF x, V, W, ev
  <2>3. Proved!OldEntry(x, V) = {e} \cap V /\ ~Proved!Lands(x, V, Root)
    BY <2>2 DEF Proved!OldEntry, Proved!Lands
  <2>4. Proved!Follows(x, V, W, Root, Dirs)
    BY <1>1, <1>4, <2>2, <2>3 DEF Proved!Follows, Without
  <2>5. <<x, V, W>> \in Turns
    BY <1>2, <2>2, <2>4 DEF Turns
  <2> QED BY <1>2, <2>1, <2>5 DEF Sends, V, W, ev
<1> QED BY <1>5, <1>6

(* An entry e that moves to the place of N, where dst is: rename.          *)
Replaces(e, N, dst) ==
  /\ e \in tree /\ N \in Entry /\ N.h = e.h
  /\ dst = {x \in tree : x.p = N.p /\ x.n = N.n}
  /\ \A x \in dst : x.h # e.h /\ (x.h \in Dirs <=> e.h \in Dirs) /\ \A y \in tree : y.p # x.h
  /\ N.p \notin Reached({e.h} \cap Dirs, tree)

(* The watcher keeps track: a directory that comes into view was in view,  *)
(* and nothing outside the subvolume takes the place of what was in view.  *)
Traced(N, dst, T) ==
  /\ N \in Visible(T) /\ N.h \in Dirs => \E y \in Visible(tree) : y.h = N.h
  /\ N.h \in Foreign => dst \cap Visible(tree) = {}

(* The view after a rename.                                                *)
LEMMA RenamedView ==
  ASSUME tree \subseteq Entry, IsTree(tree), NEW e, NEW N, NEW dst, Replaces(e, N, dst),
         NEW T, T = (tree \ ({e} \cup dst)) \cup {N}, Traced(N, dst, T)
  PROVE  LET V == Visible(tree)
         IN  IF Allow(N.h, N.n) /\ N.p \in Found(Allowed(tree))
             THEN /\ Visible(T) = (V \ ({e} \cup dst)) \cup {N}
                  /\ N.h \in Dirs => e \in V
             ELSE Visible(T) = Without(V, e)
<1> DEFINE V == Visible(tree)
           A == Allowed(tree)
<1>1. /\ A \in SUBSET Entry /\ V = Seen(A) /\ A \subseteq tree
      /\ V = {x \in A : x.p \in Found(A)} /\ Visible(T) = Seen(Allowed(T))
      /\ \A x \in tree : x \in A <=> Allow(x.h, x.n)
  BY VisibleParts, VisibleSeen DEF Allowed
<1>2. /\ e \in tree /\ N \in Entry /\ N.h = e.h
      /\ \A x \in tree : x \in dst <=> (x.p = N.p /\ x.n = N.n)
      /\ dst \subseteq tree
      /\ \A x \in dst : /\ x.h # e.h /\ (x.h \in Dirs <=> e.h \in Dirs)
                        /\ x.p = N.p /\ x.n = N.n /\ \A y \in tree : y.p # x.h
      /\ N.p \notin Reached({e.h} \cap Dirs, tree)
  BY DEF Replaces
<1>3. N \notin {e} \cup dst
  BY <1>2
<1> HIDE DEF V, A
<1>4. CASE Allow(N.h, N.n) /\ N.p \in Found(A)
  <2> DEFINE src == {e} \cap A
             to == dst \cap A
             B == (A \ (src \cup to)) \cup {N}
  <2>1. Allowed(T) = B
    BY <1>4 DEF Allowed, A
  <2>2. /\ N \notin src \cup to /\ src \cup to \subseteq A /\ to \subseteq A
        /\ \A x \in src : x.h = N.h
        /\ \A x \in to : /\ x.p = N.p /\ (x.h \in Dirs <=> N.h \in Dirs)
                         /\ \A y \in A : y.p # x.h
    BY <1>1, <1>2, <1>3
  <2>3. N.h \in Dirs => N.p \notin Reached({N.h}, A)
    BY <1>1, <1>2 DEF Reached
  <2> HIDE DEF src, to
  <2>4. ASSUME N.h \in Dirs PROVE e \in V
    <3>1. \A x \in to : x.h \in Dirs
      BY <2>2, <2>4
    <3>2. N.p \in Found(B)
      BY <1>4, <2>2, <2>3, <2>4, <3>1, StillFound
    <3>3. N \in B
      OBVIOUS
    <3> HIDE DEF B
    <3>4. N \in Visible(T)
      BY <1>1, <2>1, <3>2, <3>3 DEF Seen
    <3>5. PICK y \in V : y.h = N.h
      BY <2>4, <3>4 DEF Traced, V
    <3>6. y = e
      BY <1>1, <1>2, <2>4, <3>5 DEF IsTree
    <3> QED BY <3>5, <3>6
  <2>5. N.h \in Dirs => (\E x \in src : x \in Seen(A)) /\ N.p \notin Reached({N.h}, A)
    BY <1>1, <2>3, <2>4 DEF src
  <2>6. Seen(B) = (Seen(A) \ (src \cup to)) \cup {N}
    <3>1. Moves(A, src, to, N)
      BY <1>4, <2>2, <2>5 DEF Moves
    <3> QED BY <3>1, SeenMoves
  <2>7. Visible(T) = (V \ ({e} \cup dst)) \cup {N}
    <3> HIDE DEF B
    <3> QED BY <1>1, <2>1, <2>6 DEF src, to
  <2> QED BY <1>4, <2>4, <2>7 DEF V, A
<1>5. CASE ~(Allow(N.h, N.n) /\ N.p \in Found(A))
  <2> DEFINE new == IF Allow(N.h, N.n) THEN {N} ELSE {}
  <2>1. Allowed(T) = (A \ ({e} \cup dst)) \cup new
    BY <1>2 DEF Allowed, A
  <2>2. \A x \in new : x.p \notin Found(A)
    BY <1>5
  <2> HIDE DEF new
  <2>3. dst \cap V = {}
    <3>1. CASE N.h \in Foreign
      BY <3>1 DEF Traced, V
    <3>2. CASE N.h \notin Foreign
      <4> SUFFICES ASSUME NEW x \in dst, x \in V PROVE FALSE
        OBVIOUS
      <4>1. x \in A /\ x.p \in Found(A) /\ x.p = N.p /\ x.n = N.n /\ Allow(x.h, x.n)
        BY <1>1, <1>2
      <4> QED BY <1>5, <3>2, <4>1 DEF Allow
    <3> QED BY <3>1, <3>2
  <2>4. Hides(A, e, dst, new)
    BY <1>1, <1>2, <2>2, <2>3 DEF Hides, IsTree
  <2>5. Seen((A \ ({e} \cup dst)) \cup new) = Without(Seen(A), e)
    BY <2>4, SeenLoses
  <2> QED BY <1>1, <1>5, <2>1, <2>5 DEF V, A
<1> QED BY <1>4, <1>5 DEF A

(* A rename is reported as what it does to the view.                       *)
LEMMA RenamedSaid ==
  ASSUME tree \subseteq Entry, IsTree(tree), NEW e, NEW N, NEW dst, Replaces(e, N, dst),
         NEW T, T = (tree \ ({e} \cup dst)) \cup {N}, Traced(N, dst, T), NEW tid,
         Ev("RENAME", tid, Where(e), Where(N), e.h) \in KernelEvent
  PROVE  <<Ev("RENAME", tid, Where(e), Where(N), e.h), Visible(tree), Visible(T)>> \in Sends
<1> DEFINE ev == Ev("RENAME", tid, Where(e), Where(N), e.h)
           V == Visible(tree)
           W == Visible(T)
           A == Allowed(tree)
           lands == Allow(N.h, N.n) /\ N.p \in Found(A)
<1>1. /\ e \in tree /\ N \in Entry /\ N.h = e.h /\ e \in Entry /\ T \in SUBSET Entry
      /\ dst = {x \in tree : x.p = N.p /\ x.n = N.n}
      /\ \A x \in dst : x.h # e.h /\ \A y \in tree : y.p # x.h
  BY DEF Replaces
<1>2. /\ Where(e) \in Place /\ Where(e).p = e.p /\ Where(e).n = e.n
      /\ Where(N) \in Place /\ Where(N).p = N.p /\ Where(N).n = N.n
      /\ e = [p |-> e.p, n |-> e.n, h |-> e.h] /\ N = [p |-> N.p, n |-> N.n, h |-> N.h]
      /\ e.p \in Dirs /\ N.p \in Dirs /\ e.h \in Handle
  BY <1>1, EntryIsRecord DEF Where, Place, Entry
<1>3. /\ V \in SUBSET Entry /\ W \in SUBSET Entry /\ ev \in KernelEvent
      /\ V = Seen(A) /\ V \subseteq A /\ A \subseteq tree
      /\ e \in A <=> Allow(e.h, e.n)
  BY <1>1, VisibleParts, VisibleSeen DEF Allowed
<1>4. /\ lands => W = (V \ ({e} \cup dst)) \cup {N} /\ (N.h \in Dirs => e \in V)
      /\ ~lands => W = Without(V, e)
  BY RenamedView
<1>5. Proved!Knows(V, Root, N.p) <=> N.p \in Found(A)
  BY <1>2, <1>3, FoundKnown
<1> DEFINE old == IF Allow(e.h, e.n) THEN Known(Where(e)) ELSE None
           new == IF Allow(e.h, N.n) THEN Known(Where(N)) ELSE None
           x == [type |-> "Alter", old_dirent |-> old, new_dirent |-> new,
                 fh |-> e.h, is_dir |-> e.h \in Dirs]
<1>6. Said(ev) = IF old = None /\ new = None THEN <<>> ELSE <<x>>
  BY <1>2, SaidRenamed
<1>7. /\ old = None <=> e \notin A
      /\ new = None <=> ~Allow(N.h, N.n)
      /\ old # None => old.p_fh = e.p /\ Proved!Placed(old, e.h) = e
      /\ new # None => new.p_fh = N.p /\ new.name = N.n /\ Proved!Placed(new, e.h) = N
      /\ old \in Dirent \cup {None} /\ new \in Dirent \cup {None}
  BY <1>1, <1>2, <1>3, KnownIsSome
<1> HIDE DEF old, new, ev, V, W, A
<1>8. CASE old = None /\ new = None
  <2>1. e \notin V /\ ~lands
    BY <1>1, <1>3, <1>7, <1>8
  <2>2. V = W
    BY <1>4, <2>1 DEF Without
  <2> QED BY <1>3, <1>6, <1>8, <2>2 DEF Sends, V, W, ev
<1>9. CASE ~(old = None /\ new = None)
  <2>1. /\ x \in Events /\ x \in Proved!Alter
        /\ x.new_dirent = new /\ x.old_dirent = old /\ x.fh = e.h /\ x.is_dir = (e.h \in Dirs)
    <3>1. x \in Events
      BY <1>2, <1>7 DEF Events
    <3>2. x \in Proved!Alter
      BY <1>2, <1>7, FilesystemAssumption, WatcherAssumption DEF Proved!Alter, Dirent, Proved!Dirent
    <3> QED BY <3>1, <3>2
  <2> HIDE DEF x
  <2>2. /\ Proved!OldEntry(x, V) = {e} \cap V
        /\ Proved!Lands(x, V, Root) <=> lands
        /\ new # None => Proved!Overwritten(x, V) = dst \cap V
    BY <1>1, <1>3, <1>5, <1>7, <2>1 DEF Proved!OldEntry, Proved!Lands, Proved!Overwritten
  <2>3. CASE lands
    <3>1. \A y \in Proved!Overwritten(x, V) : y.h # x.fh /\ \A z \in V : z.p # y.h
      BY <1>1, <1>3, <1>7, <2>1, <2>2, <2>3
    <3>2. x.fh \in Dirs => x.fh # Root /\ \A y \in V : y.h = x.fh => y \in Proved!OldEntry(x, V)
      BY <1>1, <1>3, <2>1, <2>2, WatcherAssumption DEF IsTree
    <3>3. x.is_dir => x.old_dirent = None \/ Proved!OldEntry(x, V) # {}
      BY <1>1, <1>4, <2>1, <2>2, <2>3
    <3>4. W = (V \ (Proved!OldEntry(x, V) \cup Proved!Overwritten(x, V))) \cup {Proved!Placed(x.new_dirent, x.fh)}
      BY <1>1, <1>4, <1>7, <2>1, <2>2, <2>3
    <3>5. Proved!Follows(x, V, W, Root, Dirs)
      BY <1>2, <1>7, <2>1, <2>2, <2>3, <3>1, <3>2, <3>3, <3>4 DEF Proved!Follows
    <3>6. <<x, V, W>> \in Turns
      BY <1>3, <2>1, <3>5 DEF Turns
    <3> QED BY <1>3, <1>6, <1>9, <3>6 DEF Sends, V, W, ev
  <2>4. CASE ~lands
    <3>1. W = {y \in V : y \notin {e} \cap V /\ ({e} \cap V # {} => y.p \notin Proved!Under(x.fh, V, Dirs))}
      BY <1>4, <2>1, <2>4 DEF Without
    <3>2. Proved!Follows(x, V, W, Root, Dirs)
      BY <1>2, <1>7, <2>1, <2>2, <2>4, <3>1 DEF Proved!Follows
    <3>3. <<x, V, W>> \in Turns
      BY <1>3, <2>1, <3>2 DEF Turns
    <3> QED BY <1>3, <1>6, <1>9, <3>3 DEF Sends, V, W, ev
  <2> QED BY <2>3, <2>4
<1> QED BY <1>8, <1>9

-----------------------------------------------------------------------------
(* What can be followed.  The watcher loses track only of changes that     *)
(* reach it merged, of directories that arrive with what is in them, of    *)
(* exchanges, and of what something outside the subvolume replaces.        *)
Merged == tree' # tree /\ Len(evq') # Len(evq) + 1
Arrives ==
  \E x \in Visible(tree') : x.h \in Dirs /\ Linked(x.h) /\ \A e \in Visible(tree) : e.h # x.h
Buried == \E x \in tree' \ tree : x.h \in Foreign /\ \E e \in Visible(tree) : Where(e) = Where(x)

Followable(c) == c.op # "exchange" /\ ~Merged /\ ~Arrives /\ ~Buried

(* An event that is one change, opened on the way or not, or an open.      *)
Single(ev) ==
  /\ ev.tid # WalkerTid
  /\ ev.mask = {"OPEN"} \/ \E type \in {"CREATE", "DELETE", "RENAME"} : ev.mask \ {"OPEN"} = {type}

(* An event that merges with none is queued last.                          *)
LEMMA NotMerged ==
  ASSUME NEW ev, NEW q \in Seq(KernelEvent), Len(Enqueue(ev, q)) = Len(q) + 1
  PROVE  Enqueue(ev, q) = Append(q, ev)
<1>1. CASE \E i \in DOMAIN q : Reports(q[i]) = Reports(ev)
  <2>1. Enqueue(ev, q) = [i \in DOMAIN q |-> IF Reports(q[i]) = Reports(ev)
                                              THEN [q[i] EXCEPT !.mask = @ \cup ev.mask] ELSE q[i]]
    BY <1>1 DEF Enqueue
  <2>2. Len(Enqueue(ev, q)) = Len(q)
    BY <2>1
  <2> QED BY <2>2
<1>2. CASE ~\E i \in DOMAIN q : Reports(q[i]) = Reports(ev)
  BY <1>2 DEF Enqueue
<1> QED BY <1>1, <1>2

(* The event of a system call.                                             *)
LEMMA EventTyped ==
  ASSUME ops \in Nat, NEW c, NEW type \in Mask, NEW old \in Place \cup {None}, NEW new \in Place,
         NEW h \in Handle, type = "RENAME" => old \in Place
  PROVE  /\ Ev(type, UserTid(c), old, new, h) \in KernelEvent
         /\ Single(Ev(type, UserTid(c), old, new, h))
<1> DEFINE ev == Ev(type, UserTid(c), old, new, h)
<1>1. UserTid(c) \in Nat \ {WalkerTid}
  BY DEF UserTid, WalkerTid
<1>2. ev \in Change /\ ev.mask = {type} /\ ev.tid = UserTid(c)
  BY <1>1 DEF Ev, Change
<1> HIDE DEF ev
<1>3. Single(ev)
  <2>1. CASE type = "OPEN"
    BY <1>1, <1>2, <2>1 DEF Single
  <2>2. CASE type # "OPEN"
    <3>1. type \in {"CREATE", "DELETE", "RENAME"} /\ ev.mask \ {"OPEN"} = {type}
      BY <1>2, <2>2 DEF Mask
    <3> QED BY <1>1, <1>2, <3>1 DEF Single
  <2> QED BY <2>1, <2>2
<1> QED BY <1>2, <1>3 DEF KernelEvent, ev

(* The next change of the filesystem is the next event of the queue, and   *)
(* the reader will say what it does to the view.                           *)
Reads(ev) ==
  /\ ev \in KernelEvent /\ Single(ev) /\ IsTree(tree')
  /\ evq' = Append(evq, ev) /\ <<ev, Visible(tree), Visible(tree')>> \in Sends

LEMMA PutFollowed ==
  ASSUME FsTyped, IsTree(tree), watched, NEW c \in Syscalls, Create(c) \/ Link(c), ~Merged
  PROVE  \E ev : Reads(ev)
<1>1. c \in Call /\ ops \in Nat /\ evq \in Seq(KernelEvent) /\ tree \subseteq Entry /\ tree \subseteq past
  BY FilesystemAssumption, WatcherAssumption DEF FsTyped
<1> DEFINE N == [p |-> c.p, n |-> c.n, h |-> c.h]
           ev == Ev("CREATE", UserTid(c), None, Where(N), N.h)
<1>2. /\ N \in Entry /\ N.p = c.p /\ N.n = c.n /\ N.h = c.h
      /\ Where(N) \in Place /\ Where(N) = [p |-> c.p, n |-> c.n]
  BY <1>1 DEF Create, Link, Call, Entry, Where, Place
<1>3. /\ \A x \in tree : ~(x.p = N.p /\ x.n = N.n)
      /\ N.p \in TopDirs \/ \E y \in tree : y.h = N.p
      /\ tree' = tree \cup {N} /\ evq' = Enqueue(ev, evq)
  BY <1>2 DEF Create, Link, Put, At, Linked, Notify
<1>4. \/ N.h \notin TopDirs /\ \A x \in tree : x.h # N.h
      \/ N.h \notin Dirs
  BY <1>1, <1>2 DEF Create, Link, Born
<1>5. ev \in KernelEvent /\ Single(ev)
  BY <1>1, <1>2, EventTyped DEF Mask, Entry
<1> HIDE DEF N, ev
<1>6. N.h \in Dirs => N.h \notin TopDirs /\ \A x \in tree : x.h # N.h /\ x.p # N.h
  BY <1>4 DEF IsTree
<1>7. tree' # tree
  BY <1>3
<1>8. evq' = Append(evq, ev)
  BY <1>1, <1>3, <1>7, NotMerged DEF Merged
<1>9. <<ev, Visible(tree), Visible(tree')>> \in Sends
  BY <1>1, <1>2, <1>3, <1>5, <1>6, AddedSaid DEF ev
<1>10. IsTree(tree')
  <2>1. N.h \notin TopDirs
    BY <1>6, FilesystemAssumption
  <2> QED BY <1>3, <1>6, <2>1 DEF IsTree
<1> QED BY <1>5, <1>8, <1>9, <1>10 DEF Reads

LEMMA RemoveFollowed ==
  ASSUME FsTyped, IsTree(tree), watched, NEW c \in Syscalls, Remove(c), ~Merged
  PROVE  \E ev : Reads(ev)
<1>1. ops \in Nat /\ evq \in Seq(KernelEvent) /\ tree \subseteq Entry
  BY WatcherAssumption DEF FsTyped
<1>2. PICK e \in tree :
        /\ e.h \notin Dirs \/ \A x \in tree : x.p # e.h
        /\ tree' = tree \ {e}
        /\ evq' = Enqueue(Ev("DELETE", UserTid(c), None, Where(e), e.h), evq)
  BY DEF Remove, At, Empty, Notify
<1> DEFINE ev == Ev("DELETE", UserTid(c), None, Where(e), e.h)
<1>3. e.h \in Handle /\ Where(e) \in Place
  BY <1>1 DEF Entry, Where, Place
<1>4. ev \in KernelEvent /\ Single(ev)
  BY <1>1, <1>3, EventTyped DEF Mask
<1> HIDE DEF ev
<1>5. evq' = Append(evq, ev)
  BY <1>1, <1>2, NotMerged DEF Merged, ev
<1>6. <<ev, Visible(tree), Visible(tree')>> \in Sends
  BY <1>1, <1>2, <1>4, RemovedSaid DEF ev
<1>7. IsTree(tree')
  <2>1. \A x \in tree' : x.p # e.h
    BY <1>1, <1>2 DEF Entry
  <2> QED BY <1>2, <2>1 DEF IsTree
<1> QED BY <1>4, <1>5, <1>6, <1>7 DEF Reads

LEMMA RenameFollowed ==
  ASSUME FsTyped, IsTree(tree), watched, NEW c \in Syscalls, Rename(c), Followable(c)
  PROVE  \E ev : Reads(ev)
<1>1. c \in Call /\ ops \in Nat /\ evq \in Seq(KernelEvent) /\ tree \subseteq Entry
  BY FilesystemAssumption, WatcherAssumption DEF FsTyped
<1>2. PICK e \in tree :
        /\ c.q \notin Reached({e.h} \cap Dirs, tree)
        /\ \A t \in At(c.q, c.m) : t.h # e.h /\ (t.h \in Dirs <=> e.h \in Dirs) /\ Empty(t.h)
        /\ tree' = (tree \ ({e} \cup At(c.q, c.m))) \cup {Move(e, c.q, c.m)}
        /\ evq' = Enqueue(Ev("RENAME", UserTid(c), Where(e), [p |-> c.q, n |-> c.m], e.h), evq)
  BY DEF Rename, At, Notify
<1> DEFINE N == Move(e, c.q, c.m)
           dst == At(c.q, c.m)
           ev == Ev("RENAME", UserTid(c), Where(e), Where(N), e.h)
<1>3. /\ e.h \in Handle /\ Where(e) \in Place /\ N \in Entry /\ N.p = c.q /\ N.n = c.m /\ N.h = e.h
      /\ Where(N) \in Place /\ Where(N) = [p |-> c.q, n |-> c.m]
  BY <1>1 DEF Rename, Call, Move, Entry, Where, Place
<1>4. dst = {x \in tree : x.p = N.p /\ x.n = N.n}
  BY <1>3 DEF At
<1>5. ev \in KernelEvent /\ Single(ev)
  BY <1>1, <1>3, EventTyped DEF Mask
<1>6. Linked(c.q)
  BY DEF Rename
<1> HIDE DEF N, dst, ev
<1>7. tree' = (tree \ ({e} \cup dst)) \cup {N} /\ evq' = Enqueue(ev, evq)
  BY <1>2, <1>3 DEF N, dst, ev
<1>8. Replaces(e, N, dst)
  BY <1>2, <1>3, <1>4 DEF Replaces, dst, Empty
<1>9. e \notin tree'
  <2>1. e # N
    BY <1>2, <1>3, <1>4 DEF dst
  <2> QED BY <1>7, <2>1
<1>10. evq' = Append(evq, ev)
  BY <1>1, <1>2, <1>7, <1>9, NotMerged DEF Merged, Followable
<1>11. Traced(N, dst, tree')
  <2>1. ASSUME N \in Visible(tree'), N.h \in Dirs PROVE \E y \in Visible(tree) : y.h = N.h
    <3>1. Linked(N.h)
      BY <1>2, <1>3 DEF Linked
    <3> QED BY <2>1, <3>1 DEF Arrives, Followable
  <2>2. ASSUME N.h \in Foreign, NEW y \in dst, y \in Visible(tree) PROVE FALSE
    <3>1. N \notin tree /\ Where(y) = Where(N)
      BY <1>2, <1>3, <1>4 DEF dst, Where
    <3> QED BY <1>7, <2>2, <3>1 DEF Buried, Followable
  <2> QED BY <2>1, <2>2 DEF Traced
<1>12. <<ev, Visible(tree), Visible(tree')>> \in Sends
  BY <1>1, <1>5, <1>7, <1>8, <1>11, RenamedSaid DEF ev
<1>13. IsTree(tree')
  <2>1. \A x \in tree' : x = N \/ (x \in tree /\ x # e /\ ~(x.p = N.p /\ x.n = N.n))
    BY <1>4, <1>7
  <2>2. \A x \in dst : x \in tree /\ x.p = N.p /\ \A y \in tree : y.p # x.h
    BY <1>2, <1>4 DEF dst, Empty
  <2>3. N.h = e.h /\ N.h \notin TopDirs /\ (N.p \in TopDirs \/ \E y \in tree : y.h = N.p)
    BY <1>3, <1>6 DEF IsTree, Linked
  <2>4. \A x \in tree : x \notin dst => \E y \in tree' : y.h = x.h
    BY <1>3, <1>7
  <2>5. \A x \in tree' : x.p \in TopDirs \/ \E y \in tree' : y.h = x.p
    <3> SUFFICES ASSUME NEW x \in tree', x.p \notin TopDirs PROVE \E y \in tree' : y.h = x.p
      OBVIOUS
    <3>1. PICK y \in tree : y.h = x.p
      BY <1>3, <1>6, <2>1 DEF IsTree, Linked
    <3>2. CASE y \in dst
      BY <2>1, <2>2, <3>1, <3>2
    <3> QED BY <2>4, <3>1, <3>2
  <2> QED BY <1>2, <1>3, <2>1, <2>5 DEF IsTree
<1> QED BY <1>5, <1>10, <1>12, <1>13 DEF Reads

(* An open changes nothing; it is queued last or merged.                   *)
LEMMA OpenFollowed ==
  ASSUME FsTyped, watched, NEW c \in Syscalls, Open(c)
  PROVE  /\ tree' = tree
         /\ \E ev \in KernelEvent : Single(ev) /\ ev.mask = {"OPEN"} /\ evq' = Enqueue(ev, evq)
<1>1. ops \in Nat /\ evq \in Seq(KernelEvent) /\ tree \subseteq Entry
  BY WatcherAssumption DEF FsTyped
<1>2. PICK e \in tree : evq' = Enqueue(Ev("OPEN", UserTid(c), None, Where(e), e.h), evq)
  BY DEF Open, At, Notify
<1> DEFINE ev == Ev("OPEN", UserTid(c), None, Where(e), e.h)
<1>3. e.h \in Handle /\ Where(e) \in Place
  BY <1>1 DEF Entry, Where, Place
<1>4. ev \in KernelEvent /\ Single(ev)
  BY <1>1, <1>3, EventTyped DEF Mask
<1>5. ev.mask = {"OPEN"}
  BY DEF Ev
<1> QED BY <1>2, <1>4, <1>5 DEF Open

-----------------------------------------------------------------------------
(* The event at position k, then what is behind it.                        *)
LEMMA SplitAt ==
  ASSUME NEW S, NEW b \in Seq(S), NEW c \in Seq(S), NEW k \in 1 .. Len(b)
  PROVE  LET l == SubSeq(b, k, Len(b)) \o c
         IN  l # <<>> /\ Head(l) = b[k] /\ Tail(l) = SubSeq(b, k + 1, Len(b)) \o c
<1> DEFINE s == SubSeq(b, k, Len(b))
           t == SubSeq(b, k + 1, Len(b))
           x == b[k]
           u == t \o c
<1>1. x \in S /\ Len(b) \in Nat /\ Len(b) \in k .. Len(b)
  OBVIOUS
<1>2. s = <<x>> \o t
  BY <1>1, SubSeqRecursiveFirst
<1>3. t \in Seq(S)
  <2>1. \A i \in k + 1 .. Len(b) : b[i] \in S
    OBVIOUS
  <2> HIDE DEF x
  <2> QED BY <1>1, <2>1, SubSeqProperties
<1> HIDE DEF s, t, x
<1>4. <<x>> \in Seq(S) /\ u \in Seq(S)
  BY <1>1, <1>3
<1>5. s \o c = <<x>> \o u
  BY <1>2, <1>3, <1>4, ConcatAssociative
<1> HIDE DEF u
<1> DEFINE l == <<x>> \o u
<1>6. l \in Seq(S) /\ Len(l) = Len(u) + 1 /\ Len(u) \in Nat /\ l[1] = x
  BY <1>1, <1>4
<1>7. \A i \in 1 .. Len(u) : l[i + 1] = u[i]
  BY <1>4
<1> HIDE DEF l
<1>8. l # <<>> /\ Head(l) = x
  BY <1>6
<1>9. Tail(l) \in Seq(S) /\ Len(Tail(l)) = Len(u) /\ \A i \in 1 .. Len(u) : Tail(l)[i] = u[i]
  BY <1>6, <1>7, <1>8, HeadTailProperties
<1>10. Tail(l) = u
  BY <1>4, <1>9, SeqEqual
<1> QED BY <1>5, <1>8, <1>10 DEF l, s, t, x, u

(* What is on its way: events L that turn A into B, one after the other.   *)
Chain(L, A, B, T) ==
  \E f \in [0 .. Len(L) -> SUBSET Entry] :
    f[0] = A /\ f[Len(L)] = B /\ \A i \in 1 .. Len(L) : <<L[i], f[i - 1], f[i]>> \in T

LEMMA ChainEmpty ==
  ASSUME NEW A \in SUBSET Entry, NEW T
  PROVE  Chain(<<>>, A, A, T) /\ \A B : Chain(<<>>, A, B, T) => A = B
<1> DEFINE f == [i \in 0 .. 0 |-> A]
<1>1. f \in [0 .. Len(<<>>) -> SUBSET Entry] /\ f[0] = A /\ f[Len(<<>>)] = A
  OBVIOUS
<1> HIDE DEF f
<1> QED BY <1>1 DEF Chain

LEMMA ChainAppend ==
  ASSUME NEW S, NEW L \in Seq(S), NEW A, NEW B, NEW T, Chain(L, A, B, T), NEW x \in S,
         NEW C \in SUBSET Entry, <<x, B, C>> \in T
  PROVE  Chain(Append(L, x), A, C, T)
<1> DEFINE n == Len(L)
           M == Append(L, x)
<1>1. PICK f \in [0 .. n -> SUBSET Entry] :
        f[0] = A /\ f[n] = B /\ \A i \in 1 .. n : <<L[i], f[i - 1], f[i]>> \in T
  BY DEF Chain
<1> DEFINE g == [i \in 0 .. n + 1 |-> IF i = n + 1 THEN C ELSE f[i]]
<1>2. n \in Nat /\ Len(M) = n + 1 /\ M[n + 1] = x /\ \A i \in 1 .. n : M[i] = L[i]
  OBVIOUS
<1> HIDE DEF n, M
<1>3. /\ g \in [0 .. n + 1 -> SUBSET Entry] /\ g[n + 1] = C
      /\ \A i \in 0 .. n : g[i] = f[i]
  BY <1>2
<1> HIDE DEF g
<1>4. g[0] = A /\ g[n] = B
  BY <1>1, <1>2, <1>3
<1>5. ASSUME NEW i \in 1 .. n + 1 PROVE <<M[i], g[i - 1], g[i]>> \in T
  <2>1. CASE i = n + 1
    <3>1. g[i - 1] = B
      BY <1>2, <1>4, <2>1
    <3> QED BY <1>2, <1>3, <2>1, <3>1
  <2>2. CASE i # n + 1
    <3>1. i \in 1 .. n /\ i - 1 \in 0 .. n /\ i \in 0 .. n
      BY <1>2, <2>2
    <3> QED BY <1>1, <1>2, <1>3, <3>1
  <2> QED BY <2>1, <2>2
<1> QED BY <1>2, <1>3, <1>4, <1>5 DEF Chain, M

LEMMA ChainHead ==
  ASSUME NEW S, NEW L \in Seq(S), L # <<>>, NEW A, NEW C, NEW T, Chain(L, A, C, T)
  PROVE  \E B \in SUBSET Entry : <<Head(L), A, B>> \in T /\ Chain(Tail(L), B, C, T)
<1> DEFINE n == Len(L)
           M == Tail(L)
<1>1. PICK f \in [0 .. n -> SUBSET Entry] :
        f[0] = A /\ f[n] = C /\ \A i \in 1 .. n : <<L[i], f[i - 1], f[i]>> \in T
  BY DEF Chain
<1> DEFINE g == [i \in 0 .. n - 1 |-> f[i + 1]]
<1>2. n \in Nat /\ n > 0 /\ Len(M) = n - 1 /\ Head(L) = L[1] /\ \A i \in 1 .. n - 1 : M[i] = L[i + 1]
  OBVIOUS
<1> HIDE DEF n, M
<1>3. /\ g \in [0 .. n - 1 -> SUBSET Entry] /\ \A i \in 0 .. n - 1 : g[i] = f[i + 1]
  BY <1>2
<1> HIDE DEF g
<1>4. g[0] = f[1] /\ g[n - 1] = C
  <2>1. 0 \in 0 .. n - 1 /\ n - 1 \in 0 .. n - 1 /\ 0 + 1 = 1 /\ (n - 1) + 1 = n
    BY <1>2
  <2> QED BY <1>1, <1>3, <2>1
<1>5. ASSUME NEW i \in 1 .. n - 1 PROVE <<M[i], g[i - 1], g[i]>> \in T
  <2>1. /\ i + 1 \in 1 .. n /\ i - 1 \in 0 .. n - 1 /\ i \in 0 .. n - 1
        /\ (i - 1) + 1 = i /\ (i + 1) - 1 = i
    BY <1>2
  <2>2. g[i - 1] = f[i] /\ g[i] = f[i + 1]
    BY <1>3, <2>1
  <2>3. <<L[i + 1], f[i], f[i + 1]>> \in T
    BY <1>1, <2>1
  <2> QED BY <1>2, <2>2, <2>3
<1>6. Chain(M, f[1], C, T)
  BY <1>2, <1>3, <1>4, <1>5 DEF Chain
<1>7. 1 \in 1 .. n /\ 1 - 1 = 0 /\ 1 \in 0 .. n
  BY <1>2
<1>8. <<L[1], A, f[1]>> \in T /\ f[1] \in SUBSET Entry
  BY <1>1, <1>7
<1> QED BY <1>2, <1>6, <1>8 DEF M

(* Events that say the same make the same chain.                           *)
LEMMA ChainSame ==
  ASSUME NEW L, NEW M, NEW A, NEW B, NEW T, Chain(L, A, B, T), Len(M) = Len(L),
         \A i \in 1 .. Len(L) : \A X, Y : <<L[i], X, Y>> \in T => <<M[i], X, Y>> \in T
  PROVE  Chain(M, A, B, T)
BY DEF Chain

-----------------------------------------------------------------------------
(* The inductive invariant: the events that are on their way lead, one     *)
(* after the other, from what the database shows to the view of the tree.  *)
Cur == IF pos = 0 THEN db ELSE work
Left == IF pos = 0 THEN batch ELSE SubSeq(batch, pos, Len(batch))
ToDo == Left \o chan

NoWalk == watched /\ requests = <<>> /\ frames = <<>> /\ fd = None
OneByOne(q) == \A i \in 1 .. Len(q) : Single(q[i])

OnTheWay ==
  \E M \in SUBSET Entry : /\ Chain(ToDo, Proved!Shown(Cur), M, Turns)
                          /\ Chain(Queue, M, Visible(tree), Sends)

Tracks ==
  /\ NoWalk /\ IsTree(tree) /\ OneByOne(Queue)
  /\ Proved!Clean(db, Root, Dirs) /\ Proved!Clean(Cur, Root, Dirs)
  /\ OnTheWay

LEMMA QueuesTyped ==
  ASSUME Inv
  PROVE  /\ chan \in Seq(Events) /\ batch \in Seq(Events) /\ Left \in Seq(Events) /\ ToDo \in Seq(Events)
         /\ pos \in 0 .. Len(batch) + 1 /\ (pos > 0 => batch # <<>>)
         /\ buf \in Seq(KernelEvent) /\ evq \in Seq(KernelEvent) /\ Queue \in Seq(KernelEvent)
<1>1. /\ chan \in Seq(Events) /\ batch \in Seq(Events)
      /\ pos \in 0 .. Len(batch) + 1 /\ (pos > 0 => batch # <<>>)
  BY DEF Inv, Proved!Inv
<1>2. Left \in Seq(Events)
  <2>1. CASE pos = 0
    BY <1>1, <2>1 DEF Left
  <2>2. CASE pos # 0
    <3>1. \A i \in pos .. Len(batch) : batch[i] \in Events
      BY <1>1, <2>2
    <3>2. SubSeq(batch, pos, Len(batch)) \in Seq(Events)
      BY <1>1, <2>2, <3>1, SubSeqProperties
    <3> QED BY <2>2, <3>2 DEF Left
  <2> QED BY <2>1, <2>2
<1>3. ToDo \in Seq(Events)
  BY <1>1, <1>2 DEF ToDo
<1>4. buf \in Seq(KernelEvent) /\ evq \in Seq(KernelEvent)
  BY DEF Inv, FsTyped
<1>5. Queue \in Seq(KernelEvent)
  BY <1>4 DEF Queue
<1> QED BY <1>1, <1>2, <1>3, <1>4, <1>5

LEMMA TurnsFollow ==
  ASSUME NEW x, NEW A, NEW B, <<x, A, B>> \in Turns
  PROVE  x \in Events /\ A \in SUBSET Entry /\ B \in SUBSET Entry /\ Proved!Follows(x, A, B, Root, Dirs)
BY DEF Turns

LEMMA SendsSaid ==
  ASSUME NEW ev, NEW A, NEW B, <<ev, A, B>> \in Sends
  PROVE  \/ Said(ev) = <<>> /\ A = B
         \/ \E x \in Events : Said(ev) = <<x>> /\ <<x, A, B>> \in Turns
<1>1. \/ Said(ev) = <<>> /\ A = B
      \/ \E x : Said(ev) = <<x>> /\ <<x, A, B>> \in Turns
  BY DEF Sends
<1> QED BY <1>1, TurnsFollow

(* The database thread takes an event, ...                                 *)
LEMMA RecvTracks ==
  ASSUME Inv, Tracks, DbThread, Writer!Recv
  PROVE  Tracks'
<1>1. /\ pos = 0 /\ chan # <<>> /\ pos' = 0 /\ db' = db /\ work' = work
      /\ batch' = Append(batch, Head(chan)) /\ chan' = Tail(chan)
      /\ UNCHANGED <<fsVars, requests, frames, fd, buf>>
  BY DEF Writer!Recv, DbThread
<1>2. chan \in Seq(Events) /\ batch \in Seq(Events)
  BY QueuesTyped
<1>3. Append(batch, Head(chan)) \o Tail(chan) = batch \o chan
  BY <1>1, <1>2
<1>4. ToDo' = ToDo /\ Cur' = Cur
  BY <1>1, <1>3 DEF ToDo, Left, Cur
<1> QED BY <1>1, <1>4 DEF Tracks, NoWalk, Queue, OneByOne, OnTheWay, fsVars

(* ... opens the transaction, ...                                          *)
LEMMA FlushTracks ==
  ASSUME Inv, Tracks, DbThread, Writer!Flush
  PROVE  Tracks'
<1>1. /\ pos = 0 /\ chan = <<>> /\ pos' = 1 /\ work' = db /\ db' = db /\ batch' = batch /\ chan' = chan
      /\ UNCHANGED <<fsVars, requests, frames, fd, buf>>
  BY DEF Writer!Flush, DbThread
<1>2. batch \in Seq(Events)
  BY QueuesTyped
<1>3. SubSeq(batch, 1, Len(batch)) = batch
  BY <1>2, SubSeqFull
<1>4. ToDo' = ToDo /\ Cur' = Cur
  BY <1>1, <1>3 DEF ToDo, Left, Cur
<1> QED BY <1>1, <1>4 DEF Tracks, NoWalk, Queue, OneByOne, OnTheWay, fsVars

(* ... applies the next event: it does not fail, and asks for no walk, ... *)
LEMMA ApplyTracks ==
  ASSUME Inv, Tracks, DbThread, Writer!Apply
  PROVE  Tracks' /\ pos' = pos + 1
<1> DEFINE e == batch[pos]
           r == Writer!HandleEvent(work, e)
           rest == SubSeq(batch, pos + 1, Len(batch))
<1>1. /\ pos \in 1 .. Len(batch) /\ requests' = requests \o r.sent
      /\ r.err = "Ok" => work' = r.db /\ pos' = pos + 1 /\ batch' = batch
      /\ chan' = chan /\ db' = db
      /\ UNCHANGED <<fsVars, frames, fd, buf>>
  BY DEF Writer!Apply, DbThread
<1>2. chan \in Seq(Events) /\ batch \in Seq(Events) /\ ToDo \in Seq(Events)
  BY QueuesTyped
<1>3. ToDo # <<>> /\ Head(ToDo) = e /\ Tail(ToDo) = rest \o chan
  <2>1. ToDo = SubSeq(batch, pos, Len(batch)) \o chan
    <3>1. pos # 0
      BY <1>1, <1>2
    <3> QED BY <3>1 DEF ToDo, Left
  <2> DEFINE l == SubSeq(batch, pos, Len(batch)) \o chan
  <2>2. l # <<>> /\ Head(l) = batch[pos] /\ Tail(l) = SubSeq(batch, pos + 1, Len(batch)) \o chan
    <3>1. pos \in 1 .. Len(batch)
      BY <1>1
    <3> HIDE DEF l
    <3> QED BY <1>2, <3>1, SplitAt DEF l
  <2> HIDE DEF l
  <2>3. ToDo = l
    BY <2>1 DEF l
  <2> QED BY <2>2, <2>3
<1>4. PICK M \in SUBSET Entry : /\ Chain(ToDo, Proved!Shown(work), M, Turns)
                               /\ Chain(Queue, M, Visible(tree), Sends)
  BY <1>1 DEF Tracks, OnTheWay, Cur
<1>5. PICK W \in SUBSET Entry : /\ <<e, Proved!Shown(work), W>> \in Turns
                               /\ Chain(rest \o chan, W, M, Turns)
  BY <1>2, <1>3, <1>4, ChainHead
<1> HIDE DEF e, rest
<1>6. Proved!Clean(work, Root, Dirs) /\ Proved!Follows(e, Proved!Shown(work), W, Root, Dirs)
  BY <1>1, <1>5, TurnsFollow DEF Tracks, Cur
<1>7. r.err = "Ok" /\ r.sent = <<>> /\ Proved!Clean(r.db, Root, Dirs) /\ Proved!Shown(r.db) = W
  <2>1. LET h == Proved!HandleEvent(work, e)
        IN  h.err = "Ok" /\ h.sent = <<>> /\ Proved!Clean(h.db, Root, Dirs) /\ Proved!Shown(h.db) = W
    BY <1>6, Assumptions, Proved!EventShows
      DEF Proved!NamesAssumption, Proved!NoneAssumption, Proved!DbWriterAssumption
  <2> QED BY <2>1, SameHandleEvent
<1> HIDE DEF r
<1>8. /\ pos' = pos + 1 /\ work' = r.db /\ batch' = batch
      /\ requests' = <<>> /\ Cur' = r.db
  BY <1>1, <1>7 DEF Tracks, NoWalk, Cur
<1>9. ToDo' = rest \o chan
  <2>1. pos' # 0 /\ pos' = pos + 1 /\ batch' = batch /\ chan' = chan
    BY <1>1, <1>8
  <2> QED BY <2>1 DEF ToDo, Left, rest
<1>10. UNCHANGED <<Queue, tree, watched>>
  BY <1>1 DEF Queue, fsVars
<1>11. OnTheWay'
  BY <1>4, <1>5, <1>7, <1>8, <1>9, <1>10 DEF OnTheWay
<1> QED BY <1>1, <1>7, <1>8, <1>10, <1>11 DEF Tracks, NoWalk, OneByOne

(* ... and commits.                                                        *)
LEMMA CommitTracks ==
  ASSUME Inv, Tracks, DbThread, Writer!Commit
  PROVE  Tracks'
<1>1. /\ pos = Len(batch) + 1 /\ db' = work /\ work' = work /\ pos' = 0 /\ batch' = <<>> /\ chan' = chan
      /\ UNCHANGED <<fsVars, requests, frames, fd, buf>>
  BY DEF Writer!Commit, Writer!EndBatch, DbThread
<1>2. chan \in Seq(Events) /\ batch \in Seq(Events)
  BY QueuesTyped
<1>3. SubSeq(batch, pos, Len(batch)) = <<>>
  BY <1>1, <1>2
<1>4. ToDo' = ToDo /\ Cur' = Cur /\ db' = Cur
  BY <1>1, <1>2, <1>3 DEF ToDo, Left, Cur
<1> QED BY <1>1, <1>4 DEF Tracks, NoWalk, Queue, OneByOne, OnTheWay, fsVars

(* The walker has nothing to do; the reader moves events from one queue to *)
(* the other, ...                                                          *)
LEMMA WalkerRests == NoWalk => ~WalkerThread
BY DEF NoWalk, WalkerThread, Walk, OpenRequest, OpenChild, OpenBlocks, SendHint, EndDir

LEMMA ReadTracks ==
  ASSUME Inv, Tracks, Read
  PROVE  Tracks'
<1>1. UNCHANGED <<tree, watched, requests, frames, fd, chan, batch, pos, db, work>>
  BY DEF Read, walkVars, writerVars
<1>2. Queue' = Queue
  BY ReadQueue
<1>3. ToDo' = ToDo /\ Cur' = Cur
  BY <1>1 DEF ToDo, Left, Cur
<1> QED BY <1>1, <1>2, <1>3 DEF Tracks, NoWalk, OneByOne, OnTheWay

(* ... and says what it does to the view: the event goes from one chain to *)
(* the other.                                                              *)
LEMMA HandleChangeTracks ==
  ASSUME Inv, Tracks, HandleChange
  PROVE  Tracks'
<1> DEFINE ev == Head(buf)
<1>1. /\ buf # <<>> /\ chan' = chan \o Said(ev) /\ buf' = Tail(buf)
      /\ UNCHANGED <<fsVars, requests, frames, fd, batch, pos, db, work>>
  BY DEF HandleChange, Report, Said
<1>2. /\ Queue \in Seq(KernelEvent) /\ Queue # <<>> /\ Head(Queue) = ev
      /\ Tail(Queue) = Tail(buf) \o evq
  BY <1>1, QueueHead
<1>3. /\ chan \in Seq(Events) /\ Left \in Seq(Events) /\ ToDo \in Seq(Events)
      /\ ToDo = Left \o chan
  BY QueuesTyped DEF ToDo
<1>4. Queue' = Tail(Queue) /\ tree' = tree /\ watched' = watched /\ Left' = Left /\ Cur' = Cur
  BY <1>1, <1>2 DEF Queue, fsVars, Left, Cur
<1>5. PICK M \in SUBSET Entry : /\ Chain(ToDo, Proved!Shown(Cur), M, Turns)
                               /\ Chain(Queue, M, Visible(tree), Sends)
  BY DEF Tracks, OnTheWay
<1>6. PICK B \in SUBSET Entry : <<ev, M, B>> \in Sends /\ Chain(Tail(Queue), B, Visible(tree), Sends)
  BY <1>2, <1>5, ChainHead
<1> HIDE DEF ev
<1>7. Chain(ToDo', Proved!Shown(Cur), B, Turns)
  <2>1. CASE Said(ev) = <<>> /\ M = B
    <3>1. chan' = chan
      BY <1>1, <1>3, <2>1
    <3>2. ToDo' = ToDo
      BY <1>3, <1>4, <3>1 DEF ToDo
    <3> QED BY <1>5, <2>1, <3>2
  <2>2. CASE \E x \in Events : Said(ev) = <<x>> /\ <<x, M, B>> \in Turns
    <3>1. PICK x \in Events : Said(ev) = <<x>> /\ <<x, M, B>> \in Turns
      BY <2>2
    <3>2. \A a, c \in Seq(Events) : a \o (c \o <<x>>) = Append(a \o c, x)
      <4> SUFFICES ASSUME NEW a \in Seq(Events), NEW c \in Seq(Events)
                   PROVE  a \o (c \o <<x>>) = Append(a \o c, x)
        OBVIOUS
      <4>1. <<x>> \in Seq(Events) /\ a \o c \in Seq(Events)
        OBVIOUS
      <4>2. a \o (c \o <<x>>) = (a \o c) \o <<x>>
        BY <4>1, ConcatAssociative
      <4> QED BY <4>1, <4>2, AppendIsConcat
    <3>3. ToDo' = Append(ToDo, x)
      BY <1>1, <1>3, <1>4, <3>1, <3>2 DEF ToDo
    <3> QED BY <1>3, <1>5, <3>1, <3>3, ChainAppend
  <2> QED BY <1>6, <2>1, <2>2, SendsSaid
<1>8. OnTheWay'
  BY <1>4, <1>6, <1>7 DEF OnTheWay
<1>9. OneByOne(Queue)'
  <2>1. Len(Tail(Queue)) = Len(Queue) - 1 /\ \A i \in 1 .. Len(Tail(Queue)) : Tail(Queue)[i] = Queue[i + 1]
    BY <1>2, HeadTailProperties
  <2>2. ASSUME NEW i \in 1 .. Len(Tail(Queue)) PROVE Single(Tail(Queue)[i])
    <3>1. i + 1 \in 1 .. Len(Queue)
      <4>1. Len(Tail(Queue)) = Len(Queue) - 1
        BY <2>1
      <4>2. Len(Queue) \in Nat
        BY <1>2
      <4> QED BY <4>1, <4>2
    <3> QED BY <2>1, <3>1 DEF Tracks, OneByOne
  <2> QED BY <1>4, <2>2 DEF OneByOne
<1> QED BY <1>1, <1>4, <1>8, <1>9 DEF Tracks, NoWalk

(* No open of the walker is handled, and none fails to be read.            *)
LEMMA NoOpenTaken == Inv /\ Tracks => ~HandleOpen /\ ~ReaderPanics
<1> SUFFICES ASSUME Inv, Tracks, HandleOpen \/ ReaderPanics PROVE FALSE
  OBVIOUS
<1>1. buf # <<>> /\ Head(buf).tid = WalkerTid
  BY OpenRead DEF ReaderPanics
<1>2. Queue \in Seq(KernelEvent) /\ Queue # <<>> /\ Head(Queue) = Head(buf)
  BY <1>1, QueueHead
<1>3. Single(Queue[1])
  BY <1>2 DEF Tracks, OneByOne
<1> QED BY <1>1, <1>2, <1>3 DEF Single

-----------------------------------------------------------------------------
(* What other programs do.  A change is queued last, ...                   *)
LEMMA QueuedLast ==
  ASSUME Inv, OneByOne(Queue), NEW ev \in KernelEvent, Single(ev), evq' = Append(evq, ev), buf' = buf
  PROVE  Queue' = Append(Queue, ev) /\ OneByOne(Queue)'
<1>1. buf \in Seq(KernelEvent) /\ evq \in Seq(KernelEvent) /\ Queue \in Seq(KernelEvent)
  BY QueuesTyped
<1>2. buf \o Append(evq, ev) = Append(buf \o evq, ev)
  <2>1. <<ev>> \in Seq(KernelEvent) /\ buf \o evq \in Seq(KernelEvent)
    BY <1>1
  <2>2. buf \o (evq \o <<ev>>) = (buf \o evq) \o <<ev>>
    BY <1>1, <2>1, ConcatAssociative
  <2> QED BY <1>1, <2>1, <2>2, AppendIsConcat
<1>3. Queue' = Append(Queue, ev)
  BY <1>2 DEF Queue
<1>4. \A q \in Seq(KernelEvent) : OneByOne(q) => OneByOne(Append(q, ev))
  <2> SUFFICES ASSUME NEW q \in Seq(KernelEvent), OneByOne(q), NEW i \in 1 .. Len(Append(q, ev))
               PROVE  Single(Append(q, ev)[i])
    BY DEF OneByOne
  <2>1. Len(Append(q, ev)) = Len(q) + 1 /\ Len(q) \in Nat /\ Append(q, ev)[Len(q) + 1] = ev
    OBVIOUS
  <2>2. CASE i = Len(q) + 1
    BY <2>1, <2>2
  <2>3. CASE i # Len(q) + 1
    <3>1. i \in 1 .. Len(q)
      BY <2>1, <2>3
    <3>2. Append(q, ev)[i] = q[i]
      BY <3>1
    <3> QED BY <3>1, <3>2 DEF OneByOne
  <2> QED BY <2>2, <2>3
<1> QED BY <1>1, <1>3, <1>4

(* ... and an open that merges leaves what will be said as it is.          *)
Alike(a, b) == b \in KernelEvent /\ Single(b) /\ Said(b) = Said(a)

Opened(a, b) ==
  /\ b.mask = a.mask \cup {"OPEN"} /\ b.tid = a.tid /\ b.old = a.old /\ b.new = a.new
  /\ b.fh = a.fh /\ b.is_dir = a.is_dir

LEMMA OpenMerged ==
  ASSUME NEW a, Single(a), NEW b \in KernelEvent, Opened(a, b)
  PROVE  Alike(a, b)
<1>1. CASE a.mask = {"OPEN"}
  <2>1. b.mask = {"OPEN"}
    BY <1>1 DEF Opened
  <2> QED BY <1>1, <2>1 DEF Alike, Single, Said, Opened
<1>2. CASE a.mask # {"OPEN"}
  <2>1. PICK type \in {"CREATE", "DELETE", "RENAME"} : a.mask \ {"OPEN"} = {type}
    BY <1>2 DEF Single
  <2>2. b.mask \ {"OPEN"} = {type} /\ type # "OPEN"
    BY <2>1 DEF Opened
  <2>3. b.mask # {"OPEN"} /\ ~NetZero(a) /\ ~NetZero(b)
    BY <2>1, <2>2 DEF NetZero
  <2>4. /\ "CREATE" \in b.mask <=> "CREATE" \in a.mask
        /\ "DELETE" \in b.mask <=> "DELETE" \in a.mask
        /\ "RENAME" \in b.mask <=> "RENAME" \in a.mask
    BY DEF Opened
  <2>5. Renamed(b) = Renamed(a)
    BY DEF Renamed, Alter, Opened
  <2>6. Altered(b) = Altered(a)
    BY <2>3, <2>4 DEF Altered, Alter, Opened
  <2>7. Said(b) = Said(a)
    BY <1>2, <2>3, <2>4, <2>5, <2>6 DEF Said
  <2> QED BY <2>2, <2>7 DEF Alike, Single, Opened
<1> QED BY <1>1, <1>2

(* So an open is queued last, or each event of the queue says what it did. *)
LEMMA OpenQueuedLast ==
  ASSUME NEW q \in Seq(KernelEvent), OneByOne(q), NEW ev \in KernelEvent, ev.mask = {"OPEN"}
  PROVE  \/ Enqueue(ev, q) = Append(q, ev)
         \/ /\ Enqueue(ev, q) \in Seq(KernelEvent) /\ Len(Enqueue(ev, q)) = Len(q)
            /\ \A i \in 1 .. Len(q) : Alike(q[i], Enqueue(ev, q)[i])
<1> DEFINE r == Enqueue(ev, q)
<1>1. r \in Seq(KernelEvent)
  BY EnqueueTyped DEF Mask
<1>2. CASE \E i \in DOMAIN q : Reports(q[i]) = Reports(ev)
  <2>1. r = [i \in DOMAIN q |-> IF Reports(q[i]) = Reports(ev)
                               THEN [q[i] EXCEPT !.mask = @ \cup {"OPEN"}] ELSE q[i]]
    BY <1>2 DEF Enqueue
  <2>2. Len(r) = Len(q)
    BY <2>1
  <2>3. ASSUME NEW i \in 1 .. Len(q) PROVE Alike(q[i], r[i])
    <3> DEFINE a == q[i]
               b == [a EXCEPT !.mask = @ \cup {"OPEN"}]
    <3>1. r[i] = a \/ r[i] = b
      <4>1. i \in DOMAIN q
        OBVIOUS
      <4> HIDE DEF r
      <4>2. r[i] = IF Reports(a) = Reports(ev) THEN b ELSE a
        BY <2>1, <4>1, Zenon
      <4> HIDE DEF a, b
      <4> QED BY <4>2
    <3> HIDE DEF r
    <3>2. a \in KernelEvent /\ r[i] \in KernelEvent /\ Single(a)
      BY <1>1, <2>2 DEF OneByOne
    <3> HIDE DEF a
    <3>3. Opened(a, b)
      <4>1. a \in Change \/ a \in WalkerOpen
        BY <3>2 DEF KernelEvent
      <4>2. /\ b.mask = a.mask \cup {"OPEN"} /\ b.tid = a.tid /\ b.old = a.old /\ b.new = a.new
            /\ b.fh = a.fh /\ b.is_dir = a.is_dir
        BY <4>1 DEF Change, WalkerOpen
      <4> QED BY <4>2 DEF Opened
    <3> HIDE DEF b
    <3>4. Alike(a, r[i])
      BY <3>1, <3>2, <3>3, OpenMerged DEF Alike
    <3> QED BY <3>4 DEF a
  <2> QED BY <1>1, <2>2, <2>3
<1>3. CASE ~\E i \in DOMAIN q : Reports(q[i]) = Reports(ev)
  BY <1>3 DEF Enqueue
<1> QED BY <1>2, <1>3

Joined(w, a, q) ==
  /\ Len(a) \in Nat /\ Len(q) \in Nat /\ Len(w) = Len(a) + Len(q)
  /\ \A i \in 1 .. Len(a) : w[i] = a[i]
  /\ \A i \in 1 .. Len(q) : w[Len(a) + i] = q[i]

LEMMA ConcatIndex ==
  ASSUME NEW S, NEW a \in Seq(S), NEW q \in Seq(S)
  PROVE  Joined(a \o q, a, q)
BY DEF Joined

(* Whether it is one or the other, the chain stays.                        *)
LEMMA OpenTracks ==
  ASSUME Inv, OneByOne(Queue), NEW c \in Syscalls, Open(c), watched, buf' = buf,
         NEW M, Chain(Queue, M, Visible(tree), Sends), M \in SUBSET Entry
  PROVE  OneByOne(Queue)' /\ Chain(Queue', M, Visible(tree), Sends)
<1>1. /\ buf \in Seq(KernelEvent) /\ evq \in Seq(KernelEvent) /\ Queue \in Seq(KernelEvent)
      /\ Queue = buf \o evq /\ Queue' = buf \o evq'
  BY QueuesTyped DEF Queue
<1>2. PICK ev \in KernelEvent : Single(ev) /\ ev.mask = {"OPEN"} /\ evq' = Enqueue(ev, evq)
  BY OpenFollowed DEF Inv
<1>3. /\ Len(buf) \in Nat /\ Len(evq) \in Nat /\ Len(Queue) = Len(buf) + Len(evq)
      /\ \A i \in 1 .. Len(buf) : Queue[i] = buf[i]
      /\ \A i \in 1 .. Len(evq) : Queue[Len(buf) + i] = evq[i]
  <2>1. Joined(Queue, buf, evq)
    BY <1>1, ConcatIndex
  <2> QED BY <2>1 DEF Joined
<1>4. OneByOne(evq)
  <2>1. ASSUME NEW k \in 1 .. Len(evq) PROVE Single(evq[k])
    <3>1. Len(buf) + k \in 1 .. Len(Queue)
      <4>1. Len(buf) \in Nat /\ Len(evq) \in Nat /\ Len(Queue) = Len(buf) + Len(evq)
        BY <1>3
      <4> QED BY <4>1
    <3>2. Single(Queue[Len(buf) + k])
      BY <3>1 DEF OneByOne
    <3> QED BY <1>3, <3>2
  <2> QED BY <2>1 DEF OneByOne
<1>5. CASE evq' = Append(evq, ev)
  <2>1. Queue' = Append(Queue, ev) /\ OneByOne(Queue)'
    BY <1>2, <1>5, QueuedLast
  <2>2. Visible(tree) \in SUBSET Entry
    BY VisibleParts DEF Inv, FsTyped
  <2>3. <<ev, Visible(tree), Visible(tree)>> \in Sends
    BY <1>2, <2>2 DEF Sends, Said
  <2> QED BY <1>1, <2>1, <2>2, <2>3, ChainAppend
<1>6. CASE /\ evq' \in Seq(KernelEvent) /\ Len(evq') = Len(evq)
           /\ \A i \in 1 .. Len(evq) : Alike(evq[i], evq'[i])
  <2>1. /\ Queue' \in Seq(KernelEvent) /\ Len(Queue') = Len(buf) + Len(evq)
        /\ \A i \in 1 .. Len(buf) : Queue'[i] = buf[i]
        /\ \A i \in 1 .. Len(evq) : Queue'[Len(buf) + i] = evq'[i]
    <3>1. Joined(buf \o evq', buf, evq') /\ buf \o evq' \in Seq(KernelEvent)
      BY <1>1, <1>6, ConcatIndex
    <3>2. Joined(Queue', buf, evq') /\ Queue' \in Seq(KernelEvent)
      BY <1>1, <3>1
    <3> QED BY <1>6, <3>2 DEF Joined
  <2>2. ASSUME NEW i \in 1 .. Len(Queue) PROVE Alike(Queue[i], Queue'[i])
    <3>1. CASE i <= Len(buf)
      <4>1. i \in 1 .. Len(buf)
        <5>1. Len(buf) \in Nat /\ Len(Queue) \in Nat
          BY <1>1
        <5> QED BY <3>1, <5>1
      <4>2. Queue'[i] = Queue[i] /\ Queue[i] \in KernelEvent /\ Single(Queue[i])
        BY <1>1, <1>3, <2>1, <4>1 DEF OneByOne
      <4> QED BY <4>2 DEF Alike
    <3>2. CASE ~(i <= Len(buf))
      <4> DEFINE j == i - Len(buf)
      <4>1. j \in 1 .. Len(evq) /\ Len(buf) + j = i
        <5>1. Len(buf) \in Nat /\ Len(evq) \in Nat /\ Len(Queue) = Len(buf) + Len(evq)
          BY <1>3
        <5> QED BY <3>2, <5>1
      <4> HIDE DEF j
      <4>2. Queue[i] = evq[j] /\ Queue'[i] = evq'[j]
        BY <1>3, <2>1, <4>1
      <4> QED BY <1>6, <4>1, <4>2
    <3> QED BY <3>1, <3>2
  <2>3. Len(Queue') = Len(Queue)
    BY <1>3, <2>1
  <2>4. OneByOne(Queue)'
    BY <2>2, <2>3 DEF OneByOne, Alike
  <2>5. \A i \in 1 .. Len(Queue) : \A X, Y : <<Queue[i], X, Y>> \in Sends => <<Queue'[i], X, Y>> \in Sends
    BY <2>2 DEF Alike, Sends
  <2> QED BY <2>3, <2>4, <2>5, ChainSame
<1> QED BY <1>1, <1>2, <1>4, <1>5, <1>6, OpenQueuedLast

-----------------------------------------------------------------------------
(* The runs that can be followed: the index shows the tree when they       *)
(* start, programs make changes that can be followed, and SQLite does not  *)
(* fail.                                                                   *)
Indexed ==
  /\ IsTree(tree) /\ View(db) = Visible(tree)
  /\ db.files[Writer!ROOT_ID].file_handle = Root /\ DirHandlesUnique

FollowedPrograms ==
  (\E c \in Syscalls : Syscall(c) /\ Followable(c)) /\ UNCHANGED <<walkVars, writerVars, buf, crashes>>

FollowedNext == FollowedPrograms \/ FanotifyThread \/ WalkerThread \/ DbThread \/ Idle

FollowedSpec == Init /\ Indexed /\ [][FollowedNext]_vars

LEMMA ProgramsTrack ==
  ASSUME Inv, Tracks, FollowedPrograms
  PROVE  Tracks'
<1>1. PICK c \in Syscalls : Syscall(c) /\ Followable(c)
  BY DEF FollowedPrograms
<1>2. UNCHANGED <<watched, requests, frames, fd, chan, batch, pos, db, work, buf>>
  BY <1>1 DEF FollowedPrograms, Syscall, walkVars, writerVars
<1>3. ToDo' = ToDo /\ Cur' = Cur
  BY <1>2 DEF ToDo, Left, Cur
<1>4. PICK M \in SUBSET Entry : /\ Chain(ToDo, Proved!Shown(Cur), M, Turns)
                               /\ Chain(Queue, M, Visible(tree), Sends)
  BY DEF Tracks, OnTheWay
<1>5. FsTyped /\ IsTree(tree) /\ watched /\ OneByOne(Queue) /\ Queue \in Seq(KernelEvent)
  BY QueuesTyped DEF Tracks, NoWalk, Inv
<1>6. ASSUME NEW ev, Reads(ev)
      PROVE  /\ IsTree(tree') /\ OneByOne(Queue)'
             /\ Chain(Queue', M, Visible(tree'), Sends)
  <2>1. ev \in KernelEvent /\ Single(ev) /\ evq' = Append(evq, ev) /\ Visible(tree') \in SUBSET Entry
    BY <1>6 DEF Reads, Sends
  <2>2. Queue' = Append(Queue, ev) /\ OneByOne(Queue)'
    BY <1>2, <1>5, <2>1, QueuedLast
  <2> QED BY <1>4, <1>5, <1>6, <2>1, <2>2, ChainAppend DEF Reads
<1>7. CASE Open(c)
  <2>1. OneByOne(Queue)' /\ Chain(Queue', M, Visible(tree), Sends)
    BY <1>2, <1>4, <1>5, <1>7, OpenTracks
  <2>2. tree' = tree
    BY <1>7 DEF Open
  <2>3. Visible(tree') = Visible(tree) /\ IsTree(tree')
    BY <1>5, <2>2
  <2>4. OnTheWay'
    BY <1>3, <1>4, <2>1, <2>3 DEF OnTheWay
  <2> QED BY <1>2, <1>3, <2>1, <2>3, <2>4 DEF Tracks, NoWalk
<1>8. CASE ~Open(c)
  <2>1. \E ev : Reads(ev)
    <3>1. CASE Create(c) \/ Link(c)
      BY <1>1, <1>5, <3>1, PutFollowed DEF Followable
    <3>2. CASE Remove(c)
      BY <1>1, <1>5, <3>2, RemoveFollowed DEF Followable
    <3>3. CASE Rename(c)
      BY <1>1, <1>5, <3>3, RenameFollowed
    <3>4. ~Exchange(c)
      BY <1>1 DEF Exchange, Followable
    <3> QED BY <1>1, <1>8, <3>1, <3>2, <3>3, <3>4 DEF Syscall
  <2>2. /\ IsTree(tree') /\ OneByOne(Queue)'
        /\ Chain(Queue', M, Visible(tree'), Sends)
    BY <1>6, <2>1
  <2>3. OnTheWay'
    BY <1>3, <1>4, <2>2 DEF OnTheWay
  <2> QED BY <1>2, <1>3, <2>2, <2>3 DEF Tracks, NoWalk
<1> QED BY <1>7, <1>8

(* A followed run is a run of the watcher.                                 *)
LEMMA FollowedRuns == [FollowedNext]_vars => [Next]_vars
BY DEF FollowedNext, FollowedPrograms, Next, Programs

(* The rows show the view.                                                 *)
LEMMA ShownIsView == ASSUME NEW d PROVE Proved!Shown(d) = View(d)
BY DEF Proved!Shown, Proved!Rest, Proved!EntryOf, Proved!ROOT_ID, View, Writer!ROOT_ID

LEMMA TracksInit == Init /\ Indexed => Tracks
<1> SUFFICES ASSUME Init, Indexed PROVE Tracks
  OBVIOUS
<1>1. /\ watched /\ requests = <<>> /\ frames = <<>> /\ fd = None
      /\ evq = <<>> /\ buf = <<>> /\ chan = <<>> /\ batch = <<>> /\ pos = 0 /\ db = InitDb
      /\ tree = InitTree
  BY DEF Init, FsInit, DiscovererInit, Writer!Init
<1>2. Queue = <<>> /\ ToDo = <<>> /\ Cur = db
  BY <1>1 DEF Queue, ToDo, Left, Cur
<1>3. Visible(tree) \in SUBSET Entry
  BY <1>1, FilesystemAssumption, VisibleParts
<1>4. Proved!Shown(db) = Visible(tree)
  BY ShownIsView DEF Indexed
<1>5. Proved!Clean(db, Root, Dirs)
  <2>1. Proved!Sound(db)
    BY <1>1, SameSound, WatcherAssumption DEF Writer!Sound, Proved!Sound
  <2>2. ASSUME NEW k \in DOMAIN db.files \ {Proved!ROOT_ID}
        PROVE  db.files[db.files[k].parent_id].file_handle \in Dirs
    <3>1. Proved!EntryOf(db, k) \in Entry
      BY <1>3, <1>4, <2>2 DEF Proved!Shown, Proved!Rest
    <3> QED BY <3>1 DEF Entry, Proved!EntryOf
  <2> QED BY <2>1, <2>2 DEF Proved!Clean, Indexed, DirHandlesUnique, Writer!ROOT_ID, Proved!ROOT_ID
<1>6. OnTheWay
  BY <1>2, <1>3, <1>4, ChainEmpty DEF OnTheWay
<1>7. OneByOne(Queue)
  BY <1>2 DEF OneByOne
<1> QED BY <1>1, <1>2, <1>5, <1>6, <1>7 DEF Tracks, NoWalk, Indexed

LEMMA TracksNext == Inv /\ Tracks /\ [FollowedNext]_vars => Tracks'
<1> SUFFICES ASSUME Inv, Tracks, [FollowedNext]_vars PROVE Tracks'
  OBVIOUS
<1>1. CASE FollowedPrograms
  BY <1>1, ProgramsTrack
<1>2. CASE FanotifyThread
  BY <1>2, ReadTracks, HandleChangeTracks, NoOpenTaken DEF FanotifyThread
<1>3. CASE WalkerThread
  BY <1>3, WalkerRests DEF Tracks
<1>4. CASE DbThread
  <2>1. Writer!Recv \/ Writer!Flush \/ Writer!Apply \/ Writer!Commit
    BY <1>4 DEF DbThread, Writer!Thread
  <2> QED BY <1>4, <2>1, RecvTracks, FlushTracks, ApplyTracks, CommitTracks
<1>5. CASE UNCHANGED vars
  <2>1. UNCHANGED <<tree, watched, requests, frames, fd, chan, batch, pos, db, work, evq, buf>>
    BY <1>5 DEF vars, fsVars, walkVars, writerVars
  <2>2. ToDo' = ToDo /\ Cur' = Cur /\ Queue' = Queue
    BY <2>1 DEF ToDo, Left, Cur, Queue
  <2> QED BY <2>1, <2>2 DEF Tracks, NoWalk, OneByOne, OnTheWay
<1> QED BY <1>1, <1>2, <1>3, <1>4, <1>5 DEF FollowedNext, Idle

LEMMA TracksAlways == FollowedSpec => [](Inv /\ Tracks)
<1>1. Init /\ Indexed => Inv /\ Tracks
  BY InitInv, TracksInit
<1>2. (Inv /\ Tracks) /\ [FollowedNext]_vars => (Inv /\ Tracks)'
  BY FollowedRuns, NextInv, TracksNext
<1> QED BY <1>1, <1>2, PTL DEF FollowedSpec

(* When everything has been handled, the index shows the filesystem as it  *)
(* is, however the changes fell between the reads of the event queue, the  *)
(* batches and each other: the thread that reads events and the one that   *)
(* writes them lose, reorder and invent nothing, and each event does to    *)
(* the rows what its change did to the tree (Converged, of the changes     *)
(* that can be followed).                                                  *)
THEOREM ConvergedAlways == FollowedSpec => []Converged
<1>1. Inv /\ Tracks => Converged
  <2> SUFFICES ASSUME Inv, Tracks, Quiescent PROVE View(db) = Visible(tree)
    BY DEF Converged
  <2>1. evq = <<>> /\ buf = <<>> /\ chan = <<>> /\ batch = <<>>
    BY DEF Quiescent
  <2>2. pos = 0
    BY <2>1, QueuesTyped
  <2>3. Queue = <<>> /\ ToDo = <<>> /\ Cur = db
    BY <2>1, <2>2 DEF Queue, ToDo, Left, Cur
  <2>4. PICK M \in SUBSET Entry : /\ Chain(<<>>, Proved!Shown(db), M, Turns)
                                 /\ Chain(<<>>, M, Visible(tree), Sends)
    BY <2>3 DEF Tracks, OnTheWay
  <2>5. Proved!Shown(db) \in SUBSET Entry
    BY <2>4 DEF Chain
  <2>6. Proved!Shown(db) = Visible(tree)
    BY <2>4, <2>5, ChainEmpty
  <2> QED BY <2>6, ShownIsView
<1> QED BY <1>1, TracksAlways, PTL

(* A directory never has two rows: a rename of one moves its row (and what *)
(* is below it) and makes none, and one that is created has none.          *)
THEOREM DirHandlesUniqueAlways == FollowedSpec => []DirHandlesUnique
<1>1. Tracks => DirHandlesUnique
  BY DEF Tracks, Proved!Clean, DirHandlesUnique
<1> QED BY <1>1, TracksAlways, PTL
=============================================================================
