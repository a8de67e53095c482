-------------------------- MODULE FilesTableProofs --------------------------
(***************************************************************************)
(* What the statements of FilesTable keep of a database, whatever the      *)
(* handles, names, suffixes and rows are.                                  *)
(***************************************************************************)
EXTENDS FilesTable, FiniteSetTheorems, WellFoundedInduction, TLAPS

-----------------------------------------------------------------------------
(* A finite set of numbers has a greatest: otherwise a least subset without*)
(* one has, after an element is taken out, a greatest again.               *)
LEMMA NatMax ==
  ASSUME NEW S, S \subseteq Nat, S # {}, IsFiniteSet(S)
  PROVE  \E m \in S : \A k \in S : k <= m
<1> DEFINE Max(T, m) == m \in T /\ \A k \in T : k <= m
           Bad == {T \in SUBSET S : T # {} /\ \A m \in T : ~Max(T, m)}
<1>1. SUFFICES ASSUME Bad # {} PROVE FALSE
  OBVIOUS
<1>2. FiniteSubsetsOf(S) = SUBSET S
  BY FS_FiniteSubsetsOfFinite
<1>3. IsWellFoundedOn(StrictSubsetOrdering(S), SUBSET S)
  BY <1>2, FS_StrictSubsetOrderingWellFounded
<1>4. PICK T \in Bad : \A U \in Bad : <<U, T>> \notin StrictSubsetOrdering(S)
  <2>1. Bad \subseteq SUBSET S
    OBVIOUS
  <2> HIDE DEF Bad
  <2> QED BY <1>1, <1>3, <2>1, WFMin, Zenon
<1>5. PICK x \in T : TRUE
  OBVIOUS
<1> DEFINE U == T \ {x}
<1>6. U \in SUBSET S /\ <<U, T>> \in StrictSubsetOrdering(S)
  BY <1>5 DEF StrictSubsetOrdering
<1>7. U \notin Bad
  BY <1>4, <1>6
<1>8. CASE U = {}
  <2>1. Max(T, x)
    BY <1>5, <1>8
  <2> QED BY <1>4, <2>1
<1>9. CASE U # {}
  <2>1. PICK m \in U : Max(U, m)
    BY <1>6, <1>7, <1>9
  <2>2. m \in Nat /\ x \in Nat /\ \A k \in T : k \in Nat
    BY <1>5, <2>1
  <2>3. CASE x <= m
    <3>1. Max(T, m)
      BY <2>1, <2>3
    <3> QED BY <1>4, <3>1
  <2>4. CASE ~(x <= m)
    <3>1. \A k \in T : k <= x
      BY <2>1, <2>2, <2>4
    <3>2. Max(T, x)
      BY <1>5, <3>1
    <3> QED BY <1>4, <3>2
  <2> QED BY <2>3, <2>4
<1> QED BY <1>8, <1>9

(* Induction: a set with 0 and every successor has all numbers; otherwise a*)
(* greatest number below the missing one would be in it.                   *)
LEMMA AllNumbers ==
  ASSUME NEW S, 0 \in S, \A n \in Nat : n \in S => n + 1 \in S
  PROVE  \A n \in Nat : n \in S
<1> SUFFICES ASSUME NEW n \in Nat, n \notin S PROVE FALSE
  OBVIOUS
<1> DEFINE T == {k \in 0 .. n : k \in S}
<1>1. T \subseteq Nat /\ T # {}
  OBVIOUS
<1>2. IsFiniteSet(T)
  <2>1. IsFiniteSet(0 .. n)
    BY FS_Interval
  <2>2. T \subseteq 0 .. n
    OBVIOUS
  <2> HIDE DEF T
  <2> QED BY <2>1, <2>2, FS_Subset
<1>3. PICK m \in T : \A k \in T : k <= m
  <2> HIDE DEF T
  <2> QED BY <1>1, <1>2, NatMax
<1>4. m \in Nat /\ m \in S /\ m <= n /\ m # n
  OBVIOUS
<1>5. m + 1 \in T
  BY <1>4
<1> QED BY <1>3, <1>4, <1>5

(* A set of numbers has a least.                                           *)
LEMMA NatMin ==
  ASSUME NEW T, T \subseteq Nat, T # {}
  PROVE  \E m \in T : \A k \in T : m <= k
<1> SUFFICES ASSUME \A m \in T : \E k \in T : ~(m <= k) PROVE FALSE
  OBVIOUS
<1> DEFINE S == {n \in Nat : \A k \in T : ~(k <= n)}
<1>1. 0 \in S
  <2>1. \A k \in T : k <= 0 => \A j \in T : k <= j
    OBVIOUS
  <2> QED BY <2>1
<1>2. ASSUME NEW n \in Nat, n \in S PROVE n + 1 \in S
  <2> SUFFICES ASSUME NEW k \in T, k <= n + 1 PROVE FALSE
    OBVIOUS
  <2>1. PICK j \in T : ~(k <= j)
    OBVIOUS
  <2>2. j \in Nat /\ k \in Nat
    OBVIOUS
  <2>3. j <= n
    BY <2>1, <2>2
  <2> QED BY <1>2, <2>3
<1>3. PICK k \in T : TRUE
  OBVIOUS
<1>4. k \in S
  <2> HIDE DEF S
  <2> QED BY <1>1, <1>2, AllNumbers
<1> QED BY <1>4

(* The values of a recursion over numbers.                                 *)
Iterates(f, S, a, step, n) ==
  f \in [0 .. n -> S] /\ f[0] = a /\ \A k \in 1 .. n : f[k] = step[<<k, f[k - 1]>>]

(* A step that can always be taken can be taken any number of times.       *)
LEMMA StepByStep ==
  ASSUME NEW S, NEW a \in S, NEW step \in [Nat \X S -> S], NEW n \in Nat
  PROVE  \E f : Iterates(f, S, a, step, n)
<1> DEFINE Steps(f, m) == f \in [0 .. m -> S] /\ f[0] = a /\ \A k \in 1 .. m : f[k] = step[<<k, f[k - 1]>>]
           Taken == {m \in Nat : \E f : Steps(f, m)}
<1>1. 0 \in Taken
  <2> DEFINE f == [k \in 0 .. 0 |-> a]
  <2>1. Steps(f, 0)
    OBVIOUS
  <2> HIDE DEF Steps
  <2> QED BY <2>1
<1>2. ASSUME NEW m \in Nat, m \in Taken PROVE m + 1 \in Taken
  <2>1. PICK f : Steps(f, m)
    BY <1>2
  <2> DEFINE g == [k \in 0 .. m + 1 |-> IF k = m + 1 THEN step[<<m + 1, f[m]>>] ELSE f[k]]
  <2>2. f[m] \in S /\ step[<<m + 1, f[m]>>] \in S
    BY <2>1
  <2>3. g \in [0 .. m + 1 -> S] /\ g[0] = a
    BY <2>1, <2>2
  <2>4. ASSUME NEW k \in 1 .. m + 1 PROVE g[k] = step[<<k, g[k - 1]>>]
    <3>1. k - 1 \in 0 .. m + 1 /\ k - 1 # m + 1 /\ k \in 0 .. m + 1
      OBVIOUS
    <3>2. g[k - 1] = f[k - 1]
      BY <3>1
    <3>3. CASE k = m + 1
      BY <3>1, <3>2, <3>3
    <3>4. CASE k # m + 1
      <4>1. k \in 1 .. m
        BY <3>4
      <4>2. f[k] = step[<<k, f[k - 1]>>]
        BY <2>1, <4>1
      <4> QED BY <3>1, <3>2, <3>4, <4>2
    <3> QED BY <3>3, <3>4
  <2> HIDE DEF g
  <2>5. Steps(g, m + 1)
    BY <2>3, <2>4
  <2> HIDE DEF Steps
  <2> QED BY <2>5
<1>3. n \in Taken
  <2> HIDE DEF Taken
  <2> QED BY <1>1, <1>2, AllNumbers
<1> QED BY <1>3 DEF Iterates

(* SQLite's new rowid is a number no row has.                              *)
LEMMA NextRowIdFresh ==
  ASSUME NEW files, DOMAIN files \subseteq Id, IsFiniteSet(DOMAIN files)
  PROVE  /\ NextRowId(files) \in Id
         /\ \A k \in DOMAIN files : k < NextRowId(files)
<1> DEFINE D == DOMAIN files
           New(n) == n \in {1} \cup {k + 1 : k \in D} /\ \A k \in D : k < n
<1>1. \E n : New(n)
  <2>1. CASE D = {}
    BY <2>1
  <2>2. CASE D # {}
    <3>1. D \subseteq Nat
      BY DEF Id
    <3>2. PICK m \in D : \A k \in D : k <= m
      BY <2>2, <3>1, NatMax
    <3>3. New(m + 1)
      BY <3>1, <3>2
    <3> QED BY <3>3
  <2> QED BY <2>1, <2>2
<1>2. New(NextRowId(files))
  BY <1>1 DEF NextRowId
<1>3. \A n : n \in {1} \cup {k + 1 : k \in D} => n \in Id
  BY DEF Id
<1> QED BY <1>2, <1>3

-----------------------------------------------------------------------------
(* A new row fits.                                                         *)
LEMMA CreateSound ==
  ASSUME NEW db, Sound(db), NEW fh \in Handle, NEW name \in Name, NEW p_id
  PROVE  /\ Sound(Create(db, fh, name, p_id).db)
         /\ Create(db, fh, name, p_id).err \in {"Ok", "NameTaken"}
<1> DEFINE id == NextRowId(db.files)
           row == [file_handle |-> fh, name |-> name, parent_id |-> p_id]
           new == [k \in DOMAIN db.files \cup {id} |-> IF k = id THEN row ELSE db.files[k]]
           sa == db.suffix_array \cup (SuffixesOf[name] \X {id})
           out == [files |-> new, suffix_array |-> sa]
<1>1. CASE DirentIds(db, name, p_id) # {} \/ p_id \notin DOMAIN db.files \cup {id}
  BY <1>1 DEF Create, Fail
<1>2. CASE DirentIds(db, name, p_id) = {} /\ p_id \in DOMAIN db.files \cup {id}
  <2>1. Create(db, fh, name, p_id) = [err |-> "Ok", id |-> id, db |-> out]
    BY <1>2 DEF Create, Done
  <2>2. id \in Id /\ \A k \in DOMAIN db.files : k # id
    <3>1. id \in Id /\ \A k \in DOMAIN db.files : k < id
      BY NextRowIdFresh DEF Sound, IsDb
    <3>2. \A k \in DOMAIN db.files : k \in Nat
      BY DEF Sound, IsDb, Id
    <3> QED BY <3>1, <3>2 DEF Id
  <2>3. row \in Row
    BY <1>2, <2>2 DEF Sound, IsDb, Row
  <2>4. /\ DOMAIN new = DOMAIN db.files \cup {id}
        /\ new[id] = row
        /\ \A k \in DOMAIN db.files : new[k] = db.files[k]
    BY <2>2
  <2>5. out.files = new /\ out.suffix_array = sa
    OBVIOUS
  <2> HIDE DEF new, sa
  <2>6. IsDb(out)
    <3>1. DOMAIN new \subseteq Id /\ IsFiniteSet(DOMAIN new)
      BY <2>2, <2>4, FS_AddElement DEF Sound, IsDb
    <3>2. new \in [DOMAIN new -> Row]
      <4>1. \A k \in DOMAIN new : new[k] \in Row
        BY <2>3, <2>4 DEF Sound, IsDb
      <4>2. new = [k \in DOMAIN new |-> new[k]]
        BY DEF new
      <4> QED BY <4>1, <4>2
    <3>3. sa \subseteq Suffix \X Id
      BY <2>2, NamesAssumption DEF sa, Sound, IsDb
    <3> QED BY <2>5, <3>1, <3>2, <3>3 DEF IsDb
  <2>7. HasRoot(out)
    BY <2>4, <2>5 DEF Sound, HasRoot
  <2>8. NoOrphans(out)
    BY <1>2, <2>4, <2>5 DEF Sound, NoOrphans
  <2>9. UniqueDirents(out)
    <3> SUFFICES ASSUME NEW j \in DOMAIN new, NEW k \in DOMAIN new,
                        new[j].name = new[k].name, new[j].parent_id = new[k].parent_id,
                        j # k
                 PROVE  FALSE
      BY <2>5 DEF UniqueDirents
    <3>1. \A i \in DOMAIN db.files : ~(db.files[i].name = name /\ db.files[i].parent_id = p_id)
      BY <1>2 DEF DirentIds
    <3>2. j = id \/ j \in DOMAIN db.files
      BY <2>4
    <3>3. k = id \/ k \in DOMAIN db.files
      BY <2>4
    <3>4. new[id].name = name /\ new[id].parent_id = p_id
      BY <2>4
    <3> QED BY <2>4, <3>1, <3>2, <3>3, <3>4 DEF Sound, UniqueDirents
  <2>10. SuffixesInSync(out)
    <3>1. SuffixesOf[name] \subseteq Suffix
      BY NamesAssumption
    <3>2. db.suffix_array
          = {e \in Suffix \X DOMAIN db.files : e[1] \in SuffixesOf[db.files[e[2]].name]}
      BY DEF Sound, SuffixesInSync
    <3>3. new[id].name = name
      BY <2>4
    <3>4. \A e \in sa : e \in Suffix \X DOMAIN new /\ e[1] \in SuffixesOf[new[e[2]].name]
      BY <2>4, <3>1, <3>2, <3>3 DEF sa
    <3>5. \A e \in Suffix \X DOMAIN new : e[1] \in SuffixesOf[new[e[2]].name] => e \in sa
      BY <2>4, <3>1, <3>2, <3>3 DEF sa
    <3> QED BY <2>5, <3>4, <3>5 DEF SuffixesInSync
  <2> QED BY <2>1, <2>6, <2>7, <2>8, <2>9, <2>10 DEF Sound
<1> QED BY <1>1, <1>2

-----------------------------------------------------------------------------
(* The rows that go with a row are closed under children, and a row that   *)
(* is not the root never takes the root along.                             *)
LEMMA SubtreeClosed ==
  ASSUME NEW files, NEW id \in DOMAIN files
  PROVE  /\ Subtree(files, id) \subseteq DOMAIN files
         /\ id \in Subtree(files, id)
         /\ \A k \in DOMAIN files :
              files[k].parent_id \in Subtree(files, id) => k \in Subtree(files, id)
BY DEF Subtree

LEMMA SubtreeWithoutRoot ==
  ASSUME NEW db, HasRoot(db), NEW id \in DOMAIN db.files, id # ROOT_ID
  PROVE  ROOT_ID \notin Subtree(db.files, id)
<1> DEFINE S == DOMAIN db.files \ {ROOT_ID}
<1>1. /\ S \in SUBSET DOMAIN db.files /\ id \in S
      /\ \A k \in DOMAIN db.files : db.files[k].parent_id \in S => k \in S
  BY DEF HasRoot
<1> QED BY <1>1 DEF Subtree

(* A deletion of anything but the root takes whole subtrees, and their     *)
(* suffixes.                                                               *)
LEMMA DeleteSound ==
  ASSUME NEW db, Sound(db), NEW id, id # ROOT_ID
  PROVE  /\ Sound(DeleteWithId(db, id).db)
         /\ DeleteWithId(db, id).err \in {"Ok", "NoFile"}
         /\ id \in DOMAIN db.files => DeleteWithId(db, id).err = "Ok"
<1> DEFINE gone == Subtree(db.files, id)
           new == [k \in DOMAIN db.files \ gone |-> db.files[k]]
           sa == {e \in db.suffix_array :
                    ~(e[2] \in gone /\ e[1] \in SuffixesOf[db.files[e[2]].name])}
           out == [files |-> new, suffix_array |-> sa]
<1>1. CASE id \notin DOMAIN db.files
  BY <1>1 DEF DeleteWithId, Fail
<1>2. CASE id \in DOMAIN db.files
  <2>1. DeleteWithId(db, id) = [err |-> "Ok", id |-> id, db |-> out]
    BY <1>2 DEF DeleteWithId, Done
  <2>2. /\ ROOT_ID \notin gone
        /\ \A k \in DOMAIN db.files : db.files[k].parent_id \in gone => k \in gone
    BY <1>2, SubtreeWithoutRoot, SubtreeClosed DEF Sound
  <2>3. /\ DOMAIN new = DOMAIN db.files \ gone
        /\ \A k \in DOMAIN new : new[k] = db.files[k]
    OBVIOUS
  <2>4. out.files = new /\ out.suffix_array = sa
    OBVIOUS
  <2>5. new = [k \in DOMAIN new |-> new[k]]
    OBVIOUS
  <2> HIDE DEF new, sa, gone
  <2>6. IsDb(out)
    <3>1. DOMAIN new \subseteq Id /\ IsFiniteSet(DOMAIN new)
      BY <2>3, FS_Subset DEF Sound, IsDb
    <3>2. new \in [DOMAIN new -> Row]
      <4>1. \A k \in DOMAIN new : new[k] \in Row
        BY <2>3 DEF Sound, IsDb
      <4> QED BY <2>5, <4>1
    <3>3. sa \subseteq Suffix \X Id
      BY DEF sa, Sound, IsDb
    <3> QED BY <2>4, <3>1, <3>2, <3>3 DEF IsDb
  <2>7. HasRoot(out)
    BY <2>2, <2>3, <2>4 DEF Sound, HasRoot
  <2>8. NoOrphans(out)
    BY <2>2, <2>3, <2>4 DEF Sound, NoOrphans
  <2>9. UniqueDirents(out)
    BY <2>3, <2>4 DEF Sound, UniqueDirents
  <2>10. SuffixesInSync(out)
    <3>1. db.suffix_array
          = {e \in Suffix \X DOMAIN db.files : e[1] \in SuffixesOf[db.files[e[2]].name]}
      BY DEF Sound, SuffixesInSync
    <3>2. \A e \in sa : e \in Suffix \X DOMAIN new /\ e[1] \in SuffixesOf[new[e[2]].name]
      BY <2>3, <3>1 DEF sa
    <3>3. \A e \in Suffix \X DOMAIN new : e[1] \in SuffixesOf[new[e[2]].name] => e \in sa
      BY <2>3, <3>1 DEF sa
    <3> QED BY <2>4, <3>2, <3>3 DEF SuffixesInSync
  <2> QED BY <2>1, <2>6, <2>7, <2>8, <2>9, <2>10 DEF Sound
<1> QED BY <1>1, <1>2

-----------------------------------------------------------------------------
(* query_one finds the only row of a set, or says why not.                 *)
LEMMA QueryOneResult ==
  ASSUME NEW db, NEW ids
  PROVE  LET q == QueryOne(db, ids)
         IN  /\ q.db = db
             /\ q.err \in {"Ok", "NoFile", "ManyFiles"}
             /\ q.err = "Ok" => q.id \in ids
             /\ q.err = "NoFile" <=> ids = {}
             /\ (\A i, j \in ids : i = j) => q.err # "ManyFiles"
<1>1. CASE ids = {}
  BY <1>1 DEF QueryOne, Fail
<1>2. CASE ids # {} /\ \A i, j \in ids : i = j
  <2>1. (CHOOSE i \in ids : TRUE) \in ids
    BY <1>2
  <2> QED BY <1>2, <2>1 DEF QueryOne, Done
<1>3. CASE ids # {} /\ ~(\A i, j \in ids : i = j)
  BY <1>3 DEF QueryOne, Fail
<1> QED BY <1>1, <1>2, <1>3

(* Deleting an entry other than the root's.                                *)
LEMMA DeleteEntrySound ==
  ASSUME NEW db, Sound(db), NEW fh, NEW name, name # RootName, NEW p_id
  PROVE  /\ Sound(Delete(db, fh, name, p_id).db)
         /\ Delete(db, fh, name, p_id).err \in {"Ok", "NoFile", "ManyFiles"}
<1> DEFINE ids == EntryIds(db, fh, name, p_id)
           q == QueryOne(db, ids)
<1>1. \A k \in ids : k # ROOT_ID
  BY DEF EntryIds, DirentIds, Sound, HasRoot
<1>2. q.db = db /\ q.err \in {"Ok", "NoFile", "ManyFiles"} /\ (q.err = "Ok" => q.id \in ids)
  BY QueryOneResult
<1> HIDE DEF q, ids
<1>3. Delete(db, fh, name, p_id) = IF q.err = "Ok" THEN DeleteWithId(db, q.id) ELSE q
  BY DEF Delete, q, ids
<1>4. CASE q.err = "Ok"
  <2>1. q.id # ROOT_ID
    BY <1>1, <1>2, <1>4
  <2>2. Delete(db, fh, name, p_id) = DeleteWithId(db, q.id)
    BY <1>3, <1>4
  <2> QED BY <2>1, <2>2, DeleteSound
<1>5. CASE q.err # "Ok"
  BY <1>2, <1>3, <1>5
<1> QED BY <1>4, <1>5

-----------------------------------------------------------------------------
(* A row other than the root's moves to an entry no other row has.         *)
LEMMA UpdateRowSound ==
  ASSUME NEW db, Sound(db), NEW id \in DOMAIN db.files, id # ROOT_ID, NEW name \in Name,
         NEW p_id \in DOMAIN db.files, DirentIds(db, name, p_id) \ {id} = {}
  PROVE  Sound(UpdateRow(db, id, name, p_id))
<1> DEFINE old == db.files[id].name
           new == [db.files EXCEPT ![id].name = name, ![id].parent_id = p_id]
           sa == IF old = name THEN db.suffix_array
                 ELSE {e \in db.suffix_array : ~(e[2] = id /\ e[1] \in SuffixesOf[old])}
                      \cup (SuffixesOf[name] \X {id})
           out == [files |-> new, suffix_array |-> sa]
<1>1. UpdateRow(db, id, name, p_id) = out
  BY DEF UpdateRow
<1>2. /\ db.files = [k \in DOMAIN db.files |-> db.files[k]]
      /\ \A k \in DOMAIN db.files : db.files[k] \in Row
      /\ DOMAIN db.files \subseteq Id
  BY DEF Sound, IsDb
<1>3. /\ DOMAIN new = DOMAIN db.files
      /\ \A k \in DOMAIN db.files : k # id => new[k] = db.files[k]
  BY <1>2
<1>4. new[id] = [file_handle |-> db.files[id].file_handle, name |-> name, parent_id |-> p_id]
  BY <1>2 DEF Row
<1>5. new[id] \in Row
  BY <1>2, <1>4 DEF Row
<1>6. new[id].name = name /\ new[id].parent_id = p_id
  BY <1>4
<1>7. new = [k \in DOMAIN new |-> new[k]]
  BY <1>2
<1>8. out.files = new /\ out.suffix_array = sa
  OBVIOUS
<1> HIDE DEF new, sa
<1>9. IsDb(out)
  <2>1. DOMAIN new \subseteq Id /\ IsFiniteSet(DOMAIN new)
    BY <1>3 DEF Sound, IsDb
  <2>2. new \in [DOMAIN new -> Row]
    <3>1. \A k \in DOMAIN new : new[k] \in Row
      BY <1>2, <1>3, <1>5
    <3> QED BY <1>7, <3>1
  <2>3. sa \subseteq Suffix \X Id
    BY <1>2, NamesAssumption DEF sa, Sound, IsDb
  <2> QED BY <1>8, <2>1, <2>2, <2>3 DEF IsDb
<1>10. HasRoot(out)
  BY <1>3, <1>8 DEF Sound, HasRoot
<1>11. NoOrphans(out)
  BY <1>3, <1>6, <1>8 DEF Sound, NoOrphans
<1>12. UniqueDirents(out)
  <2> SUFFICES ASSUME NEW j \in DOMAIN new, NEW k \in DOMAIN new,
                      new[j].name = new[k].name, new[j].parent_id = new[k].parent_id,
                      j # k
               PROVE  FALSE
    BY <1>8 DEF UniqueDirents
  <2>1. \A i \in DOMAIN db.files \ {id} :
          ~(db.files[i].name = name /\ db.files[i].parent_id = p_id)
    BY DEF DirentIds
  <2>2. CASE j # id /\ k # id
    BY <1>3, <2>2 DEF Sound, UniqueDirents
  <2>3. CASE j = id
    BY <1>3, <1>6, <2>1, <2>3
  <2>4. CASE k = id
    BY <1>3, <1>6, <2>1, <2>4
  <2> QED BY <2>2, <2>3, <2>4
<1>13. SuffixesInSync(out)
  <2>1. SuffixesOf[name] \subseteq Suffix
    BY NamesAssumption
  <2>2. db.suffix_array
        = {e \in Suffix \X DOMAIN db.files : e[1] \in SuffixesOf[db.files[e[2]].name]}
    BY DEF Sound, SuffixesInSync
  <2>3. \A e \in sa : e \in Suffix \X DOMAIN new /\ e[1] \in SuffixesOf[new[e[2]].name]
    BY <1>3, <1>6, <2>1, <2>2 DEF sa
  <2>4. \A e \in Suffix \X DOMAIN new : e[1] \in SuffixesOf[new[e[2]].name] => e \in sa
    BY <1>3, <1>6, <2>1, <2>2 DEF sa
  <2> QED BY <1>8, <2>3, <2>4 DEF SuffixesInSync
<1> QED BY <1>1, <1>9, <1>10, <1>11, <1>12, <1>13 DEF Sound

(* Moving an entry other than the root's; "NameTaken" means that another   *)
(* row has the new entry, or that there is no such parent.                 *)
LEMMA UpdateSound ==
  ASSUME NEW db, Sound(db), NEW fh, NEW old_name, old_name # RootName, NEW old_p_id,
         NEW new_name \in Name, NEW new_p_id
  PROVE  LET u == Update(db, fh, old_name, old_p_id, new_name, new_p_id)
         IN  /\ Sound(u.db)
             /\ u.err \in {"Ok", "NoFile", "ManyFiles", "NameTaken"}
             /\ u.err = "NameTaken" => \/ DirentIds(db, new_name, new_p_id) # {}
                                       \/ new_p_id \notin DOMAIN db.files
<1> DEFINE ids == EntryIds(db, fh, old_name, old_p_id)
           q == QueryOne(db, ids)
           u == Update(db, fh, old_name, old_p_id, new_name, new_p_id)
           taken == \/ DirentIds(db, new_name, new_p_id) \ {q.id} # {}
                    \/ new_p_id \notin DOMAIN db.files
<1>1. \A k \in ids : k # ROOT_ID /\ k \in DOMAIN db.files
  BY DEF EntryIds, DirentIds, Sound, HasRoot
<1>2. q.db = db /\ q.err \in {"Ok", "NoFile", "ManyFiles"} /\ (q.err = "Ok" => q.id \in ids)
  BY QueryOneResult
<1>3. u = IF q.err # "Ok" THEN q
          ELSE IF taken THEN Fail(db, "NameTaken")
          ELSE Done(UpdateRow(db, q.id, new_name, new_p_id), q.id)
  BY DEF Update
<1> HIDE DEF q, ids, u
<1>4. CASE q.err # "Ok"
  BY <1>2, <1>3, <1>4 DEF u
<1>5. CASE q.err = "Ok" /\ taken
  BY <1>3, <1>5 DEF Fail, u
<1>6. CASE q.err = "Ok" /\ ~taken
  <2>1. q.id \in DOMAIN db.files /\ q.id # ROOT_ID
    BY <1>1, <1>2, <1>6
  <2>2. Sound(UpdateRow(db, q.id, new_name, new_p_id))
    BY <1>6, <2>1, UpdateRowSound
  <2> QED BY <1>3, <1>6, <2>2 DEF Done, u
<1> QED BY <1>4, <1>5, <1>6
=============================================================================
