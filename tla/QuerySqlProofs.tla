--------------------------- MODULE QuerySqlProofs ---------------------------
(***************************************************************************)
(* The join that prepare_query builds covers every segment, and what it    *)
(* finds is what was asked for: for every sequence of segments, on every   *)
(* database that a query may meet.                                         *)
(***************************************************************************)
EXTENDS QuerySql, FilesTableProofs, SequenceTheorems

(* The inductive invariant: the loop works on a sequence of segments and   *)
(* has started at the best of them, on a sound database; JoinsCover.       *)
QueryInv ==
  /\ phase \in {"none", "growing", "ready"}
  /\ phase # "none" =>
       segs \in Seq(Segment) \ {<<>>} /\ best = BestIndex(segs) /\ Queried(snap)
  /\ l \in Nat /\ r \in Nat
  /\ JoinsCover

IsBest(q, s) ==
  /\ s \in DOMAIN q
  /\ \A t \in DOMAIN q :
       Length[q[t]] < Length[q[s]] \/ (Length[q[t]] = Length[q[s]] /\ t <= s)

-----------------------------------------------------------------------------
(* Of the longest segments one is the last.                                *)
LEMMA BestExists ==
  ASSUME NEW q \in Seq(Segment), q # <<>>
  PROVE  IsBest(q, BestIndex(q))
<1> DEFINE lengths == {Length[q[t]] : t \in DOMAIN q}
<1>1. /\ DOMAIN q = 1 .. Len(q) /\ Len(q) \in Nat \ {0}
      /\ \A t \in DOMAIN q : Length[q[t]] \in Nat
  <2>1. DOMAIN q = 1 .. Len(q) /\ Len(q) \in Nat \ {0} /\ \A t \in DOMAIN q : q[t] \in Segment
    OBVIOUS
  <2> QED BY <2>1, QueryAssumption
<1>2. IsFiniteSet(DOMAIN q)
  BY <1>1, FS_Interval
<1>3. lengths \subseteq Nat /\ lengths # {} /\ IsFiniteSet(lengths)
  <2> DEFINE f == [t \in DOMAIN q |-> Length[q[t]]]
  <2>1. f \in Surjection(DOMAIN q, lengths)
    BY DEF Surjection
  <2>2. IsFiniteSet(lengths)
    <3> HIDE DEF f, lengths
    <3> QED BY <1>2, <2>1, FS_Surjection
  <2> QED BY <1>1, <2>2
<1>4. PICK m \in lengths : \A k \in lengths : k <= m
  BY <1>3, NatMax
<1> DEFINE longest == {t \in DOMAIN q : Length[q[t]] = m}
<1>5. longest \subseteq Nat /\ longest # {} /\ IsFiniteSet(longest)
  <2>1. IsFiniteSet(longest)
    BY <1>2, FS_Subset
  <2> QED BY <1>1, <1>4, <2>1
<1>6. PICK s \in longest : \A t \in longest : t <= s
  BY <1>5, NatMax
<1>7. IsBest(q, s)
  <2> SUFFICES ASSUME NEW t \in DOMAIN q
               PROVE  Length[q[t]] < m \/ (Length[q[t]] = m /\ t <= s)
    BY <1>6 DEF IsBest
  <2>1. Length[q[t]] <= m /\ Length[q[t]] \in Nat /\ m \in Nat
    BY <1>1, <1>3, <1>4
  <2> QED BY <1>6, <2>1
<1> QED BY <1>7 DEF BestIndex, IsBest

-----------------------------------------------------------------------------
(* The conditions after a step to either side.                             *)
LEMMA ConditionsRight ==
  ASSUME NEW x \in Nat, NEW y \in Nat, 1 <= x, x <= best, best <= y, best \in Nat
  PROVE  Conditions(x, y + 1) = Conditions(x, y) \cup {ChildOf(y + 1, y)} \cup Likes(y + 1)
<1> DEFINE Named_(z) == {t \in x .. z : t # best /\ segs[t] # EmptySegment}
<1>1. Named_(y + 1) = Named_(y) \cup (IF segs[y + 1] = EmptySegment THEN {} ELSE {y + 1})
  OBVIOUS
<1>2. x .. (y + 1) - 1 = (x .. y - 1) \cup {y}
  OBVIOUS
<1>3. {OnName(s) : s \in Named_(y + 1)} = {OnName(s) : s \in Named_(y)} \cup Likes(y + 1)
  BY <1>1 DEF Likes
<1>4. {ChildOf(s + 1, s) : s \in x .. (y + 1) - 1}
      = {ChildOf(s + 1, s) : s \in x .. y - 1} \cup {ChildOf(y + 1, y)}
  BY <1>2
<1> QED BY <1>3, <1>4 DEF Conditions

LEMMA ConditionsLeft ==
  ASSUME NEW x \in Nat, NEW y \in Nat, 1 < x, x <= best, best <= y, best \in Nat
  PROVE  Conditions(x - 1, y) = Conditions(x, y) \cup {ChildOf(x, x - 1)} \cup Likes(x - 1)
<1> DEFINE Named_(z) == {t \in z .. y : t # best /\ segs[t] # EmptySegment}
<1>1. Named_(x - 1) = Named_(x) \cup (IF segs[x - 1] = EmptySegment THEN {} ELSE {x - 1})
  OBVIOUS
<1>2. x - 1 .. y - 1 = (x .. y - 1) \cup {x - 1}
  OBVIOUS
<1>3. {OnName(s) : s \in Named_(x - 1)} = {OnName(s) : s \in Named_(x)} \cup Likes(x - 1)
  BY <1>1 DEF Likes
<1>4. {ChildOf(s + 1, s) : s \in x - 1 .. y - 1}
      = {ChildOf(s + 1, s) : s \in x .. y - 1} \cup {ChildOf(x, x - 1)}
  <2>1. (x - 1) + 1 = x
    OBVIOUS
  <2> QED BY <1>2, <2>1
<1> QED BY <1>3, <1>4 DEF Conditions

LEMMA GrowInv ==
  ASSUME QueryInv, Grow
  PROVE  QueryInv'
<1>1. /\ phase = "growing" /\ phase' = phase /\ snap' = snap /\ segs' = segs /\ best' = best
      /\ segs \in Seq(Segment) \ {<<>>} /\ best = BestIndex(segs) /\ Queried(snap)
      /\ 1 < l \/ r < Len(segs)
  BY DEF Grow, QueryInv
<1>2. /\ best \in Nat /\ l \in Nat /\ r \in Nat /\ Len(segs) \in Nat
      /\ 1 <= l /\ l <= best /\ best <= r /\ r <= Len(segs) /\ conds = Conditions(l, r)
  <2>1. best \in 1 .. Len(segs) /\ Len(segs) \in Nat
    BY <1>1, BestExists DEF IsBest
  <2> QED BY <1>1, <2>1 DEF QueryInv, JoinsCover
<1>3. /\ 1 <= l' /\ l' <= best /\ best <= r' /\ r' <= Len(segs)
      /\ conds' = Conditions(l', r')
  <2>1. CASE GrowsRight
    <3>1. r' = r + 1 /\ l' = l /\ conds' = conds \cup {ChildOf(r + 1, r)} \cup Likes(r + 1)
      BY <2>1 DEF Grow, GrowRight
    <3>2. r < Len(segs)
      BY <1>1, <1>2, <2>1 DEF GrowsRight
    <3>3. Conditions(l, r + 1) = Conditions(l, r) \cup {ChildOf(r + 1, r)} \cup Likes(r + 1)
      BY <1>2, ConditionsRight
    <3> QED BY <1>2, <3>1, <3>2, <3>3
  <2>2. CASE ~GrowsRight
    <3>1. l' = l - 1 /\ r' = r /\ conds' = conds \cup {ChildOf(l, l - 1)} \cup Likes(l - 1)
      BY <2>2 DEF Grow, GrowLeft
    <3>2. 1 < l
      BY <1>2, <2>2 DEF GrowsRight
    <3>3. Conditions(l - 1, r) = Conditions(l, r) \cup {ChildOf(l, l - 1)} \cup Likes(l - 1)
      BY <1>2, <3>2, ConditionsLeft
    <3> QED BY <1>2, <3>1, <3>2, <3>3
  <2> QED BY <2>1, <2>2
<1>4. conds' = Conditions(l, r)'
  BY <1>1, <1>3 DEF Conditions, OnSuffix, OnName, ChildOf
<1>5. l' \in Nat /\ r' \in Nat
  BY <1>1, <1>2 DEF Grow, GrowRight, GrowLeft, GrowsRight
<1>6. JoinsCover'
  BY <1>1, <1>3, <1>4 DEF JoinsCover
<1> QED BY <1>1, <1>5, <1>6 DEF QueryInv

LEMMA PrepareInv ==
  ASSUME NEW q \in Seq(Segment) \ {<<>>}, NEW d, Queried(d), Prepare(q, d)
  PROVE  QueryInv'
<1>1. /\ phase' = "growing" /\ snap' = d /\ segs' = q
      /\ best' = BestIndex(q) /\ l' = best' /\ r' = best' /\ conds' = {OnSuffix(best')}
  BY DEF Prepare
<1>2. best' \in 1 .. Len(q) /\ Len(q) \in Nat
  BY <1>1, BestExists DEF IsBest
<1>3. conds' = Conditions(l, r)'
  <2>1. \A x \in Nat : x .. x - 1 = {} /\ \A t \in x .. x : t = x
    OBVIOUS
  <2>2. best' \in Nat
    BY <1>2
  <2> QED BY <1>1, <2>1, <2>2 DEF Conditions, OnSuffix
<1>4. JoinsCover'
  BY <1>1, <1>2, <1>3 DEF JoinsCover
<1> QED BY <1>1, <1>2, <1>4 DEF QueryInv, Queried

LEMMA QueryNextInv == QueryInv /\ [QueryNext]_queryVars => QueryInv'
<1> SUFFICES ASSUME QueryInv, [QueryNext]_queryVars PROVE QueryInv'
  OBVIOUS
<1>1. ASSUME NEW q \in Seq(Segment) \ {<<>>}, NEW d, Queried(d), Prepare(q, d) PROVE QueryInv'
  BY <1>1, PrepareInv
<1>2. CASE Grow
  BY <1>2, GrowInv
<1>3. CASE Run
  <2>1. /\ phase = "growing" /\ l = 1 /\ r = Len(segs) /\ phase' = "ready"
        /\ UNCHANGED <<snap, segs, best, l, r, conds>>
    BY <1>3 DEF Run
  <2>2. conds = Conditions(l, r)
    BY <2>1 DEF QueryInv, JoinsCover
  <2>3. conds' = Conditions(l, r)'
    BY <2>1, <2>2 DEF Conditions, OnSuffix, OnName, ChildOf
  <2>4. JoinsCover'
    BY <2>1, <2>3 DEF QueryInv, JoinsCover
  <2> QED BY <2>1, <2>4 DEF QueryInv, Queried
<1>4. CASE Close
  BY <1>4 DEF Close, QueryInv, JoinsCover
<1>5. CASE UNCHANGED queryVars
  <2>1. Conditions(l, r)' = Conditions(l, r)
    BY <1>5 DEF queryVars, Conditions, OnSuffix, OnName, ChildOf
  <2> QED BY <1>5, <2>1 DEF queryVars, QueryInv, JoinsCover, Queried
<1> QED BY <1>1, <1>2, <1>3, <1>4, <1>5 DEF QueryNext, QueryStep

LEMMA QueryInvariance == QuerySpec => []QueryInv
<1>1. QueryInit => QueryInv
  BY DEF QueryInit, QueryInv, JoinsCover
<1> QED BY <1>1, QueryNextInv, PTL DEF QuerySpec

(* The loop joins every segment, and nothing twice or out of place,        *)
(* wherever it starts.                                                     *)
THEOREM JoinsCoverAlways == QuerySpec => []JoinsCover
<1>1. QueryInv => JoinsCover
  BY DEF QueryInv
<1> QED BY QueryInvariance, <1>1, PTL

-----------------------------------------------------------------------------
(* The suffix table has a suffix of a row's name between a segment and its *)
(* end exactly if the name contains the segment.                           *)
LEMMA SuffixFinds ==
  ASSUME Queried(snap), NEW k \in DOMAIN snap.files, NEW s \in Segment
  PROVE  (\E e \in snap.suffix_array : e[2] = k /\ e[1] \in SuffixRange[s])
         <=> snap.files[k].name \in Containing[s] /\ snap.files[k].name # RootName
<1> DEFINE n == snap.files[k].name
           found == \E e \in snap.suffix_array : e[2] = k /\ e[1] \in SuffixRange[s]
<1>1. Sound(snap)
  BY DEF Queried, EmptyDb
<1>2. n \in Name
  BY <1>1 DEF Sound, IsDb, Row
<1>3. SuffixesOf[n] \subseteq Suffix
  BY <1>2, NamesAssumption
<1>4. snap.suffix_array
      = {e \in Suffix \X DOMAIN snap.files : e[1] \in SuffixesOf[snap.files[e[2]].name]}
  BY <1>1 DEF Sound, SuffixesInSync
<1>5. found <=> SuffixesOf[n] \cap SuffixRange[s] # {}
  <2>1. ASSUME NEW e \in snap.suffix_array, e[2] = k, e[1] \in SuffixRange[s]
        PROVE  e[1] \in SuffixesOf[n] \cap SuffixRange[s]
    BY <1>4, <2>1
  <2>2. ASSUME NEW x \in SuffixesOf[n] \cap SuffixRange[s]
        PROVE  <<x, k>> \in snap.suffix_array
    BY <1>3, <1>4, <2>2
  <2> QED BY <2>1, <2>2
<1>6. n = RootName => SuffixesOf[n] = {}
  BY SearchAssumption
<1>7. n # RootName => (n \in Containing[s] <=> SuffixesOf[n] \cap SuffixRange[s] # {})
  BY <1>2, SearchAssumption
<1> HIDE DEF n, found
<1> QED BY <1>5, <1>6, <1>7 DEF n, found

(* What the conditions of the whole join say of an assignment of rows.     *)
LEMMA JoinedRows ==
  ASSUME QueryInv, phase = "ready", NEW f
  PROVE  f \in Joined <=>
           /\ f \in Lineages
           /\ snap.files[f[best]].name \in Containing[segs[best]] \ {RootName}
           /\ \A s \in DOMAIN segs :
                s # best /\ segs[s] # EmptySegment => snap.files[f[s]].name \in Like[segs[s]]
<1>1. /\ segs \in Seq(Segment) /\ best \in DOMAIN segs /\ Queried(snap)
      /\ Len(segs) \in Nat /\ DOMAIN segs = 1 .. Len(segs)
      /\ conds = Conditions(1, Len(segs))
  BY BestExists DEF QueryInv, JoinsCover, IsBest
<1>2. SUFFICES ASSUME f \in [DOMAIN segs -> DOMAIN snap.files]
               PROVE  (\A c \in conds : Holds(c, f)) <=>
                        /\ \A s \in 1 .. Len(segs) - 1 : snap.files[f[s + 1]].parent_id = f[s]
                        /\ snap.files[f[best]].name \in Containing[segs[best]] \ {RootName}
                        /\ \A s \in DOMAIN segs : s # best /\ segs[s] # EmptySegment
                             => snap.files[f[s]].name \in Like[segs[s]]
  BY DEF Joined, Lineages, Files
<1>3. Holds(OnSuffix(best), f) <=>
        snap.files[f[best]].name \in Containing[segs[best]] \ {RootName}
  <2>1. f[best] \in DOMAIN snap.files /\ segs[best] \in Segment
    BY <1>1, <1>2
  <2>2. Holds(OnSuffix(best), f) <=>
          \E e \in snap.suffix_array : e[2] = f[best] /\ e[1] \in SuffixRange[segs[best]]
    BY DEF Holds, OnSuffix
  <2> QED BY <1>1, <2>1, <2>2, SuffixFinds
<1>4. \A s : Holds(OnName(s), f) <=> snap.files[f[s]].name \in Like[segs[s]]
  BY DEF Holds, OnName
<1>5. \A s : Holds(ChildOf(s + 1, s), f) <=> snap.files[f[s + 1]].parent_id = f[s]
  BY DEF Holds, ChildOf
<1>6. (\A c \in conds : Holds(c, f)) <=>
        /\ Holds(OnSuffix(best), f)
        /\ \A s \in {t \in 1 .. Len(segs) : t # best /\ segs[t] # EmptySegment} : Holds(OnName(s), f)
        /\ \A s \in 1 .. Len(segs) - 1 : Holds(ChildOf(s + 1, s), f)
  BY <1>1 DEF Conditions
<1> QED BY <1>1, <1>3, <1>4, <1>5, <1>6

(* A chain that ends at the root row is made of it alone: a last place of  *)
(* another row would have the root as its child.                           *)
LEMMA BelowRoot ==
  ASSUME NEW f \in Lineages, Queried(snap), Len(segs) \in Nat, NEW s \in DOMAIN segs,
         DOMAIN segs = 1 .. Len(segs), f[s] # ROOT_ID
  PROVE  f[Len(segs)] # ROOT_ID
<1>1. SUFFICES ASSUME f[Len(segs)] = ROOT_ID PROVE FALSE
  OBVIOUS
<1> DEFINE others == {t \in 1 .. Len(segs) : f[t] # ROOT_ID}
<1>2. others \subseteq Nat /\ others # {} /\ IsFiniteSet(others)
  <2>1. IsFiniteSet(1 .. Len(segs))
    BY FS_Interval
  <2>2. IsFiniteSet(others)
    BY <2>1, FS_Subset
  <2> QED BY <2>2
<1>3. PICK t \in others : \A k \in others : k <= t
  BY <1>2, NatMax
<1>4. t # Len(segs)
  BY <1>1, <1>3
<1>5. t \in 1 .. Len(segs) - 1 /\ t + 1 \in 1 .. Len(segs) /\ ~(t + 1 <= t)
  <2>1. t \in 1 .. Len(segs)
    BY <1>3
  <2>2. \A n \in Nat : \A k \in 1 .. n : k # n => k \in 1 .. n - 1 /\ k + 1 \in 1 .. n /\ ~(k + 1 <= k)
    OBVIOUS
  <2> QED BY <1>4, <2>1, <2>2
<1>6. f[t + 1] = ROOT_ID
  BY <1>3, <1>5
<1>7. snap.files[f[t + 1]].parent_id = f[t]
  BY <1>5 DEF Lineages, Files
<1>8. snap.files[ROOT_ID].parent_id = ROOT_ID
  <2>1. f[t + 1] \in DOMAIN snap.files
    BY <1>5 DEF Lineages, Files
  <2> QED BY <2>1 DEF Queried, EmptyDb, Sound, HasRoot
<1> QED BY <1>3, <1>6, <1>7, <1>8

LEMMA FoundIds == {x.id : x \in Items} = {f[Len(segs)] : f \in Joined}
<1> DEFINE item(f) == [id |-> Selected(f).id, path |-> Path(Selected(f))]
<1>1. \A f : item(f).id = f[Len(segs)]
  BY DEF Selected
<1>2. Items = {item(f) : f \in Joined}
  BY DEF Items
<1> HIDE DEF item
<1> QED BY <1>1, <1>2

LEMMA QueryFindsAsked == QueryInv => FindsAsked
<1> SUFFICES ASSUME QueryInv, phase = "ready"
             PROVE  /\ Asked \subseteq {f[Len(segs)] : f \in Joined}
                    /\ (\A s \in DOMAIN segs : segs[s] \in Plain)
                         => {f[Len(segs)] : f \in Joined} = Asked
  BY FoundIds DEF FindsAsked
<1>1. /\ segs \in Seq(Segment) /\ Queried(snap) /\ Len(segs) \in DOMAIN segs
      /\ Len(segs) \in Nat /\ DOMAIN segs = 1 .. Len(segs) /\ IsBest(segs, best)
      /\ \A s \in DOMAIN segs : segs[s] \in Segment
  BY BestExists DEF QueryInv
<1>2. ASSUME NEW id \in Asked
      PROVE  \E f \in Joined : f[Len(segs)] = id
  <2>1. PICK f \in Lineages :
          f[Len(segs)] = id /\ \A s \in DOMAIN segs : snap.files[f[s]].name \in Containing[segs[s]]
    BY DEF Asked, Files
  <2>2. id # ROOT_ID /\ id \in DOMAIN snap.files
    BY DEF Asked, Files
  <2>3. best \in DOMAIN segs
    BY <1>1 DEF IsBest
  <2>4. snap.files[f[best]].name # RootName
    <3>1. SUFFICES ASSUME snap.files[f[best]].name = RootName PROVE FALSE
      OBVIOUS
    <3>2. segs[best] = EmptySegment
      BY <1>1, <2>1, <2>3, <3>1, SearchAssumption
    <3>3. best = Len(segs)
      <4>1. Length[segs[best]] = 0 /\ Length[segs[Len(segs)]] \in Nat
        BY <1>1, <2>3, <3>2, SearchAssumption, QueryAssumption
      <4>2. Len(segs) <= best /\ best <= Len(segs) /\ best \in Nat
        BY <1>1, <4>1 DEF IsBest
      <4>3. Len(segs) \in Nat
        BY <1>1
      <4> QED BY <4>2, <4>3
    <3>4. Named(snap)
      BY <1>1, <2>2 DEF Queried, EmptyDb
    <3> QED BY <2>1, <2>2, <3>1, <3>3, <3>4 DEF Named
  <2>5. \A s \in DOMAIN segs : snap.files[f[s]].name \in Like[segs[s]]
    BY <1>1, <2>1, SearchAssumption
  <2>6. f \in Joined
    BY <2>1, <2>3, <2>4, <2>5, JoinedRows
  <2> QED BY <2>1, <2>6
<1>3. ASSUME \A s \in DOMAIN segs : segs[s] \in Plain, NEW f \in Joined
      PROVE  f[Len(segs)] \in Asked
  <2>1. /\ f \in Lineages
        /\ snap.files[f[best]].name \in Containing[segs[best]] \ {RootName}
        /\ \A s \in DOMAIN segs :
              s # best /\ segs[s] # EmptySegment => snap.files[f[s]].name \in Like[segs[s]]
    BY JoinedRows
  <2>2. \A s \in DOMAIN segs : f[s] \in DOMAIN snap.files
    BY <2>1 DEF Lineages, Files
  <2>3. \A s \in DOMAIN segs : snap.files[f[s]].name \in Name
    <3>1. snap = EmptyDb \/ IsDb(snap)
      BY <1>1 DEF Queried, Sound
    <3> QED BY <2>2, <3>1 DEF IsDb, Row, EmptyDb
  <2>4. \A s \in DOMAIN segs : snap.files[f[s]].name \in Containing[segs[s]]
    BY <1>3, <2>1, <2>3, SearchAssumption
  <2>5. best \in DOMAIN segs
    BY <1>1 DEF IsBest
  <2>6. f[best] # ROOT_ID
    <3>1. HasRoot(snap)
      BY <1>1, <2>2, <2>5 DEF Queried, EmptyDb, Sound
    <3> QED BY <2>1, <3>1 DEF HasRoot
  <2>7. f[Len(segs)] # ROOT_ID
    BY <1>1, <2>1, <2>5, <2>6, BelowRoot
  <2> QED BY <1>1, <2>1, <2>2, <2>4, <2>7 DEF Asked, Files
<1> QED BY <1>2, <1>3

(* Every entry that was asked for is found, and no other if no character   *)
(* of the query means something to LIKE.                                   *)
THEOREM FindsAskedAlways == QuerySpec => []FindsAsked
BY QueryInvariance, QueryFindsAsked, PTL

-----------------------------------------------------------------------------
(* get_path *)

(* Rows are made below rows that are there: ids grow on the way down.      *)
Ordered(d) == \A k \in DOMAIN d.files \ {ROOT_ID} : d.files[k].parent_id < k

Walkable(d) == Sound(d) /\ Named(d) /\ Ordered(d)

(* f goes n steps up from row id.                                          *)
Rises(f, n, id) ==
  /\ f \in [0 .. n -> DOMAIN Files] /\ f[0] = id
  /\ \A k \in 1 .. n : f[k] = Files[f[k - 1]].parent_id

Agree(f, g, n) == \A k \in 0 .. n : f[k] = g[k]
OnlyRoot(f, m, n) == \A k \in m .. n : f[k] = ROOT_ID

(* names are those on the way that f goes, from its end on.                *)
NamesAlong(names, f, n) == Len(names) = n /\ \A k \in 1 .. n : names[k] = Files[f[n - k]].name

(* The recursive functions of Ascent and Leads.                            *)
Up(id, n) == CHOOSE f : f = [k \in 0 .. n |-> IF k = 0 THEN id ELSE Files[f[k - 1]].parent_id]

LEMMA RowsExist ==
  ASSUME Sound(snap)
  PROVE  /\ \A k \in DOMAIN Files : Files[k].parent_id \in DOMAIN Files /\ k \in Nat /\ Files[k].name \in Name
         /\ ROOT_ID \in DOMAIN Files /\ Files[ROOT_ID].parent_id = ROOT_ID
         /\ IsFiniteSet(DOMAIN Files)
BY DEF Sound, IsDb, HasRoot, NoOrphans, Row, Id, Files

LEMMA UpRises ==
  ASSUME Sound(snap), NEW id \in DOMAIN Files, NEW n \in Nat
  PROVE  Rises(Up(id, n), n, id)
<1> DEFINE S == DOMAIN Files
           step == [x \in Nat \X S |-> Files[x[2]].parent_id]
           Is(f) == f = [k \in 0 .. n |-> IF k = 0 THEN id ELSE Files[f[k - 1]].parent_id]
<1>1. step \in [Nat \X S -> S]
  BY RowsExist
<1>2. \A m \in Nat : \A k \in S : step[<<m, k>>] = Files[k].parent_id
  OBVIOUS
<1> HIDE DEF S, step
<1>3. PICK f : Iterates(f, S, id, step, n)
  <2>1. id \in S
    BY DEF S
  <2> QED BY <1>1, <2>1, StepByStep
<1>4. \A k \in 0 .. n : f[k] = IF k = 0 THEN id ELSE Files[f[k - 1]].parent_id
  <2> HIDE DEF Is
  <2> SUFFICES ASSUME NEW k \in 0 .. n, k # 0 PROVE f[k] = Files[f[k - 1]].parent_id
    BY <1>3 DEF Iterates
  <2>1. k \in 1 .. n /\ k - 1 \in 0 .. n /\ k \in Nat
    OBVIOUS
  <2>2. f[k - 1] \in S
    BY <1>3, <2>1 DEF Iterates
  <2> QED BY <1>2, <1>3, <2>1, <2>2 DEF Iterates
<1>5. f = [k \in 0 .. n |-> f[k]]
  BY <1>3 DEF Iterates
<1>6. Is(f)
  BY <1>4, <1>5
<1>7. Up(id, n) = CHOOSE g : Is(g)
  BY DEF Up
<1> HIDE DEF Is
<1>8. Is(Up(id, n))
  BY <1>6, <1>7
<1> DEFINE u == Up(id, n)
<1>9. u = [k \in 0 .. n |-> IF k = 0 THEN id ELSE Files[u[k - 1]].parent_id]
  BY <1>8 DEF Is
<1> HIDE DEF u
<1>10. DOMAIN u = 0 .. n /\ u[0] = id /\ \A k \in 1 .. n : u[k] = Files[u[k - 1]].parent_id
  <2>1. 0 \in 0 .. n /\ \A k \in 1 .. n : k \in 0 .. n /\ k # 0
    OBVIOUS
  <2>2. \A k \in 0 .. n : u[k] = IF k = 0 THEN id ELSE Files[u[k - 1]].parent_id
    BY <1>9
  <2> QED BY <1>9, <2>1, <2>2
<1> DEFINE T == {k \in Nat : k <= n => u[k] \in DOMAIN Files}
<1>11. 0 \in T
  BY <1>10
<1>12. ASSUME NEW k \in Nat, k \in T PROVE k + 1 \in T
  <2> SUFFICES ASSUME k + 1 <= n PROVE u[k + 1] \in DOMAIN Files
    OBVIOUS
  <2>1. k + 1 \in 1 .. n /\ k <= n /\ (k + 1) - 1 = k
    OBVIOUS
  <2>2. u[k + 1] = Files[u[k]].parent_id
    BY <1>10, <2>1
  <2>3. u[k] \in DOMAIN Files
    BY <1>12, <2>1
  <2> QED BY <2>2, <2>3, RowsExist
<1>13. \A k \in Nat : k \in T
  <2> HIDE DEF T
  <2> QED BY <1>11, <1>12, AllNumbers
<1>14. \A k \in 0 .. n : u[k] \in DOMAIN Files
  BY <1>13
<1>15. u \in [0 .. n -> DOMAIN Files]
  <2>1. u = [k \in 0 .. n |-> u[k]]
    BY <1>9
  <2> QED BY <1>14, <2>1
<1> QED BY <1>10, <1>15 DEF Rises, u

(* There is one way up.                                                    *)
LEMMA OneWayUp ==
  ASSUME NEW id, NEW m \in Nat, NEW n \in Nat, m <= n, NEW f, Rises(f, m, id), NEW g, Rises(g, n, id)
  PROVE  Agree(f, g, m)
<1> DEFINE T == {k \in Nat : k <= m => f[k] = g[k]}
<1>1. 0 \in T
  BY DEF Rises
<1>2. ASSUME NEW k \in Nat, k \in T PROVE k + 1 \in T
  <2> SUFFICES ASSUME k + 1 <= m PROVE f[k + 1] = g[k + 1]
    OBVIOUS
  <2>1. k + 1 \in 1 .. m /\ k + 1 \in 1 .. n /\ k <= m /\ (k + 1) - 1 = k
    OBVIOUS
  <2>2. f[k + 1] = Files[f[k]].parent_id /\ g[k + 1] = Files[g[k]].parent_id
    BY <2>1 DEF Rises
  <2> QED BY <1>2, <2>1, <2>2
<1>3. \A k \in Nat : k \in T
  <2> HIDE DEF T
  <2> QED BY <1>1, <1>2, AllNumbers
<1> QED BY <1>3 DEF Agree

(* Above the root there is the root.                                       *)
LEMMA RootAbove ==
  ASSUME Sound(snap), NEW id, NEW n \in Nat, NEW f, Rises(f, n, id), NEW m \in 0 .. n, f[m] = ROOT_ID
  PROVE  OnlyRoot(f, m, n)
<1> DEFINE T == {j \in Nat : m + j <= n => f[m + j] = ROOT_ID}
<1>1. 0 \in T
  OBVIOUS
<1>2. ASSUME NEW j \in Nat, j \in T PROVE j + 1 \in T
  <2> SUFFICES ASSUME m + (j + 1) <= n PROVE f[m + (j + 1)] = ROOT_ID
    OBVIOUS
  <2>1. m + (j + 1) \in 1 .. n /\ m + j <= n /\ (m + (j + 1)) - 1 = m + j
    OBVIOUS
  <2>2. f[m + (j + 1)] = Files[f[m + j]].parent_id
    BY <2>1 DEF Rises
  <2> QED BY <1>2, <2>1, <2>2, RowsExist
<1>3. \A j \in Nat : j \in T
  <2> HIDE DEF T
  <2> QED BY <1>1, <1>2, AllNumbers
<1> SUFFICES ASSUME NEW k \in m .. n PROVE f[k] = ROOT_ID
  BY DEF OnlyRoot
<1>4. k - m \in Nat /\ m + (k - m) = k /\ k <= n
  OBVIOUS
<1>5. k - m \in T
  BY <1>3, <1>4
<1> QED BY <1>4, <1>5

(* The way up meets a child of the root before it has made as many steps   *)
(* as there are rows: till then the ids get smaller and smaller.           *)
LEMMA RootMet ==
  ASSUME Walkable(snap), NEW id \in DOMAIN Files, NEW f, Rises(f, Cardinality(DOMAIN Files), id)
  PROVE  \E k \in 0 .. Cardinality(DOMAIN Files) : Files[f[k]].parent_id = ROOT_ID
<1> DEFINE n == Cardinality(DOMAIN Files)
<1>1. n \in Nat /\ IsFiniteSet(DOMAIN Files)
  BY RowsExist, FS_CardinalityType DEF Walkable
<1> SUFFICES ASSUME \A k \in 0 .. n : Files[f[k]].parent_id # ROOT_ID PROVE FALSE
  OBVIOUS
<1>2. f \in [0 .. n -> DOMAIN Files] /\ \A k \in 1 .. n : f[k] = Files[f[k - 1]].parent_id
  BY DEF Rises
<1> HIDE DEF n
<1>3. \A k \in 0 .. n : f[k] \in Nat /\ f[k] \in DOMAIN Files /\ f[k] # ROOT_ID
  BY <1>2, RowsExist DEF Walkable
<1>4. ASSUME NEW k \in 1 .. n PROVE f[k] < f[k - 1]
  <2>1. k - 1 \in 0 .. n
    BY <1>1
  <2>2. Files[f[k - 1]].parent_id < f[k - 1]
    BY <1>3, <2>1 DEF Walkable, Ordered, Files
  <2> QED BY <1>2, <2>2
<1> DEFINE T == {j \in Nat : \A k \in 0 .. n : k < j /\ j <= n => f[j] < f[k]}
<1>5. 0 \in T
  BY <1>1
<1>6. ASSUME NEW j \in Nat, j \in T PROVE j + 1 \in T
  <2> SUFFICES ASSUME NEW k \in 0 .. n, k < j + 1, j + 1 <= n PROVE f[j + 1] < f[k]
    OBVIOUS
  <2>1. j + 1 \in 1 .. n /\ j \in 0 .. n /\ j + 1 \in 0 .. n /\ (j + 1) - 1 = j /\ (k = j \/ k < j) /\ j <= n
    BY <1>1
  <2>2. f[j + 1] < f[j]
    BY <1>4, <2>1
  <2>3. k = j \/ f[j] < f[k]
    BY <1>6, <2>1
  <2>4. f[j] \in Nat /\ f[k] \in Nat /\ f[j + 1] \in Nat
    BY <1>3, <2>1
  <2> QED BY <2>2, <2>3, <2>4
<1>7. \A j \in Nat : j \in T
  <2> HIDE DEF T
  <2> QED BY <1>5, <1>6, AllNumbers
<1>8. \A j, k \in 0 .. n : k < j => f[j] # f[k]
  <2> SUFFICES ASSUME NEW j \in 0 .. n, NEW k \in 0 .. n, k < j PROVE f[j] # f[k]
    OBVIOUS
  <2>1. j \in Nat /\ j <= n
    BY <1>1
  <2>2. f[j] < f[k]
    BY <1>7, <2>1
  <2> QED BY <1>3, <2>2
<1>9. IsFiniteSet(0 .. n) /\ Cardinality(0 .. n) = n + 1
  BY <1>1, FS_Interval
<1>10. Cardinality(DOMAIN Files) < Cardinality(0 .. n)
  BY <1>1, <1>9 DEF n
<1>11. PICK j, k \in 0 .. n : j # k /\ f[j] = f[k]
  BY <1>1, <1>2, <1>9, <1>10, FS_PigeonHole
<1>12. j < k \/ k < j
  BY <1>1, <1>11
<1> QED BY <1>8, <1>11, <1>12

(* get_path ends, at a child of the root row.                              *)
LEMMA AscentRises ==
  ASSUME Walkable(snap), NEW id \in DOMAIN Files
  PROVE  \E top \in Nat : \E f :
           /\ Rises(f, top, id) /\ Files[f[top]].parent_id = ROOT_ID
           /\ Ascent(id) = [k \in 1 .. top + 1 |-> f[k - 1]]
<1> DEFINE n == Cardinality(DOMAIN Files)
           u == Up(id, n)
           tops == {k \in DOMAIN u : Files[u[k]].parent_id = ROOT_ID}
           Least(k) == \A j \in tops : k <= j
           top == CHOOSE k \in tops : Least(k)
<1>1. n \in Nat
  BY RowsExist, FS_CardinalityType DEF Walkable
<1>2. Rises(u, n, id)
  BY <1>1, UpRises DEF Walkable
<1>3. Ascent(id) = IF tops = {} THEN <<>> ELSE [k \in 1 .. top + 1 |-> u[k - 1]]
  BY DEF Ascent, Up
<1>4. DOMAIN u = 0 .. n
  BY <1>2 DEF Rises
<1>5. tops # {} /\ tops \subseteq Nat
  <2>1. Rises(u, Cardinality(DOMAIN Files), id)
    BY <1>2
  <2> HIDE DEF u
  <2>2. \E k \in 0 .. n : Files[u[k]].parent_id = ROOT_ID
    BY <2>1, RootMet
  <2> HIDE DEF n
  <2> QED BY <1>4, <2>2
<1> HIDE DEF u, n
<1>6. top \in tops
  <2>1. \E k \in tops : Least(k)
    <3> HIDE DEF tops
    <3> QED BY <1>5, NatMin
  <2> HIDE DEF Least, tops
  <2> QED BY <2>1
<1> HIDE DEF top
<1>7. top \in 0 .. n /\ Files[u[top]].parent_id = ROOT_ID
  BY <1>4, <1>6
<1> DEFINE f == [k \in 0 .. top |-> u[k]]
<1>8. Rises(f, top, id)
  <2>1. \A k \in 0 .. top : k \in 0 .. n
    BY <1>1, <1>7
  <2>2. f \in [0 .. top -> DOMAIN Files]
    BY <1>2, <2>1 DEF Rises
  <2>3. 0 \in 0 .. top
    BY <1>1, <1>7
  <2>4. \A k \in 1 .. top : f[k] = Files[f[k - 1]].parent_id
    <3> SUFFICES ASSUME NEW k \in 1 .. top PROVE f[k] = Files[f[k - 1]].parent_id
      OBVIOUS
    <3>1. k \in 1 .. n /\ k \in 0 .. top /\ k - 1 \in 0 .. top
      BY <1>1, <1>7
    <3>2. u[k] = Files[u[k - 1]].parent_id
      BY <1>2, <3>1 DEF Rises
    <3> QED BY <3>1, <3>2
  <2> QED BY <1>2, <2>2, <2>3, <2>4 DEF Rises
<1>9. f[top] = u[top] /\ \A k \in 1 .. top + 1 : u[k - 1] = f[k - 1]
  BY <1>1, <1>7
<1>10. Ascent(id) = [k \in 1 .. top + 1 |-> f[k - 1]]
  <2> HIDE DEF f
  <2> QED BY <1>3, <1>5, <1>9
<1>11. top \in Nat
  BY <1>1, <1>7
<1> HIDE DEF f
<1> QED BY <1>7, <1>8, <1>9, <1>10, <1>11

(* The names that are pushed once the root's are over.                     *)
LEMMA PushedRest ==
  ASSUME NEW names \in Seq(Name), NEW z \in 0 .. Len(names),
         \A k \in 1 .. z : names[k] = RootName,
         \A k \in z + 1 .. Len(names) : names[k] # RootName
  PROVE  /\ Pushed(names) \in Seq(Name) /\ Len(Pushed(names)) = Len(names) - z
         /\ \A j \in 1 .. Len(names) - z : Pushed(names)[j] = names[z + j]
<1> DEFINE n == Len(names)
           S == Seq(Name)
           At(m) == IF m \in 1 .. n THEN names[m] ELSE RootName
           step == [x \in Nat \X S |-> Push(x[2], At(x[1]))]
           Is(p) == p = [k \in 0 .. n |-> IF k = 0 THEN <<>> ELSE Push(p[k - 1], names[k])]
           p == CHOOSE q : Is(q)
<1>1. n \in Nat /\ \A k \in 1 .. n : names[k] \in Name
  OBVIOUS
<1>2. \A m \in Nat : \A t \in S : step[<<m, t>>] = Push(t, At(m))
  OBVIOUS
<1>3. step \in [Nat \X S -> S]
  <2>1. \A m : At(m) \in Name
    BY <1>1, NamesAssumption
  <2> HIDE DEF At
  <2>2. \A x \in Nat \X S : Push(x[2], At(x[1])) \in S
    BY <2>1 DEF Push
  <2> QED BY <2>2
<1>4. <<>> \in S
  OBVIOUS
<1> HIDE DEF step, n
<1>5. PICK f : Iterates(f, S, <<>>, step, n)
  BY <1>1, <1>3, <1>4, StepByStep
<1>6. Is(f)
  <2>1. \A k \in 0 .. n : f[k] = IF k = 0 THEN <<>> ELSE Push(f[k - 1], names[k])
    <3> SUFFICES ASSUME NEW k \in 0 .. n, k # 0 PROVE f[k] = Push(f[k - 1], names[k])
      BY <1>5 DEF Iterates
    <3>1. k \in 1 .. n /\ k - 1 \in 0 .. n /\ k \in Nat
      BY <1>1
    <3>2. f[k - 1] \in S /\ f[k] = step[<<k, f[k - 1]>>]
      BY <1>5, <3>1 DEF Iterates
    <3>3. At(k) = names[k]
      BY <3>1
    <3> QED BY <1>2, <3>1, <3>2, <3>3
  <2>2. f = [k \in 0 .. n |-> f[k]]
    BY <1>5 DEF Iterates
  <2> QED BY <2>1, <2>2
<1>7. Pushed(names) = p[n]
  BY DEF Pushed, n
<1>8. Is(p)
  <2> HIDE DEF Is
  <2> QED BY <1>6
<1> HIDE DEF p
<1>9. p[0] = <<>> /\ \A k \in 1 .. n : p[k] = Push(p[k - 1], names[k])
  <2>1. \A k \in 0 .. n : p[k] = IF k = 0 THEN <<>> ELSE Push(p[k - 1], names[k])
    BY <1>8
  <2>2. 0 \in 0 .. n /\ \A k \in 1 .. n : k \in 0 .. n /\ k # 0
    BY <1>1
  <2> QED BY <2>1, <2>2
<1> HIDE DEF Is
<1> DEFINE Rest(k) ==
             /\ p[k] \in Seq(Name)
             /\ Len(p[k]) = IF k <= z THEN 0 ELSE k - z
             /\ \A j \in 1 .. k - z : p[k][j] = names[z + j]
           T == {k \in Nat : k <= n => Rest(k)}
<1>10. z \in Nat /\ z <= n
  BY DEF n
<1>11. 0 \in T
  <2>1. \A j \in 1 .. 0 - z : FALSE
    BY <1>10
  <2>2. 0 <= z
    BY <1>10
  <2>3. p[0] \in Seq(Name) /\ Len(p[0]) = 0
    BY <1>9
  <2>4. Rest(0)
    BY <2>1, <2>2, <2>3
  <2> HIDE DEF Rest
  <2> QED BY <2>4
<1>12. ASSUME NEW k \in Nat, k \in T PROVE k + 1 \in T
  <2> SUFFICES ASSUME k + 1 <= n PROVE Rest(k + 1)
    OBVIOUS
  <2>1. k + 1 \in 1 .. n /\ k <= n /\ (k + 1) - 1 = k
    BY <1>1
  <2>2. Rest(k) /\ p[k + 1] = Push(p[k], names[k + 1])
    BY <1>9, <1>12, <2>1
  <2> DEFINE b == p[k]
             a == p[k + 1]
             N == names[k + 1]
  <2>3. b \in Seq(Name) /\ Len(b) = (IF k <= z THEN 0 ELSE k - z) /\ \A j \in 1 .. k - z : b[j] = names[z + j]
    BY <2>2
  <2>4. a = Push(b, N) /\ N \in Name
    BY <1>1, <2>1, <2>2
  <2> HIDE DEF a, b
  <2>5. CASE k + 1 <= z
    <3>1. N = RootName
      <4>1. k + 1 \in 1 .. z
        BY <1>10, <2>5
      <4> QED BY <4>1
    <3>2. a = b
      BY <2>4, <3>1 DEF Push
    <3>3. k <= z /\ \A j \in 1 .. (k + 1) - z : FALSE
      BY <1>10, <2>5
    <3>4. Rest(k + 1)
      BY <2>3, <2>5, <3>2, <3>3 DEF a
    <3> QED BY <3>4
  <2>6. CASE ~(k + 1 <= z)
    <3>1. N # RootName
      <4>1. k + 1 \in z + 1 .. Len(names)
        BY <1>10, <2>1, <2>6 DEF n
      <4> QED BY <4>1
    <3>2. a = Append(b, N)
      BY <2>4, <3>1 DEF Push
    <3>3. Len(b) = k - z /\ k - z \in Nat /\ ~(k + 1 <= z) /\ (k + 1) - z = (k - z) + 1 /\ z + ((k - z) + 1) = k + 1
      BY <1>10, <2>3, <2>6
    <3> HIDE DEF N
    <3>4. a \in Seq(Name) /\ Len(a) = Len(b) + 1 /\ a[Len(b) + 1] = N /\ \A j \in 1 .. Len(b) : a[j] = b[j]
      BY <2>3, <2>4, <3>2, AppendProperties
    <3>5. \A j \in 1 .. (k + 1) - z : a[j] = names[z + j]
      <4> SUFFICES ASSUME NEW j \in 1 .. (k - z) + 1 PROVE a[j] = names[z + j]
        BY <3>3
      <4>1. CASE j = (k - z) + 1
        BY <3>3, <3>4, <4>1 DEF N
      <4>2. CASE j # (k - z) + 1
        <5>1. j \in 1 .. k - z
          BY <3>3, <4>2
        <5> QED BY <2>3, <3>3, <3>4, <5>1
      <4> QED BY <4>1, <4>2
    <3>6. Len(a) = (k + 1) - z
      BY <3>3, <3>4
    <3> QED BY <3>3, <3>4, <3>5, <3>6 DEF a
  <2> QED BY <2>5, <2>6
<1>13. n \in T
  <2> HIDE DEF T
  <2> QED BY <1>1, <1>11, <1>12, AllNumbers
<1>14. Rest(n)
  BY <1>1, <1>13
<1>15. Len(p[n]) = n - z
  <2>1. (IF n <= z THEN 0 ELSE n - z) = n - z
    BY <1>1, <1>10
  <2> QED BY <1>14, <2>1
<1> QED BY <1>7, <1>14, <1>15 DEF n

(* The names of the rows on a way up to the root, pushed from the root on, *)
(* lead down to where the way began.                                       *)
LEMMA WayLeads ==
  ASSUME Walkable(snap), NEW id \in DOMAIN Files, NEW n \in Nat, NEW f, Rises(f, n, id), f[n] = ROOT_ID,
         NEW names \in Seq(Name), NamesAlong(names, f, n)
  PROVE  Leads(Pushed(names), id)
<1>0. Len(names) = n /\ \A k \in 1 .. n : names[k] = Files[f[n - k]].name
  BY DEF NamesAlong
<1> DEFINE T == {k \in 0 .. n : f[k] = ROOT_ID}
<1>1. T \subseteq Nat /\ n \in T
  OBVIOUS
<1>2. PICK m \in T : \A k \in T : m <= k
  BY <1>1, NatMin
<1>3. m \in 0 .. n /\ f[m] = ROOT_ID /\ \A k \in 0 .. n : f[k] = ROOT_ID => m <= k
  BY <1>2
<1> HIDE DEF T
<1> DEFINE z == n - m
<1>4. z \in 0 .. Len(names) /\ Len(names) - z = m
  BY <1>0, <1>3
<1>5. f \in [0 .. n -> DOMAIN Files] /\ \A k \in m .. n : f[k] = ROOT_ID
  <2>1. Sound(snap)
    BY DEF Walkable
  <2>2. m \in 0 .. n /\ f[m] = ROOT_ID
    BY <1>3
  <2>3. OnlyRoot(f, m, n)
    BY <2>1, <2>2, RootAbove
  <2> QED BY <2>3 DEF Rises, OnlyRoot
<1>6. \A k \in 1 .. z : names[k] = RootName
  <2> SUFFICES ASSUME NEW k \in 1 .. z PROVE names[k] = RootName
    OBVIOUS
  <2>1. k \in 1 .. n /\ n - k \in m .. n
    BY <1>3
  <2>2. f[n - k] = ROOT_ID
    BY <1>5, <2>1
  <2>3. Files[ROOT_ID].name = RootName
    BY DEF Walkable, Sound, HasRoot, Files
  <2> QED BY <1>0, <2>1, <2>2, <2>3
<1>7. \A k \in z + 1 .. Len(names) : names[k] # RootName
  <2> SUFFICES ASSUME NEW k \in z + 1 .. n PROVE names[k] # RootName
    BY <1>0
  <2>1. k \in 1 .. n /\ n - k \in 0 .. n /\ ~(m <= n - k)
    BY <1>3
  <2>2. f[n - k] # ROOT_ID /\ f[n - k] \in DOMAIN Files
    BY <1>3, <1>5, <2>1
  <2> QED BY <1>0, <2>1, <2>2 DEF Walkable, Named, Files
<1> HIDE DEF z
<1> DEFINE path == Pushed(names)
<1>8. path \in Seq(Name) /\ Len(path) = m /\ \A j \in 1 .. m : path[j] = names[z + j]
  BY <1>4, <1>6, <1>7, PushedRest
<1> HIDE DEF path
<1>9. m \in Nat /\ m <= n
  BY <1>3
<1> DEFINE u == Up(id, m)
<1>10. Rises(u, m, id)
  BY <1>9, UpRises DEF Walkable
<1> HIDE DEF u
<1>11. \A k \in 0 .. m : u[k] = f[k]
  <2>1. Agree(u, f, m)
    BY <1>9, <1>10, OneWayUp
  <2> QED BY <2>1 DEF Agree
<1>12. u[m] = ROOT_ID
  BY <1>3, <1>9, <1>11
<1>13. \A k \in DOMAIN path : Files[u[m - k]].name = path[k]
  <2> SUFFICES ASSUME NEW k \in 1 .. m PROVE Files[u[m - k]].name = path[k]
    BY <1>8, <1>9
  <2>1. m - k \in 0 .. m /\ z + k \in 1 .. n /\ n - (z + k) = m - k
    BY <1>9 DEF z
  <2>2. names[z + k] = Files[f[m - k]].name
    BY <1>0, <2>1
  <2> QED BY <1>8, <1>11, <2>1, <2>2
<1>14. Leads(path, id) <=> u[m] = ROOT_ID /\ \A k \in DOMAIN path : Files[u[m - k]].name = path[k]
  BY <1>8 DEF Leads, Up, u
<1> QED BY <1>12, <1>13, <1>14 DEF path

(* A row that was found has its path.                                      *)
LEMMA PathLeads ==
  ASSUME Walkable(snap), segs \in Seq(Segment), segs # <<>>, NEW g \in Lineages
  PROVE  Leads(Path(Selected(g)), Selected(g).id)
<1> DEFINE n == Len(segs)
           row == Selected(g)
<1>1. n \in Nat /\ n # 0 /\ DOMAIN segs = 1 .. n
  OBVIOUS
<1> HIDE DEF n
<1>2. /\ g \in [1 .. n -> DOMAIN Files]
      /\ \A s \in 1 .. n - 1 : Files[g[s + 1]].parent_id = g[s]
  BY <1>1 DEF Lineages, n
<1>3. row.s0 = g[1] /\ row.names = [s \in 1 .. n |-> Files[g[s]].name] /\ row.id = g[n]
  BY <1>1, <1>2 DEF Selected, n, Files
<1> HIDE DEF row
<1>4. g[1] \in DOMAIN Files /\ g[n] \in DOMAIN Files
  BY <1>1, <1>2
<1>5. PICK top \in Nat : \E f :
        /\ Rises(f, top, g[1]) /\ Files[f[top]].parent_id = ROOT_ID
        /\ Ascent(g[1]) = [k \in 1 .. top + 1 |-> f[k - 1]]
  BY <1>4, AscentRises
<1>6. PICK f :
        /\ Rises(f, top, g[1]) /\ Files[f[top]].parent_id = ROOT_ID
        /\ Ascent(g[1]) = [k \in 1 .. top + 1 |-> f[k - 1]]
  BY <1>5
<1> DEFINE L == n + top
           up == [k \in 0 .. L |-> IF k < n THEN g[n - k] ELSE IF k = L THEN ROOT_ID ELSE f[k + 1 - n]]
           first == [k \in DOMAIN Ascent(row.s0) |-> Files[Ascent(row.s0)[Len(Ascent(row.s0)) + 1 - k]].name]
           tl == Tail(row.names)
           names == first \o tl
<1>7. f \in [0 .. top -> DOMAIN Files] /\ f[0] = g[1] /\ \A k \in 1 .. top : f[k] = Files[f[k - 1]].parent_id
  BY <1>6 DEF Rises
<1>8. \A k \in DOMAIN Files : Files[k].name \in Name
  BY RowsExist DEF Walkable
<1>9. first \in Seq(Name) /\ Len(first) = top + 1 /\ \A k \in 1 .. top + 1 : first[k] = Files[f[top + 1 - k]].name
  <2> DEFINE a == Ascent(row.s0)
  <2>1. a = [k \in 1 .. top + 1 |-> f[k - 1]]
    BY <1>3, <1>6
  <2>2. a \in Seq(DOMAIN Files) /\ Len(a) = top + 1 /\ DOMAIN a = 1 .. top + 1 /\ \A k \in 1 .. top + 1 : a[k] = f[k - 1]
    <3>1. \A k \in 1 .. top + 1 : f[k - 1] \in DOMAIN Files
      BY <1>7
    <3> HIDE DEF a
    <3> QED BY <2>1, <3>1
  <2>3. first = [k \in 1 .. top + 1 |-> Files[a[(top + 1) + 1 - k]].name]
    BY <2>2
  <2> HIDE DEF a, first
  <2>4. \A k \in 1 .. top + 1 : a[(top + 1) + 1 - k] = f[top + 1 - k] /\ f[top + 1 - k] \in DOMAIN Files
    <3> SUFFICES ASSUME NEW k \in 1 .. top + 1
                 PROVE  a[(top + 1) + 1 - k] = f[top + 1 - k] /\ f[top + 1 - k] \in DOMAIN Files
      OBVIOUS
    <3>1. (top + 1) + 1 - k \in 1 .. top + 1 /\ ((top + 1) + 1 - k) - 1 = top + 1 - k /\ top + 1 - k \in 0 .. top
      OBVIOUS
    <3> QED BY <1>7, <2>2, <3>1
  <2>5. \A k \in 1 .. top + 1 : first[k] = Files[f[top + 1 - k]].name /\ first[k] \in Name
    BY <1>8, <2>3, <2>4
  <2>6. DOMAIN first = 1 .. top + 1 /\ first = [k \in 1 .. top + 1 |-> first[k]]
    BY <2>3
  <2> QED BY <2>5, <2>6
<1> HIDE DEF first
<1>10. /\ Tail(row.names) \in Seq(Name) /\ Len(Tail(row.names)) = n - 1
       /\ \A k \in 1 .. n - 1 : Tail(row.names)[k] = Files[g[k + 1]].name
  <2> DEFINE t == row.names
  <2>1. t \in Seq(Name) /\ Len(t) = n /\ t # <<>> /\ \A k \in 1 .. n : t[k] = Files[g[k]].name
    <3>1. \A s \in 1 .. n : Files[g[s]].name \in Name
      BY <1>2, <1>8
    <3> QED BY <1>1, <1>3, <3>1
  <2> HIDE DEF t
  <2>2. Tail(t) \in Seq(Name) /\ Len(Tail(t)) = n - 1 /\ \A k \in 1 .. n - 1 : Tail(t)[k] = t[k + 1]
    BY <1>1, <2>1
  <2>3. \A k \in 1 .. n - 1 : k + 1 \in 1 .. n
    BY <1>1
  <2> QED BY <2>1, <2>2, <2>3 DEF t
<1> HIDE DEF tl
<1>11. names \in Seq(Name) /\ Len(names) = L
       /\ \A k \in 1 .. L : names[k] = IF k <= top + 1 THEN first[k] ELSE tl[k - (top + 1)]
  <2>1. /\ names \in Seq(Name) /\ Len(names) = (top + 1) + (n - 1)
        /\ \A k \in 1 .. Len(names) : names[k] = IF k <= top + 1 THEN first[k] ELSE tl[k - (top + 1)]
    <3>1. tl \in Seq(Name) /\ Len(tl) = n - 1
      BY <1>10 DEF tl
    <3>2. /\ names \in Seq(Name) /\ Len(names) = Len(first) + Len(tl)
          /\ \A k \in 1 .. Len(first) + Len(tl) : names[k] = IF k <= Len(first) THEN first[k] ELSE tl[k - Len(first)]
      BY <1>9, <3>1, ConcatProperties
    <3>3. Len(first) = top + 1
      BY <1>9
    <3> HIDE DEF names
    <3> QED BY <3>1, <3>2, <3>3
  <2>2. (top + 1) + (n - 1) = L
    BY <1>1
  <2> QED BY <2>1, <2>2
<1> HIDE DEF names
<1>12. \A k \in 1 .. L : names[k] = Files[up[L - k]].name
  <2> SUFFICES ASSUME NEW k \in 1 .. L PROVE names[k] = Files[up[L - k]].name
    OBVIOUS
  <2>1. L - k \in 0 .. L /\ L - k # L /\ k \in Nat
    BY <1>1
  <2>2. CASE k <= top
    <3>1. ~(L - k < n) /\ (L - k) + 1 - n = top + 1 - k /\ k <= top + 1 /\ k \in 1 .. top + 1
      BY <1>1, <2>1, <2>2
    <3>2. up[L - k] = f[top + 1 - k]
      BY <2>1, <3>1
    <3> HIDE DEF up, L
    <3> QED BY <1>9, <1>11, <3>1, <3>2
  <2>3. CASE k = top + 1
    <3>1. L - k < n /\ n - (L - k) = 1 /\ k <= top + 1 /\ k \in 1 .. top + 1 /\ top + 1 - k = 0
      BY <1>1, <2>1, <2>3
    <3>2. up[L - k] = g[1]
      BY <2>1, <3>1
    <3>3. f[top + 1 - k] = g[1]
      BY <1>7, <3>1
    <3> HIDE DEF up, L
    <3> QED BY <1>9, <1>11, <3>1, <3>2, <3>3
  <2>4. CASE k > top + 1
    <3>1. /\ L - k < n /\ n - (L - k) = k - top /\ ~(k <= top + 1)
          /\ k - (top + 1) \in 1 .. n - 1 /\ (k - (top + 1)) + 1 = k - top
      BY <1>1, <2>1, <2>4
    <3>2. up[L - k] = g[k - top]
      BY <2>1, <3>1
    <3> HIDE DEF up, L
    <3> QED BY <1>10, <1>11, <3>1, <3>2 DEF tl
  <2> QED BY <2>1, <2>2, <2>3, <2>4
<1>13. L \in Nat /\ up[L] = ROOT_ID
  BY <1>1
<1>14. Rises(up, L, g[n])
  <2>1. up \in [0 .. L -> DOMAIN Files]
    <3> SUFFICES ASSUME NEW k \in 0 .. L PROVE up[k] \in DOMAIN Files
      OBVIOUS
    <3>1. CASE k < n
      <4>1. n - k \in 1 .. n
        BY <1>1, <3>1
      <4> QED BY <1>2, <3>1, <4>1
    <3>2. CASE k = L
      BY <1>13, <3>2, RowsExist DEF Walkable
    <3>3. CASE ~(k < n) /\ k # L
      <4>1. k + 1 - n \in 0 .. top
        BY <1>1, <3>3
      <4> QED BY <1>7, <3>3, <4>1
    <3> QED BY <3>1, <3>2, <3>3
  <2>2. up[0] = g[n]
    <3>1. 0 \in 0 .. L /\ 0 < n /\ n - 0 = n
      BY <1>1
    <3> QED BY <3>1
  <2>3. ASSUME NEW k \in 1 .. L PROVE up[k] = Files[up[k - 1]].parent_id
    <3>1. k \in 0 .. L /\ k - 1 \in 0 .. L /\ k - 1 # L /\ k \in Nat
      BY <1>1
    <3>2. CASE k < n
      <4>1. n - k \in 1 .. n - 1 /\ n - (k - 1) = (n - k) + 1 /\ k - 1 < n
        BY <1>1, <3>1, <3>2
      <4>2. up[k] = g[n - k] /\ up[k - 1] = g[(n - k) + 1]
        BY <3>1, <3>2, <4>1
      <4> HIDE DEF up
      <4> QED BY <1>2, <4>1, <4>2
    <3>3. ASSUME ~(k < n) PROVE up[k - 1] = f[k - n]
      <4>1. CASE k = n
        <5>1. k - 1 < n /\ n - (k - 1) = 1 /\ k - n = 0
          BY <1>1, <4>1
        <5> QED BY <1>7, <3>1, <5>1
      <4>2. CASE k # n
        <5>1. ~(k - 1 < n) /\ (k - 1) + 1 - n = k - n
          BY <1>1, <3>1, <3>3, <4>2
        <5> QED BY <3>1, <5>1
      <4> QED BY <4>1, <4>2
    <3>4. CASE k = L
      <4>1. ~(k < n) /\ k - n = top
        BY <1>1, <3>4
      <4>2. up[k - 1] = f[top]
        BY <3>3, <4>1
      <4> HIDE DEF up
      <4> QED BY <1>6, <1>13, <3>4, <4>2
    <3>5. CASE ~(k < n) /\ k # L
      <4>1. k + 1 - n \in 1 .. top /\ (k + 1 - n) - 1 = k - n
        BY <1>1, <3>1, <3>5
      <4>2. up[k] = f[k + 1 - n] /\ up[k - 1] = f[k - n]
        BY <3>1, <3>3, <3>5
      <4> HIDE DEF up
      <4> QED BY <1>7, <4>1, <4>2
    <3> QED BY <3>2, <3>4, <3>5
  <2> HIDE DEF up
  <2> QED BY <2>1, <2>2, <2>3 DEF Rises
<1>15. Path(row) = Pushed(names)
  BY DEF Path, names, first, tl
<1> HIDE DEF up, L
<1>16. Leads(Pushed(names), g[n])
  <2>1. names \in Seq(Name) /\ NamesAlong(names, up, L)
    BY <1>11, <1>12 DEF NamesAlong
  <2> QED BY <1>4, <1>13, <1>14, <2>1, WayLeads
<1> QED BY <1>3, <1>15, <1>16 DEF row

(* The paths of the whole result.                                          *)
LEMMA QueryPathsLead ==
  ASSUME QueryInv, phase = "ready" => snap = EmptyDb \/ Walkable(snap)
  PROVE  PathsLead
<1> SUFFICES ASSUME phase = "ready", NEW g \in Joined
             PROVE  Leads(Path(Selected(g)), Selected(g).id)
  BY DEF PathsLead, Items
<1>1. segs \in Seq(Segment) /\ segs # <<>> /\ DOMAIN segs # {}
  BY DEF QueryInv
<1>2. g \in Lineages
  BY JoinedRows
<1>3. DOMAIN Files # {}
  BY <1>1, <1>2 DEF Lineages
<1>4. Walkable(snap)
  BY <1>3 DEF EmptyDb, Files
<1> QED BY <1>1, <1>2, <1>4, PathLeads
-----------------------------------------------------------------------------
(* Texts.  The comparisons, of which QuerySql assumes what they find, are  *)
(* those of GenSuffixes: it does hold of them.                             *)
Texts == INSTANCE GenSuffixes

(* The characters of a name: U+10FFFF, which ends the range of a segment,  *)
(* is none of them.  A segment is a String of Rust, which holds no invalid *)
(* byte, and does not have the character that stands for one.              *)
Code == {c \in Nat : c < Texts!LAST}
TextSegment == Seq(Code \ {Texts!INVALID, Texts!REPLACEMENT})

Folded(c) == IF c \in 65 .. 90 THEN c + 32 ELSE c

(* Folding keeps a character a character and the two special ones apart.   *)
LEMMA Codes ==
  /\ Texts!LAST \in Nat /\ Texts!REPLACEMENT \in Code
  /\ \A c \in Code : c \in Nat /\ c < Texts!LAST
  /\ \A c \in Code : /\ Folded(c) \in Code
                     /\ Folded(c) = Texts!INVALID <=> c = Texts!INVALID
                     /\ Folded(c) = Texts!REPLACEMENT <=> c = Texts!REPLACEMENT
<1>1. /\ Texts!LAST \in Nat /\ Texts!REPLACEMENT \in Nat /\ Texts!INVALID = 0
      /\ Texts!REPLACEMENT > 122 /\ Texts!LAST > Texts!REPLACEMENT
  BY SMT DEF Texts!LAST, Texts!REPLACEMENT, Texts!INVALID
<1>2. ASSUME NEW c \in Code
      PROVE  /\ Folded(c) \in Code
             /\ Folded(c) = Texts!INVALID <=> c = Texts!INVALID
             /\ Folded(c) = Texts!REPLACEMENT <=> c = Texts!REPLACEMENT
  BY <1>1 DEF Code, Folded
<1> QED BY <1>1, <1>2 DEF Code

(* Fold works on one character at a time.                                  *)
LEMMA FoldIs ==
  ASSUME NEW s \in Seq(Code)
  PROVE  /\ Texts!Fold(s) \in Seq(Code) /\ Len(Texts!Fold(s)) = Len(s)
         /\ \A k \in 1 .. Len(s) : Texts!Fold(s)[k] = Folded(s[k])
<1> DEFINE f == Texts!Fold(s)
<1>1. f = [k \in 1 .. Len(s) |-> Folded(s[k])]
  BY DEF Texts!Fold, Folded
<1>2. \A c \in Code : Folded(c) \in Code
  BY Codes
<1>3. Len(s) \in Nat /\ \A k \in 1 .. Len(s) : s[k] \in Code
  OBVIOUS
<1> HIDE DEF f
<1>4. f \in [1 .. Len(s) -> Code]
  BY <1>1, <1>2, <1>3
<1>5. f \in Seq(Code) /\ Len(f) = Len(s)
  BY <1>3, <1>4
<1> QED BY <1>1, <1>5 DEF f

(* Lossy works on one character at a time and keeps the length.            *)
LEMMA LossyIs ==
  ASSUME NEW s \in Seq(Code)
  PROVE  /\ Texts!Lossy(s) \in Seq(Code) /\ Len(Texts!Lossy(s)) = Len(s)
         /\ \A k \in 1 .. Len(s) :
              Texts!Lossy(s)[k] = IF s[k] = Texts!INVALID THEN Texts!REPLACEMENT ELSE s[k]
<1> DEFINE f == Texts!Lossy(s)
<1>1. f = [k \in 1 .. Len(s) |-> IF s[k] = Texts!INVALID THEN Texts!REPLACEMENT ELSE s[k]]
  BY DEF Texts!Lossy
<1>2. Texts!REPLACEMENT \in Code
  BY Codes
<1>3. Len(s) \in Nat /\ \A k \in 1 .. Len(s) : s[k] \in Code
  OBVIOUS
<1> HIDE DEF f
<1>4. f \in [1 .. Len(s) -> Code]
  BY <1>1, <1>2, <1>3
<1>5. f \in Seq(Code) /\ Len(f) = Len(s)
  BY <1>3, <1>4
<1> QED BY <1>1, <1>5 DEF f

(* The cursor yields the name without its first k characters, for each k.  *)
LEMMA SuffixesAre ==
  ASSUME NEW name \in Seq(Code)
  PROVE  Texts!Suffixes(name) = {SubSeq(Texts!Lossy(name), k + 1, Len(name)) : k \in 0 .. Len(name) - 1}
<1> DEFINE n == Len(name)
           str == Texts!Lossy(name)
           At(k) == [string |-> str, index |-> k]
           Is(f) == f = [k \in 0 .. n |-> IF k = 0 THEN Texts!Filter(name) ELSE Texts!AfterNext(f[k - 1])]
           at == CHOOSE f : Is(f)
           g == [k \in 0 .. n |-> At(k)]
<1>1. n \in Nat /\ Len(str) = n
  BY LossyIs
<1>2. Texts!Filter(name) = At(0) /\ \A k \in Nat : k # 0 => Texts!AfterNext(At(k - 1)) = At(k)
  BY DEF Texts!Filter, Texts!AfterNext
<1> HIDE DEF n, str, At
<1>3. Is(g)
  <2>1. ASSUME NEW k \in 0 .. n
        PROVE  At(k) = IF k = 0 THEN Texts!Filter(name) ELSE Texts!AfterNext(g[k - 1])
    <3>1. CASE k = 0
      BY <1>2, <3>1
    <3>2. CASE k # 0
      <4>1. k - 1 \in 0 .. n /\ k \in Nat
        BY <1>1, <3>2
      <4> QED BY <1>2, <3>2, <4>1
    <3> QED BY <3>1, <3>2
  <2> QED BY <2>1
<1>4. Is(at)
  <2> HIDE DEF Is, g
  <2> QED BY <1>3
<1> HIDE DEF at
<1>5. at = [k \in 0 .. n |-> IF k = 0 THEN Texts!Filter(name) ELSE Texts!AfterNext(at[k - 1])]
  BY <1>4
<1>6. \A k \in 0 .. n : at[k] = At(k)
  <2> DEFINE Right == {k \in Nat : k <= n => at[k] = At(k)}
  <2>1. 0 \in Right
    BY <1>1, <1>2, <1>5
  <2>2. ASSUME NEW k \in Nat, k \in Right PROVE k + 1 \in Right
    <3>1. k + 1 \in Nat /\ k + 1 # 0 /\ (k + 1) - 1 = k
      OBVIOUS
    <3>2. CASE k + 1 <= n
      <4>1. k + 1 \in 0 .. n /\ k <= n
        BY <1>1, <3>2
      <4>2. at[k + 1] = Texts!AfterNext(at[k])
        BY <1>5, <3>1, <4>1
      <4>3. at[k] = At(k)
        BY <2>2, <4>1
      <4>4. Texts!AfterNext(At(k)) = At(k + 1)
        BY <1>2, <3>1
      <4> QED BY <3>1, <4>2, <4>3, <4>4
    <3> QED BY <3>1, <3>2
  <2>3. \A k \in Nat : k \in Right
    <3> HIDE DEF Right
    <3> QED BY <2>1, <2>2, AllNumbers
  <2> QED BY <1>1, <2>3
<1>7. Texts!Suffixes(name)
        = {Texts!Column(at[k]) : k \in {j \in DOMAIN at : \A m \in 0 .. j : ~Texts!Eof(at[m])}}
  BY DEF Texts!Suffixes, at, n
<1>8. DOMAIN at = 0 .. n
  BY <1>5
<1>9. \A k \in 0 .. n : (Texts!Eof(at[k]) <=> k = n) /\ Texts!Column(at[k]) = SubSeq(str, k + 1, n)
  <2> SUFFICES ASSUME NEW k \in 0 .. n
               PROVE  (Texts!Eof(at[k]) <=> k = n) /\ Texts!Column(at[k]) = SubSeq(str, k + 1, n)
    OBVIOUS
  <2>1. at[k] = At(k)
    BY <1>6
  <2>2. At(k).string = str /\ At(k).index = k
    BY DEF At
  <2> QED BY <1>1, <2>1, <2>2 DEF Texts!Eof, Texts!Column
<1>10. {j \in DOMAIN at : \A m \in 0 .. j : ~Texts!Eof(at[m])} = 0 .. n - 1
  <2>1. ASSUME NEW j \in 0 .. n
        PROVE  (\A m \in 0 .. j : ~Texts!Eof(at[m])) <=> j # n
    <3>1. j \in 0 .. j /\ \A m \in 0 .. j : m \in 0 .. n /\ (m = n => j = n)
      BY <1>1
    <3> QED BY <1>9, <3>1
  <2>2. \A j : j \in 0 .. n - 1 <=> j \in 0 .. n /\ j # n
    BY <1>1
  <2> QED BY <1>8, <2>1, <2>2
<1>11. \A k \in 0 .. n - 1 : Texts!Column(at[k]) = SubSeq(str, k + 1, n)
  <2>1. \A k \in 0 .. n - 1 : k \in 0 .. n
    BY <1>1
  <2> QED BY <1>9, <2>1
<1> QED BY <1>7, <1>10, <1>11 DEF n, str

(* A text is in the range of a segment if it starts with it.               *)
StartsWith(s, t) == Len(t) <= Len(s) /\ \A m \in 1 .. Len(t) : s[m] = t[m]

LEMMA RangeStarts ==
  ASSUME NEW s \in Seq(Code), NEW t \in Seq(Code)
  PROVE  ~Texts!Less(s, t) /\ Texts!Less(s, Append(t, Texts!LAST)) <=> StartsWith(s, t)
<1> DEFINE u == Append(t, Texts!LAST)
<1>1. /\ Len(s) \in Nat /\ Len(t) \in Nat /\ Len(u) = Len(t) + 1 /\ u[Len(t) + 1] = Texts!LAST
      /\ \A m \in 1 .. Len(t) : u[m] = t[m]
  OBVIOUS
<1>2. (\A m \in 1 .. Len(s) : s[m] \in Nat /\ s[m] < Texts!LAST) /\ \A m \in 1 .. Len(t) : t[m] \in Nat
  BY Codes
<1> HIDE DEF u
<1>3. ASSUME StartsWith(s, t) PROVE ~Texts!Less(s, t)
  BY <1>1, <1>2, <1>3 DEF StartsWith, Texts!Less
<1>4. ASSUME StartsWith(s, t) PROVE Texts!Less(s, u)
  <2> DEFINE k == Len(t) + 1
  <2>1. k \in 1 .. Len(u) /\ \A m \in 1 .. k - 1 : m \in 1 .. Len(t)
    BY <1>1
  <2>2. \A m \in 1 .. k - 1 : m <= Len(s) /\ s[m] = u[m]
    BY <1>1, <1>4, <2>1 DEF StartsWith
  <2>3. k > Len(s) \/ s[k] < u[k]
    BY <1>1, <1>2
  <2> QED BY <2>1, <2>2, <2>3 DEF Texts!Less
<1>5. ASSUME ~Texts!Less(s, t), Texts!Less(s, u) PROVE StartsWith(s, t)
  <2>1. PICK k \in 1 .. Len(u) : /\ \A m \in 1 .. k - 1 : m <= Len(s) /\ s[m] = u[m]
                                /\ (k > Len(s) \/ s[k] < u[k])
    BY <1>5 DEF Texts!Less
  <2>2. CASE k \in 1 .. Len(t)
    <3>1. \A m \in 1 .. k - 1 : m \in 1 .. Len(t)
      BY <1>1, <2>2
    <3> QED BY <1>1, <1>5, <2>1, <2>2, <3>1 DEF Texts!Less
  <2>3. CASE k \notin 1 .. Len(t)
    <3>1. k = Len(t) + 1 /\ \A m \in 1 .. Len(t) : m \in 1 .. k - 1
      BY <1>1, <2>3
    <3>2. \A m \in 1 .. Len(t) : m <= Len(s) /\ s[m] = t[m]
      BY <1>1, <2>1, <3>1
    <3>3. Len(t) <= Len(s)
      <4>1. CASE Len(t) = 0
        BY <1>1, <4>1
      <4>2. CASE Len(t) # 0
        <5>1. Len(t) \in 1 .. Len(t)
          BY <1>1, <4>2
        <5> QED BY <3>2, <5>1
      <4> QED BY <4>1, <4>2
    <3> QED BY <3>2, <3>3 DEF StartsWith
  <2> QED BY <2>2, <2>3
<1> QED BY <1>3, <1>4, <1>5 DEF u

(* Folding tells apart what the invalid byte stands for from what a        *)
(* segment may hold.                                                       *)
LEMMA SameFolded ==
  ASSUME NEW c \in Code, NEW d \in Code \ {Texts!INVALID, Texts!REPLACEMENT}
  PROVE  Folded(IF c = Texts!INVALID THEN Texts!REPLACEMENT ELSE c) = Folded(d) <=> Folded(c) = Folded(d)
BY Codes

(* The suffix from k on is in the range of a segment if the segment is in  *)
(* the name at k.                                                          *)
LEMMA SuffixFits ==
  ASSUME NEW name \in Seq(Code), NEW s \in TextSegment, NEW k \in 0 .. Len(name) - 1
  PROVE  Texts!InRange(SubSeq(Texts!Lossy(name), k + 1, Len(name)), s) <=> Texts!FitsAt(name, s, k, {})
<1> DEFINE n == Len(name)
           str == Texts!Lossy(name)
           x == SubSeq(str, k + 1, n)
           fx == Texts!Fold(x)
           fs == Texts!Fold(s)
           fn == Texts!Fold(name)
<1>1. s \in Seq(Code) /\ Len(s) \in Nat /\ n \in Nat /\ k \in Nat /\ k < n
      /\ \A m \in 1 .. Len(s) : s[m] \in Code \ {Texts!INVALID, Texts!REPLACEMENT}
  BY DEF TextSegment
<1>2. x \in Seq(Code) /\ Len(x) = n - k /\ \A m \in 1 .. n - k : x[m] = str[k + m]
  <2>1. str \in Seq(Code) /\ Len(str) = n
    BY LossyIs
  <2> HIDE DEF str
  <2>2. \A i \in k + 1 .. n : str[i] \in Code
    BY <1>1, <2>1
  <2> HIDE DEF n
  <2> QED BY <1>1, <2>2, SubSeqProperties
<1>3. \A i \in 1 .. n : str[i] = IF name[i] = Texts!INVALID THEN Texts!REPLACEMENT ELSE name[i]
  BY LossyIs
<1> HIDE DEF str, x
<1>4. fx \in Seq(Code) /\ Len(fx) = n - k /\ \A m \in 1 .. n - k : fx[m] = Folded(x[m])
  BY <1>2, FoldIs
<1>5. fs \in Seq(Code) /\ Len(fs) = Len(s) /\ \A m \in 1 .. Len(s) : fs[m] = Folded(s[m])
  BY <1>1, FoldIs
<1>6. \A i \in 1 .. n : fn[i] = Folded(name[i])
  BY FoldIs
<1> HIDE DEF fx, fs, fn
<1>7. Texts!InRange(x, s) <=> StartsWith(fx, fs)
  BY <1>4, <1>5, RangeStarts DEF Texts!InRange, fx, fs
<1>8. Texts!FitsAt(name, s, k, {}) <=> k + Len(s) <= n /\ \A m \in 1 .. Len(s) : fs[m] = fn[k + m]
  <2>1. DOMAIN s = 1 .. Len(s)
    BY <1>1
  <2> QED BY <2>1 DEF Texts!FitsAt, fs, fn, n
<1>9. ASSUME k + Len(s) <= n, NEW m \in 1 .. Len(s) PROVE fx[m] = fs[m] <=> fs[m] = fn[k + m]
  <2>1. m \in 1 .. n - k /\ k + m \in 1 .. n
    BY <1>1, <1>9
  <2>2. fx[m] = Folded(IF name[k + m] = Texts!INVALID THEN Texts!REPLACEMENT ELSE name[k + m])
    BY <1>2, <1>3, <1>4, <2>1
  <2>3. fs[m] = Folded(s[m]) /\ fn[k + m] = Folded(name[k + m])
    BY <1>5, <1>6, <2>1
  <2>4. name[k + m] \in Code
    BY <2>1
  <2> QED BY <1>1, <2>2, <2>3, <2>4, SameFolded
<1>10. StartsWith(fx, fs) <=> k + Len(s) <= n /\ \A m \in 1 .. Len(s) : fx[m] = fs[m]
  <2>1. Len(s) <= n - k <=> k + Len(s) <= n
    BY <1>1
  <2> QED BY <1>4, <1>5, <2>1 DEF StartsWith
<1> QED BY <1>7, <1>8, <1>9, <1>10 DEF x, str

(* What SearchAssumption says of SQLite's comparisons holds of texts of    *)
(* any length: the suffixes that gen_suffixes yields for a name and that   *)
(* are between a segment and the segment with U+10FFFF behind, ignoring    *)
(* case, are there exactly if the segment is somewhere in the name; LIKE   *)
(* finds these names at least, and no others without an underscore.  Only  *)
(* the empty segment is in the name of the root, which has no suffix.      *)
THEOREM TextsAreFound ==
  ASSUME NEW s \in TextSegment, NEW name \in Seq(Code)
  PROVE  /\ Len(s) = 0 <=> s = <<>>
         /\ Texts!IsSubstring(<<>>, name)
         /\ Texts!IsSubstring(s, <<>>) => s = <<>>
         /\ Texts!Suffixes(<<>>) = {}
         /\ name # <<>> =>
              (Texts!IsSubstring(s, name) <=> \E x \in Texts!Suffixes(name) : Texts!InRange(x, s))
         /\ Texts!IsSubstring(s, name) => Texts!IsLike(name, s)
         /\ Texts!IsPlain(s) /\ Texts!IsLike(name, s) => Texts!IsSubstring(s, name)
<1>1. s \in Seq(Code) /\ Len(s) \in Nat /\ Len(name) \in Nat /\ (Len(s) = 0 <=> s = <<>>)
  BY DEF TextSegment
<1>2. Texts!IsSubstring(<<>>, name)
  <2>1. Texts!FitsAt(name, <<>>, 0, {})
    BY <1>1 DEF Texts!FitsAt
  <2> QED BY <1>1, <2>1 DEF Texts!IsSubstring
<1>3. Texts!IsSubstring(s, <<>>) => s = <<>>
  BY <1>1 DEF Texts!IsSubstring, Texts!FitsAt
<1>4. Texts!Suffixes(<<>>) = {}
  <2>1. <<>> \in Seq(Code) /\ 0 .. Len(<<>>) - 1 = {}
    OBVIOUS
  <2> QED BY <2>1, SuffixesAre
<1>5. ASSUME name # <<>>
      PROVE  Texts!IsSubstring(s, name) <=> \E x \in Texts!Suffixes(name) : Texts!InRange(x, s)
  <2>1. (\E x \in Texts!Suffixes(name) : Texts!InRange(x, s))
          <=> \E k \in 0 .. Len(name) - 1 : Texts!FitsAt(name, s, k, {})
    <3> DEFINE Cut(k) == SubSeq(Texts!Lossy(name), k + 1, Len(name))
    <3>1. Texts!Suffixes(name) = {Cut(k) : k \in 0 .. Len(name) - 1}
      BY SuffixesAre
    <3>2. \A k \in 0 .. Len(name) - 1 : Texts!InRange(Cut(k), s) <=> Texts!FitsAt(name, s, k, {})
      BY SuffixFits
    <3> HIDE DEF Cut
    <3> QED BY <3>1, <3>2
  <2>2. ASSUME NEW k \in 0 .. Len(name), Texts!FitsAt(name, s, k, {})
        PROVE  \E j \in 0 .. Len(name) - 1 : Texts!FitsAt(name, s, j, {})
    <3>1. CASE k = Len(name)
      <4>1. Len(s) = 0 /\ Len(name) # 0
        BY <1>1, <1>5, <2>2, <3>1 DEF Texts!FitsAt
      <4>2. Texts!FitsAt(name, s, 0, {}) /\ 0 \in 0 .. Len(name) - 1
        BY <1>1, <4>1 DEF Texts!FitsAt
      <4> QED BY <4>2
    <3>2. CASE k # Len(name)
      <4>1. k \in 0 .. Len(name) - 1
        BY <1>1, <3>2
      <4> QED BY <2>2, <4>1
    <3> QED BY <3>1, <3>2
  <2>3. \A k \in 0 .. Len(name) - 1 : k \in 0 .. Len(name)
    BY <1>1
  <2> QED BY <2>1, <2>2, <2>3 DEF Texts!IsSubstring
<1>6. Texts!IsSubstring(s, name) => Texts!IsLike(name, s)
  BY DEF Texts!IsSubstring, Texts!IsLike, Texts!FitsAt
<1>7. Texts!IsPlain(s) /\ Texts!IsLike(name, s) => Texts!IsSubstring(s, name)
  BY DEF Texts!IsSubstring, Texts!IsLike, Texts!FitsAt, Texts!IsPlain
<1> QED BY <1>1, <1>2, <1>3, <1>4, <1>5, <1>6, <1>7
=============================================================================
