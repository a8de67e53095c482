------------------------------ MODULE QuerySql ------------------------------
(***************************************************************************)
(* One query (src/db.rs): prepare_query builds a join over the segments of *)
(* the searched path, starting at the most specific one, which the suffix  *)
(* table finds, and growing to both sides; get_path turns a row of the     *)
(* result into a path.  The query reads one snapshot of the database.      *)
(***************************************************************************)
EXTENDS FilesTable, Sequences

CONSTANTS
  Segment,       (* what stands between slashes in a query                 *)
  EmptySegment,
  Length,        (* Length[s]: str::len                                    *)
  SuffixRange,   (* SuffixRange[s]: suffixes between s and s || U+10FFFF   *)
  Like,          (* Like[s]: names that are LIKE '%s%'                     *)
  Containing,    (* Containing[s]: names of which s is a substring         *)
  Plain          (* segments without characters that LIKE interprets       *)

ASSUME QueryAssumption ==
  /\ EmptySegment \in Segment /\ Plain \subseteq Segment
  /\ Length \in [Segment -> Nat]
  /\ SuffixRange \in [Segment -> SUBSET Suffix]
  /\ Like \in [Segment -> SUBSET Name] /\ Containing \in [Segment -> SUBSET Name]

(* How the two comparisons of the statement relate to the substrings it is *)
(* meant to find.                                                          *)
ASSUME SearchAssumption ==
  /\ \A s \in Segment : Length[s] = 0 <=> s = EmptySegment
  /\ Containing[EmptySegment] = Name
  /\ \A s \in Segment : RootName \in Containing[s] => s = EmptySegment
  /\ SuffixesOf[RootName] = {}
  /\ \A s \in Segment : \A n \in Name \ {RootName} :
       n \in Containing[s] <=> SuffixesOf[n] \cap SuffixRange[s] # {}
  /\ \A s \in Segment : Containing[s] \subseteq Like[s]
  /\ \A s \in Plain : Like[s] = Containing[s]

VARIABLES
  phase,  (* "none", "growing": prepare_query's loop, "ready": it has run  *)
  snap,   (* the database the statement reads                              *)
  segs,   (* the segments, from 1 on where the code counts from 0          *)
  best, l, r,
  conds   (* conditions; a join is the segment it is for                   *)

queryVars == <<phase, snap, segs, best, l, r, conds>>

QueryInit ==
  /\ phase = "none" /\ snap = EmptyDb /\ segs = <<>>
  /\ best = 0 /\ l = 0 /\ r = 0 /\ conds = {}

-----------------------------------------------------------------------------
(* prepare_query *)

OnSuffix(s) == [type |-> "suffix", seg |-> s]
ChildOf(c, p) == [type |-> "parent", child |-> c, parent |-> p]
OnName(s) == [type |-> "like", seg |-> s]

\* Mutant of BestIndex: the first of the longest.
BestFirst(q) ==
  CHOOSE s \in DOMAIN q : \A t \in DOMAIN q :
    Length[q[t]] < Length[q[s]] \/ (Length[q[t]] = Length[q[s]] /\ s <= t)

(* max_by_key: the last of the longest.                                    *)
BestIndex(q) ==
  CHOOSE s \in DOMAIN q : \A t \in DOMAIN q :
    Length[q[t]] < Length[q[s]] \/ (Length[q[t]] = Length[q[s]] /\ t <= s)

(* The databases that queries meet: the migration's, or one with a root.   *)
Queried(d) == d = EmptyDb \/ (Sound(d) /\ Named(d))

Prepare(q, d) ==
  /\ phase = "none" /\ phase' = "growing"
  /\ snap' = d /\ segs' = q
  /\ best' = BestIndex(q) /\ l' = best' /\ r' = best'
  /\ conds' = {OnSuffix(best')}

Likes(s) == IF segs[s] = EmptySegment THEN {} ELSE {OnName(s)}

GrowsRight == l = 1 \/ (r < Len(segs) /\ Length[segs[l - 1]] < Length[segs[r + 1]])

\* Mutant of GrowRight: continue skips the whole condition, not only LIKE.
GrowRightUnlessEmpty ==
  /\ r' = r + 1 /\ UNCHANGED l
  /\ conds' = conds \cup (IF segs[r'] = EmptySegment THEN {} ELSE {ChildOf(r', r), OnName(r')})

GrowRight ==
  /\ r' = r + 1 /\ UNCHANGED l
  /\ conds' = conds \cup {ChildOf(r', r)} \cup Likes(r')

GrowLeft ==
  /\ l' = l - 1 /\ UNCHANGED r
  /\ conds' = conds \cup {ChildOf(l, l')} \cup Likes(l')

Grow ==
  /\ phase = "growing" /\ (1 < l \/ r < Len(segs))
  /\ IF GrowsRight THEN GrowRight ELSE GrowLeft
  /\ UNCHANGED <<phase, snap, segs, best>>

Run ==
  /\ phase = "growing" /\ l = 1 /\ r = Len(segs)
  /\ phase' = "ready"
  /\ UNCHANGED <<snap, segs, best, l, r, conds>>

Close ==
  /\ phase = "ready"
  /\ phase' = "none" /\ snap' = EmptyDb /\ segs' = <<>>
  /\ best' = 0 /\ l' = 0 /\ r' = 0 /\ conds' = {}

QueryStep == Grow \/ Run \/ Close

QueryNext ==
  \/ \E q \in Seq(Segment) \ {<<>>} : \E d : Queried(d) /\ Prepare(q, d)
  \/ QueryStep

QuerySpec == QueryInit /\ [][QueryNext]_queryVars

-----------------------------------------------------------------------------
(* The statement *)

Holds(c, f) ==
  CASE c.type = "suffix" -> \E e \in snap.suffix_array : e[2] = f[c.seg] /\ e[1] \in SuffixRange[segs[c.seg]]
    [] c.type = "parent" -> snap.files[f[c.child]].parent_id = f[c.parent]
    [] c.type = "like"   -> snap.files[f[c.seg]].name \in Like[segs[c.seg]]

(* The assignments of rows to s0, s1, ... that satisfy WHERE.              *)
Joined == {f \in [DOMAIN segs -> DOMAIN snap.files] : \A c \in conds : Holds(c, f)}

(* SELECT DISTINCT s0.id, names, the last row's id                         *)
Selected(f) ==
  [s0 |-> f[1], names |-> [s \in DOMAIN f |-> snap.files[f[s]].name], id |-> f[Len(segs)]]

-----------------------------------------------------------------------------
(* get_path *)

Files == snap.files

(* The rows get_path meets from row id on, the first that is a child of the*)
(* root row being the last; none if it never meets one.                    *)
Ascent(id) ==
  LET ptr[k \in 0 .. Cardinality(DOMAIN Files)] ==
        IF k = 0 THEN id ELSE Files[ptr[k - 1]].parent_id
      tops == {k \in DOMAIN ptr : Files[ptr[k]].parent_id = ROOT_ID}
  IN  IF tops = {} THEN <<>>
      ELSE LET top == CHOOSE k \in tops : \A j \in tops : k <= j
           IN  [k \in 1 .. top + 1 |-> ptr[k - 1]]

(* PathBuf::push, name after name; the empty name changes nothing.         *)
Push(path, n) == IF n = RootName THEN path ELSE Append(path, n)

Pushed(names) ==
  LET path[k \in 0 .. Len(names)] == IF k = 0 THEN <<>> ELSE Push(path[k - 1], names[k])
  IN  path[Len(names)]

\* Mutant of Path: s0's name is pushed again.
PathTwice(row) ==
  LET up == Ascent(row.s0)
  IN  Pushed([k \in DOMAIN up |-> Files[up[Len(up) + 1 - k]].name] \o row.names)

(* The names from below the root to s0, then those of s1, ...              *)
Path(row) ==
  LET up == Ascent(row.s0)
  IN  Pushed([k \in DOMAIN up |-> Files[up[Len(up) + 1 - k]].name] \o Tail(row.names))

(* What the query prints.                                                  *)
Items == {[id |-> Selected(f).id, path |-> Path(Selected(f))] : f \in Joined}

-----------------------------------------------------------------------------
(* Properties *)

(* The conditions built so far: the most specific segment by its suffix,   *)
(* every other segment between l and r that is not empty by LIKE, and each *)
(* row of these the parent of the next.                                    *)
Conditions(a, b) ==
  {OnSuffix(best)}
  \cup {OnName(s) : s \in {t \in a .. b : t # best /\ segs[t] # EmptySegment}}
  \cup {ChildOf(s + 1, s) : s \in a .. b - 1}

JoinsCover ==
  phase # "none" =>
    /\ 1 <= l /\ l <= best /\ best <= r /\ r <= Len(segs)
    /\ conds = Conditions(l, r)
    /\ phase = "ready" => l = 1 /\ r = Len(segs)

(* The chains of parents that are as long as segs.                         *)
Lineages ==
  {f \in [DOMAIN segs -> DOMAIN Files] :
     \A s \in 1 .. Len(segs) - 1 : Files[f[s + 1]].parent_id = f[s]}

(* What was asked for: the entries, the root not among them, whose last    *)
(* components contain the segments, each in its place.                     *)
Asked ==
  {id \in DOMAIN Files \ {ROOT_ID} :
     \E f \in Lineages :
       f[Len(segs)] = id /\ \A s \in DOMAIN segs : Files[f[s]].name \in Containing[segs[s]]}

(* A query finds every entry that was asked for, and, if no segment has a  *)
(* character that LIKE interprets, no other, wherever the join started.    *)
FindsAsked ==
  phase = "ready" =>
    LET found == {x.id : x \in Items}
    IN  Asked \subseteq found /\ ((\A s \in DOMAIN segs : segs[s] \in Plain) => found = Asked)

(* The path that is printed leads, name by name from the root row, to the  *)
(* row whose id is printed with it.                                        *)
Leads(path, id) ==
  LET above[k \in 0 .. Len(path)] == IF k = 0 THEN id ELSE Files[above[k - 1]].parent_id
  IN  /\ above[Len(path)] = ROOT_ID
      /\ \A k \in DOMAIN path : Files[above[Len(path) - k]].name = path[k]

PathsLead == phase = "ready" => \A x \in Items : Leads(x.path, x.id)
=============================================================================
