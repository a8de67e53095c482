----------------------------- MODULE GenSuffixes ----------------------------
(***************************************************************************)
(* Names and search segments as sequences of character codes: what the     *)
(* virtual table gen_suffixes (src/gen_suffixes_vtab.rs) yields for a name,*)
(* and the two ways in which prepare_query (src/db.rs) compares a segment  *)
(* with a name.                                                            *)
(***************************************************************************)
EXTENDS Naturals, Sequences

INVALID == 0             (* a byte that is not UTF-8                       *)
REPLACEMENT == 65533     (* U+FFFD                                         *)
LAST == 1114111          (* U+10FFFF                                       *)
UNDERSCORE == 95

-----------------------------------------------------------------------------
(* The cursor *)

Lossy(name) == [k \in DOMAIN name |-> IF name[k] = INVALID THEN REPLACEMENT ELSE name[k]]

Filter(name) == [string |-> Lossy(name), index |-> 0]
AfterNext(c) == [c EXCEPT !.index = @ + 1]

Eof(c) == c.index = Len(c.string)

Column(c) == SubSeq(c.string, c.index + 1, Len(c.string))

(* What SQLite reads: filter, then column and next until eof.              *)
Suffixes(name) ==
  LET at[k \in 0 .. Len(name)] == IF k = 0 THEN Filter(name) ELSE AfterNext(at[k - 1])
  IN  {Column(at[k]) : k \in {j \in DOMAIN at : \A m \in 0 .. j : ~Eof(at[m])}}

-----------------------------------------------------------------------------
(* Comparison *)

(* NOCASE, LOWER and LIKE fold ASCII letters only.                         *)
Fold(s) == [k \in DOMAIN s |-> IF s[k] \in 65 .. 90 THEN s[k] + 32 ELSE s[k]]

Less(s, t) ==
  \E k \in 1 .. Len(t) :
    /\ \A m \in 1 .. k - 1 : m <= Len(s) /\ s[m] = t[m]
    /\ k > Len(s) \/ s[k] < t[k]

(* suffix >= segment AND suffix < segment || U+10FFFF, COLLATE NOCASE      *)
InRange(suffix, segment) ==
  /\ ~Less(Fold(suffix), Fold(segment))
  /\ Less(Fold(suffix), Append(Fold(segment), LAST))

(* segment is in name at k; the characters of wild fit any.                *)
FitsAt(name, segment, k, wild) ==
  /\ k + Len(segment) <= Len(name)
  /\ \A m \in DOMAIN segment :
       segment[m] \in wild \/ Fold(segment)[m] = Fold(name)[k + m]

(* LOWER(CAST(name AS TEXT)) LIKE LOWER('%segment%'); a % in the segment   *)
(* is left out.                                                            *)
IsLike(name, segment) == \E k \in 0 .. Len(name) : FitsAt(name, segment, k, {UNDERSCORE})

(* Reference: the segment is a substring of the name.                      *)
IsSubstring(segment, name) == \E k \in 0 .. Len(name) : FitsAt(name, segment, k, {})

(* No character of the segment has a meaning of its own in LIKE.           *)
IsPlain(segment) == \A k \in DOMAIN segment : segment[k] # UNDERSCORE
=============================================================================
