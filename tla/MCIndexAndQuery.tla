-------------------------- MODULE MCIndexAndQuery ---------------------------
(* R is indexed; D and E are directories, F and G files.  Names are short  *)
(* strings: two directories that differ in case, a file whose name has an  *)
(* underscore where another has a letter, one that is not UTF-8.           *)
EXTENDS IndexAndQuery, GenSuffixes

CONSTANTS R, D, E, F, G

a == 97
b == 98
B == 66
U == UNDERSCORE

Ab == <<a, B>>
Ba == <<b, a>>
AUb == <<a, U, b>>
Bad == <<b, INVALID, a>>

E_ == <<>>
A_ == <<a>>
AB_ == <<a, b>>
BA_ == <<b, a>>
UB_ == <<U, b>>

MCRootName == <<>>
MCName == {<<>>, Ab, Ba, AUb, Bad}
MCSegment == {E_, A_, AB_, BA_, UB_}

-----------------------------------------------------------------------------
(* How the names are split and compared, written out (TLC would work it out*)
(* again for every state) ...                                              *)
MCSuffix == {Ab, <<B>>, Ba, <<a>>, AUb, UB_, <<b>>, <<b, REPLACEMENT, a>>, <<REPLACEMENT, a>>}

MCSuffixesOf ==
  [n \in MCName |->
     CASE n = <<>> -> {}
       [] n = Ab -> {Ab, <<B>>}
       [] n = Ba -> {Ba, <<a>>}
       [] n = AUb -> {AUb, UB_, <<b>>}
       [] n = Bad -> {<<b, REPLACEMENT, a>>, <<REPLACEMENT, a>>, <<a>>}]

MCLength == [s \in MCSegment |-> Len(s)]

MCSuffixRange ==
  [s \in MCSegment |->
     CASE s = E_ -> MCSuffix
       [] s = A_ -> {Ab, <<a>>, AUb}
       [] s = AB_ -> {Ab}
       [] s = BA_ -> {Ba}
       [] s = UB_ -> {UB_}]

MCContaining ==
  [s \in MCSegment |->
     CASE s = E_ -> MCName
       [] s = A_ -> {Ab, Ba, AUb, Bad}
       [] s = AB_ -> {Ab}
       [] s = BA_ -> {Ba}
       [] s = UB_ -> {AUb}]

MCLike == [MCContaining EXCEPT ![UB_] = {Ab, AUb}]

MCPlain == MCSegment \ {UB_}

(* ... as the code does it.                                                *)
ASSUME WrittenOut ==
  /\ \A n \in MCName : MCSuffixesOf[n] = Suffixes(n)
  /\ \A s \in MCSegment :
       /\ MCSuffixRange[s] = {x \in MCSuffix : InRange(x, s)}
       /\ MCLike[s] = {n \in MCName : IsLike(n, s)}
       /\ MCContaining[s] = {n \in MCName : IsSubstring(s, n)}
       /\ s \in MCPlain <=> IsPlain(s)

-----------------------------------------------------------------------------
(* The most specific segment first, last and in the middle, slashes at     *)
(* either end and twice in a row, and a character that LIKE interprets.    *)
MCQueries == {<<AB_, BA_>>, <<UB_, BA_>>, <<E_, AB_>>, <<A_, BA_, E_>>, <<E_, E_, E_>>}

Ent(p, n, h) == [p |-> p, n |-> n, h |-> h]
Link_(p, n, h) == [op |-> "link", p |-> p, n |-> n, h |-> h]
Remove_(p, n) == [op |-> "remove", p |-> p, n |-> n]
Rename_(p, n, q, m) == [op |-> "rename", p |-> p, n |-> n, q |-> q, m |-> m]
Exchange_(p, n, q, m) == [op |-> "exchange", p |-> p, n |-> n, q |-> q, m |-> m]

MCTree == {Ent(R, Ab, D), Ent(D, Ba, E), Ent(D, AUb, F), Ent(E, Bad, G)}
MCSyscalls ==
  {Rename_(R, Ab, R, Ba), Rename_(D, Ba, R, Ba), Exchange_(R, Ab, R, Ba), Remove_(E, Bad),
   Link_(E, Ab, F)}
=============================================================================
