----------------------------- MODULE MCSearchUi -----------------------------
(* Two texts, A with three rows and B, one of whose rows fails; U has a    *)
(* path that is not UTF-8.                                                 *)
EXTENDS SearchUi

CONSTANTS A, B, U

MCRowsOf == [t \in {A, B, U, Blank} |->
  IF t = A THEN <<1, 2, 3>> ELSE IF t = B THEN <<2, 4, 1>> ELSE IF t = U THEN <<5, 1>> ELSE <<1, 2, 3, 4>>]

MCEmptyLine == [count |-> 0, text |-> Blank]
=============================================================================
