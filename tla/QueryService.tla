---------------------------- MODULE QueryService ----------------------------
(***************************************************************************)
(* What `sqsearch query` promises its clients: lines are answered one at a *)
(* time, in the order they were sent, each between its BEGIN and its END,  *)
(* with the rows of its query in order and each once.  An answer is cut    *)
(* short only when a later line waits, so the last line is answered in     *)
(* full.  The service stops when nobody reads its output any more, and at  *)
(* a row it cannot print.                                                  *)
(***************************************************************************)
EXTENDS Naturals, Sequences

CONSTANTS
  Text,         (* the texts a client may search for                       *)
  RowsOf,       (* RowsOf[t]: the ids of the rows of a search for t        *)
  Broken,       (* ids whose path cannot be computed (an SQLite error)     *)
  Unprintable,  (* ids whose path is not UTF-8, which JSON cannot hold     *)
  BadCount,     (* counts whose decimal form is not a usize                *)
  NoLine

(* `COUNT <count> <text>`; 0 stands for a line without COUNT as well.      *)
Line == [count : Nat, text : Text]

VARIABLES
  asked,  (* lines sent and not begun                                      *)
  cur,    (* the line that is being answered                               *)
  given,  (* how many of its rows have been printed                        *)
  out,    (* output lines nobody has read yet                              *)
  gone,   (* the output is closed                                          *)
  alive

vars == <<asked, cur, given, out, gone, alive>>

(* The rows that can be printed, as many as were asked for.                *)
Answer(l) ==
  LET all == IF l.count \in BadCount THEN <<>> ELSE RowsOf[l.text]
      ok(n) == /\ l.count > 0 => n <= l.count
               /\ \A i \in 1 .. n : all[i] \notin Broken \cup Unprintable
      full == {n \in 0 .. Len(all) : ok(n) /\ (n = Len(all) \/ ~ok(n + 1))}
  IN  SubSeq(all, 1, CHOOSE n \in full : \A m \in full : n <= m)

StopsAt(l, ids) ==
  /\ l.count \notin BadCount /\ (l.count > 0 => Len(Answer(l)) < l.count)
  /\ Len(Answer(l)) < Len(RowsOf[l.text])
  /\ RowsOf[l.text][Len(Answer(l)) + 1] \in ids

Init == asked = <<>> /\ cur = NoLine /\ given = 0 /\ out = <<>> /\ gone = FALSE /\ alive = TRUE

Ask ==
  /\ asked' \in Seq(Line) /\ asked' # <<>>
  /\ asked = SubSeq(asked', 1, Len(asked') - 1)
  /\ UNCHANGED <<cur, given, out, gone, alive>>

Say(line) == ~gone /\ out' = Append(out, line) /\ UNCHANGED <<gone, alive>>

Begin ==
  /\ cur = NoLine /\ asked # <<>>
  /\ cur' = Head(asked) /\ asked' = Tail(asked) /\ given' = 0
  /\ Say([type |-> "Begin", line |-> cur'])

Give ==
  /\ cur # NoLine /\ given < Len(Answer(cur))
  /\ given' = given + 1
  /\ Say([type |-> "Item", id |-> Answer(cur)[given + 1]])
  /\ UNCHANGED <<asked, cur>>

Fail ==
  /\ cur # NoLine /\ given = Len(Answer(cur)) /\ StopsAt(cur, Broken)
  /\ Say([type |-> "Error"])
  /\ UNCHANGED <<asked, cur, given>>

End ==
  /\ cur # NoLine
  /\ given = Len(Answer(cur)) \/ asked # <<>>
  /\ cur' = NoLine /\ given' = 0
  /\ Say([type |-> "End", line |-> cur])
  /\ UNCHANGED asked

Stop ==
  /\ alive /\ alive' = FALSE
  /\ gone \/ (cur # NoLine /\ StopsAt(cur, Unprintable))
  /\ UNCHANGED <<given, out, gone>>

(* The client reads, leaves, or talks to a service that has stopped.       *)
Consume == out # <<>> /\ out' = Tail(out) /\ UNCHANGED <<asked, cur, given, gone, alive>>
Leave == gone' = TRUE /\ UNCHANGED <<asked, cur, given, out, alive>>
Ignored == ~alive /\ UNCHANGED <<cur, given, out, gone, alive>>

Next == Ask \/ Begin \/ Give \/ Fail \/ End \/ Stop \/ Consume \/ Leave \/ Ignored

Spec == Init /\ [][Next]_vars
=============================================================================
