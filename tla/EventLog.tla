------------------------------ MODULE EventLog ------------------------------
(***************************************************************************)
(* What the database thread promises its readers: events reach the         *)
(* committed database in the order they were sent, a batch of them at a    *)
(* time and never part of a batch.  A batch that fails, or that a crash    *)
(* catches, is skipped as a whole.                                         *)
(***************************************************************************)
EXTENDS Naturals, Sequences

CONSTANTS
  Events, InitDb,
  HandleEvent(_, _)  (* what an event does to a database: [err, db, sent]  *)

VARIABLES
  pending,  (* events sent and neither in the database nor skipped         *)
  db        (* the committed database                                      *)

vars == <<pending, db>>

(* The next event, unless one has failed.                                  *)
Then(r, e) == IF r.err = "Ok" THEN HandleEvent(r.db, e) ELSE r

(* Applied(d, s)[n]: the first n events of s, up to the first that fails.  *)
Applied(d, s) ==
  LET after[n \in 0 .. Len(s)] ==
        IF n = 0 THEN [err |-> "Ok", db |-> d, sent |-> <<>>]
        ELSE Then(after[n - 1], s[n])
  IN  after

Init == pending = <<>> /\ db = InitDb

Send == /\ \E e \in Events : pending' = Append(pending, e)
        /\ UNCHANGED db

Leaves(n) == pending' = SubSeq(pending, n + 1, Len(pending))

Write(n) ==
  LET r == Applied(db, pending)[n]
  IN  /\ r.err = "Ok"
      /\ db' = r.db
      /\ Leaves(n)

Skip(n) == Leaves(n) /\ UNCHANGED db

Next == Send \/ \E n \in 1 .. Len(pending) : Write(n) \/ Skip(n)

Spec == Init /\ [][Next]_vars
=============================================================================
