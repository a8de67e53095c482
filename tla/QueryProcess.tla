---------------------------- MODULE QueryProcess ----------------------------
(***************************************************************************)
(* `sqsearch query` (src/queryer.rs).  The main thread reads lines; for    *)
(* each it interrupts the statement that runs and puts the line into a     *)
(* channel.  The query thread takes the lines one after another, runs the  *)
(* statement and prints BEGIN, a line for each row, and END.               *)
(*                                                                         *)
(* sqlite3_interrupt reaches a statement that runs; it is forgotten when   *)
(* none does.  A println to a closed pipe, and the serialization of a path *)
(* that is not UTF-8, panic, which ends the query thread alone; the main   *)
(* thread notices when it sends the next line.                             *)
(***************************************************************************)
EXTENDS Naturals, Sequences

CONSTANTS
  Text, RowsOf, Broken, Unprintable, BadCount, NoLine,  (* see QueryService *)
  EmptyLine,  (* what read_line leaves in the buffer at the end of input   *)
  MaxQueue    (* bound: empty lines that wait                              *)

ASSUME QueryAssumption ==
  /\ RowsOf \in [Text -> Seq(Nat)]
  /\ EmptyLine \in [count : Nat, text : Text] /\ NoLine \notin [count : Nat, text : Text]

VARIABLES
  input,   (* lines in the stdin pipe                                      *)
  eof,     (* its writer has closed it                                     *)
  held,    (* the main thread's buffer, until it is sent                   *)
  told,    (* whether interrupt() has been called for it                   *)
  queue,   (* tx -> rx                                                     *)
  thread,  (* where the query thread is: waits, begun, runs, ends, dead    *)
  cur,     (* msg                                                          *)
  rows,    (* what the statement has yet to return                         *)
  printed,      (* cnt                                                     *)
  interrupted,  (* isInterrupted of the connection                         *)
  out,     (* lines in the stdout pipe                                     *)
  gone,    (* its reader has closed it                                     *)
  exited   (* exec returned                                                *)

mainVars == <<input, held, told, exited>>
threadVars == <<thread, cur, rows, printed>>
pipeEnds == <<eof, gone>>
processVars == <<mainVars, threadVars, pipeEnds, queue, interrupted, out>>

ProcessInit ==
  /\ input = <<>> /\ eof = FALSE /\ held = NoLine /\ told = FALSE /\ queue = <<>>
  /\ thread = "waits" /\ cur = NoLine /\ rows = <<>> /\ printed = 0
  /\ interrupted = FALSE /\ out = <<>> /\ gone = FALSE /\ exited = FALSE

-----------------------------------------------------------------------------
(* The main thread *)

(* read_line: a line, or, at the end of input, nothing, for ever.  (A line *)
(* that is not UTF-8 would end the process; the extension sends none.)     *)
ReadLine ==
  /\ ~exited /\ held = NoLine
  /\ \/ input # <<>> /\ held' = Head(input) /\ input' = Tail(input)
     \/ /\ input = <<>> /\ eof
        /\ Len(queue) < MaxQueue \/ thread = "dead"
        /\ held' = EmptyLine /\ UNCHANGED input
  /\ UNCHANGED <<told, exited, threadVars, pipeEnds, queue, interrupted, out>>

InterruptIt == interrupted' = (interrupted \/ thread = "runs")

Interrupt ==
  /\ held # NoLine /\ ~told
  /\ told' = TRUE /\ InterruptIt
  /\ UNCHANGED <<input, held, exited, threadVars, pipeEnds, queue, out>>

(* send: fails when the query thread is gone, and with it rx.              *)
Send ==
  /\ held # NoLine /\ told
  /\ IF thread = "dead" THEN exited' = TRUE /\ UNCHANGED queue
     ELSE queue' = Append(queue, held) /\ UNCHANGED exited
  /\ held' = NoLine /\ told' = FALSE
  /\ UNCHANGED <<input, threadVars, pipeEnds, interrupted, out>>

\* Mutant of MainThread: the line is sent, then the statement interrupted.
SendThenInterrupt ==
  \/ ReadLine
  \/ /\ held # NoLine /\ ~told /\ told' = TRUE
     /\ IF thread = "dead" THEN exited' = TRUE /\ UNCHANGED queue
        ELSE queue' = Append(queue, held) /\ UNCHANGED exited
     /\ UNCHANGED <<input, held, threadVars, pipeEnds, interrupted, out>>
  \/ /\ held # NoLine /\ told
     /\ held' = NoLine /\ told' = FALSE /\ InterruptIt
     /\ UNCHANGED <<input, exited, threadVars, pipeEnds, queue, out>>

\* Mutant of MainThread: a failed send is ignored.
SendRegardless ==
  \/ ReadLine \/ Interrupt
  \/ Send /\ UNCHANGED exited
  \/ /\ held # NoLine /\ told /\ thread = "dead"
     /\ held' = NoLine /\ told' = FALSE
     /\ UNCHANGED <<input, exited, threadVars, pipeEnds, queue, interrupted, out>>

MainThread == ReadLine \/ Interrupt \/ Send

-----------------------------------------------------------------------------
(* The query thread *)

(* println, after which the thread goes on at `next` if it still can.      *)
PrintLine(line, next) ==
  IF gone THEN thread' = "dead" /\ UNCHANGED out
  ELSE thread' = next /\ out' = Append(out, line)

Take ==
  /\ thread = "waits" /\ queue # <<>>
  /\ cur' = Head(queue) /\ queue' = Tail(queue)
  /\ PrintLine([type |-> "Begin", line |-> cur'], "begun")
  /\ UNCHANGED <<mainVars, rows, printed, pipeEnds, interrupted>>

(* do_query: a COUNT that does not parse is answered with no rows.         *)
Start ==
  /\ thread = "begun"
  /\ IF cur.count \in BadCount THEN thread' = "ends" /\ UNCHANGED rows
     ELSE thread' = "runs" /\ rows' = RowsOf[cur.text]
  /\ UNCHANGED <<mainVars, cur, printed, pipeEnds, queue, interrupted, out>>

\* Mutant of More: the count is compared before the row is counted.
MoreByOne == printed # cur.count

(* cnt == count, after cnt += 1; a count of 0 is never reached.            *)
More == printed + 1 # cur.count

(* print_results: one row.                                                 *)
Row ==
  /\ thread = "runs" /\ ~interrupted /\ rows # <<>>
  /\ rows' = Tail(rows)
  /\ LET id == Head(rows)
     IN  IF id \in Unprintable
         THEN thread' = "dead" /\ UNCHANGED <<out, printed>>
         ELSE IF id \in Broken
         THEN PrintLine([type |-> "Error"], "ends") /\ UNCHANGED printed
         ELSE /\ PrintLine([type |-> "Item", id |-> id],
                       IF More THEN "runs" ELSE "ends")
              /\ printed' = IF gone THEN printed ELSE printed + 1
  /\ UNCHANGED <<mainVars, cur, pipeEnds, queue, interrupted>>

(* rows.next() has no row, or fails with SQLITE_INTERRUPT.                 *)
Leave ==
  /\ thread = "runs"
  /\ interrupted \/ rows = <<>>
  /\ thread' = "ends" /\ rows' = <<>>
  /\ UNCHANGED <<mainVars, cur, printed, pipeEnds, queue, interrupted, out>>

\* Mutant of End: cnt survives the query.
EndKeepsCount ==
  /\ thread = "ends"
  /\ PrintLine([type |-> "End", line |-> cur], "waits")
  /\ cur' = IF gone THEN cur ELSE NoLine
  /\ rows' = <<>> /\ interrupted' = FALSE
  /\ UNCHANGED <<mainVars, printed, pipeEnds, queue>>

End ==
  /\ thread = "ends"
  /\ PrintLine([type |-> "End", line |-> cur], "waits")
  /\ IF gone THEN UNCHANGED <<cur, printed>> ELSE cur' = NoLine /\ printed' = 0
  /\ rows' = <<>> /\ interrupted' = FALSE
  /\ UNCHANGED <<mainVars, pipeEnds, queue>>

QueryThread == Take \/ Start \/ Row \/ Leave \/ End

-----------------------------------------------------------------------------
(* The other end of the pipes *)

Write(line) == input' = Append(input, line)

Consumed ==
  /\ out # <<>> /\ out' = Tail(out)
  /\ UNCHANGED <<mainVars, threadVars, pipeEnds, queue, interrupted>>

CloseBoth ==
  /\ ~gone /\ gone' = TRUE /\ eof' = TRUE
  /\ UNCHANGED <<mainVars, threadVars, queue, interrupted, out>>
=============================================================================
