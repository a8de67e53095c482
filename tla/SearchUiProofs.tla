--------------------------- MODULE SearchUiProofs ---------------------------
(***************************************************************************)
(* The process behind the extension implements QueryService, and the list  *)
(* of results is the answer to what is in the search bar: for every table  *)
(* of rows, every sequence of inputs and every interleaving.               *)
(***************************************************************************)
EXTENDS SearchUi, SequenceTheorems, WellFoundedInduction, TLAPS

Line == Service!Line

(* The rows of a line, and how many of them can be printed.                *)
Rows(l) == IF l.count \in BadCount THEN <<>> ELSE RowsOf[l.text]
Fits(l, n) ==
  /\ l.count > 0 => n <= l.count
  /\ \A i \in 1 .. n : Rows(l)[i] \notin Broken \cup Unprintable

-----------------------------------------------------------------------------
(* A set of numbers has a least one.                                       *)
LEMMA SmallestNat ==
  ASSUME NEW S \in SUBSET Nat, S # {}
  PROVE  \E n \in S : \A m \in S : n <= m
<1>1. PICK n \in S : \A m \in S : ~(<<m, n>> \in OpToRel(<, Nat))
  <2>1. IsWellFoundedOn(OpToRel(<, Nat), Nat)
    BY NatLessThanWellFounded
  <2> HIDE DEF OpToRel
  <2> QED BY <2>1, WFMin, Zenon
<1>2. \A m \in S : ~(m < n)
  BY <1>1 DEF OpToRel
<1> QED BY <1>2

(* The answer to a line is as long as its rows can be printed.             *)
LEMMA AnswerIs ==
  ASSUME NEW q \in Line
  PROVE  /\ Rows(q) \in Seq(Nat) /\ Service!Answer(q) \in Seq(Nat)
         /\ Len(Service!Answer(q)) \in 0 .. Len(Rows(q))
         /\ \A i \in 1 .. Len(Service!Answer(q)) : Service!Answer(q)[i] = Rows(q)[i]
         /\ \A n \in 0 .. Len(Rows(q)) : Fits(q, n) <=> n <= Len(Service!Answer(q))
<1> DEFINE N == Len(Rows(q))
           full == {n \in 0 .. N : Fits(q, n) /\ (n = N \/ ~Fits(q, n + 1))}
           least == CHOOSE n \in full : \A m \in full : n <= m
           stuck == {n \in 0 .. N : ~Fits(q, n)}
<1>1. Rows(q) \in Seq(Nat) /\ N \in Nat /\ q.count \in Nat
  <2>1. RowsOf[q.text] \in Seq(Nat) /\ q.count \in Nat
    BY QueryAssumption DEF Line, Service!Line
  <2> QED BY <2>1 DEF Rows
<1>2. Service!Answer(q) = SubSeq(Rows(q), 1, least)
  BY DEF Service!Answer, Rows, Fits
<1>3. Fits(q, 0)
  BY <1>1 DEF Fits
<1>4. \A n \in 0 .. N, m \in 0 .. N + 1 : m <= n /\ Fits(q, n) => Fits(q, m)
  <2> SUFFICES ASSUME NEW n \in 0 .. N, NEW m \in 0 .. N + 1, m <= n, Fits(q, n) PROVE Fits(q, m)
    OBVIOUS
  <2>1. 1 .. m \subseteq 1 .. n
    BY <1>1
  <2>2. q.count > 0 => m <= q.count
    <3>1. q.count > 0 => n <= q.count
      BY DEF Fits
    <3> QED BY <1>1, <3>1
  <2> QED BY <2>1, <2>2 DEF Fits
<1>5. PICK k \in full : TRUE
  <2>1. CASE stuck = {}
    <3>1. Fits(q, N)
      BY <1>1, <2>1
    <3> QED BY <1>1, <3>1
  <2>2. CASE stuck # {}
    <3>1. PICK s \in stuck : \A m \in stuck : s <= m
      <4>1. stuck \in SUBSET Nat
        BY <1>1
      <4> HIDE DEF stuck
      <4> QED BY <2>2, <4>1, SmallestNat
    <3>2. s # 0 /\ s \in 1 .. N /\ ~Fits(q, s)
      BY <1>1, <1>3, <3>1
    <3>3. s - 1 \in 0 .. N /\ Fits(q, s - 1) /\ (s - 1) + 1 = s
      <4>1. s - 1 \in 0 .. N /\ (s - 1) + 1 = s /\ ~(s <= s - 1)
        BY <1>1, <3>2
      <4> QED BY <3>1, <4>1
    <3>4. s - 1 \in full
      BY <3>2, <3>3
    <3> QED BY <3>4
  <2> QED BY <2>1, <2>2
<1>6. \A n \in full, m \in full : n = m
  <2> SUFFICES ASSUME NEW n \in full, NEW m \in full, n < m PROVE FALSE
    BY <1>1
  <2>1. n # N /\ n + 1 \in 0 .. N + 1 /\ n + 1 <= m /\ m \in 0 .. N /\ Fits(q, m)
    BY <1>1
  <2>2. ~Fits(q, n + 1)
    BY <2>1
  <2> QED BY <1>4, <2>1, <2>2
<1>7. least \in full /\ least \in 0 .. N
  <2>1. \A m \in full : k <= m
    BY <1>1, <1>5, <1>6
  <2>2. least \in full
    BY <1>5, <2>1
  <2> QED BY <2>2
<1>8. Fits(q, least) /\ (least = N \/ ~Fits(q, least + 1))
  BY <1>7
<1> HIDE DEF least, full
<1>9. \A i \in 1 .. least : Rows(q)[i] \in Nat
  BY <1>1, <1>7
<1>10. /\ Service!Answer(q) \in Seq(Nat) /\ Len(Service!Answer(q)) = least
       /\ \A i \in 1 .. least : Service!Answer(q)[i] = Rows(q)[i]
  <2>1. least \in Int /\ 1 \in Int /\ (IF 1 <= least THEN least - 1 + 1 ELSE 0) = least
        /\ \A i \in 1 .. least : i \in 1 .. least - 1 + 1 /\ 1 + i - 1 = i
    BY <1>1, <1>7
  <2>2. /\ SubSeq(Rows(q), 1, least) \in Seq(Nat)
        /\ Len(SubSeq(Rows(q), 1, least)) = IF 1 <= least THEN least - 1 + 1 ELSE 0
        /\ \A i \in 1 .. least - 1 + 1 : SubSeq(Rows(q), 1, least)[i] = Rows(q)[1 + i - 1]
    BY <1>9, <2>1, SubSeqProperties
  <2> QED BY <1>2, <2>1, <2>2
<1>11. \A n \in 0 .. N : Fits(q, n) <=> n <= least
  <2> SUFFICES ASSUME NEW n \in 0 .. N PROVE Fits(q, n) <=> n <= least
    OBVIOUS
  <2>1. CASE n <= least
    BY <1>1, <1>4, <1>7, <1>8, <2>1
  <2>2. CASE ~(n <= least)
    <3>1. least # N /\ least + 1 <= n /\ least + 1 \in 0 .. N + 1
      BY <1>1, <1>7, <2>2
    <3> QED BY <1>4, <1>8, <2>2, <3>1
  <2> QED BY <2>1, <2>2
<1> QED BY <1>1, <1>7, <1>10, <1>11
-----------------------------------------------------------------------------
(* The process *)

(* A line waits to be sent or to be taken.                                 *)
Later == queue # <<>> \/ held # NoLine

OutLine ==
  [type : {"Begin", "End"}, line : Line] \cup [type : {"Item"}, id : Nat] \cup [type : {"Error"}]

Typed ==
  /\ input \in Seq(Line) /\ queue \in Seq(Line) /\ out \in Seq(OutLine)
  /\ held \in Line \cup {NoLine} /\ cur \in Line \cup {NoLine}
  /\ printed \in Nat
  /\ thread \in {"waits", "begun", "runs", "ends", "dead"}
  /\ eof => gone

(* What a statement that runs has yet to return of the rows of its line.   *)
Returning ==
  /\ cur.count \notin BadCount
  /\ cur.count > 0 => printed < cur.count
  /\ rows \in Seq(Nat) /\ Len(rows) + printed = Len(RowsOf[cur.text])
  /\ \A i \in 1 .. Len(rows) : rows[i] = RowsOf[cur.text][printed + i]

(* Where the query thread is in the answer; only a later line cuts it.     *)
Answering ==
  /\ told => held # NoLine
  /\ cur = NoLine => printed = 0
  /\ cur # NoLine => printed <= Len(Service!Answer(cur))
  /\ thread = "waits" => cur = NoLine /\ ~interrupted
  /\ thread = "begun" => cur # NoLine /\ printed = 0 /\ ~interrupted
  /\ thread = "runs" => cur # NoLine /\ Returning /\ (interrupted => Later)
  /\ thread = "ends" =>
       /\ cur # NoLine /\ (interrupted => Later)
       /\ printed = Len(Service!Answer(cur)) \/ Later

ProcessInv == Typed /\ Answering

(* The process starts idle, with nothing asked.                            *)
LEMMA ProcessStart == Init => ProcessInv
<1> SUFFICES ASSUME Init PROVE ProcessInv
  OBVIOUS
<1>1. <<>> \in Seq(Line) /\ <<>> \in Seq(OutLine)
  BY EmptySeq
<1> QED BY <1>1 DEF Init, ProcessInit, ProcessInv, Typed, Answering

(* What the query thread does to the line it answers is all it does.       *)
LEMMA AnswerStays == ASSUME NEW q, q' = q PROVE Service!Answer(q)' = Service!Answer(q)
BY DEF Service!Answer

(* Every sequence of the process is made of lines of its kind.             *)
LEMMA Parts ==
  ASSUME ProcessInv
  PROVE  /\ Head(queue) \in Line \/ queue = <<>>
         /\ Head(input) \in Line \/ input = <<>>
         /\ queue # <<>> => Tail(queue) \in Seq(Line)
         /\ input # <<>> => Tail(input) \in Seq(Line)
         /\ out # <<>> => Tail(out) \in Seq(OutLine)
         /\ \A x \in Line : Append(queue, x) \in Seq(Line) /\ Append(queue, x) # <<>>
                            /\ Append(input, x) \in Seq(Line)
         /\ \A x \in OutLine : Append(out, x) \in Seq(OutLine)
         /\ EmptyLine \in Line /\ NoLine \notin Line
<1>1. queue \in Seq(Line) /\ input \in Seq(Line) /\ out \in Seq(OutLine)
  BY DEF ProcessInv, Typed
<1>2. EmptyLine \in Line /\ NoLine \notin Line
  BY QueryAssumption DEF Line, Service!Line
<1> HIDE DEF Line, OutLine
<1>3. /\ queue # <<>> => Head(queue) \in Line /\ Tail(queue) \in Seq(Line)
      /\ input # <<>> => Head(input) \in Line /\ Tail(input) \in Seq(Line)
      /\ out # <<>> => Tail(out) \in Seq(OutLine)
  BY <1>1, HeadTailProperties, Zenon
<1>4. ASSUME NEW S, NEW s \in Seq(S), NEW x \in S
      PROVE  Append(s, x) \in Seq(S) /\ Append(s, x) # <<>>
  BY AppendProperties, Zenon
<1>5. \A x \in Line : Append(queue, x) \in Seq(Line) /\ Append(queue, x) # <<>>
  BY <1>1, <1>4, Zenon
<1>6. \A x \in Line : Append(input, x) \in Seq(Line)
  BY <1>1, <1>4, Zenon
<1>7. \A x \in OutLine : Append(out, x) \in Seq(OutLine)
  BY <1>1, <1>4, Zenon
<1> QED BY <1>2, <1>3, <1>5, <1>6, <1>7, Zenon

(* The line that is answered is left alone by all but the query thread.    *)
LEMMA AnsweringStays ==
  ASSUME Answering, UNCHANGED threadVars, Later => Later' \/ thread = "dead",
         told' => held' # NoLine, interrupted' => interrupted \/ (thread = "runs" /\ Later')
  PROVE  Answering'
<1>1. /\ thread' = thread /\ cur' = cur /\ rows' = rows /\ printed' = printed
      /\ Service!Answer(cur)' = Service!Answer(cur)
  BY DEF threadVars, Service!Answer
<1>2. Returning' = Returning
  BY <1>1 DEF Returning
<1> QED BY <1>1, <1>2 DEF Answering

(* Whatever the main thread does, the line that is answered stays, and a   *)
(* line that it holds is sent.                                             *)
LEMMA MainThreadInv ==
  ASSUME ProcessInv, MainThread
  PROVE  ProcessInv'
<1> USE DEF ProcessInv
<1>1. CASE ReadLine
  <2>1. Typed'
    BY <1>1, Parts DEF ReadLine, Typed, threadVars, pipeEnds
  <2>2. held' # NoLine /\ UNCHANGED <<threadVars, queue, interrupted>>
    BY <1>1, Parts DEF ReadLine
  <2>3. Answering'
    BY <2>2, AnsweringStays DEF Later
  <2> QED BY <2>1, <2>3
<1>2. CASE Interrupt
  <2>1. Typed'
    BY <1>2 DEF Interrupt, Typed, threadVars, pipeEnds
  <2>2. Answering'
    BY <1>2, AnsweringStays DEF Interrupt, InterruptIt, Later
  <2> QED BY <2>1, <2>2
<1>3. CASE Send
  <2>1. Typed'
    BY <1>3, Parts DEF Send, Typed, threadVars, pipeEnds
  <2>2. Later' \/ thread = "dead"
    BY <1>3, Parts DEF Send, Later, Typed
  <2>3. Answering'
    BY <1>3, <2>2, AnsweringStays DEF Send
  <2> QED BY <2>1, <2>3
<1> QED BY <1>1, <1>2, <1>3 DEF MainThread

(* A line is taken only between two answers, with nothing printed and no   *)
(* interrupt left over.                                                    *)
LEMMA TakeInv ==
  ASSUME ProcessInv, Take
  PROVE  ProcessInv'
<1>1. cur' \in Line /\ queue' \in Seq(Line) /\ cur' # NoLine /\ printed = 0
      /\ ~interrupted /\ printed' = 0 /\ printed' \in Nat
  BY Parts DEF ProcessInv, Answering, Take
<1>2. out' \in Seq(OutLine) /\ thread' \in {"begun", "dead"}
  <2>1. [type |-> "Begin", line |-> cur'] \in OutLine
    BY <1>1 DEF OutLine
  <2> QED BY <2>1, Parts DEF Take, PrintLine, ProcessInv, Typed
<1>3. 0 <= Len(Service!Answer(cur'))
  BY <1>1, AnswerIs
<1>4. Typed'
  BY <1>1, <1>2 DEF Typed, Take, ProcessInv, mainVars, pipeEnds
<1>5. Service!Answer(cur)' = Service!Answer(cur')
  BY DEF Service!Answer
<1>6. Answering'
  BY <1>1, <1>2, <1>3, <1>5 DEF Answering, ProcessInv, Take, mainVars
<1> QED BY <1>4, <1>6 DEF ProcessInv

(* The statement starts at the first row; a COUNT that is not one has no   *)
(* rows.                                                                   *)
LEMMA StartInv ==
  ASSUME ProcessInv, Start
  PROVE  ProcessInv'
<1>1. cur \in Line /\ cur # NoLine /\ printed = 0 /\ ~interrupted /\ cur' = cur /\ printed' = printed
      /\ Service!Answer(cur)' = Service!Answer(cur) /\ thread' \in {"runs", "ends"}
      /\ Len(Service!Answer(cur)) \in 0 .. Len(Rows(cur))
  <2>1. cur \in Line /\ cur # NoLine /\ printed = 0 /\ ~interrupted
    BY DEF ProcessInv, Typed, Answering, Start
  <2>2. cur' = cur /\ printed' = printed /\ thread' \in {"runs", "ends"}
    BY DEF Start
  <2>3. Service!Answer(cur)' = Service!Answer(cur)
    BY <2>2 DEF Service!Answer
  <2> QED BY <2>1, <2>2, <2>3, AnswerIs
<1>2. Typed'
  BY <1>1 DEF Typed, Start, ProcessInv, mainVars, pipeEnds
<1>3. thread' = "runs" => Returning'
  <2> SUFFICES ASSUME thread' = "runs" PROVE Returning'
    OBVIOUS
  <2>1. cur.count \notin BadCount /\ rows' = RowsOf[cur.text]
    BY DEF Start
  <2>2. RowsOf[cur.text] \in Seq(Nat) /\ cur.count \in Nat
    BY <1>1, QueryAssumption DEF Line, Service!Line
  <2>3. \A i \in 1 .. Len(rows') : rows'[i] = RowsOf[cur.text][0 + i]
    BY <2>1
  <2>4. Len(rows') + 0 = Len(RowsOf[cur.text])
    BY <2>1, <2>2
  <2> QED BY <1>1, <2>1, <2>2, <2>3, <2>4 DEF Returning
<1>4. thread' = "ends" => Len(Service!Answer(cur)) = 0
  <2> SUFFICES ASSUME thread' = "ends" PROVE Len(Service!Answer(cur)) = 0
    OBVIOUS
  <2>1. Rows(cur) = <<>>
    BY DEF Start, Rows
  <2> QED BY <1>1, <2>1
<1>5. Answering'
  <2>1. told' => held' # NoLine
    BY DEF Start, mainVars, ProcessInv, Answering
  <2>2. ~interrupted'
    BY <1>1 DEF Start
  <2> QED BY <1>1, <1>3, <1>4, <2>1, <2>2 DEF Answering
<1> QED BY <1>2, <1>5 DEF ProcessInv

(* A statement that runs: what it has printed fits in the answer, and its  *)
(* next row is the next of the line.                                       *)
LEMMA Running ==
  ASSUME ProcessInv, thread = "runs"
  PROVE  /\ cur \in Line /\ cur # NoLine /\ Rows(cur) = RowsOf[cur.text] /\ cur.count \in Nat
         /\ printed \in 0 .. Len(Rows(cur)) /\ printed <= Len(Service!Answer(cur))
         /\ Len(Service!Answer(cur)) \in 0 .. Len(Rows(cur))
         /\ rows = <<>> => printed = Len(Service!Answer(cur))
         /\ rows # <<>> =>
              /\ printed + 1 \in 1 .. Len(Rows(cur)) /\ Head(rows) = Rows(cur)[printed + 1]
              /\ Head(rows) \in Nat
              /\ (printed + 1 <= Len(Service!Answer(cur))
                  <=> Head(rows) \notin Broken \cup Unprintable)
<1>1. cur \in Line /\ cur # NoLine /\ Returning /\ printed <= Len(Service!Answer(cur)) /\ printed \in Nat
  BY DEF ProcessInv, Typed, Answering
<1>2. cur.count \in Nat /\ Rows(cur) = RowsOf[cur.text]
  BY <1>1 DEF Returning, Rows, Line, Service!Line
<1>3. /\ Len(Service!Answer(cur)) \in 0 .. Len(Rows(cur)) /\ Len(Rows(cur)) \in Nat
      /\ \A n \in 0 .. Len(Rows(cur)) : Fits(cur, n) <=> n <= Len(Service!Answer(cur))
  <2>1. Rows(cur) \in Seq(Nat)
    BY <1>1, AnswerIs
  <2> QED BY <1>1, <2>1, AnswerIs
<1>4. rows \in Seq(Nat) /\ Len(rows) \in Nat /\ Len(rows) + printed = Len(Rows(cur))
  BY <1>1, <1>2 DEF Returning
<1>5. printed \in 0 .. Len(Rows(cur)) /\ Fits(cur, printed)
  BY <1>1, <1>3
<1>6. rows = <<>> => printed = Len(Service!Answer(cur))
  <2>1. rows = <<>> => Len(rows) = 0
    OBVIOUS
  <2> QED BY <1>1, <1>3, <1>4, <2>1
<1>7. ASSUME rows # <<>>
      PROVE  /\ printed + 1 \in 1 .. Len(Rows(cur)) /\ Head(rows) = Rows(cur)[printed + 1]
             /\ Head(rows) \in Nat
             /\ (printed + 1 <= Len(Service!Answer(cur))
                 <=> Head(rows) \notin Broken \cup Unprintable)
  <2>1. Len(rows) # 0 /\ Head(rows) = rows[1] /\ Head(rows) \in Nat
    BY <1>4, <1>7
  <2>2. printed + 1 \in 1 .. Len(Rows(cur)) /\ 1 \in 1 .. Len(rows)
    BY <1>1, <1>4, <2>1
  <2>3. Head(rows) = Rows(cur)[printed + 1]
    BY <1>1, <1>2, <2>1, <2>2 DEF Returning
  <2>4. Fits(cur, printed + 1) <=> Head(rows) \notin Broken \cup Unprintable
    <3>1. cur.count > 0 => printed + 1 <= cur.count
      BY <1>1, <1>2 DEF Returning
    <3>2. 1 .. printed + 1 = (1 .. printed) \cup {printed + 1}
      BY <1>1
    <3> QED BY <1>5, <2>3, <3>1, <3>2 DEF Fits
  <2> QED BY <1>3, <2>1, <2>2, <2>3, <2>4
<1> QED BY <1>1, <1>2, <1>3, <1>5, <1>6, <1>7

(* A row ends the answer when it is the last that was asked for or cannot  *)
(* be computed, and else goes on with the next.                            *)
LEMMA RowInv ==
  ASSUME ProcessInv, Row
  PROVE  ProcessInv'
<1> DEFINE id == Head(rows)
<1>1. /\ thread = "runs" /\ rows # <<>> /\ ~interrupted /\ rows' = Tail(rows) /\ cur' = cur
      /\ interrupted' = interrupted /\ told' = told /\ held' = held /\ queue' = queue
      /\ Service!Answer(cur)' = Service!Answer(cur)
  BY DEF Row, mainVars, Service!Answer
<1>2. /\ cur \in Line /\ cur # NoLine /\ printed \in Nat /\ id \in Nat /\ Returning
      /\ printed <= Len(Service!Answer(cur)) /\ Len(Service!Answer(cur)) \in 0 .. Len(Rows(cur))
      /\ printed + 1 \in 1 .. Len(Rows(cur)) /\ Rows(cur) = RowsOf[cur.text] /\ cur.count \in Nat
      /\ (printed + 1 <= Len(Service!Answer(cur)) <=> id \notin Broken \cup Unprintable)
  <2>1. Returning
    BY <1>1 DEF ProcessInv, Answering
  <2> QED BY <1>1, <2>1, Running
<1>3. /\ printed' = printed \/ (printed' = printed + 1 /\ id \notin Broken \cup Unprintable)
      /\ thread' \in {"runs", "ends", "dead"}
      /\ thread' = "runs" => printed' = printed + 1 /\ printed + 1 # cur.count
      /\ thread' = "ends" => \/ id \in Broken /\ printed' = printed
                             \/ printed' = printed + 1 /\ printed + 1 = cur.count
  BY DEF Row, PrintLine, More
<1>4. printed' \in Nat /\ printed' <= Len(Service!Answer(cur))
  BY <1>2, <1>3
<1>5. Typed'
  <2>1. [type |-> "Error"] \in OutLine /\ [type |-> "Item", id |-> id] \in OutLine
    BY <1>2 DEF OutLine
  <2>2. out' \in Seq(OutLine)
    <3>1. out' \in {out, Append(out, [type |-> "Error"]), Append(out, [type |-> "Item", id |-> id])}
      BY DEF Row, PrintLine
    <3> QED BY <2>1, <3>1, Parts DEF ProcessInv, Typed
  <2> QED BY <1>1, <1>2, <1>3, <1>4, <2>2 DEF Typed, ProcessInv, Row, mainVars, pipeEnds
<1>6. thread' = "runs" => Returning'
  <2> SUFFICES ASSUME thread' = "runs" PROVE Returning'
    OBVIOUS
  <2>1. printed' = printed + 1 /\ printed + 1 # cur.count
    BY <1>3
  <2>2. rows \in Seq(Nat) /\ Len(rows) + printed = Len(RowsOf[cur.text])
        /\ \A i \in 1 .. Len(rows) : rows[i] = RowsOf[cur.text][printed + i]
    BY <1>2 DEF Returning
  <2>3. Tail(rows) \in Seq(Nat) /\ Len(Tail(rows)) = Len(rows) - 1 /\ Len(rows) \in Nat
        /\ \A i \in 1 .. Len(rows) - 1 : Tail(rows)[i] = rows[i + 1]
    BY <1>1, <2>2
  <2>4. \A i \in 1 .. Len(rows) - 1 : Tail(rows)[i] = RowsOf[cur.text][(printed + 1) + i]
    <3> SUFFICES ASSUME NEW i \in 1 .. Len(rows) - 1
                 PROVE  Tail(rows)[i] = RowsOf[cur.text][(printed + 1) + i]
      OBVIOUS
    <3>1. i + 1 \in 1 .. Len(rows) /\ printed + (i + 1) = (printed + 1) + i
      BY <1>2, <2>3
    <3> QED BY <2>2, <2>3, <3>1
  <2>5. Len(Tail(rows)) + (printed + 1) = Len(RowsOf[cur.text])
    <3>1. Len(rows) + printed = Len(RowsOf[cur.text])
      BY <2>2
    <3>2. Len(rows) \in Nat /\ Len(Tail(rows)) = Len(rows) - 1
      BY <2>3
    <3>3. printed \in Nat
      BY <1>2
    <3>4. ASSUME NEW n \in Nat, NEW k \in Nat PROVE (n - 1) + (k + 1) = n + k
      OBVIOUS
    <3> QED BY <3>1, <3>2, <3>3, <3>4, Zenon
  <2>6. cur.count > 0 => printed + 1 < cur.count
    BY <1>2, <2>1 DEF Returning
  <2>7. cur.count \notin BadCount
    BY <1>2 DEF Returning
  <2> QED BY <1>1, <2>1, <2>3, <2>4, <2>5, <2>6, <2>7 DEF Returning
<1>7. thread' = "ends" => printed' = Len(Service!Answer(cur))
  <2>1. CASE id \in Broken /\ printed' = printed
    BY <1>2, <2>1
  <2>2. CASE printed' = printed + 1 /\ printed + 1 = cur.count
    <3>1. Len(Service!Answer(cur)) <= cur.count
      <4>1. Fits(cur, Len(Service!Answer(cur))) /\ cur.count > 0
        BY <1>2, <2>2, AnswerIs
      <4> QED BY <4>1 DEF Fits
    <3> QED BY <1>2, <1>4, <2>2, <3>1
  <2> QED BY <1>3, <2>1, <2>2
<1>8. Answering'
  <2>1. told' => held' # NoLine
    BY <1>1 DEF ProcessInv, Answering
  <2> QED BY <1>1, <1>2, <1>3, <1>4, <1>6, <1>7, <2>1 DEF Answering
<1> QED BY <1>5, <1>8 DEF ProcessInv

(* The statement ends at its last row, or at an interrupt, for which a     *)
(* later line is the reason.                                               *)
LEMMA LeaveInv ==
  ASSUME ProcessInv, Leave
  PROVE  ProcessInv'
<1>1. /\ thread = "runs" /\ thread' = "ends" /\ cur' = cur /\ printed' = printed
      /\ interrupted \/ rows = <<>>
      /\ Service!Answer(cur)' = Service!Answer(cur) /\ Later' = Later
  BY DEF Leave, mainVars, Service!Answer, Later
<1>2. rows = <<>> => printed = Len(Service!Answer(cur))
  BY <1>1, Running
<1>3. Typed'
  BY <1>1 DEF Typed, Leave, ProcessInv, mainVars, pipeEnds
<1>4. Answering'
  BY <1>1, <1>2 DEF Answering, Leave, ProcessInv, mainVars
<1> QED BY <1>3, <1>4 DEF ProcessInv

(* After END nothing is left of the line.                                  *)
LEMMA EndInv ==
  ASSUME ProcessInv, End
  PROVE  ProcessInv'
<1>1. /\ thread' \in {"waits", "dead"} /\ ~interrupted' /\ cur \in Line
      /\ \/ thread' = "waits" /\ cur' = NoLine /\ printed' = 0
         \/ thread' = "dead" /\ cur' = cur /\ printed' = printed
  BY DEF End, PrintLine, ProcessInv, Typed, Answering
<1>2. [type |-> "End", line |-> cur] \in OutLine
  BY <1>1 DEF OutLine
<1>3. Typed'
  <2>1. cur' \in Line \cup {NoLine} /\ printed' \in Nat
    BY <1>1 DEF ProcessInv, Typed
  <2>2. out' \in Seq(OutLine)
    BY <1>2, Parts DEF End, PrintLine, ProcessInv, Typed
  <2>3. UNCHANGED <<input, held, queue, eof, gone>>
    BY DEF End, mainVars, pipeEnds
  <2> QED BY <1>1, <2>1, <2>2, <2>3 DEF Typed, ProcessInv
<1>4. Answering'
  <2>1. told' = told /\ held' = held
    BY DEF End, mainVars
  <2>2. Answering
    BY DEF ProcessInv
  <2>3. CASE thread' = "waits"
    <3>1. cur' = NoLine /\ printed' = 0
      BY <1>1, <2>3
    <3> QED BY <1>1, <2>1, <2>2, <2>3, <3>1 DEF Answering
  <2>4. CASE thread' = "dead"
    <3>1. cur' = cur /\ printed' = printed
      BY <1>1, <2>4
    <3>2. Service!Answer(cur)' = Service!Answer(cur)
      BY <3>1 DEF Service!Answer
    <3>3. thread = "ends"
      BY DEF End
    <3> QED BY <1>1, <2>1, <2>2, <2>4, <3>1, <3>2, <3>3 DEF Answering
  <2> QED BY <1>1, <2>3, <2>4
<1> QED BY <1>3, <1>4 DEF ProcessInv

(* Every step of the query thread keeps the invariant.                     *)
LEMMA QueryThreadInv ==
  ASSUME ProcessInv, QueryThread
  PROVE  ProcessInv'
BY TakeInv, StartInv, RowInv, LeaveInv, EndInv DEF QueryThread

(* The user writes lines, reads output, and closes both pipes at once.     *)
LEMMA ProcessInvNext ==
  ASSUME ProcessInv, [Next]_vars, search_text \in Text, count \in Nat
  PROVE  ProcessInv'
<1> USE DEF ProcessInv
<1>1. ASSUME UNCHANGED processVars
      PROVE  ProcessInv'
  <2>1. Typed'
    BY <1>1 DEF processVars, mainVars, threadVars, pipeEnds, Typed
  <2>2. Answering'
    <3>1. UNCHANGED <<threadVars, held, told, queue, interrupted>>
      BY <1>1 DEF processVars, mainVars
    <3>2. told => held # NoLine
      BY DEF Answering
    <3> QED BY <3>1, <3>2, AnsweringStays DEF Later
  <2> QED BY <2>1, <2>2
<1>2. CASE RunEffects
  <2>1. CASE loading \/ search_text = Blank
    BY <1>1, <1>2, <2>1 DEF RunEffects
  <2>2. CASE ~(loading \/ search_text = Blank)
    <3>1. Typed'
      <4>1. input' = Append(input, query_ref') /\ query_ref' \in Line
        BY <1>2, <2>2 DEF RunEffects, SendQuery, Write, Line, Service!Line
      <4>2. UNCHANGED <<eof, held, threadVars, gone, queue, out>>
        BY <1>2, <2>2 DEF RunEffects, SendQuery
      <4> QED BY <4>1, <4>2, Parts DEF Typed, threadVars
    <3>2. UNCHANGED <<threadVars, held, told, queue, interrupted>>
      BY <1>2, <2>2 DEF RunEffects, SendQuery
    <3>3. told => held # NoLine
      BY DEF Answering
    <3>4. Answering'
      BY <3>2, <3>3, AnsweringStays DEF Later
    <3> QED BY <3>1, <3>4
  <2> QED BY <2>1, <2>2
<1>3. CASE HandleLine
  <2>1. Consumed
    BY <1>3 DEF HandleLine
  <2>2. Typed'
    BY <2>1, Parts DEF Consumed, Typed, mainVars, threadVars, pipeEnds
  <2>3. UNCHANGED <<threadVars, held, told, queue, interrupted>>
    BY <2>1 DEF Consumed, mainVars
  <2>4. told => held # NoLine
    BY DEF Answering
  <2>5. Answering'
    BY <2>3, <2>4, AnsweringStays DEF Later
  <2> QED BY <2>2, <2>5
<1>4. CASE UiDies
  <2>1. CloseBoth
    BY <1>4 DEF UiDies
  <2>2. Typed'
    BY <2>1 DEF CloseBoth, Typed, mainVars, threadVars
  <2>3. UNCHANGED <<threadVars, held, told, queue, interrupted>>
    BY <2>1 DEF CloseBoth, mainVars
  <2>4. told => held # NoLine
    BY DEF Answering
  <2>5. Answering'
    BY <2>3, <2>4, AnsweringStays DEF Later
  <2> QED BY <2>2, <2>5
<1>5. CASE MainSteps
  BY <1>5, MainThreadInv DEF MainSteps
<1>6. CASE QuerySteps
  BY <1>6, QueryThreadInv DEF QuerySteps
<1>7. CASE \/ \E t \in Text : Type(t)
           \/ MoreResults \/ Loaded \/ Tick \/ Rest \/ UNCHANGED vars
  BY <1>1, <1>7 DEF Type, MoreResults, Loaded, Tick, Rest, vars
<1> QED BY <1>2, <1>3, <1>4, <1>5, <1>6, <1>7 DEF Next
-----------------------------------------------------------------------------
(* What has been asked: the lines that wait anywhere between the writer of *)
(* stdin and the query thread.                                             *)
Asked == queue \o (IF held = NoLine THEN <<>> ELSE <<held>>) \o input

(* The head and the tail of a concatenation are those of its first part.   *)
LEMMA HeadOfConcat ==
  ASSUME NEW S, NEW p \in Seq(S), NEW s \in Seq(S), p # <<>>
  PROVE  /\ p \o s # <<>> /\ Head(p \o s) = Head(p) /\ Tail(p \o s) = Tail(p) \o s
<1>1. /\ p \o s \in Seq(S) /\ Len(p \o s) = Len(p) + Len(s)
      /\ Len(p) \in Nat \ {0} /\ Len(s) \in Nat /\ Len(p \o s) \in Nat
      /\ \A i \in 1 .. Len(p) + Len(s) : (p \o s)[i] = IF i <= Len(p) THEN p[i] ELSE s[i - Len(p)]
  BY ConcatProperties
<1>2. p \o s # <<>>
  BY <1>1
<1>3. Head(p \o s) = Head(p)
  BY <1>1, <1>2
<1>4. /\ Tail(p) \in Seq(S) /\ Len(Tail(p)) = Len(p) - 1
      /\ \A i \in 1 .. Len(p) - 1 : Tail(p)[i] = p[i + 1]
  BY HeadTailProperties
<1>5. /\ Tail(p \o s) \in Seq(S) /\ Len(Tail(p \o s)) = Len(p \o s) - 1
      /\ \A i \in 1 .. Len(p \o s) - 1 : Tail(p \o s)[i] = (p \o s)[i + 1]
  BY <1>1, <1>2, HeadTailProperties
<1>6. /\ Tail(p) \o s \in Seq(S) /\ Len(Tail(p) \o s) = Len(p) - 1 + Len(s)
      /\ \A i \in 1 .. Len(p) - 1 + Len(s) :
           (Tail(p) \o s)[i] = IF i <= Len(p) - 1 THEN Tail(p)[i] ELSE s[i - (Len(p) - 1)]
  BY <1>4, ConcatProperties
<1>7. ASSUME NEW i \in 1 .. Len(p) - 1 + Len(s)
      PROVE  Tail(p \o s)[i] = (Tail(p) \o s)[i]
  <2>1. i + 1 \in 1 .. Len(p) + Len(s) /\ i \in 1 .. Len(p \o s) - 1 /\ i \in Nat
    BY <1>1
  <2>2. Tail(p \o s)[i] = IF i + 1 <= Len(p) THEN p[i + 1] ELSE s[i + 1 - Len(p)]
    BY <1>1, <1>5, <2>1
  <2>3. CASE i + 1 <= Len(p)
    <3>1. i <= Len(p) - 1 /\ i \in 1 .. Len(p) - 1
      BY <1>1, <2>1, <2>3
    <3> QED BY <1>4, <1>6, <1>7, <2>2, <2>3, <3>1
  <2>4. CASE ~(i + 1 <= Len(p))
    <3>1. ~(i <= Len(p) - 1) /\ i + 1 - Len(p) = i - (Len(p) - 1)
      BY <1>1, <2>1, <2>4
    <3> QED BY <1>6, <1>7, <2>2, <2>4, <3>1
  <2> QED BY <2>3, <2>4
<1>8. Tail(p \o s) = Tail(p) \o s
  <2>1. Len(Tail(p \o s)) = Len(p) - 1 + Len(s)
    BY <1>1, <1>5
  <2> QED BY <1>5, <1>6, <1>7, <2>1, SeqEqual
<1> QED BY <1>2, <1>3, <1>8

(* A sequence is its head and its tail.                                    *)
LEMMA HeadAndTail ==
  ASSUME NEW S, NEW s \in Seq(S), s # <<>>
  PROVE  <<Head(s)>> \o Tail(s) = s
<1>1. Len(s) \in Nat \ {0} /\ Head(s) = s[1] /\ 1 \in 1 .. Len(s) /\ Len(s) \in 1 .. Len(s)
  OBVIOUS
<1>2. SubSeq(s, 1, Len(s)) = <<s[1]>> \o SubSeq(s, 1 + 1, Len(s))
  BY <1>1, SubSeqRecursiveFirst
<1>3. Tail(s) = SubSeq(s, 2, Len(s)) /\ SubSeq(s, 1, Len(s)) = s /\ 1 + 1 = 2
  BY TailIsSubSeq, SubSeqFull
<1> QED BY <1>1, <1>2, <1>3

(* Appending to the last part is appending to the whole.                   *)
LEMMA AppendToConcat ==
  ASSUME NEW S, NEW p \in Seq(S), NEW s \in Seq(S), NEW x \in S
  PROVE  p \o Append(s, x) = Append(p \o s, x)
<1>1. <<x>> \in Seq(S) /\ p \o s \in Seq(S)
  BY ConcatProperties
<1>2. Append(s, x) = s \o <<x>> /\ Append(p \o s, x) = (p \o s) \o <<x>>
  BY <1>1, AppendIsConcat
<1>3. (p \o s) \o <<x>> = p \o (s \o <<x>>)
  BY <1>1, ConcatAssociative
<1> QED BY <1>2, <1>3

(* What has been appended can be cut off again.                            *)
LEMMA AllButLast ==
  ASSUME NEW S, NEW s \in Seq(S), NEW x \in S
  PROVE  SubSeq(Append(s, x), 1, Len(Append(s, x)) - 1) = s
<1>1. /\ Append(s, x) \in Seq(S) /\ Len(Append(s, x)) - 1 = Len(s) /\ Len(s) \in Nat
      /\ \A i \in 1 .. Len(s) : Append(s, x)[i] = s[i]
  <2>1. Append(s, x) \in Seq(S) /\ Len(Append(s, x)) = Len(s) + 1 /\ Len(s) \in Nat
    BY AppendProperties
  <2> QED BY <2>1, AppendProperties
<1>2. /\ SubSeq(Append(s, x), 1, Len(s)) \in Seq(S)
      /\ Len(SubSeq(Append(s, x), 1, Len(s))) = Len(s)
      /\ \A i \in 1 .. Len(s) : SubSeq(Append(s, x), 1, Len(s))[i] = s[i]
  <2>1. \A i \in 1 .. Len(s) : Append(s, x)[i] \in S /\ 1 + i - 1 = i
    BY <1>1
  <2>2. 1 \in Int /\ Len(s) \in Int /\ Len(s) - 1 + 1 = Len(s)
        /\ (IF 1 <= Len(s) THEN Len(s) - 1 + 1 ELSE 0) = Len(s)
    BY <1>1
  <2>3. /\ SubSeq(Append(s, x), 1, Len(s)) \in Seq(S)
        /\ Len(SubSeq(Append(s, x), 1, Len(s))) = IF 1 <= Len(s) THEN Len(s) - 1 + 1 ELSE 0
        /\ \A i \in 1 .. Len(s) - 1 + 1 : SubSeq(Append(s, x), 1, Len(s))[i] = Append(s, x)[1 + i - 1]
    BY <2>1, <2>2, SubSeqProperties
  <2> QED BY <1>1, <2>1, <2>2, <2>3
<1> QED BY <1>1, <1>2, SeqEqual

(* Something is asked exactly while a line is in the pipe, held, or in the *)
(* channel.                                                                *)
LEMMA AskedIs ==
  ASSUME Typed
  PROVE  Asked \in Seq(Line) /\ (Asked = <<>> <=> ~Later /\ input = <<>>)
<1> DEFINE h == IF held = NoLine THEN <<>> ELSE <<held>>
<1>1. queue \in Seq(Line) /\ input \in Seq(Line) /\ h \in Seq(Line)
  <2>1. <<>> \in Seq(Line)
    BY EmptySeq
  <2> QED BY <2>1 DEF Typed
<1>2. h = <<>> <=> held = NoLine
  OBVIOUS
<1>3. Asked = (queue \o h) \o input
  BY DEF Asked
<1> HIDE DEF h
<1>4. queue \o h \in Seq(Line) /\ (queue \o h = <<>> <=> queue = <<>> /\ h = <<>>)
  BY <1>1, ConcatProperties, ConcatEqualIffEmpty
<1>5. Asked \in Seq(Line) /\ (Asked = <<>> <=> queue \o h = <<>> /\ input = <<>>)
  BY <1>1, <1>3, <1>4, ConcatProperties, ConcatEqualIffEmpty
<1> QED BY <1>2, <1>4, <1>5 DEF Later

(* Reading and sending moves a line on.                                    *)
LEMMA ReadLineAsks ==
  ASSUME ProcessInv, ReadLine
  PROVE  Asked' = Asked \/ (gone /\ Asked' = Append(Asked, EmptyLine))
<1>1. /\ queue \in Seq(Line) /\ input \in Seq(Line) /\ queue' = queue /\ held = NoLine /\ <<>> \in Seq(Line)
      /\ Asked = (queue \o <<>>) \o input /\ queue \o <<>> = queue
  <2>1. queue \in Seq(Line) /\ input \in Seq(Line) /\ queue' = queue /\ held = NoLine
    BY DEF ReadLine, ProcessInv, Typed
  <2>2. queue \o <<>> = queue
    BY <2>1, ConcatEmptySeq
  <2>3. <<>> \in Seq(Line)
    BY EmptySeq
  <2> QED BY <2>1, <2>2, <2>3 DEF Asked
<1>2. CASE input # <<>> /\ held' = Head(input) /\ input' = Tail(input)
  <2>1. held' \in Line /\ held' # NoLine /\ input' \in Seq(Line)
    BY <1>2, Parts
  <2>2. Asked' = (queue \o <<Head(input)>>) \o Tail(input)
    BY <1>1, <1>2, <2>1 DEF Asked
  <2>3. (queue \o <<Head(input)>>) \o Tail(input) = queue \o (<<Head(input)>> \o Tail(input))
    <3>1. <<Head(input)>> \in Seq(Line) /\ Tail(input) \in Seq(Line)
      BY <1>2, <2>1
    <3> QED BY <1>1, <3>1, ConcatAssociative
  <2>4. <<Head(input)>> \o Tail(input) = input
    BY <1>1, <1>2, HeadAndTail
  <2> QED BY <1>1, <2>2, <2>3, <2>4
<1>3. CASE input = <<>> /\ eof /\ held' = EmptyLine /\ input' = input
  <2>1. gone /\ EmptyLine \in Line /\ NoLine \notin Line
    BY <1>3, Parts DEF ProcessInv, Typed
  <2>2. Asked' = (queue \o <<EmptyLine>>) \o <<>>
    BY <1>1, <1>3, <2>1 DEF Asked
  <2>3. queue \o <<EmptyLine>> = Append(queue, EmptyLine) /\ Append(queue, EmptyLine) \in Seq(Line)
    BY <1>1, <2>1, AppendIsConcat, AppendProperties
  <2>4. Asked' = Append(queue, EmptyLine) /\ Asked = queue
    BY <1>1, <1>3, <2>2, <2>3, ConcatEmptySeq
  <2> QED BY <2>1, <2>4
<1> QED BY <1>2, <1>3 DEF ReadLine

(* A line that the query thread can still take is not lost in the channel. *)
LEMMA SendAsks ==
  ASSUME ProcessInv, Send, thread # "dead"
  PROVE  Asked' = Asked
<1>1. /\ queue \in Seq(Line) /\ held \in Line /\ held # NoLine
      /\ queue' = Append(queue, held) /\ held' = NoLine /\ input' = input
  BY DEF ProcessInv, Typed, Send
<1>2. queue \o <<held>> = Append(queue, held) /\ Append(queue, held) \in Seq(Line)
  BY <1>1, AppendIsConcat, AppendProperties
<1>3. Append(queue, held) \o <<>> = Append(queue, held)
  BY <1>2, ConcatEmptySeq
<1>4. Asked = (queue \o <<held>>) \o input /\ Asked' = (Append(queue, held) \o <<>>) \o input
  BY <1>1 DEF Asked
<1> QED BY <1>2, <1>3, <1>4

(* The query thread takes the line that was asked first.                   *)
LEMMA TakeAsks ==
  ASSUME ProcessInv, Take
  PROVE  Asked # <<>> /\ Head(Asked) = Head(queue) /\ Asked' = Tail(Asked)
<1> DEFINE h == IF held = NoLine THEN <<>> ELSE <<held>>
<1>1. /\ queue \in Seq(Line) /\ input \in Seq(Line) /\ h \in Seq(Line) /\ queue # <<>>
      /\ queue' = Tail(queue) /\ held' = held /\ input' = input
  <2>1. <<>> \in Seq(Line)
    BY EmptySeq
  <2> QED BY <2>1 DEF Typed, ProcessInv, Take, mainVars
<1>2. Asked = (queue \o h) \o input /\ Asked' = (Tail(queue) \o h) \o input
  BY <1>1 DEF Asked
<1> HIDE DEF h
<1>3. queue \o h # <<>> /\ Head(queue \o h) = Head(queue) /\ Tail(queue \o h) = Tail(queue) \o h
      /\ queue \o h \in Seq(Line)
  BY <1>1, HeadOfConcat, ConcatProperties
<1>4. /\ (queue \o h) \o input # <<>> /\ Head((queue \o h) \o input) = Head(queue \o h)
      /\ Tail((queue \o h) \o input) = Tail(queue \o h) \o input
  BY <1>1, <1>3, HeadOfConcat
<1> QED BY <1>2, <1>3, <1>4

(* The extension asks for what is in the search bar, last.                 *)
LEMMA SendQueryAsks ==
  ASSUME ProcessInv, SendQuery, search_text \in Text, count \in Nat
  PROVE  query_ref' \in Line /\ Asked' = Append(Asked, query_ref')
<1> DEFINE h == IF held = NoLine THEN <<>> ELSE <<held>>
<1>1. /\ queue \in Seq(Line) /\ input \in Seq(Line) /\ h \in Seq(Line)
      /\ queue' = queue /\ held' = held /\ input' = Append(input, query_ref')
  <2>1. <<>> \in Seq(Line)
    BY EmptySeq
  <2> QED BY <2>1 DEF Typed, ProcessInv, SendQuery, Write
<1>2. query_ref' \in Line
  BY DEF SendQuery, Line, Service!Line
<1>3. Asked = (queue \o h) \o input /\ Asked' = (queue \o h) \o Append(input, query_ref')
  BY <1>1 DEF Asked
<1> HIDE DEF h
<1>4. queue \o h \in Seq(Line)
  BY <1>1, ConcatProperties
<1> QED BY <1>1, <1>2, <1>3, <1>4, AppendToConcat

-----------------------------------------------------------------------------
(* The process implements the service *)

Serves == [Service!Next]_(Service!vars)

(* A line that is added is one that the service is asked for.              *)
LEMMA AppendServes ==
  ASSUME ProcessInv, NEW x \in Line, Asked' = Append(Asked, x),
         UNCHANGED <<thread, cur, printed, out, gone>>
  PROVE  Serves
<1>1. Asked \in Seq(Line)
  BY AskedIs DEF ProcessInv
<1>2. /\ Asked' \in Seq(Line) /\ Asked' # <<>>
      /\ Asked = SubSeq(Asked', 1, Len(Asked') - 1)
  BY <1>1, AppendProperties, AllButLast
<1>3. Service!Ask
  BY <1>2 DEF Service!Ask, Asked, Line
<1> QED BY <1>3 DEF Serves, Service!Next

(* A step that only moves a line on, or that follows the query thread's    *)
(* end, shows nowhere.                                                     *)
LEMMA StutterServes ==
  ASSUME Asked' = Asked \/ thread = "dead", UNCHANGED <<thread, cur, printed, out, gone>>
  PROVE  Serves
<1>1. CASE thread = "dead"
  <2>1. Service!Ignored
    BY <1>1 DEF Service!Ignored
  <2> QED BY <2>1 DEF Serves, Service!Next
<1>2. CASE Asked' = Asked
  BY <1>2 DEF Serves, Service!vars, Asked
<1> QED BY <1>1, <1>2

(* A panic of the query thread is a stop of the service that it may make.  *)
LEMMA PanicServes ==
  ASSUME thread # "dead", thread' = "dead", UNCHANGED <<printed, out, gone>>,
         gone \/ (cur # NoLine /\ Service!StopsAt(cur, Unprintable))
  PROVE  Serves
<1>1. Service!Stop
  BY DEF Service!Stop
<1> QED BY <1>1 DEF Serves, Service!Next

(* BEGIN opens the answer to the line that was asked first.                *)
LEMMA TakeServes ==
  ASSUME ProcessInv, Take
  PROVE  Serves
<1>1. CASE gone
  BY <1>1, PanicServes DEF Take, PrintLine, pipeEnds
<1>2. CASE ~gone
  <2>1. /\ Asked # <<>> /\ cur' = Head(Asked) /\ Asked' = Tail(Asked)
        /\ cur = NoLine /\ printed = 0
    BY TakeAsks DEF Take, ProcessInv, Answering
  <2>2. /\ out' = Append(out, [type |-> "Begin", line |-> cur']) /\ printed' = 0
        /\ gone' = gone /\ (thread' # "dead") = (thread # "dead")
    BY <1>2, <2>1 DEF Take, PrintLine, pipeEnds
  <2>3. Service!Begin
    BY <1>2, <2>1, <2>2 DEF Service!Begin, Service!Say, Asked
  <2> QED BY <2>3 DEF Serves, Service!Next
<1> QED BY <1>1, <1>2

(* A row that cannot be printed ends the answer.                           *)
LEMMA RowStops ==
  ASSUME ProcessInv, thread = "runs", rows # <<>>, NEW ids,
         Head(rows) \in ids, Head(rows) \in Broken \cup Unprintable
  PROVE  printed = Len(Service!Answer(cur)) /\ Service!StopsAt(cur, ids)
<1>1. Returning
  BY DEF ProcessInv, Answering
<1>2. /\ cur \in Line /\ Rows(cur) = RowsOf[cur.text] /\ cur.count \in Nat
      /\ printed <= Len(Service!Answer(cur)) /\ printed \in Nat
      /\ Len(Service!Answer(cur)) \in Nat /\ Len(Rows(cur)) \in Nat
      /\ printed + 1 \in 1 .. Len(Rows(cur)) /\ Head(rows) = Rows(cur)[printed + 1]
      /\ ~(printed + 1 <= Len(Service!Answer(cur)))
  <2>1. Len(Rows(cur)) \in Nat /\ Len(Service!Answer(cur)) \in 0 .. Len(Rows(cur)) /\ cur \in Line
    BY Running, AnswerIs
  <2> QED BY <2>1, Running
<1>3. printed = Len(Service!Answer(cur))
  BY <1>2
<1>4. cur.count \notin BadCount /\ (cur.count > 0 => printed < cur.count)
  BY <1>1 DEF Returning
<1>5. printed < Len(RowsOf[cur.text]) /\ RowsOf[cur.text][printed + 1] \in ids
  BY <1>2
<1> QED BY <1>3, <1>4, <1>5 DEF Service!StopsAt

(* A row that can be printed is the next of the answer.                    *)
LEMMA RowGives ==
  ASSUME ProcessInv, thread = "runs", rows # <<>>, Head(rows) \notin Broken \cup Unprintable
  PROVE  /\ printed < Len(Service!Answer(cur)) /\ Service!Answer(cur)[printed + 1] = Head(rows)
         /\ printed + 1 \in DOMAIN Service!Answer(cur) /\ Head(rows) \in Nat
<1>1. /\ cur \in Line /\ printed + 1 \in 1 .. Len(Rows(cur)) /\ printed \in 0 .. Len(Rows(cur))
      /\ printed + 1 <= Len(Service!Answer(cur)) /\ Len(Service!Answer(cur)) \in 0 .. Len(Rows(cur))
      /\ Head(rows) = Rows(cur)[printed + 1] /\ Head(rows) \in Nat
  BY Running
<1>2. Service!Answer(cur) \in Seq(Nat) /\ Len(Rows(cur)) \in Nat
  BY <1>1, AnswerIs
<1>3. /\ printed < Len(Service!Answer(cur)) /\ printed + 1 \in 1 .. Len(Service!Answer(cur))
      /\ DOMAIN Service!Answer(cur) = 1 .. Len(Service!Answer(cur))
  BY <1>1, <1>2
<1> QED BY <1>1, <1>3, AnswerIs

(* Each row is the next of the answer, an error, or the end of the         *)
(* service.                                                                *)
LEMMA RowServes ==
  ASSUME ProcessInv, Row
  PROVE  Serves
<1> DEFINE id == Head(rows)
<1>1. /\ thread = "runs" /\ rows # <<>> /\ cur' = cur /\ gone' = gone /\ Asked' = Asked
  BY DEF Row, mainVars, pipeEnds, Asked
<1>2. cur # NoLine
  BY <1>1, Running
<1>3. CASE id \in Unprintable
  <2>1. thread' = "dead" /\ UNCHANGED <<printed, out, gone>>
    BY <1>1, <1>3 DEF Row
  <2>2. Service!StopsAt(cur, Unprintable)
    BY <1>1, <1>3, RowStops
  <2> QED BY <1>1, <1>2, <2>1, <2>2, PanicServes
<1>4. CASE id \notin Unprintable /\ gone
  <2>1. thread' = "dead" /\ UNCHANGED <<printed, out, gone>>
    BY <1>1, <1>4 DEF Row, PrintLine
  <2> QED BY <1>1, <1>4, <2>1, PanicServes
<1>5. CASE id \notin Unprintable /\ id \in Broken /\ ~gone
  <2>1. /\ out' = Append(out, [type |-> "Error"]) /\ printed' = printed
        /\ (thread' # "dead") = (thread # "dead")
    BY <1>1, <1>5 DEF Row, PrintLine
  <2>2. printed = Len(Service!Answer(cur)) /\ Service!StopsAt(cur, Broken)
    BY <1>1, <1>5, RowStops
  <2>3. Service!Fail
    BY <1>1, <1>2, <1>5, <2>1, <2>2 DEF Service!Fail, Service!Say, Asked
  <2> QED BY <2>3 DEF Serves, Service!Next
<1>6. CASE id \notin Unprintable /\ id \notin Broken /\ ~gone
  <2>1. /\ out' = Append(out, [type |-> "Item", id |-> id]) /\ printed' = printed + 1
        /\ (thread' # "dead") = (thread # "dead")
    BY <1>1, <1>6 DEF Row, PrintLine
  <2>2. printed < Len(Service!Answer(cur)) /\ Service!Answer(cur)[printed + 1] = id
    BY <1>1, <1>6, RowGives
  <2>3. Service!Give
    BY <1>1, <1>2, <1>6, <2>1, <2>2 DEF Service!Give, Service!Say, Asked
  <2> QED BY <2>3 DEF Serves, Service!Next
<1> QED BY <1>3, <1>4, <1>5, <1>6

(* END closes an answer that is complete or that a later line cuts.        *)
LEMMA EndServes ==
  ASSUME ProcessInv, End
  PROVE  Serves
<1>1. CASE gone
  BY <1>1, PanicServes DEF End, PrintLine, pipeEnds
<1>2. CASE ~gone
  <2>1. /\ cur # NoLine /\ (printed = Len(Service!Answer(cur)) \/ Later)
        /\ cur' = NoLine /\ printed' = 0 /\ thread' = "waits" /\ thread = "ends"
        /\ out' = Append(out, [type |-> "End", line |-> cur])
        /\ gone' = gone /\ Asked' = Asked
    BY <1>2 DEF End, PrintLine, pipeEnds, mainVars, ProcessInv, Answering, Asked
  <2>2. Later => Asked # <<>>
    BY AskedIs DEF ProcessInv
  <2>3. Service!End
    BY <1>2, <2>1, <2>2 DEF Service!End, Service!Say, Asked
  <2> QED BY <2>3 DEF Serves, Service!Next
<1> QED BY <1>1, <1>2

(* Every step of the process and of the extension is one of the service's, *)
(* or changes nothing that it tells of.                                    *)
LEMMA StepServes ==
  ASSUME ProcessInv, [Next]_vars, search_text \in Text, count \in Nat
  PROVE  Serves
<1>1. ASSUME UNCHANGED processVars
      PROVE  Serves
  <2>1. Asked' = Asked /\ UNCHANGED <<thread, cur, printed, out, gone>>
    BY <1>1 DEF processVars, mainVars, threadVars, pipeEnds, Asked
  <2> QED BY <2>1, StutterServes
<1>2. CASE RunEffects
  <2>1. CASE loading \/ search_text = Blank
    BY <1>1, <1>2, <2>1 DEF RunEffects
  <2>2. CASE ~(loading \/ search_text = Blank)
    <3>1. SendQuery /\ UNCHANGED <<thread, cur, printed, out, gone>>
      BY <1>2, <2>2 DEF RunEffects, SendQuery, threadVars
    <3> QED BY <3>1, SendQueryAsks, AppendServes
  <2> QED BY <2>1, <2>2
<1>3. CASE HandleLine
  <2>1. out # <<>> /\ out' = Tail(out) /\ Asked' = Asked /\ UNCHANGED <<thread, cur, printed, gone>>
    BY <1>3 DEF HandleLine, Consumed, mainVars, threadVars, pipeEnds, Asked
  <2>2. Service!Consume
    BY <2>1 DEF Service!Consume, Asked
  <2> QED BY <2>2 DEF Serves, Service!Next
<1>4. CASE UiDies
  <2>1. gone' = TRUE /\ Asked' = Asked /\ UNCHANGED <<thread, cur, printed, out>>
    BY <1>4 DEF UiDies, CloseBoth, mainVars, threadVars, Asked
  <2>2. Service!Leave
    BY <2>1 DEF Service!Leave, Asked
  <2> QED BY <2>2 DEF Serves, Service!Next
<1>5. CASE MainSteps
  <2>1. CASE ReadLine
    <3>1. UNCHANGED <<thread, cur, printed, out, gone>>
      BY <2>1 DEF ReadLine, threadVars, pipeEnds
    <3> QED BY <2>1, <3>1, ReadLineAsks, AppendServes, StutterServes, Parts
  <2>2. CASE Interrupt
    <3>1. Asked' = Asked /\ UNCHANGED <<thread, cur, printed, out, gone>>
      BY <2>2 DEF Interrupt, threadVars, pipeEnds, Asked
    <3> QED BY <3>1, StutterServes
  <2>3. CASE Send
    <3>1. UNCHANGED <<thread, cur, printed, out, gone>>
      BY <2>3 DEF Send, threadVars, pipeEnds
    <3> QED BY <2>3, <3>1, SendAsks, StutterServes
  <2> QED BY <1>5, <2>1, <2>2, <2>3 DEF MainSteps, MainThread
<1>6. CASE QuerySteps
  <2>1. CASE Start
    <3>1. /\ thread = "begun" /\ thread' # "dead" /\ Asked' = Asked
          /\ UNCHANGED <<cur, printed, out, gone>>
      BY <2>1 DEF Start, mainVars, pipeEnds, Asked
    <3> QED BY <3>1 DEF Serves, Service!vars, Asked
  <2>2. CASE Leave
    <3>1. /\ thread = "runs" /\ thread' # "dead" /\ Asked' = Asked
          /\ UNCHANGED <<cur, printed, out, gone>>
      BY <2>2 DEF Leave, mainVars, pipeEnds, Asked
    <3> QED BY <3>1 DEF Serves, Service!vars, Asked
  <2> QED BY <1>6, <2>1, <2>2, TakeServes, RowServes, EndServes DEF QuerySteps, QueryThread
<1>7. CASE \/ \E t \in Text : Type(t)
           \/ MoreResults \/ Loaded \/ Tick \/ Rest \/ UNCHANGED vars
  BY <1>1, <1>7 DEF Type, MoreResults, Loaded, Tick, Rest, vars
<1> QED BY <1>2, <1>3, <1>4, <1>5, <1>6, <1>7 DEF Next
-----------------------------------------------------------------------------
(* The extension *)

(* owner[i] is the line whose answer the output is in after out[i], and    *)
(* owner[0] the one that the extension is in.                              *)
Owners == [0 .. Len(out) -> Line \cup {NoLine}]
Streams(owner) ==
  /\ owner[0] = active_query_ref /\ owner[Len(out)] = cur
  /\ \A i \in 1 .. Len(out) :
       /\ out[i].type = "Begin" => owner[i] = out[i].line
       /\ out[i].type = "End" => owner[i] = NoLine
       /\ out[i].type \in {"Item", "Error"} => owner[i] = owner[i - 1]
       /\ out[i].type = "Item" => owner[i] \in Line /\ out[i].id \in AnswerTo(owner[i])

(* The rows of the current query that have come or are on their way.       *)
Coming(owner) ==
  {out[i].id : i \in {j \in 1 .. Len(out) : out[j].type = "Item" /\ owner[j] = query_ref}}
Got(owner) == Shown(results) \cup Coming(owner)

(* The search bar has been looked at, and there is something in it.        *)
Current == effects = "none" /\ ~loading /\ search_text # Blank

(* Then the last line that waits is its query, or else that is answered or *)
(* being answered, and no row of it gets lost.                             *)
Follows(owner) ==
  thread # "dead" =>
    /\ Asked # <<>> => Asked[Len(Asked)] = query_ref
    /\ Asked = <<>> =>
         /\ cur # NoLine => /\ cur = query_ref
                            /\ \A k \in 1 .. printed : Service!Answer(cur)[k] \in Got(owner)
         /\ cur = NoLine => AnswerTo(query_ref) \subseteq Got(owner)

UiTyped ==
  /\ search_text \in Text /\ count \in Nat /\ typed \in 0 .. MaxTyped
  /\ query_ref \in Line \cup {NoLine} /\ active_query_ref \in Line \cup {NoLine}
  /\ results \in Seq(Nat)
  /\ gone => results = <<>> /\ loading

Plain ==
  /\ UiTyped /\ OwnResults
  /\ ~dirty => ui_results = results
  /\ Current => query_ref = [count |-> count, text |-> search_text]

Tracked(owner) == Streams(owner) /\ (Current => Follows(owner))

UiInv == Plain /\ (~gone => \E owner \in Owners : Tracked(owner))

Inv == ProcessInv /\ UiInv

(* The answer to a line is the same in every state.                        *)
LEMMA AnswerToStays == \A x : AnswerTo(x)' = AnswerTo(x) /\ Service!Answer(x)' = Service!Answer(x)
BY DEF AnswerTo, Shown, Service!Answer

(* Appending a row shows it.                                               *)
LEMMA ShownAppend ==
  ASSUME NEW s \in Seq(Nat), NEW x \in Nat
  PROVE  Shown(Append(s, x)) = Shown(s) \cup {x}
<1>1. /\ DOMAIN s = 1 .. Len(s) /\ Len(s) \in Nat
      /\ DOMAIN Append(s, x) = 1 .. Len(s) + 1
      /\ \A i \in 1 .. Len(s) : Append(s, x)[i] = s[i]
      /\ Append(s, x)[Len(s) + 1] = x
  OBVIOUS
<1>2. 1 .. Len(s) + 1 = (1 .. Len(s)) \cup {Len(s) + 1}
  BY <1>1
<1> QED BY <1>1, <1>2 DEF Shown

(* The extension starts with nothing asked for and nothing to show.        *)
LEMMA UiStart == Init => UiInv
<1> SUFFICES ASSUME Init PROVE UiInv
  OBVIOUS
<1>1. /\ results = <<>> /\ loading /\ dirty /\ query_ref = NoLine /\ active_query_ref = NoLine
      /\ out = <<>> /\ cur = NoLine /\ ~gone
      /\ search_text = Blank /\ count = default_count /\ typed = 0
  BY DEF Init, ProcessInit
<1>2. Plain
  <2>1. <<>> \in Seq(Nat)
    BY EmptySeq
  <2> QED BY <1>1, <2>1, UiAssumption DEF Plain, UiTyped, OwnResults, Current
<1>3. [i \in 0 .. 0 |-> NoLine] \in Owners /\ Streams([i \in 0 .. 0 |-> NoLine])
  BY <1>1 DEF Owners, Streams
<1> QED BY <1>1, <1>2, <1>3 DEF UiInv, Tracked, Current

(* The state of the extension alone changes with it alone.                 *)
LEMMA PlainStays ==
  ASSUME Plain, UNCHANGED uiVars, gone' = gone
  PROVE  Plain'
<1>1. /\ UNCHANGED <<search_text, count, loading, effects, typed>>
      /\ UNCHANGED <<query_ref, active_query_ref, results, dirty, ui_results>>
  BY DEF uiVars, queryRefs, stateVars, resultVars
<1>2. UiTyped'
  BY <1>1 DEF Plain, UiTyped
<1>3. OwnResults'
  <2>1. Shown(results)' = Shown(results)
    BY <1>1 DEF Shown
  <2>2. AnswerTo(query_ref)' = AnswerTo(query_ref)
    BY <1>1 DEF AnswerTo, Shown, Service!Answer
  <2> QED BY <1>1, <2>1, <2>2 DEF Plain, OwnResults
<1> QED BY <1>1, <1>2, <1>3 DEF Plain, Current

(* A line of output is added.                                              *)
LEMMA StreamGrows ==
  ASSUME ProcessInv, NEW owner \in Owners, Streams(owner),
         NEW line \in OutLine, out' = Append(out, line), cur' \in Line \cup {NoLine},
         UNCHANGED <<active_query_ref, query_ref, results>>,
         line.type = "Begin" => cur' = line.line,
         line.type = "End" => cur' = NoLine,
         line.type \in {"Item", "Error"} => cur' = cur,
         line.type = "Item" => cur' \in Line /\ line.id \in AnswerTo(cur')
  PROVE  \E longer \in Owners' :
           /\ Streams(longer)' /\ Got(owner) \subseteq Got(longer)'
           /\ line.type = "Item" /\ cur' = query_ref => line.id \in Got(longer)'
<1> DEFINE N == Len(out)
<1>1. /\ N \in Nat /\ Len(out') = N + 1 /\ out'[N + 1] = line
      /\ \A i \in 1 .. N : out'[i] = out[i]
  <2>1. out \in Seq(OutLine)
    BY DEF ProcessInv, Typed
  <2> HIDE DEF OutLine
  <2> QED BY <2>1, AppendProperties
<1>2. PICK longer \in Owners' :
        /\ longer[N + 1] = cur' /\ longer[0] = owner[0] /\ longer[N] = owner[N]
        /\ \A i \in 0 .. N : longer[i] = owner[i]
  <2> DEFINE grown == [i \in 0 .. N + 1 |-> IF i <= N THEN owner[i] ELSE cur']
  <2>1. /\ grown \in Owners' /\ grown[N + 1] = cur' /\ grown[0] = owner[0] /\ grown[N] = owner[N]
        /\ \A i \in 0 .. N : grown[i] = owner[i]
    BY <1>1 DEF Owners, Line, Service!Line
  <2> QED BY <2>1
<1>3. Streams(longer)'
  <2>1. longer[0] = active_query_ref' /\ longer[Len(out')] = cur'
    BY <1>1, <1>2 DEF Streams
  <2>2. ASSUME NEW i \in 1 .. Len(out')
        PROVE  /\ out'[i].type = "Begin" => longer[i] = out'[i].line
               /\ out'[i].type = "End" => longer[i] = NoLine
               /\ out'[i].type \in {"Item", "Error"} => longer[i] = longer[i - 1]
               /\ out'[i].type = "Item" => longer[i] \in Line /\ out'[i].id \in AnswerTo(longer[i])
    <3>1. CASE i \in 1 .. N
      <4>1. i \in 0 .. N /\ i - 1 \in 0 .. N
        BY <1>1, <3>1
      <4> QED BY <1>1, <1>2, <3>1, <4>1 DEF Streams
    <3>2. CASE i = N + 1
      <4>1. longer[i - 1] = cur /\ out'[i] = line /\ longer[i] = cur'
        BY <1>1, <1>2, <3>2 DEF Streams
      <4> QED BY <4>1
    <3> QED BY <1>1, <3>1, <3>2
  <2> QED BY <2>1, <2>2, AnswerToStays DEF Streams, Line, Service!Line
<1>4. Got(owner) \subseteq Got(longer)'
  <2>1. Coming(owner) \subseteq Coming(longer)'
    <3> SUFFICES ASSUME NEW i \in 1 .. N, out[i].type = "Item", owner[i] = query_ref
                 PROVE  out[i].id \in Coming(longer)'
      BY DEF Coming
    <3>1. i \in 1 .. Len(out') /\ out'[i] = out[i] /\ longer[i] = query_ref'
      BY <1>1, <1>2
    <3> QED BY <3>1 DEF Coming
  <2> QED BY <2>1 DEF Got, Shown
<1>5. line.type = "Item" /\ cur' = query_ref => line.id \in Got(longer)'
  <2> SUFFICES ASSUME line.type = "Item", cur' = query_ref PROVE line.id \in Coming(longer)'
    BY DEF Got
  <2>1. N + 1 \in 1 .. Len(out') /\ out'[N + 1] = line /\ longer[N + 1] = query_ref'
    BY <1>1, <1>2
  <2> QED BY <2>1 DEF Coming
<1> QED BY <1>2, <1>3, <1>4, <1>5

(* A line of output is handled: a row of the current query is kept.        *)
LEMMA StreamShrinks ==
  ASSUME ProcessInv, UiTyped, HandleLine, NEW owner \in Owners, Streams(owner)
  PROVE  \E shorter \in Owners' : Streams(shorter)' /\ Got(owner) \subseteq Got(shorter)'
<1> DEFINE N == Len(out)
           line == Head(out)
<1>1. /\ N \in Nat \ {0} /\ Len(out') = N - 1 /\ line = out[1] /\ 1 \in 1 .. N
      /\ \A i \in 1 .. N - 1 : out'[i] = out[i + 1]
  <2>1. out \in Seq(OutLine) /\ out # <<>> /\ out' = Tail(out)
    BY DEF ProcessInv, Typed, HandleLine, Consumed
  <2> HIDE DEF OutLine
  <2>2. Len(Tail(out)) = N - 1 /\ \A i \in 1 .. Len(Tail(out)) : Tail(out)[i] = out[i + 1]
    BY <2>1, HeadTailProperties
  <2> QED BY <2>1, <2>2
<1>2. PICK shorter \in Owners' : \A i \in 0 .. N - 1 : shorter[i] = owner[i + 1]
  <2> DEFINE rest == [i \in 0 .. N - 1 |-> owner[i + 1]]
  <2>1. rest \in Owners' /\ \A i \in 0 .. N - 1 : rest[i] = owner[i + 1]
    BY <1>1 DEF Owners, Line, Service!Line
  <2> QED BY <2>1
<1>3. /\ line.type = "Begin" => owner[1] = line.line
      /\ line.type = "End" => owner[1] = NoLine
      /\ line.type \in {"Item", "Error"} => owner[1] = active_query_ref
      /\ line.type = "Item" => owner[1] \in Line /\ line.id \in AnswerTo(owner[1])
  <2>1. 1 - 1 = 0
    OBVIOUS
  <2> QED BY <1>1, <2>1 DEF Streams
<1>4. active_query_ref' = owner[1] /\ cur' = cur /\ query_ref' = query_ref
  BY <1>3 DEF HandleLine, HandleItem, Consumed, threadVars
<1>5. Streams(shorter)'
  <2>1. shorter[0] = active_query_ref' /\ shorter[Len(out')] = cur'
    <3>1. 0 \in 0 .. N - 1 /\ 0 + 1 = 1 /\ N - 1 \in 0 .. N - 1 /\ (N - 1) + 1 = N
      BY <1>1
    <3> QED BY <1>1, <1>2, <1>4, <3>1 DEF Streams
  <2>2. ASSUME NEW i \in 1 .. Len(out')
        PROVE  /\ out'[i].type = "Begin" => shorter[i] = out'[i].line
               /\ out'[i].type = "End" => shorter[i] = NoLine
               /\ out'[i].type \in {"Item", "Error"} => shorter[i] = shorter[i - 1]
               /\ out'[i].type = "Item" => shorter[i] \in Line /\ out'[i].id \in AnswerTo(shorter[i])
    <3>1. /\ i \in 0 .. N - 1 /\ i - 1 \in 0 .. N - 1 /\ i \in 1 .. N - 1
          /\ i + 1 \in 1 .. N /\ (i - 1) + 1 = i /\ (i + 1) - 1 = i
      BY <1>1
    <3>2. shorter[i] = owner[i + 1] /\ shorter[i - 1] = owner[i] /\ out'[i] = out[i + 1]
      BY <1>1, <1>2, <3>1
    <3> QED BY <3>1, <3>2 DEF Streams
  <2> QED BY <2>1, <2>2, AnswerToStays DEF Streams, Line, Service!Line
<1>6. Shown(results) \subseteq Shown(results')
      /\ (line.type = "Item" /\ owner[1] = query_ref => line.id \in Shown(results'))
  <2>1. CASE line.type = "Item" /\ owner[1] = query_ref
    <3>1. active_query_ref = query_ref /\ line.id \in AnswerTo(owner[1]) /\ owner[1] \in Line
      BY <1>3, <2>1
    <3>2. results' = Append(results, line.id)
      BY <2>1, <3>1 DEF HandleLine, HandleItem, Accepts
    <3>3. line.id \in Nat
      <4>1. line \in OutLine
        <5>1. out \in Seq(OutLine)
          BY DEF ProcessInv, Typed
        <5> HIDE DEF OutLine
        <5> QED BY <1>1, <5>1
      <4> QED BY <2>1, <4>1 DEF OutLine
    <3>4. Shown(results') = Shown(results) \cup {line.id}
      BY <3>2, <3>3, ShownAppend DEF UiTyped
    <3> QED BY <3>4
  <2>2. CASE ~(line.type = "Item" /\ owner[1] = query_ref)
    <3>1. results' = results
      BY <1>3, <2>2 DEF HandleLine, HandleItem, Accepts, resultVars
    <3> QED BY <2>2, <3>1
  <2> QED BY <2>1, <2>2
<1>7. Coming(owner) \subseteq Shown(results') \cup Coming(shorter)'
  <2> SUFFICES ASSUME NEW i \in 1 .. N, out[i].type = "Item", owner[i] = query_ref
               PROVE  out[i].id \in Shown(results') \cup Coming(shorter)'
    BY DEF Coming
  <2>1. CASE i = 1
    BY <1>1, <1>6, <2>1
  <2>2. CASE i # 1
    <3>1. i - 1 \in 1 .. N - 1 /\ i - 1 \in 0 .. N - 1 /\ (i - 1) + 1 = i
      BY <1>1, <2>2
    <3>2. out'[i - 1] = out[i] /\ shorter[i - 1] = query_ref' /\ i - 1 \in 1 .. Len(out')
      BY <1>1, <1>2, <1>4, <3>1
    <3> QED BY <3>2 DEF Coming
  <2> QED BY <2>1, <2>2
<1>8. Got(owner) \subseteq Got(shorter)'
  <2>1. Shown(results)' = Shown(results')
    BY DEF Shown
  <2> QED BY <1>6, <1>7, <2>1 DEF Got
<1> QED BY <1>2, <1>5, <1>8

(* The owners of the output depend on the output and the two ends of it.   *)
LEMMA StreamStays ==
  ASSUME NEW owner \in Owners, Streams(owner), UNCHANGED <<out, cur, active_query_ref>>
  PROVE  owner \in Owners' /\ Streams(owner)'
BY AnswerToStays DEF Owners, Streams, Line, Service!Line

(* Nothing is lost while the lines, the answer and the query stay and no   *)
(* row is dropped.                                                         *)
LEMMA FollowsStays ==
  ASSUME NEW owner, NEW other, Follows(owner), Got(owner) \subseteq Got(other)',
         Asked' = Asked, UNCHANGED <<cur, printed, query_ref>>,
         thread' # "dead" => thread # "dead"
  PROVE  Follows(other)'
<1>1. /\ AnswerTo(query_ref)' = AnswerTo(query_ref)
      /\ Service!Answer(cur)' = Service!Answer(cur)
  BY DEF AnswerTo, Shown, Service!Answer
<1> QED BY <1>1 DEF Follows

(* The rows got depend on the output and what is kept of it.               *)
LEMMA GotStays ==
  ASSUME NEW owner, UNCHANGED <<out, query_ref, results>>
  PROVE  Got(owner)' = Got(owner)
BY DEF Got, Shown, Coming

(* The last line that waits, when the first is taken.                      *)
LEMMA LastOfTail ==
  ASSUME NEW S, NEW s \in Seq(S), s # <<>>
  PROVE  /\ Tail(s) # <<>> => Tail(s)[Len(Tail(s))] = s[Len(s)]
         /\ Tail(s) = <<>> => Head(s) = s[Len(s)]
<1>1. /\ Len(s) \in Nat \ {0} /\ Head(s) = s[1] /\ Tail(s) \in Seq(S) /\ Len(Tail(s)) = Len(s) - 1
      /\ \A i \in 1 .. Len(Tail(s)) : Tail(s)[i] = s[i + 1]
  <2>1. Len(s) \in Nat \ {0} /\ Head(s) = s[1]
    OBVIOUS
  <2> QED BY <2>1, HeadTailProperties
<1>2. ASSUME Tail(s) # <<>>
      PROVE  Tail(s)[Len(Tail(s))] = s[Len(s)]
  <2>1. Len(Tail(s)) \in Nat \ {0}
    BY <1>1, <1>2, EmptySeq
  <2>2. Len(Tail(s)) \in 1 .. Len(Tail(s)) /\ Len(Tail(s)) + 1 = Len(s)
    BY <1>1, <2>1
  <2> QED BY <1>1, <2>2
<1>3. ASSUME Tail(s) = <<>>
      PROVE  Head(s) = s[Len(s)]
  <2>1. Len(<<>>) = 0
    OBVIOUS
  <2>2. Len(s) = 1
    <3>1. Len(Tail(s)) = 0
      BY <1>3, <2>1
    <3>2. ASSUME NEW m \in Nat, NEW k, k = m - 1, k = 0
          PROVE  m = 1
      BY <3>2
    <3>3. Len(s) \in Nat /\ Len(Tail(s)) = Len(s) - 1
      BY <1>1
    <3> QED BY <3>1, <3>2, <3>3, Zenon
  <2>3. Head(s) = s[1]
    BY <1>1
  <2> QED BY <2>2, <2>3
<1> QED BY <1>2, <1>3

(* The line taken is owner of the BEGIN; if no other waits it is the       *)
(* current query, of which nothing is printed yet.                         *)
LEMMA TakeTracks ==
  ASSUME ProcessInv, Take, UNCHANGED uiVars, ~gone, NEW owner \in Owners, Tracked(owner)
  PROVE  \E other \in Owners' : Tracked(other)'
<1> DEFINE line == [type |-> "Begin", line |-> cur']
<1>1. /\ UNCHANGED <<active_query_ref, query_ref, results>> /\ Current' = Current
      /\ cur = NoLine /\ thread = "waits" /\ printed' = 0
      /\ out' = Append(out, line) /\ cur' = Head(queue) /\ cur' \in Line
  BY Parts DEF uiVars, queryRefs, resultVars, stateVars, Current, ProcessInv, Answering, Take,
    PrintLine
<1>2. line \in OutLine
  BY <1>1 DEF OutLine
<1>3. PICK longer \in Owners' : Streams(longer)' /\ Got(owner) \subseteq Got(longer)'
  <2>1. line.type = "Begin" /\ line.line = cur' /\ Streams(owner)
    BY DEF Tracked
  <2> HIDE DEF line
  <2> QED BY <1>1, <1>2, <2>1, StreamGrows
<1>4. ASSUME Current
      PROVE  Follows(longer)'
  <2>1. Asked \in Seq(Line) /\ Asked # <<>> /\ cur' = Head(Asked) /\ Asked' = Tail(Asked)
    BY <1>1, AskedIs, TakeAsks DEF ProcessInv
  <2>2. Asked[Len(Asked)] = query_ref
    BY <1>1, <1>4, <2>1 DEF Tracked, Follows
  <2>3. /\ Asked' # <<>> => Asked'[Len(Asked')] = query_ref'
        /\ Asked' = <<>> => cur' = query_ref'
    BY <1>1, <2>1, <2>2, LastOfTail
  <2>4. cur' # NoLine /\ 1 .. printed' = {}
    BY <1>1, Parts
  <2> QED BY <2>3, <2>4 DEF Follows
<1> QED BY <1>1, <1>3, <1>4 DEF Tracked

(* A step of the process that prints nothing.                              *)
LEMMA QuietTracks ==
  ASSUME NEW owner \in Owners, Tracked(owner), UNCHANGED uiVars,
         UNCHANGED <<out, cur, printed>>, thread' # "dead" => thread # "dead" /\ Asked' = Asked
  PROVE  \E other \in Owners' : Tracked(other)'
<1>1. UNCHANGED <<active_query_ref, query_ref, results>> /\ Current' = Current
  BY DEF uiVars, queryRefs, resultVars, stateVars, Current
<1>2. owner \in Owners' /\ Streams(owner)'
  BY <1>1, StreamStays DEF Tracked
<1>3. ASSUME Current
      PROVE  Follows(owner)'
  <2>1. CASE thread' = "dead"
    BY <2>1 DEF Follows
  <2>2. CASE thread' # "dead"
    <3>1. Got(owner) \subseteq Got(owner)' /\ Follows(owner)
      BY <1>1, <1>3, GotStays DEF Tracked
    <3> QED BY <1>1, <2>2, <3>1, FollowsStays
  <2> QED BY <2>1, <2>2
<1> QED BY <1>1, <1>2, <1>3 DEF Tracked

(* A row printed for the current query is on its way.                      *)
LEMMA RowTracks ==
  ASSUME ProcessInv, Row, UNCHANGED uiVars, ~gone, NEW owner \in Owners, Tracked(owner)
  PROVE  \E other \in Owners' : Tracked(other)'
<1> DEFINE id == Head(rows)
<1>1. /\ UNCHANGED <<active_query_ref, query_ref, results>> /\ Current' = Current
      /\ thread = "runs" /\ rows # <<>> /\ cur' = cur /\ Asked' = Asked
  BY DEF uiVars, queryRefs, resultVars, stateVars, Current, Row, mainVars, Asked
<1>2. cur \in Line /\ cur # NoLine /\ printed \in Nat
  BY <1>1, Running
<1>3. CASE id \in Unprintable
  <2>1. thread' = "dead" /\ UNCHANGED <<out, cur, printed>>
    BY <1>1, <1>3 DEF Row
  <2> QED BY <2>1, QuietTracks
<1>4. CASE id \notin Unprintable /\ id \in Broken
  <2> DEFINE line == [type |-> "Error"]
  <2>1. line \in OutLine /\ out' = Append(out, line) /\ printed' = printed
    BY <1>1, <1>4 DEF Row, PrintLine, OutLine
  <2>2. PICK longer \in Owners' : Streams(longer)' /\ Got(owner) \subseteq Got(longer)'
    <3>1. line.type = "Error" /\ Streams(owner)
      BY DEF Tracked
    <3> HIDE DEF line
    <3> QED BY <1>1, <1>2, <2>1, <3>1, StreamGrows
  <2>3. Current => Follows(longer)'
    BY <1>1, <2>1, <2>2, FollowsStays DEF Tracked
  <2> QED BY <1>1, <2>2, <2>3 DEF Tracked
<1>5. CASE id \notin Unprintable /\ id \notin Broken
  <2> DEFINE line == [type |-> "Item", id |-> id]
  <2>1. /\ Service!Answer(cur)[printed + 1] = id /\ id \in AnswerTo(cur) /\ id \in Nat
    BY <1>1, <1>5, RowGives DEF AnswerTo, Shown
  <2>2. line \in OutLine /\ out' = Append(out, line) /\ printed' = printed + 1
    BY <1>1, <1>5, <2>1 DEF Row, PrintLine, OutLine
  <2>3. PICK longer \in Owners' :
          /\ Streams(longer)' /\ Got(owner) \subseteq Got(longer)'
          /\ cur' = query_ref => id \in Got(longer)'
    <3>1. line.type = "Item" /\ line.id = id /\ Streams(owner)
      BY DEF Tracked
    <3> HIDE DEF line
    <3> QED BY <1>1, <1>2, <2>1, <2>2, <3>1, StreamGrows
  <2>4. ASSUME Current, thread' # "dead"
        PROVE  Follows(longer)'
    <3>1. Follows(owner) /\ thread # "dead"
      BY <1>1, <2>4 DEF Tracked
    <3>2. Asked # <<>> => Asked'[Len(Asked')] = query_ref'
      BY <1>1, <3>1 DEF Follows
    <3>3. ASSUME Asked = <<>>
          PROVE  cur' = query_ref' /\ \A k \in 1 .. printed + 1 : Service!Answer(cur)[k] \in Got(longer)'
      <4>1. cur = query_ref /\ \A k \in 1 .. printed : Service!Answer(cur)[k] \in Got(longer)'
        BY <1>2, <2>3, <3>1, <3>3 DEF Follows
      <4>2. id \in Got(longer)'
        BY <1>1, <2>3, <4>1
      <4>3. 1 .. printed + 1 = (1 .. printed) \cup {printed + 1}
        BY <1>2
      <4> QED BY <1>1, <2>1, <4>1, <4>2, <4>3
    <3>4. Service!Answer(cur)' = Service!Answer(cur)
      BY <1>1 DEF Service!Answer
    <3> QED BY <1>1, <1>2, <2>2, <3>2, <3>3, <3>4 DEF Follows
  <2>5. Current => Follows(longer)'
    <3>1. thread' = "dead" => Follows(longer)'
      BY DEF Follows
    <3> QED BY <2>4, <3>1
  <2> QED BY <1>1, <2>3, <2>5 DEF Tracked
<1> QED BY <1>3, <1>4, <1>5

(* If no other line waits, an answer that ends is complete, and all of it  *)
(* has come or is on its way.                                              *)
LEMMA EndTracks ==
  ASSUME ProcessInv, End, UNCHANGED uiVars, ~gone, NEW owner \in Owners, Tracked(owner)
  PROVE  \E other \in Owners' : Tracked(other)'
<1> DEFINE line == [type |-> "End", line |-> cur]
<1>1. /\ UNCHANGED <<active_query_ref, query_ref, results>> /\ Current' = Current
      /\ cur \in Line /\ cur # NoLine /\ thread = "ends" /\ cur' = NoLine /\ Asked' = Asked
      /\ out' = Append(out, line)
      /\ printed = Len(Service!Answer(cur)) \/ Later
  BY DEF uiVars, queryRefs, resultVars, stateVars, Current, End, PrintLine, mainVars, Asked,
    ProcessInv, Answering, Typed
<1>2. line \in OutLine
  BY <1>1 DEF OutLine
<1>3. PICK longer \in Owners' : Streams(longer)' /\ Got(owner) \subseteq Got(longer)'
  <2>1. line.type = "End" /\ Streams(owner)
    BY DEF Tracked
  <2> HIDE DEF line
  <2> QED BY <1>1, <1>2, <2>1, StreamGrows
<1>4. ASSUME Current
      PROVE  Follows(longer)'
  <2>1. Follows(owner) /\ thread # "dead"
    BY <1>1, <1>4 DEF Tracked
  <2>2. Asked' # <<>> => Asked'[Len(Asked')] = query_ref'
    BY <1>1, <2>1 DEF Follows
  <2>3. ASSUME Asked = <<>>
        PROVE  AnswerTo(query_ref)' \subseteq Got(longer)'
    <3>1. printed = Len(Service!Answer(cur))
      BY <1>1, <2>3, AskedIs DEF ProcessInv
    <3>2. cur = query_ref /\ \A k \in 1 .. printed : Service!Answer(cur)[k] \in Got(longer)'
      BY <1>1, <1>3, <2>1, <2>3 DEF Follows
    <3>3. DOMAIN Service!Answer(cur) = 1 .. printed
      <4>1. Service!Answer(cur) \in Seq(Nat)
        BY <1>1, AnswerIs
      <4> QED BY <3>1, <4>1
    <3>4. AnswerTo(query_ref)' = AnswerTo(query_ref)
      <4>1. query_ref' = query_ref
        BY <1>1
      <4> QED BY <4>1 DEF AnswerTo, Shown, Service!Answer
    <3> QED BY <3>2, <3>3, <3>4 DEF AnswerTo, Shown
  <2> QED BY <1>1, <2>2, <2>3 DEF Follows
<1> QED BY <1>1, <1>3, <1>4 DEF Tracked

(* Every step of the query thread.                                         *)
LEMMA QueryStepsUi ==
  ASSUME ProcessInv, UiInv, QuerySteps
  PROVE  UiInv'
<1>1. QueryThread /\ UNCHANGED uiVars /\ gone' = gone
  BY DEF QuerySteps, QueryThread, Take, Start, Row, Leave, End, pipeEnds
<1>2. Plain'
  BY <1>1, PlainStays DEF UiInv
<1>3. ASSUME ~gone, NEW owner \in Owners, Tracked(owner)
      PROVE  \E other \in Owners' : Tracked(other)'
  <2>1. CASE Start
    <3>1. UNCHANGED <<out, cur, printed>> /\ thread # "dead" /\ Asked' = Asked
      BY <2>1 DEF Start, mainVars, Asked
    <3> QED BY <1>1, <1>3, <3>1, QuietTracks
  <2>2. CASE Leave
    <3>1. UNCHANGED <<out, cur, printed>> /\ thread # "dead" /\ Asked' = Asked
      BY <2>2 DEF Leave, mainVars, Asked
    <3> QED BY <1>1, <1>3, <3>1, QuietTracks
  <2> QED BY <1>1, <1>3, <2>1, <2>2, TakeTracks, RowTracks, EndTracks DEF QueryThread
<1> QED BY <1>1, <1>2, <1>3 DEF UiInv

(* Every step of the main thread: it loses a line only when the query      *)
(* thread is dead.                                                         *)
LEMMA MainStepsUi ==
  ASSUME ProcessInv, UiInv, MainSteps
  PROVE  UiInv'
<1>1. /\ MainThread /\ UNCHANGED uiVars /\ gone' = gone
      /\ UNCHANGED <<out, cur, printed, thread>>
  BY DEF MainSteps, MainThread, ReadLine, Interrupt, Send, pipeEnds, threadVars
<1>2. Plain'
  BY <1>1, PlainStays DEF UiInv
<1>3. ~gone => Asked' = Asked \/ thread = "dead"
  <2>1. CASE ReadLine
    BY <2>1, ReadLineAsks
  <2>2. CASE Interrupt
    BY <2>2 DEF Interrupt, Asked
  <2>3. CASE Send
    BY <2>3, SendAsks
  <2> QED BY <1>1, <2>1, <2>2, <2>3 DEF MainThread
<1>4. ASSUME ~gone, NEW owner \in Owners, Tracked(owner)
      PROVE  \E other \in Owners' : Tracked(other)'
  <2>1. thread' # "dead" => thread # "dead" /\ Asked' = Asked
    BY <1>1, <1>3, <1>4
  <2> QED BY <1>1, <1>4, <2>1, QuietTracks
<1> QED BY <1>1, <1>2, <1>4 DEF UiInv

(* A line of output is handled: a row is kept exactly if the current query *)
(* owns it.                                                                *)
LEMMA HandleLineUi ==
  ASSUME ProcessInv, UiInv, HandleLine
  PROVE  UiInv'
<1> USE DEF UiInv
<1>1. /\ ~gone /\ gone' = gone /\ UNCHANGED <<search_text, count, loading, effects, typed, query_ref>>
      /\ UNCHANGED <<cur, printed, thread>> /\ Asked' = Asked /\ Current' = Current
  BY DEF HandleLine, Consumed, stateVars, pipeEnds, threadVars, mainVars, Asked, Current
<1>2. PICK owner \in Owners : Tracked(owner)
  BY <1>1
<1>3. /\ out \in Seq(OutLine) /\ out # <<>> /\ Head(out) \in OutLine /\ Head(out) = out[1]
      /\ 1 \in 1 .. Len(out)
  <2>1. out \in Seq(OutLine) /\ out # <<>>
    BY DEF ProcessInv, Typed, HandleLine, Consumed
  <2> HIDE DEF OutLine
  <2> QED BY <2>1
<1> DEFINE line == Head(out)
<1>4. /\ line.type = "Begin" => line.line \in Line
      /\ line.type = "Item" => /\ active_query_ref \in Line /\ line.id \in AnswerTo(active_query_ref)
                               /\ line.id \in Nat
  <2>1. line.type = "Item" => active_query_ref \in Line /\ line.id \in AnswerTo(active_query_ref)
    <3>1. 1 - 1 = 0
      OBVIOUS
    <3> QED BY <1>2, <1>3, <3>1 DEF Tracked, Streams
  <2> QED BY <1>3, <2>1 DEF OutLine
<1>5. \/ results' = results
      \/ /\ line.type = "Item" /\ active_query_ref = query_ref
         /\ results' = Append(results, line.id) /\ dirty'
  BY DEF HandleLine, HandleItem, Accepts, resultVars
<1>6. Plain'
  <2>1. UiTyped'
    <3>1. active_query_ref' \in Line \cup {NoLine}
      BY <1>4 DEF HandleLine, HandleItem, Plain, UiTyped
    <3>2. results' \in Seq(Nat)
      BY <1>4, <1>5, AppendProperties DEF Plain, UiTyped
    <3> QED BY <1>1, <3>1, <3>2 DEF Plain, UiTyped
  <2>2. OwnResults'
    <3>1. AnswerTo(query_ref)' = AnswerTo(query_ref) /\ Shown(results)' = Shown(results')
      BY <1>1 DEF AnswerTo, Shown, Service!Answer
    <3>2. CASE results' = results
      BY <3>1, <3>2 DEF Plain, OwnResults
    <3>3. CASE line.type = "Item" /\ active_query_ref = query_ref
               /\ results' = Append(results, line.id)
      <4>1. Shown(results') = Shown(results) \cup {line.id} /\ line.id \in AnswerTo(query_ref)
        BY <1>4, <3>3, ShownAppend DEF Plain, UiTyped
      <4>2. results = <<>> => Shown(results) = {}
        BY DEF Shown
      <4> QED BY <3>1, <4>1, <4>2 DEF Plain, OwnResults
    <3> QED BY <1>5, <3>2, <3>3
  <2>3. ~dirty' => ui_results' = results'
    BY DEF HandleLine, HandleItem, Sync, resultVars, Plain
  <2> QED BY <1>1, <2>1, <2>2, <2>3 DEF Plain, Current
<1>7. PICK shorter \in Owners' : Streams(shorter)' /\ Got(owner) \subseteq Got(shorter)'
  BY <1>2, StreamShrinks DEF Plain, Tracked
<1>8. Current => Follows(shorter)'
  BY <1>1, <1>2, <1>7, FollowsStays DEF Tracked
<1> QED BY <1>1, <1>6, <1>7, <1>8 DEF Tracked

(* The effects of a render: results are dropped when, and only when, a new *)
(* query is asked for or the text is blank.                                *)
LEMMA RunEffectsUi ==
  ASSUME ProcessInv, UiInv, RunEffects
  PROVE  UiInv'
<1> USE DEF UiInv
<1>1. /\ ~gone /\ UNCHANGED <<active_query_ref, search_text, loading, typed, ui_results>>
      /\ gone' = gone /\ UNCHANGED <<out, cur, thread>>
      /\ search_text \in Text /\ count \in Nat
  BY DEF RunEffects, SendQuery, processVars, pipeEnds, threadVars, Plain, UiTyped
<1>2. /\ loading => UNCHANGED <<query_ref, results, dirty>>
      /\ ~loading => results' = <<>> /\ dirty'
      /\ ~loading /\ search_text # Blank => SendQuery
      /\ ~loading /\ search_text = Blank => UNCHANGED query_ref
      /\ count' \in {count, default_count}
      /\ effects' = "none" => count' = count
  BY DEF RunEffects
<1>3. Plain'
  <2>1. UiTyped'
    <3>1. query_ref' \in Line \cup {NoLine}
      <4>1. SendQuery => query_ref' \in Line
        BY <1>1, SendQueryAsks
      <4> QED BY <1>2, <4>1 DEF Plain, UiTyped
    <3>2. results' \in Seq(Nat)
      BY <1>2, EmptySeq DEF Plain, UiTyped
    <3> QED BY <1>1, <1>2, <3>1, <3>2, UiAssumption DEF Plain, UiTyped
  <2>2. OwnResults'
    <3>1. CASE loading
      <4>1. query_ref' = query_ref /\ results' = results
        BY <1>2, <3>1
      <4>2. AnswerTo(query_ref)' = AnswerTo(query_ref) /\ Shown(results)' = Shown(results)
        BY <4>1 DEF AnswerTo, Shown, Service!Answer
      <4> QED BY <4>1, <4>2 DEF Plain, OwnResults
    <3>2. CASE ~loading
      BY <1>2, <3>2 DEF OwnResults
    <3> QED BY <3>1, <3>2
  <2>3. ~dirty' => ui_results' = results'
    BY <1>1, <1>2 DEF Plain
  <2>4. Current' => query_ref' = [count |-> count', text |-> search_text']
    BY <1>1, <1>2 DEF Current, SendQuery
  <2> QED BY <2>1, <2>2, <2>3, <2>4 DEF Plain
<1>4. PICK owner \in Owners : Tracked(owner)
  BY <1>1
<1>5. owner \in Owners' /\ Streams(owner)'
  BY <1>1, <1>4, StreamStays DEF Tracked
<1>6. ASSUME Current'
      PROVE  Follows(owner)'
  <2>1. SendQuery
    BY <1>1, <1>2, <1>6 DEF Current
  <2>2. query_ref' \in Line /\ Asked' = Append(Asked, query_ref') /\ Asked \in Seq(Line)
    BY <1>1, <2>1, SendQueryAsks, AskedIs DEF ProcessInv
  <2>3. Asked' # <<>> /\ Asked'[Len(Asked')] = query_ref'
    <3>1. Asked' # <<>> /\ Len(Asked') = Len(Asked) + 1 /\ Asked'[Len(Asked) + 1] = query_ref'
      BY <2>2, AppendProperties
    <3> QED BY <3>1
  <2> QED BY <2>3 DEF Follows
<1> QED BY <1>1, <1>3, <1>5, <1>6 DEF Tracked

(* A render, the timer, and the launcher's death.                          *)
LEMMA OtherStepsUi ==
  ASSUME ProcessInv, UiInv,
         \/ \E t \in Text : Type(t)
         \/ MoreResults \/ Loaded \/ Tick \/ UiDies \/ UNCHANGED vars
  PROVE  UiInv'
<1> USE DEF UiInv
<1>1. ASSUME ~gone => UNCHANGED <<query_ref, active_query_ref, results, out, cur, printed, thread, gone>>,
             Asked' = Asked, Current' => Current
      PROVE  ~gone => ~gone' /\ \E owner \in Owners' : Tracked(owner)'
  <2> SUFFICES ASSUME ~gone, NEW owner \in Owners, Tracked(owner)
               PROVE  ~gone' /\ \E other \in Owners' : Tracked(other)'
    OBVIOUS
  <2>1. owner \in Owners' /\ Streams(owner)'
    BY <1>1, StreamStays DEF Tracked
  <2>2. Current => Follows(owner)'
    BY <1>1, GotStays, FollowsStays DEF Tracked
  <2> QED BY <1>1, <2>1, <2>2 DEF Tracked
<1>2. ASSUME UNCHANGED <<query_ref, active_query_ref, results>>, UiTyped,
             search_text' \in Text, count' \in Nat, typed' \in 0 .. MaxTyped,
             gone' = gone, loading' = loading \/ ~gone
      PROVE  UiTyped' /\ OwnResults'
  <2>1. AnswerTo(query_ref)' = AnswerTo(query_ref) /\ Shown(results)' = Shown(results)
    BY <1>2 DEF AnswerTo, Shown, Service!Answer
  <2> QED BY <1>2, <2>1 DEF UiTyped, OwnResults, Plain
<1>3. CASE \/ \E t \in Text : Type(t)
           \/ MoreResults \/ Loaded
  <2>1. /\ ~gone /\ effects' # "none" /\ UNCHANGED <<query_ref, active_query_ref, results, dirty, ui_results>>
        /\ UNCHANGED <<out, cur, printed, thread, gone>> /\ Asked' = Asked
        /\ search_text' \in Text
    BY <1>3 DEF Type, MoreResults, Loaded, queryRefs, resultVars, processVars, threadVars, pipeEnds,
      mainVars, Asked, Plain, UiTyped
  <2>2. count' \in Nat /\ typed' \in 0 .. MaxTyped
    BY <1>3, UiAssumption DEF Type, MoreResults, Loaded, Plain, UiTyped
  <2>3. UiTyped' /\ OwnResults'
    BY <1>2, <2>1, <2>2 DEF Plain
  <2>4. ~Current'
    BY <2>1 DEF Current
  <2>5. Plain'
    BY <2>1, <2>3, <2>4 DEF Plain
  <2> QED BY <1>1, <2>1, <2>4, <2>5
<1>4. CASE Tick
  <2>1. /\ ~gone /\ UNCHANGED <<query_ref, active_query_ref, results>> /\ Current' = Current
        /\ UNCHANGED <<out, cur, printed, thread, gone>> /\ Asked' = Asked
        /\ UNCHANGED <<search_text, count, typed, loading>> /\ ui_results' = results
    BY <1>4 DEF Tick, Sync, queryRefs, stateVars, processVars, threadVars, pipeEnds, mainVars, Asked,
      Current
  <2>2. UiTyped' /\ OwnResults'
    BY <1>2, <2>1 DEF Plain, UiTyped
  <2>3. Plain'
    BY <2>1, <2>2 DEF Plain
  <2> QED BY <1>1, <2>1, <2>3
<1>5. CASE UiDies
  <2>1. /\ gone' /\ loading' = TRUE /\ results' = <<>> /\ dirty' = TRUE /\ query_ref' = NoLine
        /\ active_query_ref' = NoLine /\ search_text' = Blank /\ count' = default_count /\ typed' = 0
    BY <1>5 DEF UiDies, CloseBoth
  <2>2. <<>> \in Seq(Nat)
    BY EmptySeq
  <2>3. Plain'
    BY <2>1, <2>2, UiAssumption DEF Plain, UiTyped, OwnResults, Current
  <2> QED BY <2>1, <2>3
<1>6. CASE UNCHANGED vars
  <2>1. UNCHANGED uiVars /\ UNCHANGED <<out, cur, printed, thread, gone>> /\ Asked' = Asked
    BY <1>6 DEF vars, processVars, threadVars, pipeEnds, mainVars, Asked
  <2>2. Plain'
    BY <2>1, PlainStays
  <2>3. Current' = Current /\ UNCHANGED <<query_ref, active_query_ref, results>>
    BY <2>1 DEF uiVars, queryRefs, stateVars, resultVars, Current
  <2> QED BY <1>1, <2>1, <2>2, <2>3
<1> QED BY <1>3, <1>4, <1>5, <1>6

(* Every step keeps what is claimed of the extension.                      *)
LEMMA UiInvNext ==
  ASSUME ProcessInv, UiInv, [Next]_vars
  PROVE  UiInv'
<1>1. Rest => UNCHANGED vars
  BY DEF Rest
<1> QED BY <1>1, QueryStepsUi, MainStepsUi, HandleLineUi, RunEffectsUi, OtherStepsUi DEF Next

-----------------------------------------------------------------------------
(* The theorems *)

(* The inductive invariant holds.                                          *)
LEMMA InvHolds == Spec => []Inv
<1>1. Init => Inv
  BY ProcessStart, UiStart DEF Inv
<1>2. Inv /\ [Next]_vars => Inv'
  <2> SUFFICES ASSUME Inv, [Next]_vars PROVE Inv'
    OBVIOUS
  <2>1. search_text \in Text /\ count \in Nat
    BY DEF Inv, UiInv, Plain, UiTyped
  <2> QED BY <2>1, ProcessInvNext, UiInvNext DEF Inv
<1> QED BY <1>1, <1>2, PTL DEF Spec

(* Types: lines stay lines on their way from the search bar to the query   *)
(* thread, and the thread never prints more rows than its line has.        *)
THEOREM UiTypeCorrect == Spec => []UiTypeOK
<1>1. Inv => UiTypeOK
  <2> SUFFICES ASSUME Inv PROVE UiTypeOK
    OBVIOUS
  <2>1. printed \in 0 .. Len(RowsOf[IF cur = NoLine THEN Blank ELSE cur.text])
    <3>1. Blank \in Text /\ RowsOf[Blank] \in Seq(Nat) /\ printed \in Nat
      BY QueryAssumption, UiAssumption DEF Inv, ProcessInv, Typed
    <3>2. CASE cur = NoLine
      BY <3>1, <3>2 DEF Inv, ProcessInv, Answering
    <3>3. CASE cur # NoLine
      <4>1. cur \in Line /\ printed <= Len(Service!Answer(cur))
        BY <3>3 DEF Inv, ProcessInv, Typed, Answering
      <4>2. Len(Service!Answer(cur)) \in 0 .. Len(Rows(cur)) /\ Len(Rows(cur)) \in Nat
        BY <4>1, AnswerIs
      <4>3. RowsOf[cur.text] \in Seq(Nat) /\ Len(RowsOf[cur.text]) \in Nat
        BY <4>1, QueryAssumption DEF Line, Service!Line
      <4>4. Len(Rows(cur)) <= Len(RowsOf[cur.text])
        BY <4>3 DEF Rows
      <4> QED BY <3>1, <3>3, <4>1, <4>2, <4>3, <4>4
    <3> QED BY <3>2, <3>3
  <2> QED BY <2>1 DEF UiTypeOK, Inv, ProcessInv, Typed, UiInv, Plain, UiTyped, Line
<1> QED BY <1>1, InvHolds, PTL

(* The rows collected are rows of the query they are collected for: a row  *)
(* is taken only while the extension is in the answer to its query, and    *)
(* the output says truly in whose answer it is.                            *)
THEOREM OwnResultsAlways == Spec => []OwnResults
<1>1. Inv => OwnResults
  BY DEF Inv, UiInv, Plain
<1> QED BY <1>1, InvHolds, PTL

(* Once all is handled, the list is the answer to the search bar: the last *)
(* line written is that of the last render, no later line cuts its answer, *)
(* and no row of it is dropped for an older one.                           *)
THEOREM SettledShowsAnswerAlways == Spec => []SettledShowsAnswer
<1>1. Inv => SettledShowsAnswer
  <2> SUFFICES ASSUME Inv, Settled, search_text # Blank
               PROVE  Shown(ui_results) = AnswerTo([count |-> count, text |-> search_text])
    BY DEF SettledShowsAnswer, ShowsAnswer
  <2>1. /\ Current /\ ~gone /\ out = <<>> /\ ui_results = results
        /\ query_ref = [count |-> count, text |-> search_text]
    BY DEF Settled, Current, Inv, UiInv, Plain, UiTyped
  <2>2. thread # "dead" /\ cur = NoLine
    BY DEF Settled, Inv, ProcessInv, Answering
  <2>3. Asked = <<>>
    BY AskedIs DEF Settled, Inv, ProcessInv, Later
  <2>4. PICK owner \in Owners : Tracked(owner)
    BY <2>1 DEF Inv, UiInv
  <2>5. Coming(owner) = {}
    <3>1. 1 .. Len(out) = {}
      BY <2>1
    <3> QED BY <3>1 DEF Coming
  <2>6. AnswerTo(query_ref) \subseteq Shown(results)
    BY <2>1, <2>2, <2>3, <2>4, <2>5 DEF Tracked, Follows, Got
  <2>7. Shown(results) \subseteq AnswerTo(query_ref)
    <3>1. results = <<>> => Shown(results) = {}
      BY DEF Shown
    <3> QED BY <3>1 DEF Inv, UiInv, Plain, OwnResults
  <2> QED BY <2>1, <2>6, <2>7
<1> QED BY <1>1, InvHolds, PTL

(* The process implements QueryService: answers are bracketed and in order,*)
(* each row once, and only a later line that waits cuts one short.         *)
THEOREM ProcessImplementsService == Spec => ImplementsService
<1>1. Init => Service!Init
  <2> SUFFICES ASSUME Init PROVE Service!Init
    OBVIOUS
  <2>1. Asked = <<>>
    BY ProcessStart, AskedIs DEF Init, ProcessInit, ProcessInv, Later
  <2> QED BY <2>1 DEF Service!Init, Asked, Init, ProcessInit
<1>2. Inv /\ [Next]_vars => [Service!Next]_(Service!vars)
  <2> SUFFICES ASSUME Inv, [Next]_vars PROVE Serves
    BY DEF Serves
  <2>1. search_text \in Text /\ count \in Nat
    BY DEF Inv, UiInv, Plain, UiTyped
  <2> QED BY <2>1, StepServes DEF Inv
<1> QED BY <1>1, <1>2, InvHolds, PTL DEF Spec, ImplementsService, Service!Spec
=============================================================================
