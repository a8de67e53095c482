--------------------------- MODULE MatchingProofs ---------------------------
(***************************************************************************)
(* The Reconstructer gives every open of the walker the place the walker   *)
(* opened it at, however the opens, the hints, the changes of other        *)
(* programs, the failures and the restarts interleave, and so nothing      *)
(* enters the index that was not somewhere in the filesystem.              *)
(***************************************************************************)
EXTENDS WatcherProofs

-----------------------------------------------------------------------------
(* The hint the walker still owes for what it just opened.                 *)
Due(f) == IF f = None THEN <<>> ELSE IF f.n = None THEN <<Begin>> ELSE <<PushChildren(f.n)>>

AllHints == hints \o Due(fd)
Queue == buf \o evq

(* T[i] is the stack after the first i hints, if it is st now.             *)
Stacks(T, hs, st) ==
  /\ T \in [0 .. Len(hs) -> Seq(Handle)] /\ T[0] = st
  /\ \A i \in 1 .. Len(hs) :
       hs[i].type = "PopChildren" => T[i - 1] # <<>> /\ T[i] = Front(T[i - 1])

(* The hint b is the one of the open ev, and the first after hint a that   *)
(* is not PopChildren.                                                     *)
Pair(T, a, b, ev, hs) ==
  /\ a < b /\ hs[b].type # "PopChildren"
  /\ \A i \in a + 1 .. b - 1 : hs[i].type = "PopChildren"
  /\ T[b] = Append(T[b - 1], ev.fh)
  /\ hs[b].type = "PushChildren" =>
       T[b - 1] # <<>> /\ ev.new = [p |-> LastOf(T[b - 1]), n |-> hs[b].name]

(* u[k] is the last hint that the first k events of q take.                *)
Matched(T, u, q, hs) ==
  /\ u \in [0 .. Len(q) -> 0 .. Len(hs)] /\ u[0] = 0
  /\ \A k \in 1 .. Len(q) :
       IF q[k].tid = WalkerTid THEN Pair(T, u[k - 1], u[k], q[k], hs) ELSE u[k] = u[k - 1]
  /\ \A i \in u[Len(q)] + 1 .. Len(hs) : hs[i].type = "PopChildren"

(* The stack ends in the directories that are being walked, and what was   *)
(* just opened.                                                            *)
Extra(f) == IF f = None THEN 0 ELSE 1
OnTop(s, fr, f) ==
  /\ Len(s) >= Len(fr) + Extra(f)
  /\ \A j \in 1 .. Len(fr) : s[Len(s) - Extra(f) - Len(fr) + j] = fr[j].dir
  /\ f # None => LastOf(s) = f.h

InStep(q, hs, st, fr, f) ==
  \E T, u : Stacks(T, hs, st) /\ Matched(T, u, q, hs) /\ OnTop(T[Len(hs)], fr, f)

-----------------------------------------------------------------------------
(* What other programs do adds events of theirs, and changes masks.        *)
Grows(q, r) ==
  /\ Len(q) <= Len(r)
  /\ \A i \in 1 .. Len(q) : r[i].tid = q[i].tid /\ r[i].fh = q[i].fh /\ r[i].new = q[i].new
  /\ \A i \in Len(q) + 1 .. Len(r) : r[i].tid # WalkerTid

LEMMA GrowsTwice ==
  ASSUME NEW q \in Seq(KernelEvent), NEW r \in Seq(KernelEvent), NEW s \in Seq(KernelEvent),
         Grows(q, r), Grows(r, s)
  PROVE  Grows(q, s)
<1>1. Len(q) \in Nat /\ Len(r) \in Nat /\ Len(s) \in Nat /\ Len(q) <= Len(r) /\ Len(r) <= Len(s)
  BY DEF Grows
<1>2. ASSUME NEW i \in 1 .. Len(q)
      PROVE  s[i].tid = q[i].tid /\ s[i].fh = q[i].fh /\ s[i].new = q[i].new
  <2>1. i \in 1 .. Len(r)
    BY <1>1
  <2> QED BY <2>1 DEF Grows
<1>3. ASSUME NEW i \in Len(q) + 1 .. Len(s) PROVE s[i].tid # WalkerTid
  <2>1. CASE i \in 1 .. Len(r)
    <3>1. s[i].tid = r[i].tid /\ i \in Len(q) + 1 .. Len(r)
      BY <1>1, <2>1 DEF Grows
    <3> QED BY <3>1 DEF Grows
  <2>2. CASE i \in Len(r) + 1 .. Len(s)
    BY <2>2 DEF Grows
  <2> QED BY <1>1, <2>1, <2>2
<1> QED BY <1>1, <1>2, <1>3 DEF Grows

(* A merge only adds to the mask of an event.                              *)
LEMMA EnqueueGrows ==
  ASSUME NEW q \in Seq(KernelEvent), NEW ev \in KernelEvent, ev.tid # WalkerTid,
         \E type \in Mask : ev.mask = {type}
  PROVE  /\ Enqueue(ev, q) \in Seq(KernelEvent) /\ Grows(q, Enqueue(ev, q))
         /\ \A i \in Len(q) + 1 .. Len(Enqueue(ev, q)) : Enqueue(ev, q)[i] = ev
<1>1. Enqueue(ev, q) \in Seq(KernelEvent)
  BY EnqueueTyped
<1>2. CASE \E i \in DOMAIN q : Reports(q[i]) = Reports(ev)
  <2> DEFINE r == [i \in DOMAIN q |-> IF Reports(q[i]) = Reports(ev)
                                      THEN [q[i] EXCEPT !.mask = @ \cup ev.mask] ELSE q[i]]
  <2>1. Enqueue(ev, q) = r
    BY <1>2 DEF Enqueue
  <2>2. Len(r) = Len(q)
    OBVIOUS
  <2>3. ASSUME NEW i \in 1 .. Len(q)
        PROVE  r[i].tid = q[i].tid /\ r[i].fh = q[i].fh /\ r[i].new = q[i].new
    <3>1. q[i] \in KernelEvent
      OBVIOUS
    <3>2. r[i] = q[i] \/ r[i] = [q[i] EXCEPT !.mask = @ \cup ev.mask]
      <4>1. i \in DOMAIN q
        OBVIOUS
      <4> QED BY <4>1, Zenon
    <3> HIDE DEF r
    <3> QED BY <3>1, <3>2 DEF KernelEvent, Change, WalkerOpen
  <2> HIDE DEF r
  <2> QED BY <1>1, <2>1, <2>2, <2>3 DEF Grows
<1>3. CASE ~(\E i \in DOMAIN q : Reports(q[i]) = Reports(ev))
  <2>1. Enqueue(ev, q) = Append(q, ev)
    BY <1>3 DEF Enqueue
  <2> QED BY <1>1, <2>1 DEF Grows
<1> QED BY <1>2, <1>3

(* So does a system call, whose events are of what it did.                 *)
Tells(q, r, new, h) ==
  /\ r \in Seq(KernelEvent) /\ Grows(q, r)
  /\ \A i \in Len(q) + 1 .. Len(r) : r[i].new = new /\ r[i].fh = h

LEMMA ChangeGrows ==
  ASSUME NEW c, ops \in Nat, NEW type \in Mask, NEW old \in Place \cup {None}, NEW new \in Place,
         NEW h \in Handle, type = "RENAME" => old \in Place,
         NEW q \in Seq(KernelEvent)
  PROVE  Tells(q, Enqueue(Ev(type, UserTid(c), old, new, h), q), new, h)
<1> DEFINE ev == Ev(type, UserTid(c), old, new, h)
<1>1. UserTid(c) \in Nat \ {WalkerTid}
  BY DEF UserTid, WalkerTid
<1>2. /\ ev \in KernelEvent /\ ev.tid # WalkerTid /\ \E t \in Mask : ev.mask = {t}
      /\ ev.new = new /\ ev.fh = h
  BY <1>1 DEF Ev, KernelEvent, Change, Mask
<1> HIDE DEF ev
<1> DEFINE r == Enqueue(ev, q)
<1>3. r \in Seq(KernelEvent) /\ Grows(q, r) /\ \A i \in Len(q) + 1 .. Len(r) : r[i] = ev
  BY <1>2, EnqueueGrows
<1> HIDE DEF r
<1> QED BY <1>2, <1>3 DEF ev, r, Tells

-----------------------------------------------------------------------------
(* What keeps opens and hints in step.  The reader's own change of the     *)
(* queue, from buf to evq, is none.                                        *)
LEMMA QueueGrows ==
  ASSUME NEW b \in Seq(KernelEvent), NEW q \in Seq(KernelEvent), NEW r \in Seq(KernelEvent),
         Grows(q, r)
  PROVE  Grows(b \o q, b \o r)
<1>1. /\ Len(b) \in Nat /\ Len(q) \in Nat /\ Len(r) \in Nat /\ Len(q) <= Len(r)
      /\ Len(b \o q) = Len(b) + Len(q) /\ Len(b \o r) = Len(b) + Len(r)
  BY DEF Grows
<1>2. \A s \in Seq(KernelEvent) : \A i \in 1 .. Len(b) + Len(s) :
        (b \o s)[i] = IF i <= Len(b) THEN b[i] ELSE s[i - Len(b)]
  OBVIOUS
<1>3. ASSUME NEW i \in 1 .. Len(b \o q)
      PROVE  LET x == (b \o r)[i]
                 y == (b \o q)[i]
             IN  x.tid = y.tid /\ x.fh = y.fh /\ x.new = y.new
  <2>1. CASE i <= Len(b)
    <3>1. (b \o r)[i] = b[i] /\ (b \o q)[i] = b[i]
      BY <1>1, <1>2, <2>1
    <3> QED BY <3>1
  <2>2. CASE ~(i <= Len(b))
    <3>1. (b \o r)[i] = r[i - Len(b)] /\ (b \o q)[i] = q[i - Len(b)] /\ i - Len(b) \in 1 .. Len(q)
      BY <1>1, <1>2, <2>2
    <3> QED BY <3>1 DEF Grows
  <2> QED BY <2>1, <2>2
<1>4. ASSUME NEW i \in Len(b \o q) + 1 .. Len(b \o r) PROVE (b \o r)[i].tid # WalkerTid
  <2>1. (b \o r)[i] = r[i - Len(b)] /\ i - Len(b) \in Len(q) + 1 .. Len(r)
    BY <1>1, <1>2
  <2> QED BY <2>1 DEF Grows
<1> QED BY <1>1, <1>3, <1>4 DEF Grows

(* Events of other threads take no hint.                                   *)
LEMMA GrownInStep ==
  ASSUME NEW q \in Seq(KernelEvent), NEW r \in Seq(KernelEvent), Grows(q, r),
         NEW hs \in Seq(Hint), NEW st, NEW fr, NEW f, InStep(q, hs, st, fr, f)
  PROVE  InStep(r, hs, st, fr, f)
<1>1. PICK T, u : Stacks(T, hs, st) /\ Matched(T, u, q, hs) /\ OnTop(T[Len(hs)], fr, f)
  BY DEF InStep
<1> DEFINE m == Len(q)
           v == [k \in 0 .. Len(r) |-> IF k <= m THEN u[k] ELSE u[m]]
<1>2. m \in Nat /\ Len(r) \in Nat /\ m <= Len(r) /\ Len(hs) \in Nat
  BY DEF Grows
<1>3. \A k \in 0 .. m : u[k] \in 0 .. Len(hs)
  BY <1>1 DEF Matched
<1>4. v \in [0 .. Len(r) -> 0 .. Len(hs)] /\ v[0] = 0
  <2>1. u[0] = 0
    BY <1>1 DEF Matched
  <2> HIDE DEF m
  <2> QED BY <1>2, <1>3, <2>1
<1>5. ASSUME NEW k \in 1 .. Len(r)
      PROVE  IF r[k].tid = WalkerTid THEN Pair(T, v[k - 1], v[k], r[k], hs) ELSE v[k] = v[k - 1]
  <2>1. CASE k <= m
    <3>1. v[k] = u[k] /\ v[k - 1] = u[k - 1] /\ k \in 1 .. m
      <4> HIDE DEF m
      <4> QED BY <1>2, <2>1
    <3>2. r[k].tid = q[k].tid /\ r[k].fh = q[k].fh /\ r[k].new = q[k].new
      BY <3>1 DEF Grows
    <3>3. IF q[k].tid = WalkerTid THEN Pair(T, u[k - 1], u[k], q[k], hs) ELSE u[k] = u[k - 1]
      BY <1>1, <3>1 DEF Matched
    <3> HIDE DEF v
    <3> QED BY <3>1, <3>2, <3>3 DEF Pair
  <2>2. CASE ~(k <= m)
    <3>1. k \in m + 1 .. Len(r) /\ v[k] = u[m] /\ v[k - 1] = u[m]
      <4> HIDE DEF m
      <4>1. k \in m + 1 .. Len(r) /\ k - 1 \in 0 .. Len(r) /\ (k - 1 <= m => k - 1 = m)
        BY <1>2, <2>2
      <4>2. v[k - 1] = (IF k - 1 <= m THEN u[k - 1] ELSE u[m]) /\ v[k] = u[m]
        BY <1>2, <2>2, <4>1
      <4> HIDE DEF v
      <4> QED BY <4>1, <4>2, Zenon
    <3>2. r[k].tid # WalkerTid
      BY <3>1 DEF Grows
    <3> QED BY <3>1, <3>2
  <2> QED BY <2>1, <2>2
<1>6. v[Len(r)] = u[m]
  <2> HIDE DEF m
  <2> QED BY <1>2
<1>7. Matched(T, v, r, hs)
  <2> HIDE DEF v
  <2> QED BY <1>1, <1>4, <1>5, <1>6 DEF Matched
<1> HIDE DEF v
<1> QED BY <1>1, <1>7 DEF InStep

(* The walker goes on without an open or a hint.                           *)
LEMMA SameTop ==
  ASSUME NEW q, NEW hs \in Seq(Hint), NEW st, NEW fr, NEW f, NEW fr2, NEW f2,
         InStep(q, hs, st, fr, f),
         \A s \in Seq(Handle) : OnTop(s, fr, f) => OnTop(s, fr2, f2)
  PROVE  InStep(q, hs, st, fr2, f2)
<1>1. PICK T, u : Stacks(T, hs, st) /\ Matched(T, u, q, hs) /\ OnTop(T[Len(hs)], fr, f)
  BY DEF InStep
<1>2. T[Len(hs)] \in Seq(Handle)
  BY <1>1 DEF Stacks
<1> QED BY <1>1, <1>2 DEF InStep

(* One more hint: the stacks before it are as they were.                   *)
LEMMA OneMore ==
  ASSUME NEW hs \in Seq(Hint), NEW h \in Hint, NEW T, NEW st, Stacks(T, hs, st),
         NEW top \in Seq(Handle),
         h.type = "PopChildren" => T[Len(hs)] # <<>> /\ top = Front(T[Len(hs)])
  PROVE  \E U : /\ Stacks(U, Append(hs, h), st)
                /\ \A i \in 0 .. Len(hs) : U[i] = T[i]
                /\ U[Len(hs) + 1] = top
<1> DEFINE n == Len(hs)
           hh == Append(hs, h)
           U == [i \in 0 .. n + 1 |-> IF i = n + 1 THEN top ELSE T[i]]
<1>1. n \in Nat /\ hh \in Seq(Hint) /\ Len(hh) = n + 1 /\ hh[n + 1] = h /\ \A i \in 1 .. n : hh[i] = hs[i]
  OBVIOUS
<1>2. T \in [0 .. n -> Seq(Handle)] /\ T[0] = st
  BY DEF Stacks
<1>3. U[n + 1] = top /\ \A i \in 0 .. n : U[i] = T[i]
  <2> HIDE DEF n
  <2> QED BY <1>1
<1>4. U \in [0 .. n + 1 -> Seq(Handle)] /\ U[0] = st
  <2> HIDE DEF n
  <2> QED BY <1>1, <1>2, <1>3
<1>5. ASSUME NEW i \in 1 .. n + 1, hh[i].type = "PopChildren"
      PROVE  U[i - 1] # <<>> /\ U[i] = Front(U[i - 1])
  <2>1. CASE i \in 1 .. n
    <3>1. hs[i].type = "PopChildren" /\ U[i] = T[i] /\ U[i - 1] = T[i - 1]
      <4>1. i \in 0 .. n /\ i - 1 \in 0 .. n
        BY <1>1, <2>1
      <4> HIDE DEF U, hh
      <4> QED BY <1>1, <1>3, <1>5, <2>1, <4>1
    <3> HIDE DEF U, hh
    <3> QED BY <2>1, <3>1 DEF Stacks
  <2>2. CASE i = n + 1
    <3>1. h.type = "PopChildren" /\ U[i] = top /\ U[i - 1] = T[n]
      <4>1. i - 1 = n /\ n \in 0 .. n
        BY <1>1, <2>2
      <4> HIDE DEF U, hh, n
      <4> QED BY <1>1, <1>3, <1>5, <2>2, <4>1
    <3> HIDE DEF U, hh
    <3> QED BY <3>1
  <2> HIDE DEF n, hh, U
  <2> QED BY <1>1, <2>1, <2>2
<1>6. Stacks(U, hh, st)
  <2> HIDE DEF U, hh, n
  <2> QED BY <1>1, <1>4, <1>5 DEF Stacks
<1> HIDE DEF U
<1> QED BY <1>3, <1>6

(* The walker opens something, and a hint for it follows.                  *)
LEMMA OpenInStep ==
  ASSUME NEW q \in Seq(KernelEvent), NEW ev \in KernelEvent, ev.tid = WalkerTid,
         NEW hs \in Seq(Hint), NEW h \in Hint, h.type # "PopChildren",
         NEW st, NEW fr \in Seq(Frame), NEW fr2 \in Seq(Frame), NEW f,
         h.type = "PushChildren" => fr # <<>> /\ ev.new = [p |-> LastOf(fr).dir, n |-> h.name],
         Len(fr2) = Len(fr), \A j \in 1 .. Len(fr) : fr2[j].dir = fr[j].dir,
         f # None, f.h = ev.fh,
         InStep(q, hs, st, fr, None)
  PROVE  InStep(Append(q, ev), Append(hs, h), st, fr2, f)
<1>1. PICK T, u : Stacks(T, hs, st) /\ Matched(T, u, q, hs) /\ OnTop(T[Len(hs)], fr, None)
  BY DEF InStep
<1> DEFINE n == Len(hs)
           m == Len(q)
           hh == Append(hs, h)
           qq == Append(q, ev)
           top == Append(T[n], ev.fh)
<1>2. n \in Nat /\ m \in Nat /\ ev.fh \in Handle
  BY DEF KernelEvent, Change, WalkerOpen
<1>3. T[n] \in Seq(Handle) /\ u \in [0 .. m -> 0 .. n] /\ u[0] = 0
  <2>1. T \in [0 .. n -> Seq(Handle)]
    BY <1>1 DEF Stacks
  <2>2. u \in [0 .. m -> 0 .. n] /\ u[0] = 0
    BY <1>1 DEF Matched
  <2>3. n \in 0 .. n
    BY <1>2
  <2> HIDE DEF n, m
  <2> QED BY <2>1, <2>2, <2>3
<1>4. /\ Len(hh) = n + 1 /\ hh[n + 1] = h /\ \A i \in 1 .. n : hh[i] = hs[i]
      /\ Len(qq) = m + 1 /\ qq[m + 1] = ev /\ \A k \in 1 .. m : qq[k] = q[k]
      /\ hh \in Seq(Hint)
  OBVIOUS
<1>5. top \in Seq(Handle) /\ Len(top) = Len(T[n]) + 1 /\ top[Len(top)] = ev.fh
      /\ \A j \in 1 .. Len(T[n]) : top[j] = T[n][j]
  <2> HIDE DEF n
  <2> QED BY <1>2, <1>3
<1>6. PICK U : Stacks(U, hh, st) /\ (\A i \in 0 .. n : U[i] = T[i]) /\ U[n + 1] = top
  <2> HIDE DEF top
  <2> QED BY <1>1, <1>5, OneMore
<1> DEFINE v == [k \in 0 .. m + 1 |-> IF k = m + 1 THEN n + 1 ELSE u[k]]
<1>7. v[m + 1] = n + 1 /\ \A k \in 0 .. m : v[k] = u[k]
  <2> HIDE DEF n, m
  <2> QED BY <1>2
<1>8. v \in [0 .. m + 1 -> 0 .. n + 1] /\ v[0] = 0
  <2>1. \A k \in 0 .. m : u[k] \in 0 .. n + 1
    <3> HIDE DEF n, m
    <3> QED BY <1>2, <1>3
  <2> HIDE DEF n, m
  <2> QED BY <1>2, <1>3, <1>7, <2>1
<1> HIDE DEF v
<1>9. OnTop(top, fr2, f)
  <2>1. /\ Len(fr) \in Nat /\ Len(T[n]) \in Nat /\ Len(T[n]) >= Len(fr)
        /\ \A j \in 1 .. Len(fr) : T[n][Len(T[n]) - 0 - Len(fr) + j] = fr[j].dir
    BY <1>1, <1>3 DEF OnTop, Extra
  <2>2. ASSUME NEW j \in 1 .. Len(fr)
        PROVE  top[Len(top) - 1 - Len(fr) + j] = fr2[j].dir
    <3>1. /\ Len(top) - 1 - Len(fr) + j = Len(T[n]) - 0 - Len(fr) + j
          /\ Len(T[n]) - 0 - Len(fr) + j \in 1 .. Len(T[n])
      <4> HIDE DEF top, n
      <4> QED BY <1>5, <2>1
    <3> HIDE DEF top, n
    <3> QED BY <1>5, <2>1, <3>1
  <2>3. Len(top) >= Len(fr2) + 1 /\ LastOf(top) = f.h
    <3> HIDE DEF top, n
    <3> QED BY <1>5, <2>1 DEF LastOf
  <2>4. Extra(f) = 1
    BY DEF Extra
  <2> HIDE DEF top
  <2> QED BY <2>2, <2>3, <2>4 DEF OnTop
<1>10. Pair(U, u[m], n + 1, ev, hh)
  <2>1. u[m] \in 0 .. n
    <3> HIDE DEF n, m
    <3> QED BY <1>2, <1>3
  <2>2. \A i \in u[m] + 1 .. (n + 1) - 1 : hh[i].type = "PopChildren"
    <3>1. \A i \in u[m] + 1 .. n : hs[i].type = "PopChildren"
      BY <1>1 DEF Matched
    <3>2. \A i \in 1 .. n : hh[i] = hs[i]
      BY <1>4
    <3>3. \A i \in u[m] + 1 .. (n + 1) - 1 : i \in 1 .. n /\ i \in u[m] + 1 .. n
      <4> HIDE DEF n, m
      <4> QED BY <1>2, <2>1
    <3> HIDE DEF n, m, hh
    <3> QED BY <3>1, <3>2, <3>3
  <2>3. U[(n + 1) - 1] = T[n]
    <3> HIDE DEF n
    <3> QED BY <1>2, <1>6
  <2>4. hh[n + 1].type = "PushChildren" => T[n] # <<>> /\ ev.new = [p |-> LastOf(T[n]), n |-> hh[n + 1].name]
    <3>1. SUFFICES ASSUME h.type = "PushChildren"
                   PROVE  T[n] # <<>> /\ LastOf(T[n]) = LastOf(fr).dir
      <4> HIDE DEF hh, n
      <4> QED BY <1>4, <3>1
    <3>2. Len(fr) \in Nat \ {0}
      BY <3>1, EmptySeq
    <3>3. /\ Len(T[n]) \in Nat /\ Len(T[n]) >= Len(fr)
          /\ T[n][Len(T[n]) - 0 - Len(fr) + Len(fr)] = fr[Len(fr)].dir
      <4>1. Len(fr) \in 1 .. Len(fr)
        BY <3>2
      <4> QED BY <1>1, <1>3, <4>1 DEF OnTop, Extra
    <3> HIDE DEF n
    <3> QED BY <1>3, <3>2, <3>3 DEF LastOf
  <2> HIDE DEF hh, n, m
  <2> QED BY <1>2, <1>4, <1>6, <2>1, <2>2, <2>3, <2>4 DEF Pair
<1>11. ASSUME NEW k \in 1 .. m + 1
       PROVE  IF qq[k].tid = WalkerTid THEN Pair(U, v[k - 1], v[k], qq[k], hh) ELSE v[k] = v[k - 1]
  <2>1. CASE k \in 1 .. m
    <3>1. k \in 0 .. m /\ k - 1 \in 0 .. m
      <4> HIDE DEF m
      <4> QED BY <1>2, <2>1
    <3>2. v[k] = u[k] /\ v[k - 1] = u[k - 1] /\ qq[k] = q[k] /\ u[k] \in 0 .. n /\ u[k - 1] \in 0 .. n
      <4> HIDE DEF qq, m, n
      <4> QED BY <1>3, <1>4, <1>7, <2>1, <3>1
    <3>3. IF q[k].tid = WalkerTid THEN Pair(T, u[k - 1], u[k], q[k], hs) ELSE u[k] = u[k - 1]
      BY <1>1, <2>1 DEF Matched
    <3>4. ASSUME Pair(T, u[k - 1], u[k], q[k], hs) PROVE Pair(U, u[k - 1], u[k], q[k], hh)
      <4>1. /\ u[k] \in 1 .. n /\ u[k] - 1 \in 0 .. n
            /\ \A i \in u[k - 1] + 1 .. u[k] - 1 : i \in 1 .. n
        <5>1. u[k - 1] < u[k]
          BY <3>4 DEF Pair
        <5> HIDE DEF n, m
        <5> QED BY <1>2, <3>2, <5>1
      <4>2. /\ U[u[k]] = T[u[k]] /\ U[u[k] - 1] = T[u[k] - 1] /\ hh[u[k]] = hs[u[k]]
            /\ \A i \in u[k - 1] + 1 .. u[k] - 1 : hh[i] = hs[i]
        <5> HIDE DEF n, m, hh
        <5> QED BY <1>4, <1>6, <3>2, <4>1
      <4> HIDE DEF n, m, hh
      <4> QED BY <3>4, <4>2 DEF Pair
    <3> HIDE DEF n, m, hh, qq
    <3> QED BY <3>2, <3>3, <3>4
  <2>2. CASE k = m + 1
    <3>1. qq[k] = ev /\ v[k] = n + 1 /\ v[k - 1] = u[m]
      <4>1. k - 1 = m /\ m \in 0 .. m
        <5> HIDE DEF m
        <5> QED BY <1>2, <2>2
      <4> HIDE DEF n, m, qq
      <4> QED BY <1>4, <1>7, <2>2, <4>1
    <3> HIDE DEF n, m, hh, qq
    <3> QED BY <1>10, <3>1
  <2> HIDE DEF m, n, qq, hh
  <2> QED BY <1>2, <2>1, <2>2
<1>12. Matched(U, v, qq, hh)
  <2>1. \A i \in v[m + 1] + 1 .. n + 1 : hh[i].type = "PopChildren"
    <3> HIDE DEF n, m, hh
    <3> QED BY <1>2, <1>7
  <2> HIDE DEF n, m, qq, hh
  <2> QED BY <1>4, <1>8, <1>11, <2>1 DEF Matched
<1>13. OnTop(U[Len(hh)], fr2, f)
  <2> HIDE DEF n, hh, top
  <2> QED BY <1>4, <1>6, <1>9
<1> HIDE DEF qq, hh
<1> QED BY <1>6, <1>12, <1>13 DEF InStep, qq, hh

(* The walker logs a PopChildren.                                          *)
LEMMA PopInStep ==
  ASSUME NEW q \in Seq(KernelEvent), NEW hs \in Seq(Hint), NEW st,
         NEW fr, NEW f, NEW fr2, NEW f2,
         \A s \in Seq(Handle) : OnTop(s, fr, f) => s # <<>> /\ OnTop(Front(s), fr2, f2),
         InStep(q, hs, st, fr, f)
  PROVE  InStep(q, Append(hs, PopChildren), st, fr2, f2)
<1>1. PICK T, u : Stacks(T, hs, st) /\ Matched(T, u, q, hs) /\ OnTop(T[Len(hs)], fr, f)
  BY DEF InStep
<1> DEFINE n == Len(hs)
           hh == Append(hs, PopChildren)
           top == Front(T[n])
<1>2. PopChildren \in Hint /\ PopChildren.type = "PopChildren" /\ n \in Nat /\ Len(q) \in Nat
  BY HintTypes
<1>3. T[n] \in Seq(Handle) /\ T[n] # <<>> /\ OnTop(top, fr2, f2)
  BY <1>1, <1>2 DEF Stacks
<1>4. top \in Seq(Handle)
  <2> HIDE DEF n
  <2> QED BY <1>3, FrontTyped
<1>5. PICK U : Stacks(U, hh, st) /\ (\A i \in 0 .. n : U[i] = T[i]) /\ U[n + 1] = top
  <2>1. \E U : Stacks(U, hh, st) /\ (\A i \in 0 .. n : U[i] = T[i]) /\ U[n + 1] = top
    <3> HIDE DEF top
    <3>1. PopChildren.type = "PopChildren" => T[n] # <<>> /\ top = Front(T[n])
      BY <1>3 DEF top
    <3> QED BY <1>1, <1>2, <1>4, <3>1, OneMore
  <2> QED BY <2>1
<1>6. Len(hh) = n + 1 /\ hh[n + 1] = PopChildren /\ \A i \in 1 .. n : hh[i] = hs[i]
  BY <1>2
<1>7. u \in [0 .. Len(q) -> 0 .. n] /\ u[0] = 0
  BY <1>1 DEF Matched
<1>8. u \in [0 .. Len(q) -> 0 .. n + 1]
  <2> HIDE DEF n
  <2> QED BY <1>2, <1>7
<1>9. ASSUME NEW k \in 1 .. Len(q)
      PROVE  IF q[k].tid = WalkerTid THEN Pair(U, u[k - 1], u[k], q[k], hh) ELSE u[k] = u[k - 1]
  <2>1. IF q[k].tid = WalkerTid THEN Pair(T, u[k - 1], u[k], q[k], hs) ELSE u[k] = u[k - 1]
    BY <1>1 DEF Matched
  <2>2. ASSUME Pair(T, u[k - 1], u[k], q[k], hs) PROVE Pair(U, u[k - 1], u[k], q[k], hh)
    <3>1. u[k - 1] < u[k]
      BY <2>2 DEF Pair
    <3>2. u[k] \in 0 .. n /\ u[k - 1] \in 0 .. n
      <4>1. k \in 0 .. Len(q) /\ k - 1 \in 0 .. Len(q)
        BY <1>2
      <4> HIDE DEF n
      <4> QED BY <1>7, <4>1
    <3>3. /\ u[k] \in 1 .. n /\ u[k] - 1 \in 0 .. n
          /\ \A i \in u[k - 1] + 1 .. u[k] - 1 : i \in 1 .. n
      <4> HIDE DEF n
      <4> QED BY <1>2, <3>1, <3>2
    <3>4. /\ U[u[k]] = T[u[k]] /\ U[u[k] - 1] = T[u[k] - 1] /\ hh[u[k]] = hs[u[k]]
          /\ \A i \in u[k - 1] + 1 .. u[k] - 1 : hh[i] = hs[i]
      <4> HIDE DEF n, hh
      <4> QED BY <1>5, <1>6, <3>2, <3>3
    <3> HIDE DEF n, hh
    <3> QED BY <2>2, <3>4 DEF Pair
  <2> HIDE DEF hh
  <2> QED BY <2>1, <2>2
<1>10. \A i \in u[Len(q)] + 1 .. n + 1 : hh[i].type = "PopChildren"
  <2>1. \A i \in u[Len(q)] + 1 .. n : hs[i].type = "PopChildren"
    BY <1>1 DEF Matched
  <2>2. u[Len(q)] \in 0 .. n
    <3> HIDE DEF n
    <3> QED BY <1>2, <1>7
  <2>3. ASSUME NEW i \in u[Len(q)] + 1 .. n + 1 PROVE hh[i].type = "PopChildren"
    <3>1. CASE i = n + 1
      <4> HIDE DEF n, hh
      <4> QED BY <1>2, <1>6, <3>1
    <3>2. CASE i # n + 1
      <4> HIDE DEF n, hh
      <4>1. i \in u[Len(q)] + 1 .. n /\ i \in 1 .. n
        BY <1>2, <2>2, <3>2
      <4> QED BY <1>6, <2>1, <4>1
    <3> QED BY <3>1, <3>2
  <2> QED BY <2>3
<1>11. Matched(U, u, q, hh)
  <2> HIDE DEF n, hh
  <2> QED BY <1>6, <1>7, <1>8, <1>9, <1>10 DEF Matched
<1>12. OnTop(U[Len(hh)], fr2, f2)
  <2> HIDE DEF n, hh, top
  <2> QED BY <1>3, <1>5, <1>6
<1> HIDE DEF hh
<1> QED BY <1>5, <1>11, <1>12 DEF InStep, hh

-----------------------------------------------------------------------------
(* What the reader takes off the queue.  An event of another thread takes  *)
(* no hint.                                                                *)
LEMMA ChangeTaken ==
  ASSUME NEW q \in Seq(KernelEvent), q # <<>>, Head(q).tid # WalkerTid,
         NEW hs \in Seq(Hint), NEW st, NEW fr, NEW f, InStep(q, hs, st, fr, f)
  PROVE  InStep(Tail(q), hs, st, fr, f)
<1>1. PICK T, u : Stacks(T, hs, st) /\ Matched(T, u, q, hs) /\ OnTop(T[Len(hs)], fr, f)
  BY DEF InStep
<1> DEFINE m == Len(q)
           n == Len(hs)
           qq == Tail(q)
           v == [k \in 0 .. m - 1 |-> u[k + 1]]
<1>2. m \in Nat \ {0} /\ Len(qq) = m - 1 /\ (\A k \in 1 .. m - 1 : qq[k] = q[k + 1]) /\ Head(q) = q[1]
  BY EmptySeq
<1>3. u \in [0 .. m -> 0 .. n] /\ u[0] = 0
  BY <1>1 DEF Matched
<1>4. u[1] = 0
  <2>1. 1 \in 1 .. m
    BY <1>2
  <2>2. u[1] = u[1 - 1]
    BY <1>1, <1>2, <2>1 DEF Matched
  <2> QED BY <1>3, <2>2
<1>5. \A k \in 0 .. m - 1 : v[k] = u[k + 1]
  OBVIOUS
<1>6. v \in [0 .. m - 1 -> 0 .. n] /\ v[0] = 0
  <2>1. \A k \in 0 .. m - 1 : k + 1 \in 0 .. m
    BY <1>2
  <2>2. 0 \in 0 .. m - 1 /\ 0 + 1 = 1
    BY <1>2
  <2> HIDE DEF m, n
  <2> QED BY <1>3, <1>4, <1>5, <2>1, <2>2
<1> HIDE DEF v
<1>7. ASSUME NEW k \in 1 .. m - 1
      PROVE  IF qq[k].tid = WalkerTid THEN Pair(T, v[k - 1], v[k], qq[k], hs) ELSE v[k] = v[k - 1]
  <2>1. k + 1 \in 1 .. m /\ k \in 0 .. m - 1 /\ k - 1 \in 0 .. m - 1 /\ (k - 1) + 1 = k /\ (k + 1) - 1 = k
    <3> HIDE DEF m
    <3> QED BY <1>2
  <2>2. v[k] = u[k + 1] /\ v[k - 1] = u[k] /\ qq[k] = q[k + 1]
    <3> HIDE DEF m, qq
    <3> QED BY <1>2, <1>5, <2>1
  <2>3. IF q[k + 1].tid = WalkerTid THEN Pair(T, u[(k + 1) - 1], u[k + 1], q[k + 1], hs)
                                    ELSE u[k + 1] = u[(k + 1) - 1]
    BY <1>1, <2>1 DEF Matched
  <2> HIDE DEF m, qq
  <2> QED BY <2>1, <2>2, <2>3
<1>8. v[m - 1] = u[m]
  <2>1. m - 1 \in 0 .. m - 1 /\ (m - 1) + 1 = m
    BY <1>2
  <2> HIDE DEF m
  <2> QED BY <1>5, <2>1
<1>9. Matched(T, v, qq, hs)
  <2>1. \A i \in v[m - 1] + 1 .. n : hs[i].type = "PopChildren"
    BY <1>1, <1>8 DEF Matched
  <2> HIDE DEF m, qq
  <2> QED BY <1>2, <1>6, <1>7, <2>1 DEF Matched
<1> HIDE DEF qq
<1> QED BY <1>1, <1>9 DEF InStep, qq

(* Front takes the last element only.                                      *)
LEMMA FrontSame ==
  ASSUME NEW S, NEW s \in Seq(S), s # <<>>
  PROVE  Len(Front(s)) = Len(s) - 1 /\ \A j \in 1 .. Len(s) - 1 : Front(s)[j] = s[j]
<1> DEFINE m == Len(s) - 1
<1>1. Len(Front(s)) = m /\ m \in Nat
  BY FrontTyped
<1>2. \A j \in 1 .. m : s[j] \in S
  BY <1>1
<1>3. \A j \in 1 .. m - 1 + 1 : SubSeq(s, 1, m)[j] = s[1 + j - 1]
  <2>1. m \in Int
    BY <1>1
  <2> HIDE DEF m
  <2> QED BY <1>2, <2>1, SubSeqProperties
<1>4. m - 1 + 1 = m /\ \A j \in 1 .. m : 1 + j - 1 = j
  BY <1>1
<1> QED BY <1>1, <1>3, <1>4 DEF Front

(* The PopChildren before a hint take the end of the stack.                *)
LEMMA StacksPopped ==
  ASSUME NEW hs \in Seq(Hint), NEW T, NEW st \in Seq(Handle), Stacks(T, hs, st),
         NEW n \in 0 .. Len(hs), \A j \in 1 .. n : hs[j].type = "PopChildren"
  PROVE  n <= Len(st) /\ T[n] = SubSeq(st, 1, Len(st) - n)
<1> DEFINE Left(s, k) == /\ k <= Len(st) /\ Len(s) = Len(st) - k
                         /\ \A j \in 1 .. Len(st) - k : s[j] = st[j]
           S == {k \in Nat : k <= n => Left(T[k], k)}
<1>1. n \in Nat /\ n <= Len(hs) /\ Len(hs) \in Nat /\ Len(st) \in Nat
  OBVIOUS
<1>2. T \in [0 .. Len(hs) -> Seq(Handle)] /\ T[0] = st
  BY DEF Stacks
<1>3. 0 \in S
  BY <1>1, <1>2
<1>4. ASSUME NEW k \in Nat, k \in S PROVE k + 1 \in S
  <2> SUFFICES ASSUME k + 1 <= n PROVE Left(T[k + 1], k + 1)
    OBVIOUS
  <2>1. k + 1 \in 1 .. n /\ k + 1 \in 1 .. Len(hs) /\ k \in 0 .. Len(hs) /\ (k + 1) - 1 = k
    BY <1>1
  <2>2. T[k] # <<>> /\ T[k + 1] = Front(T[k])
    BY <2>1 DEF Stacks
  <2>3. T[k] \in Seq(Handle) /\ Left(T[k], k)
    <3>1. k <= n
      BY <1>1
    <3>2. Left(T[k], k)
      BY <1>4, <3>1
    <3> HIDE DEF Left
    <3> QED BY <1>2, <2>1, <3>2
  <2>4. Len(T[k]) \in Nat \ {0} /\ Len(T[k + 1]) = Len(T[k]) - 1
    BY <2>2, <2>3, FrontTyped
  <2>5. \A j \in 1 .. Len(T[k]) - 1 : T[k + 1][j] = T[k][j]
    BY <2>2, <2>3, FrontSame
  <2>6. k + 1 <= Len(st) /\ Len(T[k + 1]) = Len(st) - (k + 1)
    BY <1>1, <2>3, <2>4
  <2>7. ASSUME NEW j \in 1 .. Len(st) - (k + 1) PROVE T[k + 1][j] = st[j]
    <3>1. j \in 1 .. Len(T[k]) - 1 /\ j \in 1 .. Len(st) - k
      BY <1>1, <2>3
    <3> QED BY <2>3, <2>5, <3>1
  <2> QED BY <2>6, <2>7
<1>5. n \in S
  <2> HIDE DEF S
  <2> QED BY <1>1, <1>3, <1>4, Induction
<1>6. Left(T[n], n) /\ T[n] \in Seq(Handle)
  BY <1>1, <1>2, <1>5
<1>7. /\ SubSeq(st, 1, Len(st) - n) \in Seq(Handle)
      /\ Len(SubSeq(st, 1, Len(st) - n)) = Len(st) - n
      /\ \A j \in 1 .. Len(st) - n : SubSeq(st, 1, Len(st) - n)[j] = st[j]
  <2>1. Len(st) - n \in 0 .. Len(st) /\ \A j \in 1 .. Len(st) - n : st[j] \in Handle
    BY <1>1, <1>6
  <2> DEFINE x == Len(st) - n
  <2>2. x \in 0 .. Len(st)
    BY <2>1
  <2>3. /\ SubSeq(st, 1, x) \in Seq(Handle)
        /\ Len(SubSeq(st, 1, x)) = IF 1 <= x THEN x - 1 + 1 ELSE 0
        /\ \A j \in 1 .. x - 1 + 1 : SubSeq(st, 1, x)[j] = st[1 + j - 1]
    <3>1. x \in Int /\ \A j \in 1 .. x : st[j] \in Handle
      BY <1>1, <2>1
    <3> HIDE DEF x
    <3> QED BY <3>1, SubSeqProperties
  <2>4. x - 1 + 1 = x /\ (~(1 <= x) => x = 0) /\ \A j \in 1 .. x : 1 + j - 1 = j
    <3>1. x \in Nat
      BY <1>1, <2>2
    <3> HIDE DEF x
    <3> QED BY <3>1
  <2>5. Len(SubSeq(st, 1, x)) = x
    <3> HIDE DEF x
    <3> QED BY <2>3, <2>4
  <2>6. \A j \in 1 .. x : SubSeq(st, 1, x)[j] = st[j]
    <3> HIDE DEF x
    <3> QED BY <2>3, <2>4
  <2> QED BY <2>3, <2>5, <2>6
<1> DEFINE a == T[n]
           b == SubSeq(st, 1, Len(st) - n)
<1>8. a \in Seq(Handle) /\ b \in Seq(Handle) /\ Len(a) = Len(b) /\ \A j \in 1 .. Len(a) : a[j] = b[j]
  BY <1>6, <1>7
<1>9. a = b
  <2> HIDE DEF a, b
  <2> QED BY <1>8, SeqEqual
<1> QED BY <1>6, <1>9

(* An open takes the hint submit finds, which names where it was made.     *)
LEMMA OpenTaken ==
  ASSUME NEW q \in Seq(KernelEvent), q # <<>>, Head(q).tid = WalkerTid,
         NEW hs \in Seq(Hint), NEW st \in Seq(Handle), NEW fr, NEW f, InStep(q, hs, st, fr, f),
         NEW i \in 1 .. Len(hs), hs[i].type # "PopChildren",
         \A j \in 1 .. i - 1 : hs[j].type = "PopChildren"
  PROVE  LET below == SubSeq(st, 1, Len(st) - (i - 1))
         IN  /\ InStep(Tail(q), SubSeq(hs, i + 1, Len(hs)), Append(below, Head(q).fh), fr, f)
             /\ hs[i].type = "PushChildren" =>
                  Head(q).new = [p |-> LastOf(below), n |-> hs[i].name]
<1>1. PICK T, u : Stacks(T, hs, st) /\ Matched(T, u, q, hs) /\ OnTop(T[Len(hs)], fr, f)
  BY DEF InStep
<1> DEFINE m == Len(q)
           n == Len(hs)
           ev == Head(q)
           qq == Tail(q)
           hh == SubSeq(hs, i + 1, n)
           below == SubSeq(st, 1, Len(st) - (i - 1))
<1>2. m \in Nat \ {0} /\ Len(qq) = m - 1 /\ (\A k \in 1 .. m - 1 : qq[k] = q[k + 1]) /\ ev = q[1]
  BY EmptySeq
<1>3. /\ u \in [0 .. m -> 0 .. n] /\ u[0] = 0 /\ n \in Nat
      /\ T \in [0 .. n -> Seq(Handle)] /\ T[0] = st
  BY <1>1 DEF Matched, Stacks
<1>4. Pair(T, 0, u[1], ev, hs)
  <2>1. 1 \in 1 .. m /\ 1 - 1 = 0
    BY <1>2
  <2> HIDE DEF m, ev
  <2> QED BY <1>1, <1>2, <1>3, <2>1 DEF Matched, m, ev
<1>5. u[1] = i
  <2>1. u[1] \in 0 .. n /\ 0 < u[1]
    <3>1. 1 \in 0 .. m
      BY <1>2
    <3>2. u[1] \in 0 .. n
      <4> HIDE DEF m, n
      <4> QED BY <1>3, <3>1
    <3> QED BY <1>4, <3>2 DEF Pair
  <2>2. ~(u[1] < i)
    <3>1. SUFFICES ASSUME u[1] < i PROVE FALSE
      OBVIOUS
    <3>2. u[1] \in 1 .. i - 1
      <4> HIDE DEF n
      <4> QED BY <1>3, <2>1, <3>1
    <3> QED BY <1>4, <3>2 DEF Pair
  <2>3. ~(i < u[1])
    <3>1. SUFFICES ASSUME i < u[1] PROVE FALSE
      OBVIOUS
    <3>2. i \in 0 + 1 .. u[1] - 1
      <4> HIDE DEF n
      <4> QED BY <1>3, <2>1, <3>1
    <3> QED BY <1>4, <3>2 DEF Pair
  <2> HIDE DEF n
  <2> QED BY <1>3, <2>1, <2>2, <2>3
<1>6. T[i - 1] = below /\ T[i] = Append(below, ev.fh)
      /\ (hs[i].type = "PushChildren" => ev.new = [p |-> LastOf(below), n |-> hs[i].name])
  <2>1. i - 1 \in 0 .. Len(hs)
    BY <1>3
  <2>2. T[i - 1] = below
    BY <1>1, <2>1, StacksPopped
  <2> HIDE DEF below, ev
  <2> QED BY <1>4, <1>5, <2>2 DEF Pair
<1>7. hh \in Seq(Hint) /\ Len(hh) = n - i /\ \A j \in 1 .. n - i : hh[j] = hs[i + j]
  <2>1. \A j \in i + 1 .. n : hs[j] \in Hint
    <3>1. \A j \in i + 1 .. n : j \in 1 .. n
      BY <1>3
    <3> QED BY <3>1
  <2>2. /\ hh \in Seq(Hint)
        /\ Len(hh) = IF i + 1 <= n THEN n - (i + 1) + 1 ELSE 0
        /\ \A j \in 1 .. n - (i + 1) + 1 : hh[j] = hs[(i + 1) + j - 1]
    <3>1. i + 1 \in Int /\ n \in Int
      BY <1>3
    <3> HIDE DEF n
    <3> QED BY <2>1, <3>1, SubSeqProperties
  <2>3. /\ i \in 1 .. n /\ n - (i + 1) + 1 = n - i
        /\ \A j \in 1 .. n - i : (i + 1) + j - 1 = i + j
    BY <1>3
  <2>4. Len(hh) = n - i
    <3> HIDE DEF n, hh
    <3> QED BY <1>3, <2>2, <2>3
  <2>5. ASSUME NEW j \in 1 .. n - i PROVE hh[j] = hs[i + j]
    <3>1. j \in 1 .. n - (i + 1) + 1 /\ (i + 1) + j - 1 = i + j
      <4> HIDE DEF n
      <4> QED BY <1>3, <2>3
    <3> HIDE DEF n, hh
    <3> QED BY <2>2, <3>1
  <2> HIDE DEF n, hh
  <2> QED BY <2>2, <2>4, <2>5
<1> DEFINE U == [j \in 0 .. n - i |-> T[i + j]]
           v == [k \in 0 .. m - 1 |-> u[k + 1] - i]
<1>8. (\A j \in 0 .. n - i : U[j] = T[i + j]) /\ (\A k \in 0 .. m - 1 : v[k] = u[k + 1] - i)
  OBVIOUS
<1>9. i \in 1 .. n /\ \A j \in 0 .. n - i : i + j \in 0 .. n
  BY <1>3
<1>10. \A k \in 1 .. m : u[k] \in i .. n /\ u[k - 1] <= u[k]
  <2>1. \A k \in 1 .. m : u[k] \in 0 .. n /\ u[k - 1] \in 0 .. n
    <3>1. \A k \in 1 .. m : k \in 0 .. m /\ k - 1 \in 0 .. m
      BY <1>2
    <3> HIDE DEF m, n
    <3> QED BY <1>3, <3>1
  <2>2. ASSUME NEW k \in 1 .. m PROVE u[k - 1] <= u[k]
    <3>1. IF q[k].tid = WalkerTid THEN Pair(T, u[k - 1], u[k], q[k], hs) ELSE u[k] = u[k - 1]
      BY <1>1 DEF Matched
    <3>2. u[k - 1] < u[k] \/ u[k] = u[k - 1]
      BY <3>1 DEF Pair
    <3> HIDE DEF m, n
    <3> QED BY <1>3, <2>1, <3>2
  <2> DEFINE S == {k \in Nat : k + 1 <= m => i <= u[k + 1]}
  <2>3. 0 \in S
    BY <1>5
  <2>4. ASSUME NEW k \in Nat, k \in S PROVE k + 1 \in S
    <3> SUFFICES ASSUME (k + 1) + 1 <= m PROVE i <= u[(k + 1) + 1]
      OBVIOUS
    <3>1. (k + 1) + 1 \in 1 .. m /\ k + 1 \in 1 .. m /\ k + 1 <= m /\ ((k + 1) + 1) - 1 = k + 1
      BY <1>2
    <3>2. u[k + 1] <= u[(k + 1) + 1] /\ u[k + 1] \in 0 .. n /\ u[(k + 1) + 1] \in 0 .. n
      <4> HIDE DEF m, n
      <4> QED BY <2>1, <2>2, <3>1
    <3>3. i <= u[k + 1]
      BY <2>4, <3>1
    <3> HIDE DEF m, n
    <3> QED BY <1>3, <1>9, <3>2, <3>3
  <2>5. \A k \in Nat : k \in S
    <3> HIDE DEF S
    <3> QED BY <2>3, <2>4, Induction
  <2>6. ASSUME NEW k \in 1 .. m PROVE i <= u[k]
    <3>1. k - 1 \in Nat /\ (k - 1) + 1 = k /\ k <= m
      BY <1>2
    <3>2. k - 1 \in S
      <4> HIDE DEF S
      <4> QED BY <2>5, <3>1
    <3> QED BY <3>1, <3>2
  <2> HIDE DEF m, n
  <2> QED BY <1>9, <1>3, <2>1, <2>2, <2>6
<1>11. v \in [0 .. m - 1 -> 0 .. n - i] /\ v[0] = 0 /\ v[m - 1] = u[m] - i
  <2>1. \A k \in 0 .. m - 1 : k + 1 \in 1 .. m
    BY <1>2
  <2>2. \A k \in 0 .. m - 1 : u[k + 1] - i \in 0 .. n - i
    <3> HIDE DEF m, n
    <3> QED BY <1>3, <1>9, <1>10, <2>1
  <2>3. 0 \in 0 .. m - 1 /\ m - 1 \in 0 .. m - 1 /\ (m - 1) + 1 = m /\ 0 + 1 = 1 /\ i - i = 0
    BY <1>2
  <2>4. v \in [0 .. m - 1 -> 0 .. n - i]
    <3> HIDE DEF m, n
    <3> QED BY <2>2
  <2> HIDE DEF m, n, v
  <2> QED BY <1>5, <1>8, <2>3, <2>4
<1>12. U \in [0 .. n - i -> Seq(Handle)] /\ U[0] = Append(below, ev.fh) /\ U[n - i] = T[n]
  <2>1. 0 \in 0 .. n - i /\ n - i \in 0 .. n - i /\ i + (n - i) = n /\ i + 0 = i
    BY <1>3
  <2>2. U \in [0 .. n - i -> Seq(Handle)]
    <3> HIDE DEF n
    <3> QED BY <1>3, <1>9
  <2> HIDE DEF n, U, below, ev
  <2> QED BY <1>6, <1>8, <2>1, <2>2
<1> HIDE DEF U, v
<1>13. Stacks(U, hh, Append(below, ev.fh))
  <2>1. ASSUME NEW j \in 1 .. n - i, hh[j].type = "PopChildren"
        PROVE  U[j - 1] # <<>> /\ U[j] = Front(U[j - 1])
    <3>1. /\ j \in 0 .. n - i /\ j - 1 \in 0 .. n - i /\ i + j \in 1 .. n
          /\ i + (j - 1) = (i + j) - 1
      <4>1. n \in Nat /\ i \in 1 .. n
        BY <1>3
      <4>2. j \in Int /\ 1 <= j /\ j <= n - i
        <5>1. n - i \in Int
          BY <4>1
        <5> HIDE DEF n
        <5> QED BY <5>1
      <4> HIDE DEF n
      <4> QED BY <4>1, <4>2
    <3>2. hs[i + j].type = "PopChildren"
      <4> HIDE DEF n, hh
      <4> QED BY <1>7, <2>1
    <3>3. T[(i + j) - 1] # <<>> /\ T[i + j] = Front(T[(i + j) - 1])
      BY <1>1, <3>1, <3>2 DEF Stacks
    <3> HIDE DEF n, hh
    <3> QED BY <1>8, <3>1, <3>3
  <2> HIDE DEF n, hh, below, ev
  <2> QED BY <1>7, <1>12, <2>1 DEF Stacks
<1>14. ASSUME NEW k \in 1 .. m - 1
       PROVE  IF qq[k].tid = WalkerTid THEN Pair(U, v[k - 1], v[k], qq[k], hh) ELSE v[k] = v[k - 1]
  <2>1. /\ k + 1 \in 1 .. m /\ k \in 1 .. m /\ k \in 0 .. m - 1 /\ k - 1 \in 0 .. m - 1
        /\ (k - 1) + 1 = k /\ (k + 1) - 1 = k
    BY <1>2
  <2>2. v[k] = u[k + 1] - i /\ v[k - 1] = u[k] - i /\ qq[k] = q[k + 1]
    <3> HIDE DEF m, qq
    <3> QED BY <1>2, <1>8, <2>1
  <2>3. IF q[k + 1].tid = WalkerTid THEN Pair(T, u[k], u[k + 1], q[k + 1], hs) ELSE u[k + 1] = u[k]
    BY <1>1, <2>1 DEF Matched
  <2>4. ASSUME Pair(T, u[k], u[k + 1], q[k + 1], hs)
        PROVE  Pair(U, u[k] - i, u[k + 1] - i, q[k + 1], hh)
    <3> DEFINE a == u[k]
               b == u[k + 1]
    <3>1. a \in i .. n /\ b \in i .. n
      <4> HIDE DEF m, n
      <4> QED BY <1>10, <2>1
    <3>2. a < b
      BY <2>4 DEF Pair
    <3>3. /\ a - i < b - i /\ b - i \in 1 .. n - i /\ i + (b - i) = b
          /\ b - i \in 0 .. n - i /\ (b - i) - 1 \in 0 .. n - i /\ i + ((b - i) - 1) = b - 1
          /\ \A j \in (a - i) + 1 .. (b - i) - 1 : j \in 1 .. n - i /\ i + j \in a + 1 .. b - 1
      <4>1. i \in 1 .. n /\ n \in Nat
        BY <1>3, <1>9
      <4> HIDE DEF a, b, n
      <4>2. a \in Int /\ b \in Int /\ i \in Int /\ i <= a /\ a < b /\ b <= n
        BY <3>1, <3>2, <4>1
      <4>3. \A j \in (a - i) + 1 .. (b - i) - 1 : j \in 1 .. n - i /\ i + j \in a + 1 .. b - 1
        BY <4>1, <4>2
      <4> QED BY <4>1, <4>2, <4>3
    <3>4. U[b - i] = T[b] /\ U[(b - i) - 1] = T[b - 1] /\ hh[b - i] = hs[b]
      <4> HIDE DEF a, b, n, hh
      <4> QED BY <1>7, <1>8, <3>3
    <3>5. \A j \in (a - i) + 1 .. (b - i) - 1 : hh[j].type = "PopChildren"
      <4>1. \A j \in a + 1 .. b - 1 : hs[j].type = "PopChildren"
        BY <2>4 DEF Pair
      <4> HIDE DEF a, b, n, hh
      <4> QED BY <1>7, <3>3, <4>1
    <3>6. /\ hs[b].type # "PopChildren" /\ T[b] = Append(T[b - 1], q[k + 1].fh)
          /\ hs[b].type = "PushChildren" =>
               T[b - 1] # <<>> /\ q[k + 1].new = [p |-> LastOf(T[b - 1]), n |-> hs[b].name]
      BY <2>4 DEF Pair
    <3> HIDE DEF a, b, n, hh
    <3>7. Pair(U, a - i, b - i, q[k + 1], hh)
      BY <3>3, <3>4, <3>5, <3>6 DEF Pair
    <3> QED BY <3>7 DEF a, b
  <2> HIDE DEF m, qq, hh
  <2> QED BY <2>2, <2>3, <2>4
<1>15. \A j \in v[m - 1] + 1 .. n - i : hh[j].type = "PopChildren"
  <2>1. \A j \in u[m] + 1 .. n : hs[j].type = "PopChildren"
    BY <1>1 DEF Matched
  <2>2. u[m] \in i .. n
    <3>1. m \in 1 .. m
      BY <1>2
    <3> QED BY <1>10, <3>1
  <2>3. ASSUME NEW j \in v[m - 1] + 1 .. n - i PROVE hh[j].type = "PopChildren"
    <3>1. j \in 1 .. n - i /\ i + j \in u[m] + 1 .. n
      <4> HIDE DEF m, n
      <4> QED BY <1>3, <1>9, <1>11, <2>2
    <3> HIDE DEF m, n, hh
    <3> QED BY <1>7, <2>1, <3>1
  <2> QED BY <2>3
<1>16. Matched(U, v, qq, hh)
  <2> HIDE DEF m, n, qq, hh
  <2> QED BY <1>2, <1>7, <1>11, <1>14, <1>15 DEF Matched
<1>17. OnTop(U[Len(hh)], fr, f)
  <2> HIDE DEF n, hh
  <2> QED BY <1>1, <1>7, <1>12 DEF n
<1> HIDE DEF qq, hh, below, ev
<1> QED BY <1>6, <1>13, <1>16, <1>17 DEF InStep, qq, hh, below, ev

-----------------------------------------------------------------------------
(* The walker's steps.  A report that does not merge goes to the end.      *)
LEMMA OpenQueued ==
  ASSUME NEW ev \in KernelEvent, FsTyped, buf \in Seq(KernelEvent),
         watched, Notify(ev), Len(evq') # Len(evq), UNCHANGED buf
  PROVE  Queue' = Append(Queue, ev)
<1>1. evq \in Seq(KernelEvent) /\ evq' = Enqueue(ev, evq)
  BY DEF FsTyped, Notify
<1>2. evq' = Append(evq, ev)
  <2>1. CASE \E i \in DOMAIN evq : Reports(evq[i]) = Reports(ev)
    <3>1. evq' = [i \in DOMAIN evq |-> IF Reports(evq[i]) = Reports(ev)
                           THEN [evq[i] EXCEPT !.mask = @ \cup ev.mask] ELSE evq[i]]
      BY <1>1, <2>1 DEF Enqueue
    <3>2. DOMAIN evq = 1 .. Len(evq) /\ Len(evq) \in Nat
      BY <1>1
    <3>3. Len(evq') = Len(evq)
      BY <3>1, <3>2
    <3> QED BY <3>3
  <2>2. CASE ~(\E i \in DOMAIN evq : Reports(evq[i]) = Reports(ev))
    BY <1>1, <2>2 DEF Enqueue
  <2> QED BY <2>1, <2>2
<1>3. \A b, q \in Seq(KernelEvent) : b \o Append(q, ev) = Append(b \o q, ev)
  OBVIOUS
<1> QED BY <1>1, <1>2, <1>3 DEF Queue

(* What of the walker's state the invariant is about.                      *)
Following == InStep(Queue, AllHints, stack, frames, fd)

(* While nobody watches, nothing is on its way.                            *)
Down ==
  ~watched => /\ evq = <<>> /\ buf = <<>> /\ chan = <<>> /\ batch = <<>>
              /\ requests = <<>> /\ frames = <<>> /\ fd = None

LEMMA QueueTyped == Inv => Queue \in Seq(KernelEvent) /\ AllHints \in Seq(Hint)
<1> SUFFICES ASSUME Inv PROVE Queue \in Seq(KernelEvent) /\ AllHints \in Seq(Hint)
  OBVIOUS
<1>1. evq \in Seq(KernelEvent) /\ buf \in Seq(KernelEvent)
  BY DEF Inv, FsTyped
<1>2. hints \in Seq(Hint) /\ (fd = None \/ fd \in Walkable \/ fd \in Entry)
  BY DEF Inv, WalkTyped
<1>3. Due(fd) \in Seq(Hint)
  <2>1. CASE fd = None
    BY <2>1 DEF Due
  <2>2. CASE fd # None /\ fd.n = None
    BY <2>2, HintTypes DEF Due
  <2>3. CASE fd # None /\ fd.n # None
    <3>1. fd.n \in Name
      BY <1>2, <2>3 DEF Walkable, Entry
    <3>2. PushChildren(fd.n) \in Hint
      BY <3>1, HintTypes
    <3>3. Due(fd) = <<PushChildren(fd.n)>>
      BY <2>3 DEF Due
    <3> QED BY <3>2, <3>3
  <2> QED BY <2>1, <2>2, <2>3
<1>4. hints \o Due(fd) \in Seq(Hint)
  BY <1>2, <1>3
<1> QED BY <1>1, <1>4 DEF Queue, AllHints

(* What the walker opens is something.                                     *)
LEMMA OpenedIsSome == None \notin Walkable /\ None \notin Entry
BY FilesystemAssumption DEF Walkable, Entry

(* An open that is not merged, with the hint for it.                       *)
LEMMA OpenFollows ==
  ASSUME Inv, Down, Following, fd = None, watched, ~OpenMerges,
         UNCHANGED <<hints, stack, buf>>,
         (fd' \in Walkable /\ frames = <<>>) \/ (fd' \in Entry /\ frames # <<>>),
         fd' \in Entry => fd'.p = LastOf(frames).dir,
         frames' \in Seq(Frame), Len(frames') = Len(frames),
         \A j \in 1 .. Len(frames) : frames'[j].dir = frames[j].dir,
         Notify(Ev("OPEN", WalkerTid, None, Where(fd'), fd'.h))
  PROVE  Following'
<1> DEFINE ev == Ev("OPEN", WalkerTid, None, Where(fd'), fd'.h)
           h == IF fd'.n = None THEN Begin ELSE PushChildren(fd'.n)
<1>1. fd' # None
  BY OpenedIsSome
<1>2. ev \in KernelEvent /\ ev.tid = WalkerTid /\ ev.fh = fd'.h /\ ev.new = Where(fd')
  <2>1. /\ fd'.p \in Dirs \cup {None} /\ fd'.n \in Name \cup {None} /\ fd'.h \in Handle
    BY DEF Walkable, Entry
  <2>2. ev \in WalkerOpen
    BY <2>1 DEF Ev, WalkerOpen, Where
  <2> QED BY <2>2 DEF KernelEvent, Ev
<1>3. Queue' = Append(Queue, ev)
  <2>1. Len(evq') # Len(evq)
    BY <1>1 DEF OpenMerges
  <2> HIDE DEF ev
  <2> QED BY <1>2, <2>1, OpenQueued DEF Inv, ev
<1>4. h \in Hint /\ h.type # "PopChildren"
      /\ (h.type = "PushChildren" => fd' \in Entry /\ h.name = fd'.n)
  <2>1. CASE fd'.n = None
    BY <2>1, HintTypes DEF Begin
  <2>2. CASE fd'.n # None
    <3>1. fd' \in Entry /\ fd'.n \in Name
      BY <2>2 DEF Walkable, Entry
    <3> QED BY <2>2, <3>1, HintTypes
  <2> QED BY <2>1, <2>2
<1>5. AllHints' = Append(AllHints, h)
  <2>1. Due(fd') = <<h>> /\ Due(fd) = <<>>
    BY <1>1 DEF Due
  <2>2. hints \in Seq(Hint)
    BY DEF Inv, WalkTyped
  <2>3. \A s \in Seq(Hint) : s \o <<h>> = Append(s \o <<>>, h)
    <3> HIDE DEF h
    <3> QED BY <1>4
  <2> HIDE DEF h
  <2> QED BY <2>1, <2>2, <2>3 DEF AllHints
<1>6. h.type = "PushChildren" => frames # <<>> /\ ev.new = [p |-> LastOf(frames).dir, n |-> h.name]
  <2> SUFFICES ASSUME h.type = "PushChildren"
               PROVE  frames # <<>> /\ ev.new = [p |-> LastOf(frames).dir, n |-> h.name]
    OBVIOUS
  <2>1. fd' \in Entry /\ h.name = fd'.n
    BY <1>4
  <2>2. fd'.n # None
    BY <2>1, FilesystemAssumption DEF Entry
  <2>3. fd' \notin Walkable
    BY <2>2 DEF Walkable
  <2> HIDE DEF ev, h
  <2> QED BY <1>2, <2>1, <2>3 DEF Where
<1>7. /\ Queue \in Seq(KernelEvent) /\ AllHints \in Seq(Hint) /\ frames \in Seq(Frame)
      /\ InStep(Queue, AllHints, stack, frames, None)
  BY QueueTyped DEF Inv, WalkTyped, Following
<1> HIDE DEF ev, h
<1>8. InStep(Append(Queue, ev), Append(AllHints, h), stack, frames', fd')
  BY <1>1, <1>2, <1>4, <1>6, <1>7, OpenInStep
<1> QED BY <1>3, <1>5, <1>8 DEF Following

(* walk_fh.                                                                *)
LEMMA OpenRequestFollows ==
  ASSUME Inv, Down, Following, OpenRequest, UNCHANGED buf, ~OpenMerges
  PROVE  Following'
<1> DEFINE h == Head(requests)
           e == [p |-> None, n |-> None, h |-> h]
<1>1. /\ frames = <<>> /\ fd = None /\ requests # <<>>
      /\ \/ fd' = e /\ Notify(Ev("OPEN", WalkerTid, None, Where(e), h))
         \/ UNCHANGED <<fd, evq>>
      /\ UNCHANGED <<tree, past, ops, watched, frames, hints, stack>>
  BY DEF OpenRequest
<1>2. CASE UNCHANGED <<fd, evq>>
  <2>1. Queue' = Queue /\ AllHints' = AllHints
    BY <1>1, <1>2 DEF Queue, AllHints
  <2> QED BY <1>1, <1>2, <2>1 DEF Following
<1>3. CASE fd' = e /\ Notify(Ev("OPEN", WalkerTid, None, Where(e), h))
  <2>1. h \in Handle
    BY <1>1 DEF Inv, WalkTyped
  <2>2. fd' \in Walkable /\ fd'.h = h
    BY <1>3, <2>1 DEF Walkable
  <2>3. fd' \notin Entry
    BY <2>2, FilesystemAssumption DEF Walkable, Entry
  <2>4. watched
    BY <1>1 DEF Down
  <2>5. frames \in Seq(Frame)
    BY DEF Inv, WalkTyped
  <2>6. /\ frames' \in Seq(Frame) /\ Len(frames') = Len(frames)
        /\ \A j \in 1 .. Len(frames) : frames'[j].dir = frames[j].dir
    BY <1>1, <2>5
  <2>7. Notify(Ev("OPEN", WalkerTid, None, Where(fd'), fd'.h))
    <3> HIDE DEF e, h
    <3> QED BY <1>3, <2>2
  <2>8. /\ UNCHANGED <<hints, stack, buf>> /\ fd = None
        /\ (fd' \in Walkable /\ frames = <<>>) \/ (fd' \in Entry /\ frames # <<>>)
        /\ fd' \in Entry => fd'.p = LastOf(frames).dir
    BY <1>1, <2>2, <2>3
  <2> HIDE DEF e, h
  <2> QED BY <2>4, <2>6, <2>7, <2>8, OpenFollows
<1> HIDE DEF e, h
<1> QED BY <1>1, <1>2, <1>3

(* The directory at the end of the recursion goes on, or another takes its *)
(* place.                                                                  *)
LEMMA LastReplaced ==
  ASSUME NEW fr \in Seq(Frame), fr # <<>>, NEW x \in Frame, x.dir = LastOf(fr).dir
  PROVE  LET new == Append(Front(fr), x)
         IN  /\ new \in Seq(Frame) /\ Len(new) = Len(fr)
             /\ \A j \in 1 .. Len(fr) : new[j].dir = fr[j].dir
<1> DEFINE y == Front(fr)
           m == Len(fr) - 1
<1>1. y \in Seq(Frame) /\ Len(y) = m /\ Len(fr) \in Nat \ {0} /\ m \in Nat
  BY FrontTyped
<1>2. \A j \in 1 .. m : y[j] = fr[j]
  BY FrontSame
<1> HIDE DEF y
<1>3. /\ Append(y, x) \in Seq(Frame) /\ Len(Append(y, x)) = m + 1 /\ Append(y, x)[m + 1] = x
      /\ \A j \in 1 .. m : Append(y, x)[j] = y[j]
  BY <1>1
<1>4. ASSUME NEW j \in 1 .. Len(fr) PROVE Append(y, x)[j].dir = fr[j].dir
  <2>1. CASE j \in 1 .. m
    BY <1>2, <1>3, <2>1
  <2>2. CASE j = m + 1
    BY <1>1, <1>3, <2>2 DEF LastOf
  <2> QED BY <1>1, <2>1, <2>2
<1> QED BY <1>1, <1>3, <1>4 DEF y

(* openat.                                                                 *)
LEMMA OpenChildFollows ==
  ASSUME Inv, Down, Following, OpenChild, UNCHANGED buf, ~OpenMerges
  PROVE  Following'
<1> DEFINE top == LastOf(frames)
<1>1. /\ frames # <<>> /\ fd = None
      /\ UNCHANGED <<tree, past, ops, watched, requests, hints, stack>>
  BY DEF OpenChild
<1>2. PICK n \in top.todo :
        /\ frames' = Append(Front(frames), [top EXCEPT !.todo = @ \ {n}])
        /\ \/ UNCHANGED <<fd, evq>>
           \/ \E e \in At(top.dir, n) :
                fd' = e /\ Notify(Ev("OPEN", WalkerTid, None, Where(e), e.h))
  BY DEF OpenChild
<1>3. frames \in Seq(Frame) /\ top \in Frame
  BY <1>1, FrontTyped DEF Inv, WalkTyped
<1>4. /\ frames' \in Seq(Frame) /\ Len(frames') = Len(frames)
      /\ \A j \in 1 .. Len(frames) : frames'[j].dir = frames[j].dir
  <2>1. [top EXCEPT !.todo = @ \ {n}] \in Frame /\ [top EXCEPT !.todo = @ \ {n}].dir = top.dir
    BY <1>3 DEF Frame
  <2> QED BY <1>1, <1>2, <1>3, <2>1, LastReplaced
<1>5. CASE UNCHANGED <<fd, evq>>
  <2>1. Queue' = Queue /\ AllHints' = AllHints /\ AllHints \in Seq(Hint)
    BY <1>1, <1>5, QueueTyped DEF Queue, AllHints
  <2>2. \A s \in Seq(Handle) : OnTop(s, frames, None) => OnTop(s, frames', None)
    BY <1>4 DEF OnTop
  <2>3. InStep(Queue, AllHints, stack, frames', None)
    BY <1>1, <2>1, <2>2, SameTop DEF Following
  <2> QED BY <1>1, <1>5, <2>1, <2>3 DEF Following
<1>6. CASE \E e \in At(top.dir, n) :
             fd' = e /\ Notify(Ev("OPEN", WalkerTid, None, Where(e), e.h))
  <2>1. PICK e \in At(top.dir, n) :
          fd' = e /\ Notify(Ev("OPEN", WalkerTid, None, Where(e), e.h))
    BY <1>6
  <2>2. fd' \in Entry /\ fd'.p = top.dir
    BY <2>1 DEF At, Inv, FsTyped
  <2>3. watched
    BY <1>1 DEF Down, Inv, FsTyped
  <2> QED BY <1>1, <1>4, <2>1, <2>2, <2>3, OpenFollows
<1> QED BY <1>2, <1>5, <1>6

(* The hint for what was opened, which AllHints had already.               *)
LEMMA SendHintFollows ==
  ASSUME Inv, Following, SendHint, UNCHANGED buf
  PROVE  Following'
<1>1. fd # None /\ fd' = None /\ UNCHANGED <<evq, stack>>
  BY DEF SendHint
<1>2. Queue' = Queue /\ AllHints' = hints' \o <<>>
  BY <1>1 DEF Queue, AllHints, Due
<1>3. /\ Queue \in Seq(KernelEvent) /\ AllHints \in Seq(Hint) /\ hints \in Seq(Hint) /\ frames \in Seq(Frame)
      /\ InStep(Queue, AllHints, stack, frames, fd)
  BY QueueTyped DEF Inv, WalkTyped, Following
<1>4. \A s \in Seq(Hint) : s \o <<>> = s
  OBVIOUS
<1>5. CASE fd \in Walkable /\ frames = <<>>
  <2>1. fd.n = None
    BY <1>5 DEF Walkable
  <2>2. hints' = Append(hints, Begin) /\ Due(fd) = <<Begin>>
    BY <1>1, <2>1 DEF SendHint, Due
  <2>3. hints' = AllHints /\ AllHints' = AllHints
    <3>1. Append(hints, Begin) = hints \o <<Begin>>
      BY <1>3, HintTypes, AppendIsConcat
    <3> QED BY <1>2, <1>3, <1>4, <2>2, <3>1 DEF AllHints
  <2>4. frames' = IF fd.h \in Dirs THEN <<ReadDir(fd.h)>> ELSE <<>>
    BY <1>1, <2>1 DEF SendHint
  <2>5. ASSUME NEW s \in Seq(Handle), OnTop(s, frames, fd) PROVE OnTop(s, frames', None)
    <3>1. Len(s) \in Nat /\ Len(s) >= 1 /\ s[Len(s)] = fd.h
      BY <1>1, <1>5, <2>5 DEF OnTop, Extra, LastOf
    <3>2. CASE fd.h \in Dirs
      <4>1. /\ Len(<<ReadDir(fd.h)>>) = 1 /\ <<ReadDir(fd.h)>>[1].dir = fd.h
            /\ Len(s) - 0 - 1 + 1 = Len(s) /\ 1 + 0 = 1
        BY <3>1 DEF ReadDir
      <4>2. \A j \in 1 .. 1 : j = 1
        OBVIOUS
      <4> QED BY <2>4, <3>1, <3>2, <4>1, <4>2 DEF OnTop, Extra
    <3>3. CASE fd.h \notin Dirs
      BY <2>4, <3>1, <3>3 DEF OnTop, Extra
    <3> QED BY <3>2, <3>3
  <2>6. InStep(Queue, AllHints, stack, frames', None)
    BY <1>3, <2>5, SameTop
  <2> QED BY <1>1, <1>2, <2>3, <2>6 DEF Following
<1>6. CASE fd \in Entry /\ frames # <<>>
  <2>1. fd.n \in Name /\ fd.n # None
    BY <1>6, FilesystemAssumption DEF Entry
  <2> DEFINE h == PushChildren(fd.n)
  <2>2. h \in Hint /\ Due(fd) = <<h>> /\ AllHints = hints \o <<h>>
    BY <1>1, <2>1, HintTypes DEF Due, AllHints
  <2>3. CASE fd.h \in Dirs
    <3>1. hints' = AllHints /\ frames' = Append(frames, ReadDir(fd.h))
      BY <1>1, <2>1, <2>2, <2>3 DEF SendHint
    <3>2. ASSUME NEW s \in Seq(Handle), OnTop(s, frames, fd) PROVE OnTop(s, frames', None)
      <4>1. /\ Len(s) \in Nat /\ Len(frames) \in Nat /\ Len(s) >= Len(frames) + 1 /\ s[Len(s)] = fd.h
            /\ \A j \in 1 .. Len(frames) : s[Len(s) - 1 - Len(frames) + j] = frames[j].dir
        BY <1>1, <1>3, <3>2 DEF OnTop, Extra, LastOf
      <4>2. /\ Len(frames') = Len(frames) + 1 /\ frames'[Len(frames) + 1].dir = fd.h
            /\ \A j \in 1 .. Len(frames) : frames'[j] = frames[j]
        BY <1>3, <3>1 DEF ReadDir
      <4>3. ASSUME NEW j \in 1 .. Len(frames')
            PROVE  s[Len(s) - 0 - Len(frames') + j] = frames'[j].dir
        <5>1. CASE j \in 1 .. Len(frames)
          <6>1. Len(s) - 0 - Len(frames') + j = Len(s) - 1 - Len(frames) + j
            BY <4>1, <4>2
          <6> QED BY <4>1, <4>2, <5>1, <6>1
        <5>2. CASE j = Len(frames) + 1
          <6>1. Len(s) - 0 - Len(frames') + j = Len(s)
            BY <4>1, <4>2, <5>2
          <6> QED BY <4>1, <4>2, <5>2, <6>1
        <5> QED BY <4>1, <4>2, <5>1, <5>2
      <4> QED BY <4>1, <4>2, <4>3 DEF OnTop, Extra
    <3>3. InStep(Queue, AllHints, stack, frames', None)
      BY <1>3, <3>2, SameTop
    <3> QED BY <1>1, <1>2, <1>3, <1>4, <3>1, <3>3 DEF Following
  <2>4. CASE fd.h \notin Dirs
    <3>1. hints' = hints \o <<h, PopChildren>> /\ frames' = frames
      BY <1>1, <2>1, <2>4 DEF SendHint
    <3>2. hints' = Append(AllHints, PopChildren) /\ hints' \in Seq(Hint)
      <4>1. \A s \in Seq(Hint), x, y \in Hint :
              s \o <<x, y>> = Append(s \o <<x>>, y) /\ s \o <<x, y>> \in Seq(Hint)
        OBVIOUS
      <4> HIDE DEF h
      <4> QED BY <1>3, <2>2, <3>1, <4>1, HintTypes
    <3>3. ASSUME NEW s \in Seq(Handle), OnTop(s, frames, fd)
          PROVE  s # <<>> /\ OnTop(Front(s), frames, None)
      <4>1. /\ Len(s) \in Nat /\ Len(frames) \in Nat /\ Len(s) >= Len(frames) + 1
            /\ \A j \in 1 .. Len(frames) : s[Len(s) - 1 - Len(frames) + j] = frames[j].dir
        BY <1>1, <1>3, <3>3 DEF OnTop, Extra
      <4>2. s # <<>> /\ Len(Front(s)) = Len(s) - 1 /\ \A j \in 1 .. Len(s) - 1 : Front(s)[j] = s[j]
        <5>1. s # <<>>
          BY <4>1
        <5> QED BY <5>1, FrontSame
      <4>3. ASSUME NEW j \in 1 .. Len(frames)
            PROVE  Front(s)[Len(Front(s)) - 0 - Len(frames) + j] = frames[j].dir
        <5>1. /\ Len(Front(s)) - 0 - Len(frames) + j = Len(s) - 1 - Len(frames) + j
              /\ Len(s) - 1 - Len(frames) + j \in 1 .. Len(s) - 1
          BY <4>1, <4>2
        <5> QED BY <4>1, <4>2, <5>1
      <4> QED BY <4>1, <4>2, <4>3 DEF OnTop, Extra
    <3>4. InStep(Queue, Append(AllHints, PopChildren), stack, frames, None)
      BY <1>3, <3>3, PopInStep
    <3> QED BY <1>1, <1>2, <1>4, <3>1, <3>2, <3>4 DEF Following
  <2> QED BY <2>3, <2>4
<1> QED BY <1>1, <1>5, <1>6 DEF Inv, WalkTyped

(* The end of a directory.                                                 *)
LEMMA EndDirFollows ==
  ASSUME Inv, Following, EndDir, UNCHANGED buf
  PROVE  Following'
<1>1. /\ frames # <<>> /\ fd = None /\ frames' = Front(frames)
      /\ hints' = IF Len(frames) > 1 THEN Append(hints, PopChildren) ELSE hints
      /\ UNCHANGED <<evq, fd, stack>>
  BY DEF EndDir
<1>2. /\ Queue \in Seq(KernelEvent) /\ hints \in Seq(Hint) /\ frames \in Seq(Frame)
      /\ InStep(Queue, AllHints, stack, frames, None)
  BY <1>1, QueueTyped DEF Inv, WalkTyped, Following
<1>3. \A s \in Seq(Hint) : s \o <<>> = s
  OBVIOUS
<1>4. Queue' = Queue /\ AllHints = hints /\ AllHints' = hints' \o <<>>
  BY <1>1, <1>2, <1>3 DEF Queue, AllHints, Due
<1>5. /\ Len(frames) \in Nat \ {0} /\ Len(frames') = Len(frames) - 1
      /\ \A j \in 1 .. Len(frames) - 1 : frames'[j] = frames[j]
  BY <1>1, <1>2, FrontTyped, FrontSame
<1>6. CASE Len(frames) > 1
  <2>1. hints' = Append(hints, PopChildren) /\ hints' \in Seq(Hint)
    BY <1>1, <1>2, <1>6, HintTypes
  <2>2. ASSUME NEW s \in Seq(Handle), OnTop(s, frames, None)
        PROVE  s # <<>> /\ OnTop(Front(s), frames', None)
    <3>1. /\ Len(s) \in Nat /\ Len(s) >= Len(frames)
          /\ \A j \in 1 .. Len(frames) : s[Len(s) - 0 - Len(frames) + j] = frames[j].dir
      BY <1>2, <2>2 DEF OnTop, Extra
    <3>2. s # <<>> /\ Len(Front(s)) = Len(s) - 1 /\ \A j \in 1 .. Len(s) - 1 : Front(s)[j] = s[j]
      <4>1. s # <<>>
        BY <1>5, <3>1
      <4> QED BY <4>1, FrontSame
    <3>3. ASSUME NEW j \in 1 .. Len(frames')
          PROVE  Front(s)[Len(Front(s)) - 0 - Len(frames') + j] = frames'[j].dir
      <4>1. /\ j \in 1 .. Len(frames) - 1 /\ j \in 1 .. Len(frames)
            /\ Len(Front(s)) - 0 - Len(frames') + j = Len(s) - 0 - Len(frames) + j
            /\ Len(s) - 0 - Len(frames) + j \in 1 .. Len(s) - 1
        BY <1>5, <3>1, <3>2
      <4> QED BY <1>5, <3>1, <3>2, <4>1
    <3> QED BY <1>5, <3>1, <3>2, <3>3 DEF OnTop, Extra
  <2>3. InStep(Queue, Append(hints, PopChildren), stack, frames', None)
    BY <1>2, <1>4, <2>2, PopInStep
  <2> QED BY <1>1, <1>3, <1>4, <2>1, <2>3 DEF Following
<1>7. CASE ~(Len(frames) > 1)
  <2>1. hints' = hints /\ Len(frames') = 0
    BY <1>1, <1>5, <1>7
  <2>2. ASSUME NEW s \in Seq(Handle), OnTop(s, frames, None) PROVE OnTop(s, frames', None)
    BY <2>1, <2>2 DEF OnTop, Extra
  <2>3. InStep(Queue, hints, stack, frames', None)
    BY <1>2, <1>4, <2>2, SameTop
  <2> QED BY <1>1, <1>2, <1>3, <1>4, <2>1, <2>3 DEF Following
<1> QED BY <1>6, <1>7

-----------------------------------------------------------------------------
(* An event of another thread names an entry there is, or has just been:   *)
(* what it says happened at its new place did.                             *)
Genuine(ev, P) == ev.new.n \in Name => [p |-> ev.new.p, n |-> ev.new.n, h |-> ev.fh] \in P

(* One more event that is.                                                 *)
LEMMA ReportGenuine ==
  ASSUME NEW c, ops \in Nat, NEW type \in Mask, NEW old \in Place \cup {None}, NEW new \in Place,
         NEW h \in Handle, type = "RENAME" => old \in Place,
         NEW q \in Seq(KernelEvent), NEW P, NEW R, P \subseteq R,
         \A i \in 1 .. Len(q) : Genuine(q[i], P),
         [p |-> new.p, n |-> new.n, h |-> h] \in R
  PROVE  LET r == Enqueue(Ev(type, UserTid(c), old, new, h), q)
         IN  /\ r \in Seq(KernelEvent) /\ Grows(q, r)
             /\ \A i \in 1 .. Len(r) : Genuine(r[i], R)
<1> DEFINE r == Enqueue(Ev(type, UserTid(c), old, new, h), q)
<1>1. /\ r \in Seq(KernelEvent) /\ Grows(q, r)
      /\ \A i \in Len(q) + 1 .. Len(r) : r[i].new = new /\ r[i].fh = h
  <2>1. Tells(q, r, new, h)
    BY ChangeGrows
  <2> HIDE DEF r
  <2> QED BY <2>1 DEF Tells
<1> HIDE DEF r
<1>2. ASSUME NEW i \in 1 .. Len(r) PROVE Genuine(r[i], R)
  <2>1. CASE i \in 1 .. Len(q)
    <3>1. r[i].fh = q[i].fh /\ r[i].new = q[i].new /\ Genuine(q[i], P)
      BY <1>1, <2>1 DEF Grows
    <3> QED BY <3>1 DEF Genuine
  <2>2. CASE i \in Len(q) + 1 .. Len(r)
    BY <1>1, <2>2 DEF Genuine
  <2> QED BY <1>1, <2>1, <2>2
<1> QED BY <1>1, <1>2 DEF r

(* What a system call reports.                                             *)
LEMMA SyscallReports ==
  ASSUME FsTyped, NEW c \in Syscalls, Syscall(c), \A i \in 1 .. Len(evq) : Genuine(evq[i], past)
  PROVE  Grows(evq, evq') /\ \A i \in 1 .. Len(evq') : Genuine(evq'[i], past')
<1>1. c \in Call
  BY FilesystemAssumption
<1>2. ops \in Nat /\ evq \in Seq(KernelEvent) /\ tree \subseteq Entry /\ tree \subseteq past
  BY WatcherAssumption DEF FsTyped
<1>3. \A e \in tree : e.h \in Handle /\ Where(e) \in Place
                     /\ [p |-> Where(e).p, n |-> Where(e).n, h |-> e.h] = e
  <2> TAKE e \in tree
  <2>1. e \in [p : Dirs, n : Name, h : Handle]
    BY <1>2 DEF Entry
  <2>2. Where(e) \in Place /\ Where(e).p = e.p /\ Where(e).n = e.n
    BY <2>1 DEF Where, Place
  <2>3. e = [p |-> e.p, n |-> e.n, h |-> e.h]
    BY <2>1
  <2> QED BY <2>1, <2>2, <2>3
<1>4. past' = past \cup tree' /\ past \subseteq past'
  BY DEF Syscall
<1> DEFINE Fine == Grows(evq, evq') /\ \A i \in 1 .. Len(evq') : Genuine(evq'[i], past')
<1>5. ASSUME NEW type \in Mask, NEW old \in Place \cup {None}, NEW new \in Place, NEW h \in Handle,
             type = "RENAME" => old \in Place,
             [p |-> new.p, n |-> new.n, h |-> h] \in past',
             Notify(Ev(type, UserTid(c), old, new, h))
      PROVE  Fine
  <2> DEFINE r == Enqueue(Ev(type, UserTid(c), old, new, h), evq)
  <2>1. Grows(evq, r) /\ \A i \in 1 .. Len(r) : Genuine(r[i], past')
    BY <1>2, <1>4, <1>5, ReportGenuine
  <2>2. evq' = r \/ evq' = evq
    BY <1>5 DEF Notify
  <2>3. Grows(evq, evq) /\ \A i \in 1 .. Len(evq) : Genuine(evq[i], past')
    BY <1>2, <1>4 DEF Grows, Genuine
  <2> HIDE DEF r
  <2> QED BY <2>1, <2>2, <2>3
<1>6. ASSUME NEW h \in Handle, Put(c, h), c.op \in {"create", "link"} PROVE Fine
  <2>1. /\ [p |-> c.p, n |-> c.n] \in Place /\ [p |-> c.p, n |-> c.n, h |-> h] \in past'
        /\ Notify(Ev("CREATE", UserTid(c), None, [p |-> c.p, n |-> c.n], h))
    BY <1>1, <1>4, <1>6 DEF Call, Place, Put
  <2> QED BY <1>5, <2>1 DEF Mask
<1>7. CASE Create(c)
  <2>1. c.op = "create" /\ c.h \in Handle /\ Put(c, c.h)
    BY <1>1, <1>7 DEF Call, Create
  <2> QED BY <1>6, <2>1
<1>8. CASE Link(c)
  <2>1. c.op = "link" /\ c.h \in Handle /\ Put(c, c.h)
    BY <1>1, <1>8 DEF Call, Link
  <2> QED BY <1>6, <2>1
<1>9. CASE Remove(c)
  <2>1. PICK e \in tree : Notify(Ev("DELETE", UserTid(c), None, Where(e), e.h))
    BY <1>9 DEF Remove, At
  <2>2. [p |-> Where(e).p, n |-> Where(e).n, h |-> e.h] \in past'
    BY <1>2, <1>3, <1>4
  <2> QED BY <1>3, <1>5, <2>1, <2>2 DEF Mask
<1>10. ASSUME c.op \in {"rename", "exchange"} PROVE [p |-> c.q, n |-> c.m] \in Place
  BY <1>1, <1>10 DEF Call, Place
<1>11. CASE Rename(c)
  <2>1. PICK e \in tree :
          /\ tree' = (tree \ ({e} \cup At(c.q, c.m))) \cup {Move(e, c.q, c.m)}
          /\ Notify(Ev("RENAME", UserTid(c), Where(e), [p |-> c.q, n |-> c.m], e.h))
    BY <1>11 DEF Rename, At
  <2>2. [p |-> c.q, n |-> c.m] \in Place /\ [p |-> c.q, n |-> c.m, h |-> e.h] \in past'
    BY <1>4, <1>10, <1>11, <2>1 DEF Rename, Move
  <2> QED BY <1>3, <1>5, <2>1, <2>2 DEF Mask
<1>12. CASE Exchange(c)
  <2>1. PICK e \in At(c.p, c.n), t \in At(c.q, c.m) :
          /\ tree' = (tree \ {e, t}) \cup {Move(e, c.q, c.m), Move(t, c.p, c.n)}
          /\ evq' = IF watched
                    THEN Enqueue(Ev("RENAME", UserTid(c), Where(t), Where(e), t.h),
                           Enqueue(Ev("RENAME", UserTid(c), Where(e), Where(t), e.h), evq))
                    ELSE evq
    BY <1>12 DEF Exchange
  <2> DEFINE q == Enqueue(Ev("RENAME", UserTid(c), Where(e), Where(t), e.h), evq)
             r == Enqueue(Ev("RENAME", UserTid(c), Where(t), Where(e), t.h), q)
  <2>2. /\ [p |-> Where(t).p, n |-> Where(t).n, h |-> e.h] \in past'
        /\ [p |-> Where(e).p, n |-> Where(e).n, h |-> t.h] \in past'
    BY <1>4, <2>1 DEF At, Where, Move
  <2>3. q \in Seq(KernelEvent) /\ Grows(evq, q) /\ \A i \in 1 .. Len(q) : Genuine(q[i], past')
    <3>1. e \in tree /\ t \in tree /\ "RENAME" \in Mask
      BY <2>1 DEF At, Mask
    <3> QED BY <1>2, <1>3, <1>4, <2>2, <3>1, ReportGenuine
  <2>4. r \in Seq(KernelEvent) /\ Grows(q, r) /\ \A i \in 1 .. Len(r) : Genuine(r[i], past')
    <3>1. e \in tree /\ t \in tree /\ "RENAME" \in Mask /\ past' \subseteq past'
      BY <2>1 DEF At, Mask
    <3> HIDE DEF q
    <3> QED BY <1>2, <1>3, <2>2, <2>3, <3>1, ReportGenuine
  <2>5. Grows(evq, r)
    <3> HIDE DEF q, r
    <3> QED BY <1>2, <2>3, <2>4, GrowsTwice
  <2>6. Grows(evq, evq) /\ \A i \in 1 .. Len(evq) : Genuine(evq[i], past')
    BY <1>2, <1>4 DEF Grows, Genuine
  <2>7. evq' = r \/ evq' = evq
    BY <2>1
  <2> HIDE DEF q, r
  <2> QED BY <2>4, <2>5, <2>6, <2>7
<1>13. CASE Open(c)
  <2>1. PICK e \in tree : Notify(Ev("OPEN", UserTid(c), None, Where(e), e.h))
    BY <1>13 DEF Open, At
  <2>2. [p |-> Where(e).p, n |-> Where(e).n, h |-> e.h] \in past'
    BY <1>2, <1>3, <1>4
  <2> QED BY <1>3, <1>5, <2>1, <2>2 DEF Mask
<1> QED BY <1>7, <1>8, <1>9, <1>11, <1>12, <1>13 DEF Syscall

-----------------------------------------------------------------------------
(* The reader's steps.  A read moves events from one queue to the other.   *)
LEMMA ReadQueue ==
  ASSUME Inv, Read
  PROVE  Queue' = Queue
<1> DEFINE n == IF Len(evq) < BufEvents THEN Len(evq) ELSE BufEvents
<1>1. /\ buf = <<>> /\ buf' = SubSeq(evq, 1, n) /\ evq' = SubSeq(evq, n + 1, Len(evq))
      /\ UNCHANGED walkVars /\ evq # <<>>
  BY DEF Read
<1>2. evq \in Seq(KernelEvent) /\ Len(evq) \in Nat \ {0}
  BY <1>1, EmptySeq DEF Inv, FsTyped
<1>3. n \in 1 .. Len(evq)
  BY <1>2, WatcherAssumption
<1>4. SubSeq(evq, 1, n) \o SubSeq(evq, n + 1, Len(evq)) = evq
  <2> HIDE DEF n
  <2>1. SubSeq(evq, 1, n) \o SubSeq(evq, n + 1, Len(evq)) = SubSeq(evq, 1, Len(evq))
    <3>1. 1 \in 1 .. Len(evq) + 1 /\ n \in 1 - 1 .. Len(evq) /\ Len(evq) \in n .. Len(evq)
      BY <1>2, <1>3
    <3> QED BY <1>2, <3>1, ConcatAdjacentSubSeq
  <2> QED BY <1>2, <2>1, SubSeqFull
<1>5. <<>> \o evq = evq
  BY <1>2
<1> HIDE DEF n
<1> QED BY <1>1, <1>4, <1>5 DEF Queue

LEMMA ReadFollows ==
  ASSUME Inv, Following, Read
  PROVE  Queue' = Queue /\ Following'
<1>1. UNCHANGED walkVars
  BY DEF Read
<1> QED BY <1>1, ReadQueue DEF Following, walkVars, AllHints

(* The first event of the queue is the first the reader has.               *)
LEMMA QueueHead ==
  ASSUME Inv, buf # <<>>
  PROVE  /\ Queue \in Seq(KernelEvent) /\ Queue # <<>>
         /\ Head(Queue) = Head(buf) /\ Tail(Queue) = Tail(buf) \o evq
         /\ Head(buf) \in KernelEvent
<1>1. buf \in Seq(KernelEvent) /\ evq \in Seq(KernelEvent)
  BY DEF Inv, FsTyped
<1>2. \A b, q \in Seq(KernelEvent) : b # <<>> =>
        b \o q # <<>> /\ Head(b \o q) = Head(b) /\ Tail(b \o q) = Tail(b) \o q
  OBVIOUS
<1> QED BY <1>1, <1>2 DEF Queue

(* A change of another thread.                                             *)
LEMMA HandleChangeFollows ==
  ASSUME Inv, Following, HandleChange
  PROVE  Following'
<1>1. /\ buf # <<>> /\ ~(Head(buf).mask = {"OPEN"} /\ Head(buf).tid = WalkerTid)
      /\ UNCHANGED <<hints, stack, evq, frames, fd>> /\ buf' = Tail(buf)
  BY DEF HandleChange, Report, fsVars
<1>2. /\ Queue \in Seq(KernelEvent) /\ Queue # <<>> /\ Head(Queue) = Head(buf)
      /\ Tail(Queue) = Tail(buf) \o evq /\ Head(buf) \in KernelEvent /\ AllHints \in Seq(Hint)
  BY <1>1, QueueHead, QueueTyped
<1>3. Head(buf).tid # WalkerTid
  BY <1>1, <1>2 DEF KernelEvent, Change, WalkerOpen
<1>4. InStep(Tail(Queue), AllHints, stack, frames, fd)
  BY <1>2, <1>3, ChangeTaken DEF Following
<1> QED BY <1>1, <1>2, <1>4 DEF Following, Queue, AllHints

(* What submit finds for an open of the walker.                            *)
LEMMA SubmitFollows ==
  ASSUME Inv, Following, buf # <<>>, Head(buf).tid = WalkerTid, NEW i \in NextHint
  PROVE  /\ InStep(Tail(Queue), SubSeq(hints, i + 1, Len(hints)) \o Due(fd),
                   Submit(Head(buf).fh, i).stack, frames, fd)
         /\ hints[i].type = "PushChildren" => Submit(Head(buf).fh, i).found = Known(Head(buf).new)
<1>1. /\ Queue \in Seq(KernelEvent) /\ Queue # <<>> /\ Head(Queue) = Head(buf)
      /\ AllHints \in Seq(Hint) /\ hints \in Seq(Hint) /\ stack \in Seq(Handle)
      /\ InStep(Queue, AllHints, stack, frames, fd)
  BY QueueHead, QueueTyped DEF Inv, WalkTyped, Following
<1>2. i \in 1 .. Len(hints) /\ hints[i].type # "PopChildren"
      /\ \A j \in 1 .. i - 1 : hints[j].type = "PopChildren"
  BY <1>1 DEF NextHint
<1> DEFINE due == Due(fd)
           rest == SubSeq(hints, i + 1, Len(hints))
<1>3. due \in Seq(Hint)
  <2>1. AllHints = hints \o due
    BY DEF AllHints
  <2>2. due = <<>> \/ \E x : due = <<x>>
    BY DEF Due
  <2>3. CASE due = <<>>
    BY <2>3
  <2>4. ASSUME NEW x, due = <<x>> PROVE due \in Seq(Hint)
    <3>1. fd # None /\ (fd \in Walkable \/ fd \in Entry)
      BY <2>4 DEF Due, Inv, WalkTyped
    <3>2. x = Begin \/ \E y \in Name : x = PushChildren(y)
      <4>1. fd.n = None \/ fd.n \in Name
        BY <3>1 DEF Walkable, Entry
      <4> QED BY <2>4, <3>1, <4>1 DEF Due
    <3>3. x \in Hint
      BY <3>2, HintTypes
    <3> QED BY <2>4, <3>3
  <2> QED BY <2>2, <2>3, <2>4
<1>4. /\ Len(AllHints) = Len(hints) + Len(due) /\ i \in 1 .. Len(AllHints)
      /\ \A j \in 1 .. Len(hints) : AllHints[j] = hints[j]
  <2>1. /\ Len(hints \o due) = Len(hints) + Len(due)
        /\ \A j \in 1 .. Len(hints) : (hints \o due)[j] = hints[j]
        /\ Len(hints) \in Nat /\ Len(due) \in Nat
    <3> HIDE DEF due
    <3> QED BY <1>1, <1>3
  <2> QED BY <1>2, <2>1 DEF AllHints
<1>5. SubSeq(AllHints, i + 1, Len(AllHints)) = rest \o due
  <2>1. \A a, b \in Seq(Hint) : \A k \in 1 .. Len(a) :
          SubSeq(a \o b, k + 1, Len(a \o b)) = SubSeq(a, k + 1, Len(a)) \o b
    <3> SUFFICES ASSUME NEW a \in Seq(Hint), NEW b \in Seq(Hint), NEW k \in 1 .. Len(a)
                 PROVE  SubSeq(a \o b, k + 1, Len(a \o b)) = SubSeq(a, k + 1, Len(a)) \o b
      OBVIOUS
    <3> DEFINE s1 == SubSeq(a \o b, k + 1, Len(a \o b))
               s2 == SubSeq(a, k + 1, Len(a)) \o b
    <3>1. s1 \in Seq(Hint) /\ s2 \in Seq(Hint)
      OBVIOUS
    <3>2. Len(s1) = Len(a) - k + Len(b) /\ Len(s2) = Len(a) - k + Len(b)
      OBVIOUS
    <3>3. ASSUME NEW j \in 1 .. Len(s1) PROVE s1[j] = s2[j]
      <4>1. s1[j] = (a \o b)[k + j]
        BY <3>2
      <4>2. CASE k + j <= Len(a)
        BY <3>2, <4>1, <4>2
      <4>3. CASE k + j > Len(a)
        BY <3>2, <4>1, <4>3
      <4> QED BY <3>2, <4>2, <4>3
    <3> HIDE DEF s1, s2
    <3>4. s1 = s2
      BY <3>1, <3>2, <3>3, SeqEqual
    <3> QED BY <3>4 DEF s1, s2
  <2> HIDE DEF due
  <2> QED BY <1>1, <1>2, <1>3, <2>1 DEF AllHints, due
<1>6. AllHints[i].type # "PopChildren" /\ \A j \in 1 .. i - 1 : AllHints[j].type = "PopChildren"
  <2>1. \A j \in 1 .. i - 1 : j \in 1 .. Len(hints)
    BY <1>1, <1>2
  <2> QED BY <1>2, <1>4, <2>1
<1> DEFINE below == SubSeq(stack, 1, Len(stack) - (i - 1))
<1>7. /\ InStep(Tail(Queue), SubSeq(AllHints, i + 1, Len(AllHints)), Append(below, Head(Queue).fh), frames, fd)
      /\ AllHints[i].type = "PushChildren" =>
           Head(Queue).new = [p |-> LastOf(below), n |-> AllHints[i].name]
  <2> HIDE DEF below
  <2> QED BY <1>1, <1>4, <1>6, OpenTaken DEF below
<1>8. below = Popped(i)
  BY DEF Popped
<1>9. /\ Submit(Head(buf).fh, i).stack = Append(below, Head(buf).fh)
      /\ hints[i].type = "PushChildren" =>
           Submit(Head(buf).fh, i).found = [p_fh |-> LastOf(below), name |-> hints[i].name]
  BY <1>8 DEF Submit
<1> HIDE DEF below, rest, due
<1>10. InStep(Tail(Queue), rest \o due, Submit(Head(buf).fh, i).stack, frames, fd)
  BY <1>1, <1>5, <1>7, <1>9
<1>11. ASSUME hints[i].type = "PushChildren"
       PROVE  Submit(Head(buf).fh, i).found = Known(Head(buf).new)
  BY <1>1, <1>2, <1>4, <1>7, <1>9, <1>11 DEF Known
<1> QED BY <1>10, <1>11 DEF rest, due

LEMMA HandleOpenFollows ==
  ASSUME Inv, Following, HandleOpen
  PROVE  Following'
<1>1. /\ buf # <<>> /\ Head(buf).tid = WalkerTid
      /\ UNCHANGED <<evq, frames, fd>> /\ buf' = Tail(buf)
      /\ \E i \in NextHint : stack' = Submit(Head(buf).fh, i).stack
                            /\ hints' = SubSeq(hints, i + 1, Len(hints))
  BY OpenRead DEF Report, fsVars
<1>2. PICK i \in NextHint : stack' = Submit(Head(buf).fh, i).stack
                            /\ hints' = SubSeq(hints, i + 1, Len(hints))
  BY <1>1
<1>3. Tail(Queue) = Tail(buf) \o evq
  BY <1>1, QueueHead
<1>4. InStep(Tail(Queue), SubSeq(hints, i + 1, Len(hints)) \o Due(fd),
             Submit(Head(buf).fh, i).stack, frames, fd)
  BY <1>1, SubmitFollows
<1> QED BY <1>1, <1>2, <1>3, <1>4 DEF Following, Queue, AllHints

(* A thread that waits finds a hint, or the walker has one to send.        *)
LEMMA OpenHasHint ==
  ASSUME Inv, Following
  PROVE  HintIsComing
<1> SUFFICES ASSUME buf # <<>>, Head(buf).tid = WalkerTid, fd = None PROVE NextHint # {}
  BY DEF HintIsComing
<1>1. /\ Queue \in Seq(KernelEvent) /\ Queue # <<>> /\ Head(Queue) = Head(buf) /\ hints \in Seq(Hint)
  BY QueueHead DEF Inv, WalkTyped
<1>2. AllHints = hints
  <2>1. \A s \in Seq(Hint) : s \o <<>> = s
    OBVIOUS
  <2> QED BY <1>1, <2>1 DEF AllHints, Due
<1>3. PICK T, u : Matched(T, u, Queue, hints)
  BY <1>2 DEF Following, InStep
<1>4. 1 \in 1 .. Len(Queue) /\ 1 \in 0 .. Len(Queue) /\ Queue[1] = Head(buf)
  BY <1>1, EmptySeq
<1>5. Pair(T, u[0], u[1], Queue[1], hints) /\ u[0] = 0 /\ u[1] \in 0 .. Len(hints)
  <2>1. IF Queue[1].tid = WalkerTid THEN Pair(T, u[1 - 1], u[1], Queue[1], hints) ELSE u[1] = u[1 - 1]
    BY <1>3, <1>4 DEF Matched
  <2> QED BY <1>3, <1>4, <2>1 DEF Matched
<1>6. /\ 0 < u[1] /\ hints[u[1]].type # "PopChildren"
      /\ \A j \in 0 + 1 .. u[1] - 1 : hints[j].type = "PopChildren"
  BY <1>5 DEF Pair
<1>7. u[1] \in DOMAIN hints
  BY <1>1, <1>5, <1>6
<1>8. u[1] \in NextHint
  BY <1>6, <1>7 DEF NextHint
<1> QED BY <1>8

-----------------------------------------------------------------------------
(* A watcher with nothing on its way.                                      *)
LEMMA EmptyFollows ==
  ASSUME evq = <<>>, buf = <<>>, hints = <<>>, stack = <<>>, frames = <<>>, fd = None
  PROVE  Following
<1> DEFINE T == [k \in 0 .. 0 |-> <<>>]
           u == [k \in 0 .. 0 |-> 0]
<1>1. /\ Queue = <<>> /\ AllHints = <<>>
  <2>1. \A S : <<>> \o <<>> = <<>>
    OBVIOUS
  <2> QED BY <2>1 DEF Queue, AllHints, Due
<1>2. Len(<<>>) = 0 /\ <<>> \in Seq(Handle)
  OBVIOUS
<1>3. Stacks(T, <<>>, <<>>)
  BY <1>2 DEF Stacks
<1>4. Matched(T, u, <<>>, <<>>)
  BY <1>2 DEF Matched
<1>5. OnTop(T[Len(<<>>)], <<>>, None)
  BY <1>2 DEF OnTop, Extra
<1> HIDE DEF T, u
<1> QED BY <1>1, <1>3, <1>4, <1>5 DEF Following, InStep

(* What is queued names entries there are or were.                         *)
AllGenuine(q, P) == \A j \in 1 .. Len(q) : Genuine(q[j], P)
Reported == AllGenuine(evq, past) /\ AllGenuine(buf, past)

(* Opens and hints stay in step as long as no two opens of the walker are  *)
(* merged.                                                                 *)
LEMMA FollowingStep ==
  ASSUME Inv, Down, Following, Reported, [Next]_vars, ~OpenMerges
  PROVE  Down' /\ Following'
<1>1. CASE Programs
  <2>1. PICK c \in Syscalls : Syscall(c)
    BY <1>1 DEF Programs
  <2>2. UNCHANGED <<walkVars, writerVars, buf, crashes>> /\ UNCHANGED watched
    BY <1>1, <2>1 DEF Programs, Syscall
  <2>3. Grows(evq, evq')
    BY <2>1, SyscallReports DEF Inv, Reported, AllGenuine
  <2>4. Following'
    <3>1. evq' \in Seq(KernelEvent)
      BY <2>1, SyscallTyped DEF Inv, FsTyped
    <3>2. buf \in Seq(KernelEvent) /\ evq \in Seq(KernelEvent)
      BY DEF Inv, FsTyped
    <3>3. Grows(Queue, buf \o evq')
      BY <2>3, <3>1, <3>2, QueueGrows DEF Queue
    <3>4. InStep(buf \o evq', AllHints, stack, frames, fd)
      <4>1. Queue \in Seq(KernelEvent) /\ AllHints \in Seq(Hint) /\ buf \o evq' \in Seq(KernelEvent)
        BY <3>1, <3>2, QueueTyped
      <4> QED BY <3>3, <4>1, GrownInStep DEF Following
    <3> QED BY <2>2, <3>4 DEF Following, Queue, AllHints, walkVars
  <2>5. ASSUME ~watched PROVE evq' = <<>>
    <3>1. evq = <<>>
      BY <2>5 DEF Down
    <3>2. \A ev : Notify(ev) => evq' = evq
      BY <2>5 DEF Notify
    <3> QED BY <2>1, <2>5, <3>1, <3>2
              DEF Syscall, Create, Link, Put, Remove, Rename, Exchange, Open
  <2>6. Down'
    BY <2>2, <2>5 DEF Down, walkVars, writerVars
  <2> QED BY <2>4, <2>6
<1>2. CASE Read
  <2>1. watched' = TRUE
    BY <1>2 DEF Read, Inv, FsTyped
  <2> QED BY <1>2, <2>1, ReadFollows DEF Down
<1>3. CASE HandleChange \/ HandleOpen
  <2>1. buf # <<>> /\ UNCHANGED watched
    BY <1>3 DEF HandleChange, HandleOpen, Report, fsVars
  <2>2. watched'
    BY <2>1 DEF Down
  <2> QED BY <1>3, <2>2, HandleChangeFollows, HandleOpenFollows DEF Down
<1>4. CASE WalkerThread
  <2>1. Walk /\ UNCHANGED <<writerVars, buf, crashes>>
    BY <1>4 DEF WalkerThread
  <2>2. Following'
    <3>1. OpenBlocks => Following'
      BY <2>1 DEF OpenBlocks, Following, Queue, AllHints, fsVars
    <3> QED BY <2>1, <3>1, OpenRequestFollows, OpenChildFollows, SendHintFollows, EndDirFollows DEF Walk
  <2>3. UNCHANGED watched /\ (requests # <<>> \/ frames # <<>> \/ fd # None)
    BY <2>1 DEF Walk, OpenRequest, OpenChild, OpenBlocks, SendHint, EndDir, fsVars
  <2>4. watched'
    BY <2>3 DEF Down
  <2> QED BY <2>2, <2>4 DEF Down
<1>5. CASE DbThread \/ DbError
  <2>1. /\ Writer!Thread \/ Writer!SQLiteError
        /\ UNCHANGED <<fsVars, frames, fd, hints, stack, buf, crashes>>
    BY <1>5 DEF DbThread, DbError
  <2>2. Following'
    BY <2>1 DEF Following, Queue, AllHints, fsVars
  <2>3. chan # <<>> \/ batch # <<>>
    <3>1. pos \in 0 .. Len(batch) + 1 /\ (pos > 0 => batch # <<>>)
      BY DEF Inv, Proved!Inv
    <3> QED BY <2>1, <3>1 DEF Writer!Thread, Writer!Recv, Writer!Flush, Writer!Apply, Writer!Commit,
                              Writer!SQLiteError
  <2>4. watched'
    BY <2>1, <2>3 DEF Down, fsVars
  <2> QED BY <2>2, <2>4 DEF Down
<1>6. CASE Crash \/ ReaderPanics
  <2>1. /\ evq' = <<>> /\ buf' = <<>> /\ frames' = <<>> /\ fd' = None /\ hints' = <<>> /\ stack' = <<>>
        /\ chan' = <<>> /\ batch' = <<>> /\ requests' = <<>>
    BY <1>6 DEF Crash, ReaderPanics, Die, Writer!Restart
  <2>2. Following'
    <3>1. (evq = <<>> /\ buf = <<>> /\ hints = <<>> /\ stack = <<>> /\ frames = <<>> /\ fd = None
           => Following)'
      BY EmptyFollows, PTL
    <3> QED BY <2>1, <3>1
  <2> QED BY <2>1, <2>2 DEF Down
<1>7. CASE Start
  BY <1>7 DEF Start, Down, Following, Queue, AllHints, walkVars
<1>8. CASE UNCHANGED vars
  BY <1>8 DEF vars, fsVars, walkVars, writerVars, Down, Following, Queue, AllHints
<1> QED BY <1>1, <1>2, <1>3, <1>4, <1>5, <1>6, <1>7, <1>8 DEF Next, FanotifyThread, Idle

-----------------------------------------------------------------------------
(* Of what is queued nothing but the masks changes.                        *)
LEMMA EnqueueGenuine ==
  ASSUME NEW q \in Seq(KernelEvent), NEW ev \in KernelEvent, NEW P,
         AllGenuine(q, P), Genuine(ev, P)
  PROVE  AllGenuine(Enqueue(ev, q), P)
<1>1. CASE \E i \in DOMAIN q : Reports(q[i]) = Reports(ev)
  <2> DEFINE r == [i \in DOMAIN q |-> IF Reports(q[i]) = Reports(ev)
                                      THEN [q[i] EXCEPT !.mask = @ \cup ev.mask] ELSE q[i]]
  <2>1. Enqueue(ev, q) = r
    BY <1>1 DEF Enqueue
  <2>2. Len(r) = Len(q)
    OBVIOUS
  <2>3. ASSUME NEW i \in 1 .. Len(q) PROVE Genuine(r[i], P)
    <3>1. q[i] \in KernelEvent /\ Genuine(q[i], P)
      BY DEF AllGenuine
    <3>2. r[i] = q[i] \/ r[i] = [q[i] EXCEPT !.mask = @ \cup ev.mask]
      <4>1. i \in DOMAIN q
        OBVIOUS
      <4> QED BY <4>1, Zenon
    <3>3. r[i].fh = q[i].fh /\ r[i].new = q[i].new
      <4> HIDE DEF r
      <4> QED BY <3>1, <3>2 DEF KernelEvent, Change, WalkerOpen
    <3> HIDE DEF r
    <3> QED BY <3>1, <3>3 DEF Genuine
  <2> HIDE DEF r
  <2> QED BY <2>1, <2>2, <2>3 DEF AllGenuine
<1>2. CASE ~(\E i \in DOMAIN q : Reports(q[i]) = Reports(ev))
  <2>1. Enqueue(ev, q) = Append(q, ev)
    BY <1>2 DEF Enqueue
  <2>2. \A i \in 1 .. Len(Append(q, ev)) : Append(q, ev)[i] = ev \/ \E j \in 1 .. Len(q) : Append(q, ev)[i] = q[j]
    OBVIOUS
  <2> QED BY <2>1, <2>2 DEF AllGenuine
<1> QED BY <1>1, <1>2

(* The walker opens what is there.                                         *)
LEMMA WalkReports ==
  ASSUME Inv, Walk, AllGenuine(evq, past)
  PROVE  AllGenuine(evq', past)
<1>1. evq \in Seq(KernelEvent) /\ tree \subseteq Entry /\ tree \subseteq past
  BY DEF Inv, FsTyped
<1>2. ASSUME NEW e, e \in Walkable \/ e \in tree, Notify(Ev("OPEN", WalkerTid, None, Where(e), e.h))
      PROVE  AllGenuine(evq', past)
  <2> DEFINE ev == Ev("OPEN", WalkerTid, None, Where(e), e.h)
  <2>1. e.p \in Dirs \cup {None} /\ e.n \in Name \cup {None} /\ e.h \in Handle
    BY <1>1, <1>2 DEF Walkable, Entry
  <2>2. ev \in KernelEvent /\ ev.new = Where(e) /\ ev.fh = e.h
    <3>1. ev \in WalkerOpen
      BY <2>1 DEF Ev, WalkerOpen, Where
    <3> QED BY <3>1 DEF KernelEvent, Ev
  <2>3. Genuine(ev, past)
    <3>1. CASE e \in Walkable
      <4>1. Where(e).n \notin Name
        BY <3>1, FilesystemAssumption DEF Walkable, Where
      <4> HIDE DEF ev
      <4> QED BY <2>2, <4>1 DEF Genuine
    <3>2. CASE e \in tree
      <4>1. e = [p |-> Where(e).p, n |-> Where(e).n, h |-> e.h]
        BY <1>1, <3>2 DEF Entry, Where
      <4> HIDE DEF ev
      <4> QED BY <1>1, <2>2, <3>2, <4>1 DEF Genuine
    <3> QED BY <1>2, <3>1, <3>2
  <2>4. AllGenuine(Enqueue(ev, evq), past)
    <3> HIDE DEF ev
    <3> QED BY <1>1, <2>2, <2>3, EnqueueGenuine
  <2>5. evq' = Enqueue(ev, evq) \/ evq' = evq
    BY <1>2 DEF Notify
  <2> HIDE DEF ev
  <2> QED BY <2>4, <2>5
<1>3. CASE OpenRequest
  <2> DEFINE e == [p |-> None, n |-> None, h |-> Head(requests)]
  <2>1. Notify(Ev("OPEN", WalkerTid, None, Where(e), e.h)) \/ UNCHANGED evq
    BY <1>3 DEF OpenRequest
  <2>2. Head(requests) \in Handle
    BY <1>3 DEF OpenRequest, Inv, WalkTyped
  <2>3. e \in Walkable
    BY <2>2 DEF Walkable
  <2> HIDE DEF e
  <2> QED BY <1>2, <2>1, <2>3
<1>4. CASE OpenChild
  <2>1. UNCHANGED evq \/ \E e \in tree : Notify(Ev("OPEN", WalkerTid, None, Where(e), e.h))
    BY <1>4 DEF OpenChild, At
  <2> QED BY <1>2, <2>1
<1>5. CASE OpenBlocks \/ SendHint \/ EndDir
  BY <1>5 DEF OpenBlocks, SendHint, EndDir, fsVars
<1> QED BY <1>3, <1>4, <1>5 DEF Walk

(* Nothing is forgotten of what there was.                                 *)
LEMMA PastGrows == [Next]_vars => past \subseteq past'
<1> SUFFICES ASSUME [Next]_vars PROVE past \subseteq past'
  OBVIOUS
<1>1. CASE Programs
  BY <1>1 DEF Programs, Syscall
<1>2. CASE FanotifyThread \/ WalkerThread
  BY <1>2 DEF FanotifyThread, Read, HandleChange, HandleOpen, ReaderPanics, Die, Report, fsVars,
              WalkerThread, Walk, OpenRequest, OpenChild, OpenBlocks, SendHint, EndDir
<1>3. CASE DbThread \/ DbError \/ Crash \/ Start \/ UNCHANGED vars
  BY <1>3 DEF DbThread, DbError, Crash, Die, Start, vars, fsVars
<1> QED BY <1>1, <1>2, <1>3 DEF Next, Idle

(* What is queued goes on being of what there was.                         *)
LEMMA ReportedStep ==
  ASSUME Inv, Reported, [Next]_vars
  PROVE  Reported'
<1>1. \A q : AllGenuine(q, past) => AllGenuine(q, past')
  BY PastGrows DEF AllGenuine, Genuine
<1>2. evq \in Seq(KernelEvent) /\ buf \in Seq(KernelEvent)
  BY DEF Inv, FsTyped
<1>3. CASE UNCHANGED <<evq, buf>>
  BY <1>1, <1>3 DEF Reported
<1>4. CASE Programs
  <2>1. PICK c \in Syscalls : Syscall(c)
    BY <1>4 DEF Programs
  <2>2. AllGenuine(evq', past') /\ UNCHANGED buf
    BY <1>4, <2>1, SyscallReports DEF Inv, Reported, AllGenuine, Programs
  <2> QED BY <1>1, <2>2 DEF Reported
<1>5. CASE Read
  <2> DEFINE n == IF Len(evq) < BufEvents THEN Len(evq) ELSE BufEvents
  <2>1. buf' = SubSeq(evq, 1, n) /\ evq' = SubSeq(evq, n + 1, Len(evq)) /\ UNCHANGED past
    BY <1>5 DEF Read
  <2>2. n \in 0 .. Len(evq)
    BY <1>2, WatcherAssumption
  <2>3. \A a, b \in Nat : b <= Len(evq) => \A j \in 1 .. Len(SubSeq(evq, a + 1, b)) :
          j + a \in 1 .. Len(evq) /\ SubSeq(evq, a + 1, b)[j] = evq[j + a]
    <3> SUFFICES ASSUME NEW a \in Nat, NEW b \in Nat, b <= Len(evq),
                        NEW j \in 1 .. Len(SubSeq(evq, a + 1, b))
                 PROVE  j + a \in 1 .. Len(evq) /\ SubSeq(evq, a + 1, b)[j] = evq[j + a]
      OBVIOUS
    <3>1. Len(SubSeq(evq, a + 1, b)) = IF a + 1 <= b THEN b - a ELSE 0
      BY <1>2
    <3>2. j \in 1 .. b - a /\ Len(evq) \in Nat
      BY <1>2, <3>1
    <3> QED BY <1>2, <3>2
  <2> HIDE DEF n
  <2>4. AllGenuine(SubSeq(evq, n + 1, Len(evq)), past)
    BY <1>2, <2>2, <2>3 DEF AllGenuine, Reported
  <2>5. AllGenuine(SubSeq(evq, 0 + 1, n), past)
    BY <1>2, <2>2, <2>3 DEF AllGenuine, Reported
  <2> QED BY <2>1, <2>4, <2>5 DEF Reported
<1>6. CASE HandleChange \/ HandleOpen
  <2>1. buf # <<>> /\ buf' = Tail(buf) /\ UNCHANGED <<evq, past>>
    BY <1>6 DEF HandleChange, HandleOpen, Report, fsVars
  <2>2. \A j \in 1 .. Len(Tail(buf)) : j + 1 \in 1 .. Len(buf) /\ Tail(buf)[j] = buf[j + 1]
    BY <1>2, <2>1
  <2> QED BY <2>1, <2>2 DEF Reported, AllGenuine
<1>7. CASE WalkerThread
  <2>1. Walk /\ UNCHANGED buf /\ UNCHANGED past
    BY <1>7 DEF WalkerThread, Walk, OpenRequest, OpenChild, OpenBlocks, SendHint, EndDir, fsVars
  <2>2. AllGenuine(evq', past)
    BY <2>1, WalkReports DEF Reported
  <2> QED BY <2>1, <2>2 DEF Reported
<1>8. CASE Crash \/ ReaderPanics
  <2>1. evq' = <<>> /\ buf' = <<>>
    BY <1>8 DEF Crash, ReaderPanics, Die
  <2>2. \A P : AllGenuine(<<>>, P)
    BY DEF AllGenuine
  <2> QED BY <2>1, <2>2 DEF Reported
<1>9. CASE DbThread \/ DbError \/ Start \/ UNCHANGED vars
  BY <1>3, <1>9 DEF DbThread, DbError, Start, vars, fsVars
<1> QED BY <1>4, <1>5, <1>6, <1>7, <1>8, <1>9 DEF Next, FanotifyThread, Idle

-----------------------------------------------------------------------------
(* What is sent to the database thread names what there was.               *)
AllBrought(q, P) == \A j \in 1 .. Len(q) : Proved!Brought(q[j], P)
Carried == AllBrought(chan, past) /\ AllBrought(batch, past)

LEMMA AlterBrought ==
  ASSUME NEW ev, NEW P, Genuine(ev, P), ev.new.n \in Name, NEW old, NEW new \in {None, Known(ev.new)}
  PROVE  Proved!Brought(Alter(old, new, ev), P)
<1>1. [p |-> ev.new.p, n |-> ev.new.n, h |-> ev.fh] \in P
  BY DEF Genuine
<1>2. Alter(old, new, ev).type # "Discover" /\ Alter(old, new, ev).new_dirent = new
      /\ Alter(old, new, ev).fh = ev.fh
  BY DEF Alter
<1>3. Known(ev.new).p_fh = ev.new.p /\ Known(ev.new).name = ev.new.n
  BY DEF Known
<1> QED BY <1>1, <1>2, <1>3 DEF Proved!Brought

LEMMA ChangeBrought ==
  ASSUME NEW ev \in Change, NEW P, Genuine(ev, P)
  PROVE  AllBrought(Altered(ev), P) /\ AllBrought(Renamed(ev), P)
<1>1. ev.new.n \in Name
  BY DEF Change, Place
<1>2. \A old : \A new \in {None, Known(ev.new)} : AllBrought(<<Alter(old, new, ev)>>, P)
  <2> SUFFICES ASSUME NEW old, NEW new \in {None, Known(ev.new)} PROVE AllBrought(<<Alter(old, new, ev)>>, P)
    OBVIOUS
  <2>1. Proved!Brought(Alter(old, new, ev), P)
    BY <1>1, AlterBrought
  <2>2. \A x : Len(<<x>>) = 1 /\ <<x>>[1] = x
    OBVIOUS
  <2> QED BY <2>1, <2>2 DEF AllBrought
<1>3. AllBrought(<<>>, P)
  BY DEF AllBrought
<1>4. AllBrought(Renamed(ev), P)
  <2> DEFINE old == IF Allow(ev.fh, ev.old.n) THEN Known(ev.old) ELSE None
             new == IF Allow(ev.fh, ev.new.n) THEN Known(ev.new) ELSE None
  <2>1. Renamed(ev) = <<>> \/ Renamed(ev) = <<Alter(old, new, ev)>>
    BY DEF Renamed
  <2>2. new \in {None, Known(ev.new)}
    OBVIOUS
  <2> HIDE DEF old, new
  <2> QED BY <1>2, <1>3, <2>1, <2>2, Zenon
<1>5. AllBrought(Altered(ev), P)
  <2> DEFINE a == IF "CREATE" \in ev.mask THEN <<Alter(None, Known(ev.new), ev)>> ELSE <<>>
             b == IF "DELETE" \in ev.mask THEN <<Alter(Known(ev.new), None, ev)>> ELSE <<>>
  <2>1. Altered(ev) = <<>> \/ Altered(ev) = a \o b
    BY DEF Altered
  <2>2. AllBrought(a, P) /\ AllBrought(b, P)
    BY <1>2, <1>3, Zenon
  <2>3. \E S, R : a \in Seq(S) /\ b \in Seq(R)
    <3>1. \A x : <<x>> \in Seq({x}) /\ <<>> \in Seq({x})
      OBVIOUS
    <3>2. /\ a \in Seq({Alter(None, Known(ev.new), ev)})
          /\ b \in Seq({Alter(Known(ev.new), None, ev)})
      BY <3>1, Zenon
    <3> HIDE DEF a, b
    <3> QED BY <3>2
  <2>4. AllBrought(a \o b, P)
    <3> HIDE DEF a, b
    <3> QED BY <2>2, <2>3 DEF AllBrought
  <2> HIDE DEF a, b
  <2> QED BY <1>3, <2>1, <2>4, Zenon
<1> QED BY <1>4, <1>5

LEMMA DiscoveredBrought ==
  ASSUME NEW ev, NEW P, Genuine(ev, P), NEW found,
         found # None => found = Known(ev.new) /\ ev.new.n \in Name
  PROVE  AllBrought(Discovered(ev, found), P)
<1> DEFINE x == [type |-> "Discover", p_fh |-> found.p_fh, fh |-> ev.fh, name |-> found.name]
<1>1. Discovered(ev, found) = <<>> \/ (found # None /\ Discovered(ev, found) = <<x>>)
  BY DEF Discovered
<1>2. ASSUME found # None PROVE Proved!Brought(x, P)
  <2>1. found.p_fh = ev.new.p /\ found.name = ev.new.n
    BY <1>2 DEF Known
  <2>2. [p |-> ev.new.p, n |-> ev.new.n, h |-> ev.fh] \in P
    BY <1>2 DEF Genuine
  <2> QED BY <2>1, <2>2 DEF Proved!Brought
<1>3. \A y : Len(<<y>>) = 1 /\ <<y>>[1] = y
  OBVIOUS
<1> HIDE DEF x
<1> QED BY <1>1, <1>2, <1>3 DEF AllBrought

(* What the reader sends.                                                  *)
LEMMA ReaderBrings ==
  ASSUME Inv, Following, Reported, AllBrought(chan, past), HandleChange \/ HandleOpen
  PROVE  AllBrought(chan', past) /\ UNCHANGED <<past, batch, db, work>>
<1> DEFINE ev == Head(buf)
<1>1. buf # <<>> /\ buf \in Seq(KernelEvent) /\ chan \in Seq(Events)
  BY DEF HandleChange, HandleOpen, Inv, Proved!Inv
<1>2. ev \in KernelEvent /\ Genuine(ev, past)
  BY <1>1 DEF Reported, AllGenuine
<1>3. ASSUME NEW events \in Seq(Events), AllBrought(events, past), Report(events)
      PROVE  AllBrought(chan', past) /\ UNCHANGED <<past, batch, db, work>>
  <2>1. chan' = chan \o events /\ UNCHANGED <<past, batch, db, work>>
    BY <1>3 DEF Report, fsVars
  <2>2. \A j \in 1 .. Len(chan \o events) : \/ \E k \in 1 .. Len(chan) : (chan \o events)[j] = chan[k]
                                           \/ \E k \in 1 .. Len(events) : (chan \o events)[j] = events[k]
    <3> TAKE j \in 1 .. Len(chan \o events)
    <3>1. CASE j <= Len(chan)
      BY <1>1, <3>1
    <3>2. CASE j > Len(chan)
      <4>1. j - Len(chan) \in 1 .. Len(events) /\ (chan \o events)[j] = events[j - Len(chan)]
        BY <1>1, <3>2
      <4> QED BY <4>1
    <3> QED BY <1>1, <3>1, <3>2
  <2> QED BY <1>3, <2>1, <2>2 DEF AllBrought
<1>4. CASE HandleChange
  <2> DEFINE events == IF ev.mask = {"OPEN"} THEN <<>>
                       ELSE IF "RENAME" \in ev.mask THEN Renamed(ev) ELSE Altered(ev)
  <2>1. ev \in Change
    <3>1. ~(ev.mask = {"OPEN"} /\ ev.tid = WalkerTid)
      BY <1>4 DEF HandleChange
    <3> HIDE DEF ev
    <3> QED BY <1>2, <3>1 DEF KernelEvent, WalkerOpen
  <2>2. Report(events)
    BY <1>4 DEF HandleChange
  <2>3. AllBrought(<<>>, past) /\ <<>> \in Seq(Events)
    BY DEF AllBrought
  <2> HIDE DEF ev
  <2>4. events \in Seq(Events) /\ AllBrought(events, past)
    BY <1>2, <2>1, <2>3, ChangeReported, ChangeBrought
  <2> HIDE DEF events
  <2> QED BY <1>3, <2>2, <2>4
<1>5. CASE HandleOpen
  <2>1. PICK j \in NextHint : Report(Discovered(ev, Submit(ev.fh, j).found))
    BY <1>5, OpenRead
  <2> DEFINE found == Submit(ev.fh, j).found
  <2>2. ev.tid = WalkerTid
    BY <1>5, OpenRead
  <2>3. hints[j].type = "PushChildren" => found = Known(ev.new)
    BY <1>1, <2>2, SubmitFollows
  <2>4. hints[j].type \in {"Begin", "PushChildren"} /\ (hints[j].type = "Begin" => found = None)
    <3>1. hints \in Seq(Hint) /\ j \in DOMAIN hints /\ hints[j].type # "PopChildren"
      BY DEF Inv, WalkTyped, NextHint
    <3>2. hints[j] \in Hint
      BY <3>1
    <3>3. hints[j].type \in {"Begin", "PushChildren"}
      BY <3>1, <3>2 DEF Hint, Begin, PopChildren, PushChildren
    <3> QED BY <3>3 DEF Submit
  <2>5. found = None \/ found \in [p_fh : Handle, name : Name]
    <3>1. ev.fh \in Handle
      <4> HIDE DEF ev
      <4> QED BY <1>2 DEF KernelEvent, Change, WalkerOpen
    <3> HIDE DEF ev
    <3> QED BY <3>1, SubmitResult DEF Inv
  <2> HIDE DEF ev, found
  <2>6. found # None => found = Known(ev.new) /\ ev.new.n \in Name
    <3>1. found # None => found = Known(ev.new) /\ found.name \in Name
      BY <2>3, <2>4, <2>5
    <3> QED BY <3>1 DEF Known
  <2>7. Discovered(ev, found) \in Seq(Events) /\ AllBrought(Discovered(ev, found), past)
    BY <1>2, <2>5, <2>6, OpenReported, DiscoveredBrought
  <2> QED BY <1>3, <2>1, <2>7 DEF found
<1> QED BY <1>4, <1>5

-----------------------------------------------------------------------------
(* What the database holds is what there was, but for rows that are their  *)
(* own parents.                                                            *)
Held == Proved!Real(db, past) /\ Proved!Real(work, past)

(* Everything that moves from one place to the next.                       *)
LEMMA CarriedStep ==
  ASSUME Inv, Following, Reported, Carried, Held, [Next]_vars
  PROVE  Carried' /\ Held'
<1>1. /\ chan \in Seq(Events) /\ batch \in Seq(Events) /\ Proved!Sound(db) /\ Proved!Sound(work)
      /\ pos \in 0 .. Len(batch) + 1
  BY DEF Inv, Proved!Inv
<1>2. /\ \A q : AllBrought(q, past) => AllBrought(q, past')
      /\ \A d : Proved!Real(d, past) => Proved!Real(d, past')
  BY PastGrows DEF AllBrought, Proved!Brought, Proved!Real
<1>3. CASE UNCHANGED <<chan, batch, db, work>>
  BY <1>2, <1>3 DEF Carried, Held
<1>4. CASE HandleChange \/ HandleOpen
  <2>1. AllBrought(chan', past) /\ UNCHANGED <<past, batch, db, work>>
    BY <1>4, ReaderBrings DEF Carried
  <2> QED BY <2>1 DEF Carried, Held
<1>5. CASE DbThread
  <2>1. Writer!Thread /\ UNCHANGED past
    BY <1>5 DEF DbThread, fsVars
  <2>2. CASE Writer!Recv
    <3>1. chan # <<>> /\ batch' = Append(batch, Head(chan)) /\ chan' = Tail(chan) /\ UNCHANGED <<db, work>>
      BY <2>2 DEF Writer!Recv
    <3>2. Head(chan) = chan[1] /\ 1 \in 1 .. Len(chan)
          /\ \A j \in 1 .. Len(Tail(chan)) : j + 1 \in 1 .. Len(chan) /\ Tail(chan)[j] = chan[j + 1]
      BY <1>1, <3>1
    <3>3. \A j \in 1 .. Len(Append(batch, Head(chan))) :
            \/ Append(batch, Head(chan))[j] = Head(chan)
            \/ j \in 1 .. Len(batch) /\ Append(batch, Head(chan))[j] = batch[j]
      BY <1>1
    <3> QED BY <2>1, <3>1, <3>2, <3>3 DEF Carried, Held, AllBrought
  <2>3. CASE Writer!Flush
    BY <2>1, <2>3 DEF Writer!Flush, Carried, Held
  <2>4. CASE Writer!Apply
    <3> DEFINE e == batch[pos]
               r == Writer!HandleEvent(work, e)
    <3>1. pos \in 1 .. Len(batch) /\ UNCHANGED <<chan, db>>
          /\ IF r.err = "Ok" THEN work' = r.db /\ UNCHANGED batch ELSE work' = db /\ batch' = <<>>
      BY <2>4 DEF Writer!Apply, Writer!EndBatch
    <3>2. e \in Proved!Event
      BY <1>1, <3>1, ReaderEvents
    <3>3. Proved!Brought(e, past)
      BY <3>1 DEF Carried, AllBrought
    <3>4. r = Proved!HandleEvent(work, e)
      BY SameHandleEvent
    <3>5. ASSUME r.err = "Ok" PROVE Proved!Real(r.db, past)
      <4> HIDE DEF e
      <4> QED BY <1>1, <3>2, <3>3, <3>4, <3>5, Assumptions, Proved!EventReal
               DEF Held, Proved!NamesAssumption, Proved!NoneAssumption, Proved!DbWriterAssumption
    <3>6. AllBrought(<<>>, past)
      BY DEF AllBrought
    <3> HIDE DEF r, e
    <3> QED BY <2>1, <3>1, <3>5, <3>6 DEF Carried, Held
  <2>5. CASE Writer!Commit
    <3>1. AllBrought(<<>>, past)
      BY DEF AllBrought
    <3> QED BY <2>1, <2>5, <3>1 DEF Writer!Commit, Writer!EndBatch, Carried, Held
  <2> QED BY <2>1, <2>2, <2>3, <2>4, <2>5 DEF Writer!Thread
<1>6. CASE DbError \/ Crash \/ ReaderPanics
  <2>1. batch' = <<>> /\ (chan' = chan \/ chan' = <<>>) /\ work' = db /\ db' = db /\ UNCHANGED past
    BY <1>6 DEF DbError, Crash, ReaderPanics, Die, Writer!SQLiteError, Writer!EndBatch, Writer!Restart, fsVars
  <2>2. AllBrought(<<>>, past)
    BY DEF AllBrought
  <2> QED BY <2>1, <2>2 DEF Carried, Held
<1>7. CASE Programs \/ Read \/ WalkerThread \/ Start \/ UNCHANGED vars
  BY <1>3, <1>7 DEF Programs, Read, WalkerThread, Start, vars, writerVars
<1> QED BY <1>4, <1>5, <1>6, <1>7 DEF Next, FanotifyThread, Idle

-----------------------------------------------------------------------------
(* The inductive invariant: opens and hints are in step ...                *)
MatchInv == Inv /\ Down /\ Following /\ Reported

LEMMA MatchInit == Init => MatchInv
<1> SUFFICES ASSUME Init PROVE MatchInv
  OBVIOUS
<1>1. Inv
  BY InitInv
<1>2. /\ watched = TRUE /\ evq = <<>> /\ buf = <<>> /\ hints = <<>> /\ stack = <<>> /\ frames = <<>> /\ fd = None
  BY DEF Init, FsInit, DiscovererInit
<1>3. Down /\ Following
  BY <1>2, EmptyFollows DEF Down
<1>4. Reported
  BY <1>2 DEF Reported, AllGenuine
<1> QED BY <1>1, <1>3, <1>4 DEF MatchInv

LEMMA NeverMerged == [~OpenMerges]_vars => ~OpenMerges
<1>1. UNCHANGED vars => ~OpenMerges
  BY DEF vars, walkVars, OpenMerges
<1> QED BY <1>1

LEMMA MatchNext == MatchInv /\ [Next]_vars /\ [~OpenMerges]_vars => MatchInv'
BY NeverMerged, NextInv, FollowingStep, ReportedStep DEF MatchInv

LEMMA MatchedForEver == Spec /\ DistinctOpens => []MatchInv
BY MatchInit, MatchNext, PTL DEF Spec, DistinctOpens

(* ... and what is on its way to the database, and in it, is true.  The    *)
(* database that `sqsearch index` left shows nothing that is not there.    *)
FollowInv == MatchInv /\ Carried /\ Held

Truthful == View(InitDb) \subseteq InitTree

LEMMA FollowInit == Truthful /\ Init => FollowInv
<1> SUFFICES ASSUME Truthful, Init PROVE FollowInv
  OBVIOUS
<1>1. past = InitTree /\ chan = <<>> /\ batch = <<>> /\ db = InitDb /\ work = InitDb
  BY DEF Init, FsInit, Writer!Init
<1>2. Carried
  BY <1>1 DEF Carried, AllBrought
<1>3. Proved!Real(InitDb, InitTree)
  BY DEF Proved!Real, Proved!EntryOf, Truthful, View, Proved!ROOT_ID, Writer!ROOT_ID
<1> QED BY <1>1, <1>2, <1>3, MatchInit DEF FollowInv, Held

LEMMA FollowNext == FollowInv /\ [Next]_vars /\ [~OpenMerges]_vars => FollowInv'
<1> SUFFICES ASSUME FollowInv, [Next]_vars, [~OpenMerges]_vars PROVE FollowInv'
  OBVIOUS
<1>1. MatchInv'
  BY MatchNext DEF FollowInv
<1>2. Carried' /\ Held'
  BY CarriedStep DEF FollowInv, MatchInv
<1> QED BY <1>1, <1>2 DEF FollowInv

LEMMA Followed == Truthful /\ Spec /\ DistinctOpens => []FollowInv
<1>1. Truthful /\ Init => FollowInv
  BY FollowInit
<1>2. FollowInv /\ [Next]_vars /\ [~OpenMerges]_vars => FollowInv'
  BY FollowNext
<1> QED BY <1>1, <1>2, PTL DEF Spec, DistinctOpens

-----------------------------------------------------------------------------
(* The Reconstructer names every open after the entry the walker opened.   *)
THEOREM NamesMatchOpensAlways == Spec /\ DistinctOpens => NamesMatchOpens
<1> DEFINE Named == \A i \in NextHint : HandleOpen /\ hints[i].type = "PushChildren" =>
                      Submit(Head(buf).fh, i).found = Known(Head(buf).new)
<1>1. MatchInv => Named
  <2> SUFFICES ASSUME MatchInv, NEW i \in NextHint, HandleOpen, hints[i].type = "PushChildren"
               PROVE  Submit(Head(buf).fh, i).found = Known(Head(buf).new)
    OBVIOUS
  <2>1. buf # <<>> /\ Head(buf).tid = WalkerTid
    BY DEF HandleOpen
  <2> QED BY <2>1, SubmitFollows DEF MatchInv
<1>2. NamesMatchOpens <=> [][Named]_vars
  BY DEF NamesMatchOpens
<1> HIDE DEF Named
<1> QED BY <1>1, <1>2, MatchedForEver, PTL

(* The fanotify thread never waits for a hint that nobody will send.       *)
THEOREM HintIsComingAlways == Spec /\ DistinctOpens => []HintIsComing
<1>1. MatchInv => HintIsComing
  BY OpenHasHint DEF MatchInv
<1> QED BY <1>1, MatchedForEver, PTL

(* Whatever happens on the way, the index shows no entry that never was,   *)
(* as long as no row but the root's is its own parent.                     *)
THEOREM NothingInventedAlways ==
  Truthful /\ Spec /\ DistinctOpens /\ []NoLoops => []NothingInvented
<1>1. FollowInv /\ NoLoops => NothingInvented
  BY DEF FollowInv, Held, NoLoops, NothingInvented, View, Proved!Real, Proved!EntryOf,
         Proved!ROOT_ID, Writer!ROOT_ID
<1> QED BY <1>1, Followed, PTL
=============================================================================
