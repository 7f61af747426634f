----------------------------- MODULE ClockProofs -----------------------------
(***************************************************************************)
(* Proofs about Sched and Clock: the two lists of the scheduler partition  *)
(* the timers, the live one is sorted and never overdue, and every live    *)
(* timer has one owner, which knows it.                                    *)
(***************************************************************************)
EXTENDS Clock, SequenceTheorems, FiniteSetTheorems, TLAPS

Scheds == [live : Seq(Timers), free : Seq(Timers),
           remaining : [Timers -> Int], cb : [Timers -> Callbacks]]

\* The two lists, position by position.
Lists(s) ==
  /\ \A i, j \in 1 .. Len(s.live) : s.live[i] = s.live[j] => i = j
  /\ \A i, j \in 1 .. Len(s.free) : s.free[i] = s.free[j] => i = j
  /\ \A i \in 1 .. Len(s.live), j \in 1 .. Len(s.free) : s.live[i] # s.free[j]
  /\ \A t \in Timers : \/ \E i \in 1 .. Len(s.live) : s.live[i] = t
                       \/ \E j \in 1 .. Len(s.free) : s.free[j] = t
  /\ Len(s.live) + Len(s.free) = Cardinality(Timers)

Sorted(s) ==
  /\ \A i, j \in 1 .. Len(s.live) : i < j => s.remaining[s.live[i]] <= s.remaining[s.live[j]]
  /\ \A i \in 1 .. Len(s.live) : s.remaining[s.live[i]] >= 0

SchedInv(s) == s \in Scheds /\ Lists(s) /\ Sorted(s)

\* Those who keep a handle: the channels, and the scanline timer.
LineSlot == -1
Slots == Channels \cup {LineSlot}
SlotCallback(k) == IF k = LineSlot THEN <<"line">> ELSE <<"tmu", k>>

Live(s) == {s.live[i] : i \in 1 .. Len(s.live)}
RenderTimers(s) == {t \in Live(s) : s.cb[t] = <<"render">>}
Holding(o) == {k \in Slots : o[k] # NoTimer}

\* o is what each slot holds, r the number of renders in flight.
Owned(s, o, r) ==
  /\ o \in [Slots -> Timers \cup {NoTimer}] /\ r \in 0 .. MaxRenders
  /\ \A k \in Slots : o[k] # NoTimer => o[k] \in Live(s) /\ s.cb[o[k]] = SlotCallback(k)
  /\ \A t \in Live(s) : s.cb[t] = <<"render">> \/ \E k \in Slots : o[k] = t
  /\ Cardinality(RenderTimers(s)) = r
  /\ Len(s.live) = Cardinality(Holding(o)) + r

Holders(handle, ln) == [k \in Slots |-> IF k = LineSlot THEN ln ELSE handle[k]]

ClockInv ==
  /\ SchedInv(sched)
  /\ phase \in {"idle", "loop", "devices", "expire"} /\ budget \in Nat /\ running \in BOOLEAN
  /\ tmu \in TmuStates /\ tmuIrq \subseteq Channels /\ line \in Timers /\ period \in LinePeriods
  /\ Owned(sched, Holders(tmu.handle, line), renders)
  /\ StartedCounts

-----------------------------------------------------------------------------
(* Removing from a list and inserting into one. *)

LEMMA RemoveAtPoints ==
  ASSUME NEW S, NEW q \in Seq(S), NEW p \in 1 .. Len(q)
  PROVE  /\ RemoveAt(q, p) \in Seq(S) /\ Len(RemoveAt(q, p)) = Len(q) - 1
         /\ \A i \in 1 .. Len(q) - 1 : RemoveAt(q, p)[i] = IF i < p THEN q[i] ELSE q[i + 1]
PROOF
<1> DEFINE a == SubSeq(q, 1, p - 1)
           b == SubSeq(q, p + 1, Len(q))
<1>1. Len(q) \in Nat /\ p \in Nat /\ \A i \in 1 .. Len(q) : q[i] \in S
  BY LenProperties
<1>2. a \in Seq(S) /\ Len(a) = p - 1 /\ \A i \in 1 .. p - 1 : a[i] = q[i]
  <2>1. \A i \in 1 .. p - 1 : q[i] \in S
    BY <1>1
  <2>2. /\ a \in Seq(S) /\ Len(a) = (IF 1 <= p - 1 THEN (p - 1) - 1 + 1 ELSE 0)
        /\ \A i \in 1 .. (p - 1) - 1 + 1 : a[i] = q[1 + i - 1]
    BY <1>1, <2>1, SubSeqProperties
  <2> HIDE DEF a
  <2> QED
    BY <1>1, <2>2
<1>3. b \in Seq(S) /\ Len(b) = Len(q) - p /\ \A i \in 1 .. Len(q) - p : b[i] = q[p + i]
  <2>1. \A i \in p + 1 .. Len(q) : q[i] \in S
    BY <1>1
  <2>2. /\ b \in Seq(S) /\ Len(b) = (IF p + 1 <= Len(q) THEN Len(q) - (p + 1) + 1 ELSE 0)
        /\ \A i \in 1 .. Len(q) - (p + 1) + 1 : b[i] = q[(p + 1) + i - 1]
    BY <1>1, <2>1, SubSeqProperties
  <2> HIDE DEF b
  <2> QED
    BY <1>1, <2>2
<1> HIDE DEF a, b
<1>4. /\ a \o b \in Seq(S) /\ Len(a \o b) = Len(a) + Len(b)
      /\ \A i \in 1 .. Len(a) + Len(b) : (a \o b)[i] = IF i <= Len(a) THEN a[i] ELSE b[i - Len(a)]
  BY <1>2, <1>3, ConcatProperties
<1>5. RemoveAt(q, p) = a \o b
  BY DEF RemoveAt, a, b
<1>6. Len(RemoveAt(q, p)) = Len(q) - 1
  BY <1>1, <1>2, <1>3, <1>4, <1>5
<1>7. ASSUME NEW i \in 1 .. Len(q) - 1
      PROVE  RemoveAt(q, p)[i] = IF i < p THEN q[i] ELSE q[i + 1]
  <2>1. RemoveAt(q, p)[i] = IF i <= p - 1 THEN a[i] ELSE b[i - (p - 1)]
    BY <1>1, <1>2, <1>3, <1>4, <1>5
  <2>2. CASE i < p
    BY <1>1, <1>2, <2>1, <2>2
  <2>3. CASE ~(i < p)
    <3>1. i - (p - 1) \in 1 .. Len(q) - p /\ p + (i - (p - 1)) = i + 1 /\ ~(i <= p - 1)
      BY <1>1, <2>3
    <3> QED
      BY <1>3, <2>1, <2>3, <3>1
  <2> QED
    BY <2>2, <2>3
<1> QED
  BY <1>4, <1>5, <1>6, <1>7

(* What list_insert leaves, position by position. *)
LEMMA InsertAtPoints ==
  ASSUME NEW S, NEW q \in Seq(S), NEW p \in 1 .. Len(q) + 1, NEW e \in S
  PROVE  /\ InsertAt(q, p, e) \in Seq(S) /\ Len(InsertAt(q, p, e)) = Len(q) + 1
         /\ \A i \in 1 .. Len(q) + 1 :
              InsertAt(q, p, e)[i] = IF i < p THEN q[i] ELSE IF i = p THEN e ELSE q[i - 1]
PROOF
<1> DEFINE a == SubSeq(q, 1, p - 1)
           b == SubSeq(q, p, Len(q))
           c == <<e>>
<1>1. Len(q) \in Nat /\ p \in Nat /\ \A i \in 1 .. Len(q) : q[i] \in S
  BY LenProperties
<1>2. a \in Seq(S) /\ Len(a) = p - 1 /\ \A i \in 1 .. p - 1 : a[i] = q[i]
  <2>1. \A i \in 1 .. p - 1 : q[i] \in S
    BY <1>1
  <2>2. /\ a \in Seq(S) /\ Len(a) = (IF 1 <= p - 1 THEN (p - 1) - 1 + 1 ELSE 0)
        /\ \A i \in 1 .. (p - 1) - 1 + 1 : a[i] = q[1 + i - 1]
    BY <1>1, <2>1, SubSeqProperties
  <2> HIDE DEF a
  <2> QED
    BY <1>1, <2>2
<1>3. b \in Seq(S) /\ Len(b) = Len(q) + 1 - p /\ \A i \in 1 .. Len(q) + 1 - p : b[i] = q[p + i - 1]
  <2>1. \A i \in p .. Len(q) : q[i] \in S
    BY <1>1
  <2>2. /\ b \in Seq(S) /\ Len(b) = (IF p <= Len(q) THEN Len(q) - p + 1 ELSE 0)
        /\ \A i \in 1 .. Len(q) - p + 1 : b[i] = q[p + i - 1]
    BY <1>1, <2>1, SubSeqProperties
  <2> HIDE DEF b
  <2> QED
    BY <1>1, <2>2
<1>4. c \in Seq(S) /\ Len(c) = 1 /\ c[1] = e
  OBVIOUS
<1> HIDE DEF a, b, c
<1> DEFINE d == a \o c
<1>5. /\ d \in Seq(S) /\ Len(d) = Len(a) + Len(c)
      /\ \A i \in 1 .. Len(a) + Len(c) : d[i] = IF i <= Len(a) THEN a[i] ELSE c[i - Len(a)]
  BY <1>2, <1>4, ConcatProperties
<1> HIDE DEF d
<1>6. /\ d \o b \in Seq(S) /\ Len(d \o b) = Len(d) + Len(b)
      /\ \A i \in 1 .. Len(d) + Len(b) : (d \o b)[i] = IF i <= Len(d) THEN d[i] ELSE b[i - Len(d)]
  <2>1. d \in Seq(S) /\ b \in Seq(S)
    BY <1>3, <1>5
  <2> QED
    BY <2>1, ConcatProperties
<1>7. InsertAt(q, p, e) = d \o b
  BY DEF InsertAt, a, b, c, d
<1>8. Len(d) = p /\ Len(InsertAt(q, p, e)) = Len(q) + 1
  BY <1>1, <1>2, <1>3, <1>4, <1>5, <1>6, <1>7
<1>9. ASSUME NEW i \in 1 .. Len(q) + 1
      PROVE  InsertAt(q, p, e)[i] = IF i < p THEN q[i] ELSE IF i = p THEN e ELSE q[i - 1]
  <2>1. (d \o b)[i] = IF i <= p THEN d[i] ELSE b[i - p]
    BY <1>1, <1>3, <1>6, <1>8
  <2>2. CASE i < p
    <3>1. i \in 1 .. Len(a) + Len(c) /\ i <= Len(a) /\ i <= p /\ i \in 1 .. p - 1
      BY <1>1, <1>2, <1>4, <2>2
    <3> QED
      BY <1>2, <1>5, <1>7, <2>1, <2>2, <3>1
  <2>3. CASE i = p
    <3>1. i \in 1 .. Len(a) + Len(c) /\ ~(i <= Len(a)) /\ i <= p /\ i - Len(a) = 1 /\ ~(i < p)
      BY <1>1, <1>2, <1>4, <2>3
    <3>2. d[i] = c[1]
      BY <1>5, <3>1
    <3> QED
      BY <1>4, <1>7, <2>1, <2>3, <3>1, <3>2
  <2>4. CASE i > p
    <3>1. i - p \in 1 .. Len(q) + 1 - p /\ p + (i - p) - 1 = i - 1 /\ ~(i <= p) /\ ~(i < p) /\ i # p
      BY <1>1, <2>4
    <3> QED
      BY <1>3, <1>7, <2>1, <3>1
  <2> QED
    BY <1>1, <2>2, <2>3, <2>4
<1> QED
  BY <1>6, <1>7, <1>8, <1>9
-----------------------------------------------------------------------------
(* sched_cancel_timer and sched_start_timer. *)

LEMMA SchedFields ==
  ASSUME NEW s \in Scheds
  PROVE  /\ s.live \in Seq(Timers) /\ s.free \in Seq(Timers)
         /\ s.remaining \in [Timers -> Int] /\ s.cb \in [Timers -> Callbacks]
         /\ Len(s.live) \in Nat /\ Len(s.free) \in Nat
         /\ \A i \in 1 .. Len(s.live) : s.live[i] \in Timers
         /\ \A i \in 1 .. Len(s.free) : s.free[i] \in Timers
         /\ \A t : Active(s, t) <=> t \in Live(s)
         /\ \A t : t \in Live(s) <=> \E i \in 1 .. Len(s.live) : s.live[i] = t
PROOF
<1>1. /\ s.live \in Seq(Timers) /\ s.free \in Seq(Timers)
      /\ s.remaining \in [Timers -> Int] /\ s.cb \in [Timers -> Callbacks]
  BY DEF Scheds
<1>2. /\ Len(s.live) \in Nat /\ Len(s.free) \in Nat /\ DOMAIN s.live = 1 .. Len(s.live)
      /\ \A i \in 1 .. Len(s.live) : s.live[i] \in Timers
      /\ \A i \in 1 .. Len(s.free) : s.free[i] \in Timers
  BY <1>1, LenProperties
<1> QED
  BY <1>1, <1>2 DEF Active, ToSet, Live

(* sched_cancel_timer on a live timer moves that one to the free list. *)
LEMMA CancelKeeps ==
  ASSUME NEW s, SchedInv(s), NEW t \in Live(s)
  PROVE  LET r == CancelTimer(s, t)
         IN  /\ SchedInv(r) /\ t \in Timers
             /\ Live(r) = Live(s) \ {t} /\ Len(r.live) = Len(s.live) - 1
             /\ Len(s.live) > 0
             /\ \A u \in Timers : u # t => r.cb[u] = s.cb[u]
PROOF
<1> DEFINE r == CancelTimer(s, t)
           p == Position(s, t)
           l == RemoveAt(s.live, p)
           f == Append(s.free, t)
           rem == [s.remaining EXCEPT ![t] = 0]
           c == [s.cb EXCEPT ![t] = NoCallback]
<1>1. s \in Scheds /\ Lists(s) /\ Sorted(s)
  BY DEF SchedInv
<1>2. /\ s.live \in Seq(Timers) /\ s.free \in Seq(Timers)
      /\ s.remaining \in [Timers -> Int] /\ s.cb \in [Timers -> Callbacks]
      /\ Len(s.live) \in Nat /\ Len(s.free) \in Nat
      /\ \A i \in 1 .. Len(s.live) : s.live[i] \in Timers
      /\ \A i \in 1 .. Len(s.free) : s.free[i] \in Timers
      /\ Active(s, t)
      /\ \E i \in 1 .. Len(s.live) : s.live[i] = t
  BY <1>1, SchedFields
<1>3. p \in 1 .. Len(s.live) /\ s.live[p] = t /\ t \in Timers
  BY <1>2 DEF Position
<1>4. r = [live |-> l, free |-> f, remaining |-> rem, cb |-> c]
  BY <1>2 DEF CancelTimer
<1> HIDE DEF p
<1>5. /\ l \in Seq(Timers) /\ Len(l) = Len(s.live) - 1
      /\ \A i \in 1 .. Len(s.live) - 1 : l[i] = IF i < p THEN s.live[i] ELSE s.live[i + 1]
  BY <1>2, <1>3, RemoveAtPoints
<1>6. /\ f \in Seq(Timers) /\ Len(f) = Len(s.free) + 1
      /\ \A i \in 1 .. Len(s.free) : f[i] = s.free[i] /\ f[Len(s.free) + 1] = t
  BY <1>2, <1>3, AppendProperties
<1>7. f[Len(s.free) + 1] = t
  BY <1>2, <1>3, AppendProperties
<1>8. NoCallback \in Callbacks
  BY DEF Callbacks
<1>9. /\ rem \in [Timers -> Int] /\ c \in [Timers -> Callbacks]
      /\ \A u \in Timers : u # t => rem[u] = s.remaining[u] /\ c[u] = s.cb[u]
  BY <1>2, <1>3, <1>8
<1> HIDE DEF l, f, rem, c, r
<1>10. r \in Scheds /\ r.live = l /\ r.free = f /\ r.remaining = rem /\ r.cb = c
  BY <1>4, <1>5, <1>6, <1>9 DEF Scheds
<1> DEFINE at(i) == IF i < p THEN i ELSE i + 1
<1>11. ASSUME NEW i \in 1 .. Len(l)
       PROVE  /\ at(i) \in 1 .. Len(s.live) /\ at(i) # p /\ l[i] = s.live[at(i)] /\ l[i] # t
              /\ l[i] \in Timers
  <2>1. at(i) \in 1 .. Len(s.live) /\ at(i) # p
    BY <1>2, <1>3, <1>5
  <2>2. l[i] = s.live[at(i)]
    BY <1>2, <1>5
  <2>3. s.live[at(i)] # t
    BY <1>1, <1>3, <2>1 DEF Lists
  <2> HIDE DEF at
  <2> QED
    BY <1>2, <2>1, <2>2, <2>3
<1>12. ASSUME NEW k \in 1 .. Len(s.live), k # p
       PROVE  \E i \in 1 .. Len(l) : l[i] = s.live[k]
  <2>0. Len(s.live) \in Nat /\ p \in 1 .. Len(s.live) /\ Len(l) = Len(s.live) - 1
    BY <1>2, <1>3, <1>5
  <2>1. CASE k < p
    <3>1. k \in 1 .. Len(s.live) - 1
      BY <2>0, <2>1
    <3>2. k \in 1 .. Len(l) /\ l[k] = s.live[k]
      BY <1>5, <2>0, <2>1, <3>1
    <3> QED
      BY <3>2
  <2>2. CASE ~(k < p)
    <3>1. k - 1 \in 1 .. Len(s.live) - 1 /\ ~(k - 1 < p) /\ (k - 1) + 1 = k
      BY <1>12, <2>0, <2>2
    <3>2. k - 1 \in 1 .. Len(l) /\ l[k - 1] = s.live[k]
      BY <1>5, <2>0, <3>1
    <3> QED
      BY <3>2
  <2> QED
    BY <2>1, <2>2
<1>13. Live(r) = Live(s) \ {t}
  <2>1. \A u : u \in Live(r) <=> \E i \in 1 .. Len(l) : l[i] = u
    BY <1>10 DEF Live
  <2>2. \A u : u \in Live(s) <=> \E i \in 1 .. Len(s.live) : s.live[i] = u
    BY DEF Live
  <2>3. ASSUME NEW u \in Live(r) PROVE u \in Live(s) \ {t}
    BY <2>1, <2>2, <1>11
  <2>4. ASSUME NEW u \in Live(s) \ {t} PROVE u \in Live(r)
    BY <2>1, <2>2, <1>3, <1>12
  <2> QED
    BY <2>3, <2>4
<1>14. Lists(r)
  <2>1. ASSUME NEW i \in 1 .. Len(l), NEW j \in 1 .. Len(l), l[i] = l[j] PROVE i = j
    <3>1. at(i) = at(j)
      <4> HIDE DEF at
      <4> QED
        BY <1>1, <1>11, <2>1 DEF Lists
    <3> QED
      BY <1>3, <3>1, <1>5, <1>2
  <2>2. ASSUME NEW i \in 1 .. Len(f) PROVE i \in 1 .. Len(s.free) \/ i = Len(s.free) + 1
    BY <1>2, <1>6
  <2>3. ASSUME NEW i \in 1 .. Len(s.free) PROVE f[i] = s.free[i] /\ f[i] # t
    <3>1. s.free[i] # t
      BY <1>1, <1>3 DEF Lists
    <3> QED
      BY <1>6, <3>1
  <2>4. ASSUME NEW i \in 1 .. Len(f), NEW j \in 1 .. Len(f), f[i] = f[j] PROVE i = j
    <3>1. CASE i \in 1 .. Len(s.free) /\ j \in 1 .. Len(s.free)
      BY <1>1, <2>3, <2>4, <3>1 DEF Lists
    <3>2. CASE i = Len(s.free) + 1 \/ j = Len(s.free) + 1
      BY <1>7, <2>2, <2>3, <2>4, <3>2
    <3> QED
      BY <2>2, <3>1, <3>2
  <2>5. ASSUME NEW i \in 1 .. Len(l), NEW j \in 1 .. Len(f) PROVE l[i] # f[j]
    <3> HIDE DEF at
    <3>1. CASE j \in 1 .. Len(s.free)
      <4>1. \A x \in 1 .. Len(s.live), y \in 1 .. Len(s.free) : s.live[x] # s.free[y]
        BY <1>1 DEF Lists
      <4>2. at(i) \in 1 .. Len(s.live) /\ l[i] = s.live[at(i)]
        BY <1>11
      <4>3. f[j] = s.free[j]
        BY <2>3, <3>1
      <4> QED
        BY <3>1, <4>1, <4>2, <4>3
    <3>2. CASE j = Len(s.free) + 1
      BY <1>7, <1>11, <3>2
    <3> QED
      BY <2>2, <3>1, <3>2
  <2>6. ASSUME NEW u \in Timers
        PROVE  (\E i \in 1 .. Len(l) : l[i] = u) \/ (\E j \in 1 .. Len(f) : f[j] = u)
    <3>1. CASE u = t
      <4>1. Len(s.free) + 1 \in 1 .. Len(f)
        BY <1>2, <1>6
      <4> QED
        BY <1>7, <3>1, <4>1
    <3>2. CASE u # t /\ \E k \in 1 .. Len(s.live) : s.live[k] = u
      BY <1>3, <1>12, <3>2
    <3>3. CASE \E k \in 1 .. Len(s.free) : s.free[k] = u
      <4>1. PICK k \in 1 .. Len(s.free) : s.free[k] = u
        BY <3>3
      <4>2. k \in 1 .. Len(f) /\ f[k] = u
        BY <1>2, <1>6, <4>1
      <4> QED
        BY <4>2
    <3> QED
      BY <1>1, <3>1, <3>2, <3>3 DEF Lists
  <2>7. Len(l) + Len(f) = Cardinality(Timers)
    <3>1. Len(s.live) + Len(s.free) = Cardinality(Timers)
      BY <1>1 DEF Lists
    <3>2. Len(l) = Len(s.live) - 1 /\ Len(f) = Len(s.free) + 1
      BY <1>5, <1>6
    <3>3. Len(s.live) \in Nat /\ Len(s.free) \in Nat
      BY <1>2
    <3>4. \A a, b \in Nat : (a - 1) + (b + 1) = a + b
      OBVIOUS
    <3>5. (Len(s.live) - 1) + (Len(s.free) + 1) = Len(s.live) + Len(s.free)
      BY <3>3, <3>4
    <3> QED
      BY <3>1, <3>2, <3>5
  <2> QED
    BY <1>10, <2>1, <2>4, <2>5, <2>6, <2>7 DEF Lists
<1>15. Sorted(r)
  <2>1. ASSUME NEW i \in 1 .. Len(l), NEW j \in 1 .. Len(l), i < j PROVE rem[l[i]] <= rem[l[j]]
    <3>1. at(i) < at(j)
      BY <1>2, <1>3, <1>5, <2>1
    <3> HIDE DEF at
    <3>2. s.remaining[s.live[at(i)]] <= s.remaining[s.live[at(j)]]
      BY <1>1, <1>11, <3>1 DEF Sorted
    <3> QED
      BY <1>9, <1>11, <3>2
  <2>2. ASSUME NEW i \in 1 .. Len(l) PROVE rem[l[i]] >= 0
    <3> HIDE DEF at
    <3> QED
      BY <1>1, <1>9, <1>11 DEF Sorted
  <2> QED
    BY <1>10, <2>1, <2>2 DEF Sorted
<1> QED
  BY <1>2, <1>3, <1>5, <1>9, <1>10, <1>13, <1>14, <1>15 DEF SchedInv, r
(* A set of positions that is not empty has a first one. *)
LEMMA HasFirst ==
  ASSUME NEW P \in SUBSET Nat, P # {}
  PROVE  \E x \in P : \A y \in P : x <= y
PROOF
<1> DEFINE R == {ss \in Nat \X Nat : ss[1] < ss[2]}
<1>1. IsWellFoundedOn(R, Nat)
  BY NatLessThanWellFounded DEF OpToRel
<1>2. PICK t \in P : \A u \in P : ~(<<u, t>> \in R)
  <2> HIDE DEF R
  <2> QED
    BY <1>1, WFMin
<1>3. \A u \in P : ~(u < t)
  BY <1>2
<1>4. \A u \in P : t <= u
  BY <1>3
<1> QED
  BY <1>4

(* The place of a new timer: behind those that expire no later. *)
LEMMA InsertPosPoints ==
  ASSUME NEW s, SchedInv(s), NEW ns \in Nat
  PROVE  /\ InsertPos(s, ns) \in 1 .. Len(s.live) + 1
         /\ \A i \in 1 .. Len(s.live) : i < InsertPos(s, ns) => s.remaining[s.live[i]] <= ns
         /\ \A i \in 1 .. Len(s.live) : i >= InsertPos(s, ns) => s.remaining[s.live[i]] > ns
PROOF
<1> DEFINE later == {i \in 1 .. Len(s.live) : s.remaining[s.live[i]] > ns}
           p == InsertPos(s, ns)
<1>1. s \in Scheds /\ Sorted(s)
  BY DEF SchedInv
<1>2. /\ Len(s.live) \in Nat
      /\ \A i \in 1 .. Len(s.live) : s.remaining[s.live[i]] \in Int
  BY <1>1, SchedFields
<1>3. CASE later = {}
  <2>1. p = Len(s.live) + 1
    BY <1>3 DEF InsertPos
  <2>2. ASSUME NEW i \in 1 .. Len(s.live) PROVE s.remaining[s.live[i]] <= ns /\ ~(i >= p)
    BY <1>2, <1>3, <2>1
  <2> QED
    BY <1>2, <2>1, <2>2
<1>4. CASE later # {}
  <2>1. later \in SUBSET Nat
    BY <1>2
  <2>2. \E x \in later : \A y \in later : x <= y
    <3> HIDE DEF later
    <3> QED
      BY <1>4, <2>1, HasFirst
  <2>3. p \in later /\ \A y \in later : p <= y
    BY <1>4, <2>2 DEF InsertPos
  <2> HIDE DEF p
  <2>4. ASSUME NEW i \in 1 .. Len(s.live), i < p PROVE s.remaining[s.live[i]] <= ns
    BY <1>2, <2>3, <2>4
  <2>5. ASSUME NEW i \in 1 .. Len(s.live), i >= p PROVE s.remaining[s.live[i]] > ns
    <3>1. s.remaining[s.live[p]] > ns /\ p \in 1 .. Len(s.live)
      BY <2>3
    <3>2. CASE i = p
      BY <3>1, <3>2
    <3>3. CASE p < i
      <4>1. s.remaining[s.live[p]] <= s.remaining[s.live[i]]
        BY <1>1, <3>1, <3>3 DEF Sorted
      <4> QED
        BY <1>2, <3>1, <4>1
    <3> QED
      BY <1>2, <2>5, <3>1, <3>2, <3>3
  <2>6. p \in 1 .. Len(s.live) + 1
    BY <1>2, <2>3
  <2> QED
    BY <2>4, <2>5, <2>6 DEF p
<1> QED
  BY <1>3, <1>4

(* sched_start_timer moves the first free timer to its place in the live list. *)
LEMMA StartKeeps ==
  ASSUME NEW s, SchedInv(s), Len(s.free) > 0, NEW cb \in Callbacks, NEW ns \in Nat
  PROVE  LET r == StartTimer(s, cb, ns)
             t == NextTimer(s)
         IN  /\ SchedInv(r) /\ t \in Timers /\ t \notin Live(s)
             /\ Live(r) = Live(s) \cup {t} /\ Len(r.live) = Len(s.live) + 1
             /\ r.cb[t] = cb /\ \A u \in Timers : u # t => r.cb[u] = s.cb[u]
PROOF
<1> DEFINE r == StartTimer(s, cb, ns)
           t == NextTimer(s)
           p == InsertPos(s, ns)
           l == InsertAt(s.live, p, t)
           f == Tail(s.free)
           rem == [s.remaining EXCEPT ![t] = ns]
           c == [s.cb EXCEPT ![t] = cb]
<1>1. s \in Scheds /\ Lists(s) /\ Sorted(s)
  BY DEF SchedInv
<1>2. /\ s.live \in Seq(Timers) /\ s.free \in Seq(Timers)
      /\ s.remaining \in [Timers -> Int] /\ s.cb \in [Timers -> Callbacks]
      /\ Len(s.live) \in Nat /\ Len(s.free) \in Nat
      /\ \A i \in 1 .. Len(s.live) : s.live[i] \in Timers
      /\ \A i \in 1 .. Len(s.free) : s.free[i] \in Timers
  BY <1>1, SchedFields
<1>3. s.free # <<>>
  BY <1>2
<1>4. t = s.free[1] /\ 1 \in 1 .. Len(s.free) /\ t \in Timers
  BY <1>2, <1>3 DEF NextTimer
<1>5. ASSUME NEW i \in 1 .. Len(s.live) PROVE s.live[i] # t
  BY <1>1, <1>4 DEF Lists
<1>6. r = [live |-> l, free |-> f, remaining |-> rem, cb |-> c]
  BY DEF StartTimer
<1>7. /\ p \in 1 .. Len(s.live) + 1
      /\ \A i \in 1 .. Len(s.live) : i < p => s.remaining[s.live[i]] <= ns
      /\ \A i \in 1 .. Len(s.live) : i >= p => s.remaining[s.live[i]] > ns
  BY InsertPosPoints
<1> HIDE DEF p, t
<1>8. /\ l \in Seq(Timers) /\ Len(l) = Len(s.live) + 1
      /\ \A i \in 1 .. Len(s.live) + 1 :
           l[i] = IF i < p THEN s.live[i] ELSE IF i = p THEN t ELSE s.live[i - 1]
  <2>1. s.live \in Seq(Timers) /\ p \in 1 .. Len(s.live) + 1 /\ t \in Timers
    BY <1>2, <1>4, <1>7
  <2> QED
    BY <2>1, InsertAtPoints, SMTT(60)
<1>9. /\ f \in Seq(Timers) /\ Len(f) = Len(s.free) - 1
      /\ \A i \in 1 .. Len(f) : f[i] = s.free[i + 1]
  BY <1>2, <1>3, HeadTailProperties
<1>10. /\ rem \in [Timers -> Int] /\ c \in [Timers -> Callbacks] /\ rem[t] = ns /\ c[t] = cb
       /\ \A u \in Timers : u # t => rem[u] = s.remaining[u] /\ c[u] = s.cb[u]
  BY <1>2, <1>4
<1> HIDE DEF l, f, rem, c, r
<1>11. r \in Scheds /\ r.live = l /\ r.free = f /\ r.remaining = rem /\ r.cb = c
  BY <1>6, <1>8, <1>9, <1>10 DEF Scheds
<1>12. Len(s.live) \in Nat /\ Len(s.free) \in Nat /\ p \in 1 .. Len(s.live) + 1
       /\ Len(l) = Len(s.live) + 1 /\ Len(f) = Len(s.free) - 1
  BY <1>2, <1>7, <1>8, <1>9
<1> DEFINE at(i) == IF i < p THEN i ELSE i - 1
<1>13. ASSUME NEW i \in 1 .. Len(l), i # p
       PROVE  at(i) \in 1 .. Len(s.live) /\ l[i] = s.live[at(i)] /\ l[i] # t /\ l[i] \in Timers
  <2>1. at(i) \in 1 .. Len(s.live)
    BY <1>12, <1>13
  <2>2. l[i] = s.live[at(i)]
    BY <1>8, <1>12, <1>13
  <2> HIDE DEF at
  <2> QED
    BY <1>2, <1>5, <2>1, <2>2
<1>14. p \in 1 .. Len(l) /\ l[p] = t
  <2>1. p \in 1 .. Len(l) /\ ~(p < p)
    BY <1>12
  <2> QED
    BY <1>8, <1>12, <2>1
<1>15. ASSUME NEW k \in 1 .. Len(s.live) PROVE \E i \in 1 .. Len(l) : l[i] = s.live[k]
  <2>1. CASE k < p
    <3>1. k \in 1 .. Len(l) /\ l[k] = s.live[k]
      BY <1>8, <1>12, <2>1
    <3> QED
      BY <3>1
  <2>2. CASE ~(k < p)
    <3>1. k + 1 \in 1 .. Len(s.live) + 1 /\ ~(k + 1 < p) /\ k + 1 # p /\ (k + 1) - 1 = k
      BY <1>12, <2>2
    <3>2. k + 1 \in 1 .. Len(l) /\ l[k + 1] = s.live[k]
      BY <1>8, <1>12, <3>1
    <3> QED
      BY <3>2
  <2> QED
    BY <2>1, <2>2
<1>16. Live(r) = Live(s) \cup {t} /\ t \notin Live(s)
  <2>1. \A u : u \in Live(r) <=> \E i \in 1 .. Len(l) : l[i] = u
    BY <1>11 DEF Live
  <2>2. \A u : u \in Live(s) <=> \E i \in 1 .. Len(s.live) : s.live[i] = u
    BY DEF Live
  <2>3. ASSUME NEW u \in Live(r) PROVE u \in Live(s) \cup {t}
    <3> HIDE DEF at
    <3> QED
      BY <2>1, <2>2, <1>13, <1>14
  <2>4. ASSUME NEW u \in Live(s) \cup {t} PROVE u \in Live(r)
    BY <2>1, <2>2, <1>14, <1>15
  <2>5. t \notin Live(s)
    BY <1>5, <2>2
  <2> QED
    BY <2>3, <2>4, <2>5
<1>17. ASSUME NEW i \in 1 .. Len(f)
       PROVE  i + 1 \in 1 .. Len(s.free) /\ f[i] = s.free[i + 1] /\ f[i] # t
  <2>1. i + 1 \in 1 .. Len(s.free) /\ i + 1 # 1
    BY <1>12
  <2>2. s.free[i + 1] # s.free[1]
    BY <1>1, <1>4, <2>1 DEF Lists
  <2> QED
    BY <1>4, <1>9, <2>1, <2>2
<1>18. Lists(r)
  <2>1. ASSUME NEW i \in 1 .. Len(l), NEW j \in 1 .. Len(l), l[i] = l[j] PROVE i = j
    <3>1. CASE i # p /\ j # p
      <4>1. at(i) = at(j)
        <5> HIDE DEF at
        <5> QED
          BY <1>1, <1>13, <2>1, <3>1 DEF Lists
      <4> QED
        BY <1>12, <3>1, <4>1
    <3>2. CASE i = p \/ j = p
      <4> HIDE DEF at
      <4> QED
        BY <1>13, <1>14, <2>1, <3>2
    <3> QED
      BY <3>1, <3>2
  <2>2. ASSUME NEW i \in 1 .. Len(f), NEW j \in 1 .. Len(f), f[i] = f[j] PROVE i = j
    <3>1. i + 1 = j + 1
      BY <1>1, <1>17, <2>2 DEF Lists
    <3> QED
      BY <1>12, <3>1
  <2>3. ASSUME NEW i \in 1 .. Len(l), NEW j \in 1 .. Len(f) PROVE l[i] # f[j]
    <3> HIDE DEF at
    <3>1. CASE i = p
      BY <1>14, <1>17, <3>1
    <3>2. CASE i # p
      BY <1>1, <1>13, <1>17, <3>2 DEF Lists
    <3> QED
      BY <3>1, <3>2
  <2>4. ASSUME NEW u \in Timers
        PROVE  (\E i \in 1 .. Len(l) : l[i] = u) \/ (\E j \in 1 .. Len(f) : f[j] = u)
    <3>1. CASE \E k \in 1 .. Len(s.live) : s.live[k] = u
      BY <1>15, <3>1
    <3>2. CASE u = t
      BY <1>14, <3>2
    <3>3. CASE u # t /\ \E k \in 1 .. Len(s.free) : s.free[k] = u
      <4>1. PICK k \in 1 .. Len(s.free) : s.free[k] = u
        BY <3>3
      <4>2. k # 1
        BY <1>4, <3>3, <4>1
      <4>3. k - 1 \in 1 .. Len(f) /\ (k - 1) + 1 = k
        BY <1>12, <4>2
      <4>4. f[k - 1] = u
        BY <1>9, <4>1, <4>3
      <4> QED
        BY <4>3, <4>4
    <3> QED
      BY <1>1, <3>1, <3>2, <3>3 DEF Lists
  <2>5. Len(l) + Len(f) = Cardinality(Timers)
    <3>1. Len(s.live) + Len(s.free) = Cardinality(Timers)
      BY <1>1 DEF Lists
    <3>2. \A a, b \in Nat : (a + 1) + (b - 1) = a + b
      OBVIOUS
    <3>3. (Len(s.live) + 1) + (Len(s.free) - 1) = Len(s.live) + Len(s.free)
      BY <1>12, <3>2
    <3> QED
      BY <1>12, <3>1, <3>3
  <2> QED
    BY <1>11, <2>1, <2>2, <2>3, <2>4, <2>5 DEF Lists
<1>19. Sorted(r)
  <2>1. ASSUME NEW i \in 1 .. Len(l), i # p
        PROVE  /\ rem[l[i]] = s.remaining[s.live[at(i)]] /\ rem[l[i]] \in Int /\ rem[l[i]] >= 0
    <3> HIDE DEF at
    <3> QED
      BY <1>1, <1>10, <1>13, <2>1 DEF Sorted
  <2>2. ASSUME NEW i \in 1 .. Len(l), NEW j \in 1 .. Len(l), i < j PROVE rem[l[i]] <= rem[l[j]]
    <3>1. CASE i # p /\ j # p
      <4>1. at(i) < at(j)
        BY <1>12, <2>2, <3>1
      <4> HIDE DEF at
      <4> QED
        BY <1>1, <1>13, <2>1, <3>1, <4>1 DEF Sorted
    <3>2. CASE j = p
      <4>1. i # p /\ at(i) = i /\ i < p
        BY <1>12, <2>2, <3>2
      <4>2. s.remaining[s.live[at(i)]] <= ns
        BY <1>7, <1>13, <4>1
      <4> HIDE DEF at
      <4> QED
        BY <1>10, <1>14, <2>1, <3>2, <4>1, <4>2
    <3>3. CASE i = p
      <4>1. j # p /\ at(j) = j - 1 /\ j - 1 >= p
        BY <1>12, <2>2, <3>3
      <4>2. s.remaining[s.live[at(j)]] > ns
        BY <1>7, <1>13, <4>1
      <4> HIDE DEF at
      <4> QED
        BY <1>10, <1>14, <2>1, <3>3, <4>1, <4>2
    <3> QED
      BY <3>1, <3>2, <3>3
  <2>3. ASSUME NEW i \in 1 .. Len(l) PROVE rem[l[i]] >= 0
    <3> HIDE DEF at
    <3> QED
      BY <1>10, <1>14, <2>1
  <2> QED
    BY <1>11, <2>2, <2>3 DEF Sorted
<1> QED
  BY <1>4, <1>10, <1>11, <1>12, <1>16, <1>18, <1>19 DEF SchedInv, r, t
-----------------------------------------------------------------------------
(* Owners. *)

LEMMA SlotsFinite ==
  /\ IsFiniteSet(Slots) /\ Cardinality(Slots) = Cardinality(Channels) + 1
  /\ Cardinality(Channels) \in Nat /\ LineSlot \notin Channels /\ LineSlot \in Slots
PROOF
<1>1. LineSlot \notin Channels
  BY ClockAssumption DEF LineSlot
<1>2. IsFiniteSet(Channels)
  <2>1. 0 \in Int /\ 2 \in Int
    OBVIOUS
  <2>2. IsFiniteSet(0 .. 2)
    BY <2>1, FS_Interval
  <2>3. Channels \in SUBSET (0 .. 2)
    BY ClockAssumption
  <2> QED
    BY <2>2, <2>3, FS_Subset
<1> QED
  BY <1>1, <1>2, FS_AddElement, FS_CardinalityType DEF Slots

(* Callbacks tell their owners apart. *)
LEMMA Callback ==
  /\ \A k \in Slots : SlotCallback(k) \in Callbacks /\ SlotCallback(k) # <<"render">>
                      /\ SlotCallback(k) # NoCallback
  /\ \A k, n \in Slots : SlotCallback(k) = SlotCallback(n) => k = n
  /\ <<"render">> \in Callbacks
PROOF
<1>1. \A n : <<"tmu", n>> # <<"line">> /\ <<"tmu", n>> # <<"render">> /\ <<"tmu", n>> # <<"none">>
  <2> SUFFICES ASSUME NEW n
               PROVE  <<"tmu", n>> # <<"line">> /\ <<"tmu", n>> # <<"render">>
                      /\ <<"tmu", n>> # <<"none">>
    OBVIOUS
  <2>1. <<"tmu", n>>[1] = "tmu" /\ <<"line">>[1] = "line" /\ <<"render">>[1] = "render"
        /\ <<"none">>[1] = "none"
    OBVIOUS
  <2> QED
    BY <2>1
<1>2. \A k, n : <<"tmu", k>> = <<"tmu", n>> => k = n
  OBVIOUS
<1>3. <<"line">> # <<"render">> /\ <<"line">> # <<"none">>
  OBVIOUS
<1> QED
  BY <1>1, <1>2, <1>3 DEF Slots, SlotCallback, Callbacks, NoCallback

(* The live timers are entries of the array. *)
LEMMA LiveFinite ==
  ASSUME NEW s, SchedInv(s)
  PROVE  Live(s) \subseteq Timers /\ IsFiniteSet(RenderTimers(s))
PROOF
<1>1. Live(s) \subseteq Timers
  <2>1. \A i \in 1 .. Len(s.live) : s.live[i] \in Timers
    BY SchedFields DEF SchedInv
  <2> QED
    BY <2>1 DEF Live
<1>2. RenderTimers(s) \in SUBSET Timers
  BY <1>1 DEF RenderTimers
<1> QED
  BY <1>1, <1>2, SchedAssumption, FS_Subset

(* The slots that hold a timer are as many as the channels and the scanline. *)
LEMMA HoldingFinite ==
  ASSUME NEW o
  PROVE  /\ IsFiniteSet(Holding(o)) /\ Cardinality(Holding(o)) \in Nat
         /\ Cardinality(Holding(o)) <= Cardinality(Channels) + 1
         /\ \A k \in Slots : o[k] = NoTimer => Cardinality(Holding(o)) <= Cardinality(Channels)
PROOF
<1>1. Holding(o) \in SUBSET Slots
  BY DEF Holding
<1>2. IsFiniteSet(Holding(o)) /\ Cardinality(Holding(o)) <= Cardinality(Channels) + 1
  BY <1>1, SlotsFinite, FS_Subset
<1>3. Cardinality(Holding(o)) \in Nat
  BY <1>2, FS_CardinalityType
<1>4. ASSUME NEW k \in Slots, o[k] = NoTimer
      PROVE  Cardinality(Holding(o)) <= Cardinality(Channels)
  <2>1. Holding(o) \in SUBSET (Slots \ {k})
    BY <1>4 DEF Holding
  <2>2. IsFiniteSet(Slots \ {k}) /\ Cardinality(Slots \ {k}) = Cardinality(Channels)
    <3>1. IsFiniteSet(Slots \ {k}) /\ Cardinality(Slots \ {k}) = Cardinality(Slots) - 1
      BY SlotsFinite, FS_RemoveElement
    <3> QED
      BY <3>1, SlotsFinite
  <2> QED
    BY <2>1, <2>2, FS_Subset
<1> QED
  BY <1>2, <1>3, <1>4

(* A slot gives its timer back. *)
LEMMA ReleaseKeeps ==
  ASSUME NEW s, NEW o, NEW r, SchedInv(s), Owned(s, o, r), NEW k \in Slots, o[k] # NoTimer
  PROVE  /\ SchedInv(CancelTimer(s, o[k])) /\ o[k] \in Live(s)
         /\ Owned(CancelTimer(s, o[k]), [o EXCEPT ![k] = NoTimer], r)
PROOF
<1> DEFINE t == o[k]
           s2 == CancelTimer(s, t)
           o2 == [o EXCEPT ![k] = NoTimer]
<1>1. /\ o \in [Slots -> Timers \cup {NoTimer}] /\ r \in 0 .. MaxRenders
      /\ t \in Live(s) /\ s.cb[t] = SlotCallback(k)
  BY DEF Owned
<1>2. /\ SchedInv(s2) /\ t \in Timers
      /\ Live(s2) = Live(s) \ {t} /\ Len(s2.live) = Len(s.live) - 1
      /\ \A u \in Timers : u # t => s2.cb[u] = s.cb[u]
  BY <1>1, CancelKeeps
<1>3. /\ o2 \in [Slots -> Timers \cup {NoTimer}] /\ o2[k] = NoTimer
      /\ \A n \in Slots : n # k => o2[n] = o[n]
  BY <1>1
<1>4. Live(s) \subseteq Timers
  BY LiveFinite
<1> HIDE DEF s2, o2
<1>5. ASSUME NEW n \in Slots, o2[n] # NoTimer
      PROVE  o2[n] \in Live(s2) /\ s2.cb[o2[n]] = SlotCallback(n)
  <2>1. n # k /\ o2[n] = o[n]
    BY <1>3, <1>5
  <2>2. o[n] \in Live(s) /\ s.cb[o[n]] = SlotCallback(n)
    BY <1>5, <2>1 DEF Owned
  <2>3. o[n] # t
    BY <1>1, <2>1, <2>2, Callback
  <2> QED
    BY <1>2, <1>4, <2>1, <2>2, <2>3
<1>6. ASSUME NEW u \in Live(s2)
      PROVE  s2.cb[u] = <<"render">> \/ \E n \in Slots : o2[n] = u
  <2>1. u \in Live(s) /\ u # t /\ s2.cb[u] = s.cb[u]
    BY <1>2, <1>4
  <2>2. s.cb[u] = <<"render">> \/ \E n \in Slots : o[n] = u
    BY <2>1 DEF Owned
  <2> QED
    BY <1>3, <2>1, <2>2
<1>7. RenderTimers(s2) = RenderTimers(s)
  <2>1. t \notin RenderTimers(s)
    BY <1>1, Callback DEF RenderTimers
  <2> QED
    BY <1>2, <1>4, <2>1 DEF RenderTimers
<1>8. Len(s2.live) = Cardinality(Holding(o2)) + r
  <2>1. Holding(o2) = Holding(o) \ {k} /\ k \in Holding(o)
    BY <1>3 DEF Holding
  <2>2. Cardinality(Holding(o2)) = Cardinality(Holding(o)) - 1
    BY <2>1, HoldingFinite, FS_RemoveElement
  <2>3. Cardinality(Holding(o)) \in Nat /\ Len(s.live) = Cardinality(Holding(o)) + r
    BY HoldingFinite DEF Owned
  <2> QED
    BY <1>1, <1>2, <2>2, <2>3, ClockAssumption
<1>9. Cardinality(RenderTimers(s2)) = r
  BY <1>7 DEF Owned
<1> QED
  BY <1>1, <1>2, <1>3, <1>5, <1>6, <1>8, <1>9 DEF Owned, s2, o2

(* A slot that holds none starts a timer: one is free. *)
LEMMA AcquireKeeps ==
  ASSUME NEW s, NEW o, NEW r, SchedInv(s), Owned(s, o, r), NEW k \in Slots, o[k] = NoTimer,
         NEW ns \in Nat
  PROVE  /\ SchedInv(StartTimer(s, SlotCallback(k), ns)) /\ NextTimer(s) \in Timers
         /\ Owned(StartTimer(s, SlotCallback(k), ns), [o EXCEPT ![k] = NextTimer(s)], r)
PROOF
<1> DEFINE t == NextTimer(s)
           s2 == StartTimer(s, SlotCallback(k), ns)
           o2 == [o EXCEPT ![k] = t]
<1>1. o \in [Slots -> Timers \cup {NoTimer}] /\ r \in 0 .. MaxRenders
  BY DEF Owned
<1>2. Cardinality(Holding(o)) \in Nat /\ Cardinality(Holding(o)) <= Cardinality(Channels)
      /\ Len(s.live) = Cardinality(Holding(o)) + r /\ IsFiniteSet(Holding(o))
  BY HoldingFinite DEF Owned
<1>3. Len(s.free) > 0
  <2>1. Len(s.live) + Len(s.free) = Cardinality(Timers) /\ Len(s.free) \in Nat
    BY SchedFields DEF SchedInv, Lists
  <2>2. Cardinality(Channels) \in Nat /\ MaxRenders \in Nat
        /\ Cardinality(Timers) > Cardinality(Channels) + MaxRenders
    BY SlotsFinite, ClockAssumption
  <2>3. Cardinality(Timers) \in Nat
    BY SchedAssumption, FS_CardinalityType
  <2> QED
    BY <1>1, <1>2, <2>1, <2>2, <2>3
<1>4. SlotCallback(k) \in Callbacks
  BY Callback
<1>5. /\ SchedInv(s2) /\ t \in Timers /\ t \notin Live(s)
      /\ Live(s2) = Live(s) \cup {t} /\ Len(s2.live) = Len(s.live) + 1
      /\ s2.cb[t] = SlotCallback(k) /\ \A u \in Timers : u # t => s2.cb[u] = s.cb[u]
  BY <1>3, <1>4, StartKeeps
<1>6. /\ o2 \in [Slots -> Timers \cup {NoTimer}] /\ o2[k] = t
      /\ \A n \in Slots : n # k => o2[n] = o[n]
  BY <1>1, <1>5
<1>7. Live(s) \subseteq Timers /\ t # NoTimer
  BY <1>5, LiveFinite, SchedAssumption
<1> HIDE DEF s2, o2, t
<1>8. ASSUME NEW n \in Slots, o2[n] # NoTimer
      PROVE  o2[n] \in Live(s2) /\ s2.cb[o2[n]] = SlotCallback(n)
  <2>1. CASE n = k
    BY <1>5, <1>6, <2>1
  <2>2. CASE n # k
    <3>1. o2[n] = o[n] /\ o[n] \in Live(s) /\ s.cb[o[n]] = SlotCallback(n)
      BY <1>6, <1>8, <2>2 DEF Owned
    <3> QED
      BY <1>5, <1>7, <3>1
  <2> QED
    BY <2>1, <2>2
<1>9. ASSUME NEW u \in Live(s2)
      PROVE  s2.cb[u] = <<"render">> \/ \E n \in Slots : o2[n] = u
  <2>1. CASE u = t
    BY <1>6, <2>1
  <2>2. CASE u # t
    <3>1. u \in Live(s) /\ s2.cb[u] = s.cb[u] /\ u # NoTimer
      BY <1>5, <1>7, <2>2, SchedAssumption
    <3>2. s.cb[u] = <<"render">> \/ \E n \in Slots : o[n] = u
      BY <3>1 DEF Owned
    <3> QED
      BY <1>6, <3>1, <3>2
  <2> QED
    BY <2>1, <2>2
<1>10. RenderTimers(s2) = RenderTimers(s)
  <2>1. t \notin RenderTimers(s2)
    BY <1>5, Callback DEF RenderTimers
  <2> QED
    BY <1>5, <1>7, <2>1 DEF RenderTimers
<1>11. Len(s2.live) = Cardinality(Holding(o2)) + r
  <2>1. Holding(o2) = Holding(o) \cup {k} /\ k \notin Holding(o)
    BY <1>6, <1>7 DEF Holding
  <2>2. Cardinality(Holding(o2)) = Cardinality(Holding(o)) + 1
    BY <1>2, <2>1, FS_AddElement
  <2> QED
    BY <1>1, <1>2, <1>5, <2>2, ClockAssumption
<1>12. Cardinality(RenderTimers(s2)) = r
  BY <1>10 DEF Owned
<1> QED
  BY <1>1, <1>5, <1>6, <1>8, <1>9, <1>11, <1>12 DEF Owned, s2, o2, t

(* A render starts a timer that nobody holds, and its timer fires. *)
LEMMA RenderStarts ==
  ASSUME NEW s, NEW o, NEW r, SchedInv(s), Owned(s, o, r), r < MaxRenders, NEW ns \in Nat
  PROVE  /\ SchedInv(StartTimer(s, <<"render">>, ns))
         /\ Owned(StartTimer(s, <<"render">>, ns), o, r + 1)
PROOF
<1> DEFINE t == NextTimer(s)
           s2 == StartTimer(s, <<"render">>, ns)
<1>1. /\ o \in [Slots -> Timers \cup {NoTimer}] /\ r \in Nat /\ r + 1 \in 0 .. MaxRenders
  BY ClockAssumption DEF Owned
<1>2. Cardinality(Holding(o)) \in Nat /\ Cardinality(Holding(o)) <= Cardinality(Channels) + 1
      /\ Len(s.live) = Cardinality(Holding(o)) + r
  BY HoldingFinite DEF Owned
<1>3. Len(s.free) > 0
  <2>1. Len(s.live) + Len(s.free) = Cardinality(Timers) /\ Len(s.free) \in Nat
    BY SchedFields DEF SchedInv, Lists
  <2>2. Cardinality(Channels) \in Nat /\ MaxRenders \in Nat
        /\ Cardinality(Timers) > Cardinality(Channels) + MaxRenders
    BY SlotsFinite, ClockAssumption
  <2>3. Cardinality(Timers) \in Nat
    BY SchedAssumption, FS_CardinalityType
  <2> QED
    BY <1>1, <1>2, <2>1, <2>2, <2>3
<1>4. <<"render">> \in Callbacks
  BY Callback
<1>5. /\ SchedInv(s2) /\ t \in Timers /\ t \notin Live(s)
      /\ Live(s2) = Live(s) \cup {t} /\ Len(s2.live) = Len(s.live) + 1
      /\ s2.cb[t] = <<"render">> /\ \A u \in Timers : u # t => s2.cb[u] = s.cb[u]
  BY <1>3, <1>4, StartKeeps
<1>6. Live(s) \subseteq Timers /\ IsFiniteSet(RenderTimers(s))
  BY LiveFinite
<1> HIDE DEF s2, t
<1>7. ASSUME NEW n \in Slots, o[n] # NoTimer
      PROVE  o[n] \in Live(s2) /\ s2.cb[o[n]] = SlotCallback(n)
  <2>1. o[n] \in Live(s) /\ s.cb[o[n]] = SlotCallback(n)
    BY <1>7 DEF Owned
  <2> QED
    BY <1>5, <1>6, <2>1
<1>8. ASSUME NEW u \in Live(s2)
      PROVE  s2.cb[u] = <<"render">> \/ \E n \in Slots : o[n] = u
  BY <1>5, <1>6 DEF Owned
<1>9. Cardinality(RenderTimers(s2)) = r + 1
  <2>1. RenderTimers(s2) = RenderTimers(s) \cup {t} /\ t \notin RenderTimers(s)
    BY <1>5, <1>6 DEF RenderTimers
  <2>2. Cardinality(RenderTimers(s)) = r
    BY DEF Owned
  <2> QED
    BY <1>6, <2>1, <2>2, FS_AddElement
<1>10. Len(s2.live) = Cardinality(Holding(o)) + (r + 1)
  BY <1>1, <1>2, <1>5
<1> QED
  BY <1>1, <1>5, <1>7, <1>8, <1>9, <1>10 DEF Owned, s2

(* The timer of a render fires. *)
LEMMA RenderEnds ==
  ASSUME NEW s, NEW o, NEW r, SchedInv(s), Owned(s, o, r), NEW t \in RenderTimers(s)
  PROVE  SchedInv(CancelTimer(s, t)) /\ Owned(CancelTimer(s, t), o, r - 1)
PROOF
<1> DEFINE s2 == CancelTimer(s, t)
<1>1. t \in Live(s) /\ s.cb[t] = <<"render">>
  BY DEF RenderTimers
<1>2. /\ SchedInv(s2) /\ t \in Timers
      /\ Live(s2) = Live(s) \ {t} /\ Len(s2.live) = Len(s.live) - 1
      /\ \A u \in Timers : u # t => s2.cb[u] = s.cb[u]
  BY <1>1, CancelKeeps
<1>3. Live(s) \subseteq Timers /\ IsFiniteSet(RenderTimers(s))
  BY LiveFinite
<1> HIDE DEF s2
<1>4. /\ o \in [Slots -> Timers \cup {NoTimer}] /\ r \in 0 .. MaxRenders
      /\ Cardinality(RenderTimers(s)) = r
  BY DEF Owned
<1>5. Cardinality(RenderTimers(s2)) = r - 1 /\ r - 1 \in 0 .. MaxRenders
  <2>1. RenderTimers(s2) = RenderTimers(s) \ {t}
    BY <1>2, <1>3 DEF RenderTimers
  <2>2. Cardinality(RenderTimers(s2)) = r - 1 /\ IsFiniteSet(RenderTimers(s2))
    BY <1>3, <1>4, <2>1, FS_RemoveElement
  <2>3. r - 1 \in Nat
    BY <2>2, FS_CardinalityType
  <2> QED
    BY <1>4, <2>2, <2>3, ClockAssumption
<1>6. ASSUME NEW n \in Slots, o[n] # NoTimer
      PROVE  o[n] \in Live(s2) /\ s2.cb[o[n]] = SlotCallback(n)
  <2>1. o[n] \in Live(s) /\ s.cb[o[n]] = SlotCallback(n)
    BY <1>6 DEF Owned
  <2>2. o[n] # t
    BY <1>1, <2>1, Callback
  <2> QED
    BY <1>2, <1>3, <2>1, <2>2
<1>7. ASSUME NEW u \in Live(s2)
      PROVE  s2.cb[u] = <<"render">> \/ \E n \in Slots : o[n] = u
  BY <1>2, <1>3 DEF Owned
<1>8. Len(s2.live) = Cardinality(Holding(o)) + (r - 1)
  <2>1. Cardinality(Holding(o)) \in Nat /\ Len(s.live) = Cardinality(Holding(o)) + r
    BY HoldingFinite DEF Owned
  <2> QED
    BY <1>2, <1>4, <2>1, ClockAssumption
<1> QED
  BY <1>2, <1>4, <1>5, <1>6, <1>7, <1>8 DEF Owned, s2
(* base_time moves forward, no further than to the first timer. *)
LEMMA AdvanceKeeps ==
  ASSUME NEW s, NEW o, NEW r, SchedInv(s), Owned(s, o, r), NEW x \in Nat,
         \A i \in 1 .. Len(s.live) : x <= s.remaining[s.live[i]]
  PROVE  SchedInv(Advance(s, x)) /\ Owned(Advance(s, x), o, r)
PROOF
<1> DEFINE rem == [t \in Timers |-> IF Active(s, t) THEN s.remaining[t] - x ELSE 0]
           r2 == Advance(s, x)
<1>1. s \in Scheds /\ Lists(s) /\ Sorted(s)
  BY DEF SchedInv
<1>2. /\ s.remaining \in [Timers -> Int] /\ Len(s.live) \in Nat
      /\ \A i \in 1 .. Len(s.live) : s.live[i] \in Timers /\ s.live[i] \in Live(s)
      /\ \A t : Active(s, t) <=> t \in Live(s)
  BY <1>1, SchedFields
<1>3. rem \in [Timers -> Int]
  BY <1>2
<1>4. ASSUME NEW i \in 1 .. Len(s.live)
      PROVE  rem[s.live[i]] = s.remaining[s.live[i]] - x /\ s.remaining[s.live[i]] \in Int
  BY <1>2
<1>5. r2 = [s EXCEPT !.remaining = rem]
  BY <1>1 DEF Advance, Scheds
<1> HIDE DEF rem, r2
<1>6. /\ r2 \in Scheds /\ r2.live = s.live /\ r2.free = s.free /\ r2.remaining = rem /\ r2.cb = s.cb
  BY <1>1, <1>3, <1>5 DEF Scheds
<1>7. Lists(r2)
  <2>1. r2.live = s.live /\ r2.free = s.free /\ Lists(s)
    BY <1>1, <1>6
  <2> QED
    BY ONLY <2>1, Zenon DEF Lists
<1>8. Sorted(r2)
  <2>1. ASSUME NEW i \in 1 .. Len(s.live), NEW j \in 1 .. Len(s.live), i < j
        PROVE  rem[s.live[i]] <= rem[s.live[j]]
    <3>1. s.remaining[s.live[i]] <= s.remaining[s.live[j]]
      BY <1>1, <2>1 DEF Sorted
    <3> QED
      BY <1>4, <3>1
  <2>2. ASSUME NEW i \in 1 .. Len(s.live) PROVE rem[s.live[i]] >= 0
    BY <1>4
  <2> QED
    BY <1>6, <2>1, <2>2 DEF Sorted
<1>9. Live(r2) = Live(s) /\ RenderTimers(r2) = RenderTimers(s)
  BY <1>6 DEF Live, RenderTimers
<1> QED
  BY <1>6, <1>7, <1>8, <1>9 DEF SchedInv, Owned, r2

-----------------------------------------------------------------------------
(* The TMU. *)

MInv(m, ln, r) ==
  /\ SchedInv(m.sched) /\ m.tmu \in TmuStates /\ ln \in Timers
  /\ Owned(m.sched, Holders(m.tmu.handle, ln), r)

(* What the slots hold, and how it changes with one of them. *)
LEMMA HoldersPoints ==
  ASSUME NEW h \in [Channels -> Timers \cup {NoTimer}], NEW ln
  PROVE  Holders(h, ln)[LineSlot] = ln /\ \A n \in Channels : Holders(h, ln)[n] = h[n]
PROOF
  BY SlotsFinite DEF Holders, Slots

(* Every slot but the scanline's is a channel's. *)
LEMMA ChannelSlots ==
  LineSlot \notin Channels /\ Channels \subseteq Slots /\ \A k \in Slots : k # LineSlot => k \in Channels
PROOF
  BY SlotsFinite DEF Slots

(* Storing a handle changes nothing else of the TMU. *)
LEMMA HandleFields ==
  ASSUME NEW u \in TmuStates, NEW n \in Channels, NEW x \in Timers \cup {NoTimer}
  PROVE  LET w == [u EXCEPT !.handle[n] = x]
         IN  /\ w \in TmuStates /\ w.handle = [u.handle EXCEPT ![n] = x]
             /\ w.tstr = u.tstr /\ w.tcnt = u.tcnt /\ w.tcr = u.tcr /\ w.tcor = u.tcor
PROOF
<1> DEFINE h == [u.handle EXCEPT ![n] = x]
           w == [u EXCEPT !.handle[n] = x]
<1>1. h \in [Channels -> Timers \cup {NoTimer}]
  BY DEF TmuStates
<1>2. w = [u EXCEPT !.handle = h]
  BY DEF TmuStates
<1> HIDE DEF h, w
<1> QED
  BY <1>1, <1>2 DEF TmuStates, h, w

(* sh4_tmu_reschedule: the channel has a timer, its own. *)
LEMMA RescheduleKeeps ==
  ASSUME NEW m, NEW ln, NEW r, MInv(m, ln, r), NEW n \in Channels, NEW tcnt \in Nat
  PROVE  LET q == TmuReschedule(m, n, tcnt)
         IN  /\ MInv(q, ln, r) /\ q.tmu.tstr = m.tmu.tstr
             /\ q.tmu.handle[n] # NoTimer
             /\ \A k \in Channels : k # n => q.tmu.handle[k] = m.tmu.handle[k]
PROOF
<1> DEFINE h == m.tmu.handle
           d == tcnt * m.tmu.tcr[n].div
           s == IF h[n] = NoTimer THEN m.sched ELSE CancelTimer(m.sched, h[n])
           h1 == [h EXCEPT ![n] = NoTimer]
           t == NextTimer(s)
           s2 == StartTimer(s, <<"tmu", n>>, d)
           q == TmuReschedule(m, n, tcnt)
<1>1. /\ SchedInv(m.sched) /\ m.tmu \in TmuStates /\ ln \in Timers
      /\ Owned(m.sched, Holders(h, ln), r)
  BY DEF MInv
<1>2. h \in [Channels -> Timers \cup {NoTimer}] /\ m.tmu.tcr[n].div \in Nat
  BY <1>1, ClockAssumption DEF TmuStates, Controls
<1>3. d \in Nat
  BY <1>2
<1>4. n \in Slots /\ SlotCallback(n) = <<"tmu", n>>
  BY SlotsFinite DEF Slots, SlotCallback
<1>5. h1 \in [Channels -> Timers \cup {NoTimer}] /\ h1[n] = NoTimer
  BY <1>2
<1>6. SchedInv(s) /\ Owned(s, Holders(h1, ln), r)
  <2>1. CASE h[n] = NoTimer
    <3>1. s = m.sched /\ h1 = h
      BY <1>2, <2>1
    <3> QED
      BY <1>1, <3>1
  <2>2. CASE h[n] # NoTimer
    <3>0. Holders(h, ln)[n] = h[n]
      BY <1>2, HoldersPoints
    <3>1. Holders(h, ln)[n] = h[n] /\ [Holders(h, ln) EXCEPT ![n] = NoTimer] = Holders(h1, ln)
      BY <1>2, <3>0, ChannelSlots DEF Holders
    <3>2. /\ SchedInv(CancelTimer(m.sched, Holders(h, ln)[n]))
          /\ Owned(CancelTimer(m.sched, Holders(h, ln)[n]), [Holders(h, ln) EXCEPT ![n] = NoTimer], r)
      BY <1>1, <1>4, <2>2, <3>1, ReleaseKeeps
    <3> QED
      BY <2>2, <3>1, <3>2
  <2> QED
    BY <2>1, <2>2
<1>7. q = [sched |-> s2, tmu |-> [m.tmu EXCEPT !.handle[n] = t]]
  BY DEF TmuReschedule
<1> HIDE DEF s, d, h1
<1>8. /\ SchedInv(s2) /\ t \in Timers /\ Owned(s2, [Holders(h1, ln) EXCEPT ![n] = t], r)
  <2>1. Holders(h1, ln)[n] = NoTimer
    BY <1>5, HoldersPoints
  <2> QED
    BY <1>3, <1>4, <1>6, <2>1, AcquireKeeps
<1> DEFINE w == [m.tmu EXCEPT !.handle[n] = t]
<1>9. w \in TmuStates /\ w.handle = [h EXCEPT ![n] = t] /\ w.tstr = m.tmu.tstr
  BY <1>1, <1>8, HandleFields
<1>10. [Holders(h1, ln) EXCEPT ![n] = t] = Holders(w.handle, ln)
  <2> HIDE DEF t, w
  <2>1. [Holders(h1, ln) EXCEPT ![n] = t] = Holders([h1 EXCEPT ![n] = t], ln)
    BY <1>5, ChannelSlots DEF Holders
  <2>2. [h1 EXCEPT ![n] = t] = [h EXCEPT ![n] = t]
    BY <1>2 DEF h1
  <2> QED
    BY <1>9, <2>1, <2>2
<1>11. t # NoTimer
  BY <1>8, SchedAssumption
<1>12. w.handle[n] # NoTimer /\ \A k \in Channels : k # n => w.handle[k] = h[k]
  BY <1>2, <1>9, <1>11
<1>13. q.sched = s2 /\ q.tmu = w
  BY <1>7
<1> HIDE DEF w, s2, q, t
<1>14. MInv(q, ln, r)
  BY <1>1, <1>8, <1>9, <1>10, <1>13 DEF MInv
<1> QED
  BY <1>9, <1>12, <1>13, <1>14 DEF q

(* sh4_tmu_tcnt fits its register. *)
LEMMA TcntRange ==
  ASSUME NEW m, NEW ln, NEW r, MInv(m, ln, r), NEW n \in Channels
  PROVE  TmuTcnt(m, n) \in 0 .. (CountRange - 1) /\ TmuTcnt(m, n) \in Nat
PROOF
<1> DEFINE h == m.tmu.handle[n]
<1>1. SchedInv(m.sched) /\ m.tmu \in TmuStates
  BY DEF MInv
<1>2. /\ m.tmu.tcnt[n] \in 0 .. (CountRange - 1) /\ m.tmu.tcr[n].div \in Nat \ {0}
      /\ h \in Timers \cup {NoTimer}
  BY <1>1, ClockAssumption DEF TmuStates, Controls
<1>3. m.sched.remaining \in [Timers -> Int]
  BY <1>1, SchedFields DEF SchedInv
<1>4. CountRange \in Nat \ {0}
  BY ClockAssumption
<1>5. \A a \in Int, d \in Nat \ {0} : (a \div d) % CountRange \in 0 .. (CountRange - 1)
  BY <1>4
<1>6. TmuTcnt(m, n) \in 0 .. (CountRange - 1)
  <2>1. CASE h = NoTimer
    BY <1>2, <2>1 DEF TmuTcnt
  <2>2. CASE h # NoTimer
    <3>1. m.sched.remaining[h] \in Int
      BY <1>2, <1>3, <2>2
    <3>2. TmuTcnt(m, n) = (m.sched.remaining[h] \div m.tmu.tcr[n].div) % CountRange
      BY <2>2 DEF TmuTcnt
    <3> QED
      BY <1>2, <1>5, <3>1, <3>2
  <2> QED
    BY <2>1, <2>2
<1> QED
  BY <1>4, <1>6

(* A channel that holds a timer gives it back. *)
LEMMA ChannelReleases ==
  ASSUME NEW m, NEW ln, NEW r, MInv(m, ln, r), NEW n \in Channels, m.tmu.handle[n] # NoTimer
  PROVE  LET h == m.tmu.handle
         IN  /\ SchedInv(CancelTimer(m.sched, h[n]))
             /\ Owned(CancelTimer(m.sched, h[n]), Holders([h EXCEPT ![n] = NoTimer], ln), r)
             /\ [h EXCEPT ![n] = NoTimer] \in [Channels -> Timers \cup {NoTimer}]
PROOF
<1> DEFINE h == m.tmu.handle
<1>1. SchedInv(m.sched) /\ m.tmu \in TmuStates /\ Owned(m.sched, Holders(h, ln), r)
  BY DEF MInv
<1>2. h \in [Channels -> Timers \cup {NoTimer}] /\ n \in Slots
  BY <1>1 DEF TmuStates, Slots
<1>3. Holders(h, ln)[n] = h[n]
  BY <1>2, HoldersPoints
<1> HIDE DEF h
<1>4. [Holders(h, ln) EXCEPT ![n] = NoTimer] = Holders([h EXCEPT ![n] = NoTimer], ln)
  BY <1>2, ChannelSlots DEF Holders
<1>5. h[n] # NoTimer
  BY DEF h
<1>6. /\ SchedInv(CancelTimer(m.sched, Holders(h, ln)[n]))
      /\ Owned(CancelTimer(m.sched, Holders(h, ln)[n]), [Holders(h, ln) EXCEPT ![n] = NoTimer], r)
  BY <1>1, <1>2, <1>3, <1>5, ReleaseKeeps
<1>7. [h EXCEPT ![n] = NoTimer] \in [Channels -> Timers \cup {NoTimer}]
  BY <1>2
<1> QED
  BY <1>3, <1>4, <1>6, <1>7 DEF h

(* sh4_tmu_update_tstr, a channel that stops. *)
LEMMA StopKeeps ==
  ASSUME NEW m, NEW ln, NEW r, MInv(m, ln, r), NEW n \in Channels, m.tmu.handle[n] # NoTimer
  PROVE  LET q == TmuStop(m, n)
         IN  /\ MInv(q, ln, r) /\ q.tmu.tstr = m.tmu.tstr
             /\ \A k \in Channels : k # n => q.tmu.handle[k] = m.tmu.handle[k]
PROOF
<1> DEFINE q == TmuStop(m, n)
           h1 == [m.tmu.handle EXCEPT ![n] = NoTimer]
           c1 == [m.tmu.tcnt EXCEPT ![n] = TmuTcnt(m, n)]
           s1 == CancelTimer(m.sched, m.tmu.handle[n])
           w == [m.tmu EXCEPT !.tcr = m.tmu.tcr, !.tcnt = c1, !.handle = h1]
<1>1. m.tmu \in TmuStates /\ ln \in Timers
  BY DEF MInv
<1>2. /\ m.tmu.handle \in [Channels -> Timers \cup {NoTimer}]
      /\ m.tmu.tcnt \in [Channels -> 0 .. (CountRange - 1)] /\ m.tmu.tcr \in [Channels -> Controls]
  BY <1>1 DEF TmuStates
<1>3. TmuTcnt(m, n) \in 0 .. (CountRange - 1)
  BY TcntRange
<1>4. c1 \in [Channels -> 0 .. (CountRange - 1)]
  BY <1>2, <1>3
<1>5. SchedInv(s1) /\ Owned(s1, Holders(h1, ln), r) /\ h1 \in [Channels -> Timers \cup {NoTimer}]
  BY ChannelReleases
<1>6. \A k \in Channels : k # n => h1[k] = m.tmu.handle[k]
  BY <1>2
<1>7. q = [sched |-> s1, tmu |-> w]
  BY <1>1 DEF TmuStop, TmuStates
<1> HIDE DEF s1, c1, h1
<1>8. w \in TmuStates /\ w.handle = h1 /\ w.tstr = m.tmu.tstr
  BY <1>1, <1>2, <1>4, <1>5 DEF TmuStates
<1>9. q.sched = s1 /\ q.tmu = w
  BY <1>7
<1> HIDE DEF w, q
<1> QED
  BY <1>1, <1>5, <1>6, <1>8, <1>9 DEF MInv, q

(* sh4_tmu_update_tstr, one channel: it runs now if TSTR says so. *)
LEMMA UpdateChannelKeeps ==
  ASSUME NEW m, NEW ln, NEW r, MInv(m, ln, r), NEW n \in Channels
  PROVE  LET q == TmuUpdateChannel(m, n)
         IN  /\ MInv(q, ln, r) /\ q.tmu.tstr = m.tmu.tstr
             /\ n \in m.tmu.tstr => q.tmu.handle[n] # NoTimer
             /\ \A k \in Channels : k # n => q.tmu.handle[k] = m.tmu.handle[k]
PROOF
<1>1. CASE n \in m.tmu.tstr /\ m.tmu.handle[n] = NoTimer
  <2>1. m.tmu.tcnt[n] \in Nat
    <3>1. m.tmu \in TmuStates
      BY DEF MInv
    <3>2. m.tmu.tcnt[n] \in 0 .. (CountRange - 1)
      BY <3>1 DEF TmuStates
    <3> QED
      BY <3>2, ClockAssumption
  <2>2. TmuUpdateChannel(m, n) = TmuReschedule(m, n, m.tmu.tcnt[n])
    BY <1>1 DEF TmuUpdateChannel
  <2> QED
    BY <2>1, <2>2, RescheduleKeeps
<1>2. CASE n \notin m.tmu.tstr /\ m.tmu.handle[n] # NoTimer
  <2>1. TmuUpdateChannel(m, n) = TmuStop(m, n)
    BY <1>2 DEF TmuUpdateChannel
  <2> QED
    BY <1>2, <2>1, StopKeeps
<1>3. CASE ~(n \in m.tmu.tstr /\ m.tmu.handle[n] = NoTimer)
           /\ ~(n \notin m.tmu.tstr /\ m.tmu.handle[n] # NoTimer)
  <2>1. TmuUpdateChannel(m, n) = m
    BY <1>3 DEF TmuUpdateChannel
  <2> QED
    BY <1>3, <2>1
<1> QED
  BY <1>1, <1>2, <1>3

(* sh4_tmu_update_tstr: all of them, one after the other. *)
LEMMA UpdateTstrKeeps ==
  ASSUME NEW m, NEW ln, NEW r, MInv(m, ln, r)
  PROVE  LET q == TmuUpdateTstr(m)
         IN  /\ MInv(q, ln, r)
             /\ \A n \in q.tmu.tstr : q.tmu.handle[n] # NoTimer
PROOF
<1> DEFINE update(x, n) == IF n \in Channels THEN TmuUpdateChannel(x, n) ELSE x
<1>1. ASSUME NEW x, MInv(x, ln, r), NEW n
      PROVE  /\ MInv(update(x, n), ln, r) /\ update(x, n).tmu.tstr = x.tmu.tstr
             /\ n \in Channels /\ n \in x.tmu.tstr => update(x, n).tmu.handle[n] # NoTimer
             /\ \A k \in Channels : k # n => update(x, n).tmu.handle[k] = x.tmu.handle[k]
  <2>1. CASE n \in Channels
    <3>1. update(x, n) = TmuUpdateChannel(x, n)
      BY <2>1
    <3> HIDE DEF update
    <3> QED
      BY <1>1, <2>1, <3>1, UpdateChannelKeeps
  <2>2. CASE n \notin Channels
    <3>1. update(x, n) = x
      BY <2>2
    <3> HIDE DEF update
    <3> QED
      BY <1>1, <2>2, <3>1
  <2> QED
    BY <2>1, <2>2
<1> DEFINE a == update(m, 0)
           b == update(a, 1)
           c == update(b, 2)
<1>2. TmuUpdateTstr(m) = c
  BY DEF TmuUpdateTstr
<1> HIDE DEF update
<1>3. /\ MInv(a, ln, r) /\ a.tmu.tstr = m.tmu.tstr
      /\ 0 \in Channels /\ 0 \in m.tmu.tstr => a.tmu.handle[0] # NoTimer
  BY <1>1
<1> HIDE DEF a
<1>4. /\ MInv(b, ln, r) /\ b.tmu.tstr = a.tmu.tstr
      /\ 1 \in Channels /\ 1 \in a.tmu.tstr => b.tmu.handle[1] # NoTimer
      /\ \A k \in Channels : k # 1 => b.tmu.handle[k] = a.tmu.handle[k]
  BY <1>1, <1>3
<1> HIDE DEF b
<1>5. /\ MInv(c, ln, r) /\ c.tmu.tstr = b.tmu.tstr
      /\ 2 \in Channels /\ 2 \in b.tmu.tstr => c.tmu.handle[2] # NoTimer
      /\ \A k \in Channels : k # 2 => c.tmu.handle[k] = b.tmu.handle[k]
  BY <1>1, <1>4
<1> HIDE DEF c
<1>6. ASSUME NEW n \in c.tmu.tstr PROVE c.tmu.handle[n] # NoTimer
  <2>1. n \in Channels
    BY <1>5 DEF MInv, TmuStates
  <2>2. n = 0 \/ n = 1 \/ n = 2
    BY <2>1, ClockAssumption
  <2> QED
    BY <1>3, <1>4, <1>5, <2>1, <2>2
<1> QED
  BY <1>2, <1>5, <1>6

(* The timer of a channel fires: the channel forgets it and starts another. *)
LEMMA ExpireKeeps ==
  ASSUME NEW m, NEW ln, NEW r, MInv(m, ln, r), NEW n \in Channels, m.tmu.handle[n] # NoTimer,
         NEW m0, m0 = [sched |-> CancelTimer(m.sched, m.tmu.handle[n]), tmu |-> m.tmu]
  PROVE  LET q == TmuExpire(m0, n)
         IN  /\ MInv(q, ln, r) /\ q.tmu.tstr = m.tmu.tstr
             /\ q.tmu.handle[n] # NoTimer
             /\ \A k \in Channels : k # n => q.tmu.handle[k] = m.tmu.handle[k]
PROOF
<1> DEFINE u == m.tmu
           s1 == CancelTimer(m.sched, u.handle[n])
           h1 == [u.handle EXCEPT ![n] = NoTimer]
           c1 == [u.tcnt EXCEPT ![n] = u.tcor[n]]
           k1 == [u.tcr EXCEPT ![n].unf = TRUE]
           w == [u EXCEPT !.tcr = k1, !.tcnt = c1, !.handle = h1]
           m1 == [sched |-> s1, tmu |-> w]
<1>1. u \in TmuStates /\ ln \in Timers
  BY DEF MInv
<1>2. /\ u.handle \in [Channels -> Timers \cup {NoTimer}]
      /\ u.tcnt \in [Channels -> 0 .. (CountRange - 1)] /\ u.tcor[n] \in 0 .. (CountRange - 1)
      /\ u.tcr \in [Channels -> Controls]
  BY <1>1 DEF TmuStates
<1>3. c1 \in [Channels -> 0 .. (CountRange - 1)] /\ u.tcor[n] \in Nat
  BY <1>2, ClockAssumption
<1>4. k1 \in [Channels -> Controls]
  BY <1>2 DEF Controls
<1>5. SchedInv(s1) /\ Owned(s1, Holders(h1, ln), r) /\ h1 \in [Channels -> Timers \cup {NoTimer}]
  BY ChannelReleases
<1>6. \A k \in Channels : k # n => h1[k] = u.handle[k]
  BY <1>2
<1>7. TmuExpire(m0, n) = TmuReschedule(m1, n, u.tcor[n])
  <2>1. m0.tmu = u /\ m0.sched = s1
    OBVIOUS
  <2>2. w = [u EXCEPT !.tcr[n].unf = TRUE, !.tcnt[n] = u.tcor[n], !.handle[n] = NoTimer]
    BY <1>1 DEF TmuStates
  <2>3. [m0 EXCEPT !.tmu = w] = m1
    OBVIOUS
  <2> HIDE DEF w, m1, s1
  <2> QED
    BY <2>1, <2>2, <2>3 DEF TmuExpire
<1> HIDE DEF s1, c1, h1, k1
<1>8. w \in TmuStates /\ w.handle = h1 /\ w.tstr = u.tstr
  BY <1>1, <1>3, <1>4, <1>5 DEF TmuStates
<1>9. m1.sched = s1 /\ m1.tmu = w
  OBVIOUS
<1> HIDE DEF w, m1, u
<1>10. MInv(m1, ln, r)
  BY <1>1, <1>5, <1>8, <1>9 DEF MInv
<1>11. LET q == TmuReschedule(m1, n, u.tcor[n])
       IN  /\ MInv(q, ln, r) /\ q.tmu.tstr = m1.tmu.tstr
           /\ q.tmu.handle[n] # NoTimer
           /\ \A k \in Channels : k # n => q.tmu.handle[k] = m1.tmu.handle[k]
  BY <1>3, <1>10, RescheduleKeeps
<1> QED
  BY <1>6, <1>7, <1>8, <1>9, <1>11 DEF u

-----------------------------------------------------------------------------
(* The steps. *)

LEMMA NowInv ==
  ASSUME ClockInv
  PROVE  MInv(Now, line, renders) /\ Now.sched = sched /\ Now.tmu = tmu
PROOF
  BY DEF ClockInv, MInv, Now

(* A handler stores what it did to the timers and the TMU. *)
LEMMA StoreKeeps ==
  ASSUME ClockInv, NEW q, Store(q), MInv(q, line, renders),
         \A n \in q.tmu.tstr : q.tmu.handle[n] # NoTimer,
         tmuIrq' \subseteq Channels, UNCHANGED <<phase, budget, running, line, period, renders>>
  PROVE  ClockInv'
PROOF
<1>1. sched' = q.sched /\ tmu' = q.tmu
  BY DEF Store
<1>2. SchedInv(sched') /\ tmu' \in TmuStates /\ Owned(sched', Holders(tmu'.handle, line), renders)
  BY <1>1 DEF MInv
<1>3. \A n \in tmu'.tstr : tmu'.handle[n] # NoTimer
  BY <1>1
<1> QED
  BY <1>2, <1>3 DEF ClockInv, StartedCounts

(* A write to TSTR starts and stops channels. *)
LEMMA WriteTSTRKeeps ==
  ASSUME ClockInv, NEW v \in SUBSET Channels, WriteTSTR(v)
  PROVE  ClockInv'
PROOF
<1> DEFINE w == [tmu EXCEPT !.tstr = v]
           m == [Now EXCEPT !.tmu.tstr = v]
           q == TmuUpdateTstr(m)
<1>1. w \in TmuStates /\ w.handle = tmu.handle
  BY DEF ClockInv, TmuStates
<1>2. m.sched = sched /\ m.tmu = w
  BY DEF Now
<1> HIDE DEF w, m
<1>3. MInv(m, line, renders)
  BY <1>1, <1>2 DEF MInv, ClockInv
<1>4. MInv(q, line, renders) /\ \A n \in q.tmu.tstr : q.tmu.handle[n] # NoTimer
  BY <1>3, UpdateTstrKeeps
<1>5. Store(q) /\ UNCHANGED <<phase, budget, running, tmuIrq, line, period, renders>>
  BY DEF WriteTSTR, m
<1>6. tmuIrq' \subseteq Channels
  BY <1>5 DEF ClockInv
<1> HIDE DEF q
<1> QED
  BY <1>4, <1>5, <1>6, StoreKeeps

(* A register write to one channel: it is rescheduled if it runs. *)
LEMMA ChannelWriteKeeps ==
  ASSUME ClockInv, NEW n \in Channels, NEW m, m.sched = sched, m.tmu \in TmuStates,
         m.tmu.handle = tmu.handle, m.tmu.tstr = tmu.tstr, NEW c \in Nat,
         NEW q, q = IF n \in tmu.tstr THEN TmuReschedule(m, n, c) ELSE m, Store(q),
         tmuIrq' \subseteq Channels, UNCHANGED <<phase, budget, running, line, period, renders>>
  PROVE  ClockInv'
PROOF
<1>1. MInv(m, line, renders)
  BY DEF MInv, ClockInv
<1>2. \A k \in tmu.tstr : tmu.handle[k] # NoTimer /\ k \in Channels
  BY DEF ClockInv, StartedCounts, TmuStates
<1>3. MInv(q, line, renders) /\ \A k \in q.tmu.tstr : q.tmu.handle[k] # NoTimer
  <2>1. CASE n \in tmu.tstr
    <3>1. q = TmuReschedule(m, n, c)
      BY <2>1
    <3>2. /\ MInv(q, line, renders) /\ q.tmu.tstr = m.tmu.tstr
          /\ q.tmu.handle[n] # NoTimer
          /\ \A k \in Channels : k # n => q.tmu.handle[k] = m.tmu.handle[k]
      BY <1>1, <3>1, RescheduleKeeps
    <3> QED
      BY <1>2, <3>2
  <2>2. CASE n \notin tmu.tstr
    BY <1>1, <1>2, <2>2
  <2> QED
    BY <2>1, <2>2
<1> QED
  BY <1>3, StoreKeeps

(* A write to TCR reschedules a running channel from its count. *)
LEMMA WriteTCRKeeps ==
  ASSUME ClockInv, NEW n \in Channels, NEW v \in Controls, WriteTCR(n, v)
  PROVE  ClockInv'
PROOF
<1> DEFINE w == [tmu EXCEPT !.tcr[n] = v]
           m == [Now EXCEPT !.tmu.tcr[n] = v]
           c == TmuTcnt(m, n)
           q == IF n \in tmu.tstr THEN TmuReschedule(m, n, c) ELSE m
<1>1. w \in TmuStates /\ w.handle = tmu.handle /\ w.tstr = tmu.tstr
  BY DEF ClockInv, TmuStates
<1>2. m.sched = sched /\ m.tmu = w
  BY DEF Now
<1>3. Store(q) /\ UNCHANGED <<phase, budget, running, line, period, renders>>
      /\ tmuIrq' \subseteq Channels
  BY DEF WriteTCR, ClockInv
<1> HIDE DEF w, m
<1>4. MInv(m, line, renders)
  BY <1>1, <1>2 DEF MInv, ClockInv
<1>5. c \in Nat
  BY <1>4, TcntRange
<1>6. m.tmu \in TmuStates /\ m.tmu.handle = tmu.handle /\ m.tmu.tstr = tmu.tstr
  BY <1>1, <1>2
<1> HIDE DEF c
<1>7. q = IF n \in tmu.tstr THEN TmuReschedule(m, n, c) ELSE m
  OBVIOUS
<1> HIDE DEF q
<1> QED
  BY <1>2, <1>3, <1>5, <1>6, <1>7, ChannelWriteKeeps

(* A write to TCNT reschedules a running channel. *)
LEMMA WriteTCNTKeeps ==
  ASSUME ClockInv, NEW n \in Channels, NEW v \in Counts, WriteTCNT(n, v)
  PROVE  ClockInv'
PROOF
<1> DEFINE w == [tmu EXCEPT !.tcnt[n] = v]
           m == [Now EXCEPT !.tmu.tcnt[n] = v]
           q == IF n \in tmu.tstr THEN TmuReschedule(m, n, v) ELSE m
<1>0. v \in 0 .. (CountRange - 1) /\ v \in Nat
  BY ClockAssumption
<1>1. w \in TmuStates /\ w.handle = tmu.handle /\ w.tstr = tmu.tstr
  BY <1>0 DEF ClockInv, TmuStates
<1>2. m.sched = sched /\ m.tmu = w
  BY DEF Now
<1>3. Store(q) /\ UNCHANGED <<phase, budget, running, line, period, renders>>
      /\ tmuIrq' \subseteq Channels
  BY DEF WriteTCNT, ClockInv
<1> HIDE DEF w, m
<1>6. m.tmu \in TmuStates /\ m.tmu.handle = tmu.handle /\ m.tmu.tstr = tmu.tstr
  BY <1>1, <1>2
<1>7. q = IF n \in tmu.tstr THEN TmuReschedule(m, n, v) ELSE m
  OBVIOUS
<1> HIDE DEF q
<1> QED
  BY <1>0, <1>2, <1>3, <1>6, <1>7, ChannelWriteKeeps

(* A write to TCOR touches no timer. *)
LEMMA WriteTCORKeeps ==
  ASSUME ClockInv, NEW n \in Channels, NEW v \in Resets, WriteTCOR(n, v)
  PROVE  ClockInv'
PROOF
<1> DEFINE w == [tmu EXCEPT !.tcor[n] = v]
<1>0. v \in 0 .. (CountRange - 1)
  BY ClockAssumption
<1>1. w \in TmuStates /\ w.handle = tmu.handle /\ w.tstr = tmu.tstr
  BY <1>0 DEF ClockInv, TmuStates
<1>2. tmu' = w /\ UNCHANGED <<sched, phase, budget, running, tmuIrq, line, period, renders>>
  BY DEF WriteTCOR
<1> HIDE DEF w
<1> QED
  BY <1>1, <1>2 DEF ClockInv, StartedCounts

(* The scanline timer is replaced: pvr_reconfigure_spg and pvr_next_scanline. *)
LEMMA LineKeeps ==
  ASSUME ClockInv, NEW p \in LinePeriods, NEW s, s = CancelTimer(sched, line),
         line' = NextTimer(s), sched' = StartTimer(s, <<"line">>, p), period' \in LinePeriods,
         UNCHANGED <<phase, budget, running, tmu, tmuIrq, renders>>
  PROVE  ClockInv'
PROOF
<1> DEFINE h == tmu.handle
           o == Holders(h, line)
           o1 == [o EXCEPT ![LineSlot] = NoTimer]
           t == NextTimer(s)
           s2 == StartTimer(s, <<"line">>, p)
<1>1. SchedInv(sched) /\ Owned(sched, o, renders) /\ h \in [Channels -> Timers \cup {NoTimer}]
      /\ line \in Timers
  BY DEF ClockInv, TmuStates
<1>2. LineSlot \in Slots /\ SlotCallback(LineSlot) = <<"line">>
  BY SlotsFinite DEF SlotCallback
<1>3. o[LineSlot] = line /\ line # NoTimer
  BY <1>1, HoldersPoints, SchedAssumption
<1>4. o1[LineSlot] = NoTimer /\ [o1 EXCEPT ![LineSlot] = t] = Holders(h, t)
  BY <1>1, <1>2, ChannelSlots DEF Holders
<1> HIDE DEF o
<1>5. SchedInv(s) /\ Owned(s, o1, renders)
  <2>1. SchedInv(CancelTimer(sched, o[LineSlot])) /\ Owned(CancelTimer(sched, o[LineSlot]), o1, renders)
    BY <1>1, <1>2, <1>3, ReleaseKeeps
  <2> QED
    BY <1>3, <2>1
<1> HIDE DEF o1
<1>6. p \in Nat
  BY ClockAssumption
<1>7. SchedInv(s2) /\ t \in Timers /\ Owned(s2, [o1 EXCEPT ![LineSlot] = t], renders)
  <2>1. /\ SchedInv(StartTimer(s, SlotCallback(LineSlot), p)) /\ NextTimer(s) \in Timers
        /\ Owned(StartTimer(s, SlotCallback(LineSlot), p), [o1 EXCEPT ![LineSlot] = NextTimer(s)], renders)
    BY <1>2, <1>4, <1>5, <1>6, AcquireKeeps
  <2> QED
    BY <1>2, <2>1
<1>8. SchedInv(sched') /\ line' \in Timers /\ Owned(sched', Holders(tmu'.handle, line'), renders')
  BY <1>4, <1>7
<1> QED
  BY <1>8 DEF ClockInv, StartedCounts

(* ta_render_context starts a timer. *)
LEMMA StartRenderKeeps ==
  ASSUME ClockInv, StartRender
  PROVE  ClockInv'
PROOF
<1>1. /\ renders < MaxRenders /\ sched' = StartTimer(sched, <<"render">>, RenderTime)
      /\ renders' = renders + 1 /\ UNCHANGED <<phase, budget, running, tmu, tmuIrq, line, period>>
  BY DEF StartRender
<1>2. SchedInv(sched) /\ Owned(sched, Holders(tmu.handle, line), renders)
  BY DEF ClockInv
<1>3. RenderTime \in Nat
  BY ClockAssumption
<1>4. SchedInv(sched') /\ Owned(sched', Holders(tmu.handle, line), renders + 1)
  BY <1>1, <1>2, <1>3, RenderStarts
<1> QED
  BY <1>1, <1>4 DEF ClockInv, StartedCounts

(* The registers after sh4_reset, with the handles that were there. *)
LEMMA ResetType ==
  ASSUME NEW h \in [Channels -> Timers \cup {NoTimer}]
  PROVE  ResetTmu(h) \in TmuStates /\ ResetTmu(h).handle = h /\ ResetTmu(h).tstr = {}
PROOF
<1> DEFINE d == CHOOSE x \in Dividers : \A e \in Dividers : x <= e
           top == CHOOSE c \in Resets : \A e \in Resets : e <= c
<1>1. d \in Dividers
  BY ClockAssumption
<1>2. top \in Resets
  BY ClockAssumption
<1>3. top \in 0 .. (CountRange - 1)
  BY <1>2, ClockAssumption
<1>4. ResetTmu(h) = [tstr |-> {}, tcnt |-> [n \in Channels |-> top],
                     tcor |-> [n \in Channels |-> top],
                     tcr |-> [n \in Channels |-> [unf |-> FALSE, unie |-> FALSE, div |-> d]],
                     handle |-> h]
  BY DEF ResetTmu
<1> HIDE DEF d, top
<1>5. [unf |-> FALSE, unie |-> FALSE, div |-> d] \in Controls
  BY <1>1 DEF Controls
<1> QED
  BY <1>3, <1>4, <1>5 DEF TmuStates

(* sh4_reset leaves every handle where it was. *)
LEMMA CpuResetKeeps ==
  ASSUME ClockInv, CpuReset
  PROVE  ClockInv'
PROOF
<1>1. /\ tmu' = ResetTmu(tmu.handle) /\ running' = TRUE
      /\ UNCHANGED <<sched, phase, budget, tmuIrq, line, period, renders>>
  BY DEF CpuReset
<1>2. tmu.handle \in [Channels -> Timers \cup {NoTimer}]
  BY DEF ClockInv, TmuStates
<1>3. tmu' \in TmuStates /\ tmu'.handle = tmu.handle /\ tmu'.tstr = {}
  BY <1>1, <1>2, ResetType
<1> QED
  BY <1>1, <1>3 DEF ClockInv, StartedCounts

(* The head of the live list is the first timer to expire. *)
LEMMA HeadFirst ==
  ASSUME NEW s, SchedInv(s), s.live # <<>>
  PROVE  /\ Head(s.live) \in Live(s) /\ s.remaining[Head(s.live)] \in Nat
         /\ \A i \in 1 .. Len(s.live) : s.remaining[Head(s.live)] <= s.remaining[s.live[i]]
PROOF
<1>1. /\ s.live \in Seq(Timers) /\ Len(s.live) \in Nat /\ s.remaining \in [Timers -> Int]
      /\ \A i \in 1 .. Len(s.live) : s.live[i] \in Timers
      /\ \A t : t \in Live(s) <=> \E i \in 1 .. Len(s.live) : s.live[i] = t
  BY SchedFields DEF SchedInv
<1>2. Len(s.live) > 0 /\ Head(s.live) = s.live[1]
  BY <1>1, EmptySeq
<1>3. 1 \in 1 .. Len(s.live)
  BY <1>1, <1>2
<1>4. s.remaining[s.live[1]] \in Nat
  <2>1. s.remaining[s.live[1]] \in Int /\ s.remaining[s.live[1]] >= 0
    BY <1>1, <1>3 DEF SchedInv, Sorted
  <2> QED
    BY <2>1
<1>5. ASSUME NEW i \in 1 .. Len(s.live) PROVE s.remaining[s.live[1]] <= s.remaining[s.live[i]]
  <2>1. i = 1 \/ 1 < i
    BY <1>1
  <2> QED
    BY <1>3, <1>4, <2>1 DEF SchedInv, Sorted
<1> QED
  BY <1>1, <1>2, <1>3, <1>4, <1>5

(* sched_tick runs up to the first timer. *)
LEMMA SliceKeeps ==
  ASSUME ClockInv, Slice
  PROVE  ClockInv'
PROOF
<1> DEFINE x == IF sched.live # <<>> /\ Head0 < budget THEN Head0 ELSE budget
<1>1. /\ sched' = Advance(sched, x) /\ budget' = budget - x /\ phase' = "devices"
      /\ UNCHANGED <<running, tmu, tmuIrq, line, period, renders>>
  BY DEF Slice
<1>2. SchedInv(sched) /\ Owned(sched, Holders(tmu.handle, line), renders) /\ budget \in Nat
  BY DEF ClockInv
<1>3. /\ x \in Nat /\ x <= budget
      /\ \A i \in 1 .. Len(sched.live) : x <= sched.remaining[sched.live[i]]
  <2>1. CASE sched.live = <<>>
    BY <1>2, <2>1
  <2>2. CASE sched.live # <<>>
    <3>1. /\ Head0 \in Nat
          /\ \A i \in 1 .. Len(sched.live) : Head0 <= sched.remaining[sched.live[i]]
      BY <1>2, <2>2, HeadFirst DEF Head0
    <3>2. \A i \in 1 .. Len(sched.live) : sched.remaining[sched.live[i]] \in Int
      BY <1>2, SchedFields DEF SchedInv
    <3>3. x \in Nat /\ x <= budget /\ x <= Head0
      BY <1>2, <2>2, <3>1
    <3> HIDE DEF x
    <3> QED
      BY <3>1, <3>2, <3>3
  <2> QED
    BY <2>1, <2>2
<1> HIDE DEF x
<1>4. SchedInv(sched') /\ Owned(sched', Holders(tmu.handle, line), renders)
  BY <1>1, <1>2, <1>3, AdvanceKeeps
<1>5. budget' \in Nat
  BY <1>1, <1>2, <1>3
<1> QED
  BY <1>1, <1>4, <1>5 DEF ClockInv, StartedCounts

(* The timer that is due belongs to the slot its callback names. *)
LEMMA DueOwner ==
  ASSUME ClockInv, Due, NEW k \in Slots, DueCallback = SlotCallback(k)
  PROVE  Holders(tmu.handle, line)[k] = Head(sched.live) /\ Head(sched.live) # NoTimer
PROOF
<1> DEFINE t == Head(sched.live)
           o == Holders(tmu.handle, line)
<1>1. SchedInv(sched) /\ Owned(sched, o, renders) /\ sched.live # <<>>
  BY DEF ClockInv, Due
<1>2. t \in Live(sched) /\ t \in Timers
  BY <1>1, HeadFirst, LiveFinite
<1>3. sched.cb[t] = SlotCallback(k)
  BY DEF DueCallback
<1> HIDE DEF t, o
<1>4. sched.cb[t] # <<"render">>
  BY <1>3, Callback
<1>5. PICK n \in Slots : o[n] = t
  BY <1>1, <1>2, <1>4 DEF Owned
<1>6. t # NoTimer
  BY <1>2, SchedAssumption
<1>7. sched.cb[o[n]] = SlotCallback(n)
  BY <1>1, <1>5, <1>6 DEF Owned
<1>8. n = k
  BY <1>3, <1>5, <1>7, Callback
<1> QED
  BY <1>5, <1>6, <1>8 DEF t, o

(* A channel's timer fires. *)
LEMMA FireTmuKeeps ==
  ASSUME ClockInv, NEW n \in Channels, FireTmu(n)
  PROVE  ClockInv'
PROOF
<1> DEFINE m0 == [Now EXCEPT !.sched = Fired]
           q == TmuExpire(m0, n)
<1>1. /\ Due /\ DueCallback = <<"tmu", n>> /\ Store(q)
      /\ UNCHANGED <<phase, budget, running, line, period, renders>>
  BY DEF FireTmu
<1>2. tmuIrq' \subseteq Channels
  BY DEF FireTmu, ClockInv
<1>3. n \in Slots /\ SlotCallback(n) = <<"tmu", n>>
  BY ChannelSlots DEF SlotCallback
<1>4. tmu.handle \in [Channels -> Timers \cup {NoTimer}]
  BY DEF ClockInv, TmuStates
<1>5. tmu.handle[n] = Head(sched.live) /\ tmu.handle[n] # NoTimer
  <2>1. Holders(tmu.handle, line)[n] = Head(sched.live) /\ Head(sched.live) # NoTimer
    BY <1>1, <1>3, DueOwner
  <2>2. Holders(tmu.handle, line)[n] = tmu.handle[n]
    BY <1>4, HoldersPoints
  <2> QED
    BY <2>1, <2>2
<1>6. MInv(Now, line, renders) /\ Now.sched = sched /\ Now.tmu = tmu
  BY NowInv
<1>7. m0 = [sched |-> CancelTimer(Now.sched, Now.tmu.handle[n]), tmu |-> Now.tmu]
  <2>1. Fired = CancelTimer(Now.sched, Now.tmu.handle[n])
    BY <1>5, <1>6 DEF Fired
  <2> QED
    BY <1>6, <2>1 DEF Now
<1> HIDE DEF m0
<1>8. /\ MInv(q, line, renders) /\ q.tmu.tstr = Now.tmu.tstr
      /\ q.tmu.handle[n] # NoTimer
      /\ \A k \in Channels : k # n => q.tmu.handle[k] = Now.tmu.handle[k]
  <2>1. Now.tmu.handle[n] # NoTimer
    BY <1>5, <1>6
  <2> QED
    BY <1>6, <1>7, <2>1, ExpireKeeps
<1> HIDE DEF q
<1>9. ASSUME NEW k \in q.tmu.tstr PROVE q.tmu.handle[k] # NoTimer
  <2>1. k \in Channels /\ tmu.handle[k] # NoTimer
    BY <1>6, <1>8 DEF ClockInv, StartedCounts, TmuStates
  <2> QED
    BY <1>6, <1>8, <2>1
<1> QED
  BY <1>1, <1>2, <1>8, <1>9, StoreKeeps

(* The scanline timer fires. *)
LEMMA FireLineKeeps ==
  ASSUME ClockInv, FireLine
  PROVE  ClockInv'
PROOF
<1>1. /\ Due /\ DueCallback = <<"line">> /\ line' = NextTimer(Fired)
      /\ sched' = StartTimer(Fired, <<"line">>, period)
      /\ UNCHANGED <<phase, budget, running, tmu, tmuIrq, period, renders>>
  BY DEF FireLine
<1>2. LineSlot \in Slots /\ SlotCallback(LineSlot) = <<"line">>
  BY SlotsFinite DEF SlotCallback
<1>3. Holders(tmu.handle, line)[LineSlot] = Head(sched.live)
  BY <1>1, <1>2, DueOwner
<1>4. tmu.handle \in [Channels -> Timers \cup {NoTimer}] /\ period \in LinePeriods
  BY DEF ClockInv, TmuStates
<1>5. Holders(tmu.handle, line)[LineSlot] = line
  BY <1>4, HoldersPoints
<1>6. Fired = CancelTimer(sched, line)
  BY <1>3, <1>5 DEF Fired
<1> QED
  BY <1>1, <1>4, <1>6, LineKeeps

(* A render's timer fires. *)
LEMMA FireRenderKeeps ==
  ASSUME ClockInv, FireRender
  PROVE  ClockInv'
PROOF
<1>1. /\ Due /\ DueCallback = <<"render">> /\ sched' = Fired /\ renders' = renders - 1
      /\ UNCHANGED <<phase, budget, running, tmu, tmuIrq, line, period>>
  BY DEF FireRender
<1>2. SchedInv(sched) /\ Owned(sched, Holders(tmu.handle, line), renders) /\ sched.live # <<>>
  BY <1>1 DEF ClockInv, Due
<1>3. Head(sched.live) \in RenderTimers(sched)
  BY <1>1, <1>2, HeadFirst DEF RenderTimers, DueCallback
<1>4. SchedInv(sched') /\ Owned(sched', Holders(tmu.handle, line), renders - 1)
  BY <1>1, <1>2, <1>3, RenderEnds DEF Fired
<1> QED
  BY <1>1, <1>4 DEF ClockInv, StartedCounts

-----------------------------------------------------------------------------
(* The initial states, and the theorem. *)

(* sched_create: every timer is free. *)
LEMMA NewSchedInv ==
  ASSUME NEW s \in NewScheds
  PROVE  SchedInv(s) /\ s.live = <<>>
PROOF
<1> DEFINE N == Cardinality(Timers)
<1>1. PICK f \in [1 .. N -> Timers] :
        /\ IsInjective(f)
        /\ s = [live |-> <<>>, free |-> f,
                remaining |-> [t \in Timers |-> 0], cb |-> [t \in Timers |-> NoCallback]]
  BY DEF NewScheds
<1>2. N \in Nat
  BY SchedAssumption, FS_CardinalityType
<1>3. \A t \in Timers : \E i \in 1 .. N : f[i] = t
  <2>1. f \in Injection(1 .. N, Timers)
    BY <1>1 DEF Injection
  <2>2. Cardinality(1 .. N) = N
    BY <1>2, FS_Interval
  <2>3. f \in Surjection(1 .. N, Timers)
    BY <2>1, <2>2, SchedAssumption, FS_Injection
  <2> QED
    BY <2>3 DEF Surjection
<1>4. \A i, j \in 1 .. N : f[i] = f[j] => i = j
  BY <1>1 DEF IsInjective
<1>5. f \in Seq(Timers) /\ Len(f) = N
  BY <1>1, <1>2
<1>6. NoCallback \in Callbacks
  BY DEF Callbacks
<1> HIDE DEF N
<1>7. s \in Scheds /\ s.live = <<>> /\ s.free = f
  BY <1>1, <1>5, <1>6 DEF Scheds
<1>8. Len(s.live) = 0 /\ 1 .. Len(s.live) = {}
  BY <1>7
<1>9. Lists(s)
  <2>1. Len(s.live) + Len(s.free) = Cardinality(Timers)
    BY <1>2, <1>5, <1>7, <1>8 DEF N
  <2> QED
    BY <1>3, <1>4, <1>5, <1>7, <1>8, <2>1 DEF Lists
<1>10. Sorted(s)
  BY <1>8 DEF Sorted
<1> QED
  BY <1>7, <1>9, <1>10 DEF SchedInv

(* After sched_create and pvr_init the scanline holds the only live timer. *)
LEMMA InitInv ==
  ASSUME ClockInit
  PROVE  ClockInv
PROOF
<1> DEFINE h == [n \in Channels |-> NoTimer]
           o == Holders(h, NoTimer)
<1>1. PICK s \in NewScheds : sched = StartTimer(s, <<"line">>, period) /\ line = NextTimer(s)
  BY DEF ClockInit
<1>2. /\ period \in LinePeriods /\ phase = "idle" /\ budget = 0 /\ running = TRUE
      /\ tmu = ResetTmu(h) /\ tmuIrq = {} /\ renders = 0
  BY DEF ClockInit
<1>3. SchedInv(s) /\ s.live = <<>>
  BY NewSchedInv
<1>4. h \in [Channels -> Timers \cup {NoTimer}]
  OBVIOUS
<1>5. tmu \in TmuStates /\ tmu.handle = h /\ tmu.tstr = {}
  BY <1>2, <1>4, ResetType
<1>6. o \in [Slots -> Timers \cup {NoTimer}] /\ \A k \in Slots : o[k] = NoTimer
  BY ChannelSlots DEF Holders
<1>7. LineSlot \in Slots /\ SlotCallback(LineSlot) = <<"line">>
  BY SlotsFinite DEF SlotCallback
<1>8. [o EXCEPT ![LineSlot] = line] = Holders(h, line)
  BY <1>4, <1>7, ChannelSlots DEF Holders
<1> HIDE DEF o, h
<1>9. Owned(s, o, 0)
  <2>1. Len(s.live) = 0 /\ Live(s) = {}
    BY <1>3 DEF Live
  <2>2. Holding(o) = {} /\ RenderTimers(s) = {}
    BY <1>6, <2>1 DEF Holding, RenderTimers
  <2>3. Cardinality(Holding(o)) = 0 /\ Cardinality(RenderTimers(s)) = 0
    BY <2>2, FS_EmptySet
  <2>4. 0 \in 0 .. MaxRenders
    BY ClockAssumption
  <2> QED
    BY <1>6, <2>1, <2>3, <2>4 DEF Owned
<1>10. period \in Nat
  BY <1>2, ClockAssumption
<1>11. /\ SchedInv(StartTimer(s, SlotCallback(LineSlot), period)) /\ NextTimer(s) \in Timers
       /\ Owned(StartTimer(s, SlotCallback(LineSlot), period), [o EXCEPT ![LineSlot] = NextTimer(s)], 0)
  BY <1>3, <1>6, <1>7, <1>9, <1>10, AcquireKeeps
<1>12. SchedInv(sched) /\ line \in Timers /\ Owned(sched, Holders(h, line), 0)
  BY <1>1, <1>7, <1>8, <1>11
<1> QED
  BY <1>2, <1>5, <1>12 DEF ClockInv, StartedCounts

(* Every step keeps the invariant. *)
LEMMA StepInv ==
  ASSUME ClockInv, [ClockNext]_clockVars
  PROVE  ClockInv'
PROOF
<1>1. CASE TickEnd
  BY <1>1 DEF ClockInv, StartedCounts, TickEnd
<1>2. CASE Slice
  BY <1>2, SliceKeeps
<1>3. CASE DevicesDone
  BY <1>3 DEF ClockInv, StartedCounts, DevicesDone
<1>4. CASE ExpireDone
  BY <1>4 DEF ClockInv, StartedCounts, ExpireDone
<1>5. CASE FireLine
  BY <1>5, FireLineKeeps
<1>6. CASE FireRender
  BY <1>6, FireRenderKeeps
<1>7. ASSUME NEW n \in Channels, FireTmu(n) PROVE ClockInv'
  BY <1>7, FireTmuKeeps
<1>8. ASSUME NEW v \in SUBSET Channels, WriteTSTR(v) PROVE ClockInv'
  BY <1>8, WriteTSTRKeeps
<1>9. ASSUME NEW n \in Channels, NEW v \in Controls, WriteTCR(n, v) PROVE ClockInv'
  BY <1>9, WriteTCRKeeps
<1>10. ASSUME NEW n \in Channels, NEW v \in Counts, WriteTCNT(n, v) PROVE ClockInv'
  BY <1>10, WriteTCNTKeeps
<1>11. ASSUME NEW n \in Channels, NEW v \in Resets, WriteTCOR(n, v) PROVE ClockInv'
  BY <1>11, WriteTCORKeeps
<1>12. ASSUME NEW p \in LinePeriods, ReconfigureSpg(p) PROVE ClockInv'
  <2>1. /\ line' = NextTimer(CancelTimer(sched, line)) /\ period' \in LinePeriods
        /\ sched' = StartTimer(CancelTimer(sched, line), <<"line">>, p)
        /\ UNCHANGED <<phase, budget, running, tmu, tmuIrq, renders>>
    BY <1>12 DEF ReconfigureSpg
  <2> QED
    BY <2>1, LineKeeps
<1>13. CASE StartRender
  BY <1>13, StartRenderKeeps
<1>14. CASE Suspend
  BY <1>14 DEF ClockInv, StartedCounts, Suspend
<1>15. CASE TickBegin
  BY <1>15, ClockAssumption DEF ClockInv, StartedCounts, TickBegin
<1>16. CASE CpuReset
  BY <1>16, CpuResetKeeps
<1>17. CASE Resume
  BY <1>17 DEF ClockInv, StartedCounts, Resume
<1>18. CASE UNCHANGED clockVars
  BY <1>18 DEF ClockInv, StartedCounts, clockVars
<1> QED
  BY <1>1, <1>2, <1>3, <1>4, <1>5, <1>6, <1>7, <1>8, <1>9, <1>10, <1>11, <1>12, <1>13, <1>14,
     <1>15, <1>16, <1>17, <1>18 DEF ClockNext, Tick, GuestStep

(* Two lists without repetition that cover the array partition it. *)
LEMMA ListsArePartition ==
  ASSUME NEW s, s \in Scheds, Lists(s)
  PROVE  ListsPartition(s)
PROOF
<1> DEFINE a == s.live
           b == s.free
           c == a \o b
<1>1. a \in Seq(Timers) /\ b \in Seq(Timers)
  BY DEF Scheds
<1>2. /\ c \in Seq(Timers) /\ Len(c) = Len(a) + Len(b)
      /\ \A i \in 1 .. Len(a) + Len(b) : c[i] = IF i <= Len(a) THEN a[i] ELSE b[i - Len(a)]
  BY <1>1, ConcatProperties
<1>3. Len(a) \in Nat /\ Len(b) \in Nat /\ DOMAIN c = 1 .. Len(c) /\ \A i \in 1 .. Len(c) : c[i] \in Timers
  BY <1>1, <1>2, LenProperties
<1>4. /\ \A i, j \in 1 .. Len(a) : a[i] = a[j] => i = j
      /\ \A i, j \in 1 .. Len(b) : b[i] = b[j] => i = j
      /\ \A i \in 1 .. Len(a), j \in 1 .. Len(b) : a[i] # b[j]
      /\ \A t \in Timers : \/ \E i \in 1 .. Len(a) : a[i] = t
                           \/ \E j \in 1 .. Len(b) : b[j] = t
  BY DEF Lists
<1> HIDE DEF a, b, c
<1>5. ASSUME NEW i \in 1 .. Len(c)
      PROVE  \/ i \in 1 .. Len(a) /\ c[i] = a[i]
             \/ i - Len(a) \in 1 .. Len(b) /\ c[i] = b[i - Len(a)] /\ i > Len(a)
  BY <1>2, <1>3
<1>6. ASSUME NEW i \in 1 .. Len(c), NEW j \in 1 .. Len(c), c[i] = c[j] PROVE i = j
  <2>1. CASE i \in 1 .. Len(a) /\ c[i] = a[i]
    <3>1. CASE j \in 1 .. Len(a) /\ c[j] = a[j]
      BY <1>4, <1>6, <2>1, <3>1
    <3>2. CASE j - Len(a) \in 1 .. Len(b) /\ c[j] = b[j - Len(a)]
      BY <1>4, <1>6, <2>1, <3>2
    <3> QED
      BY <1>5, <3>1, <3>2
  <2>2. CASE i - Len(a) \in 1 .. Len(b) /\ c[i] = b[i - Len(a)]
    <3>1. CASE j \in 1 .. Len(a) /\ c[j] = a[j]
      BY <1>4, <1>6, <2>2, <3>1
    <3>2. CASE j - Len(a) \in 1 .. Len(b) /\ c[j] = b[j - Len(a)]
      <4>1. i - Len(a) = j - Len(a)
        BY <1>4, <1>6, <2>2, <3>2
      <4> QED
        BY <1>3, <4>1
    <3> QED
      BY <1>5, <3>1, <3>2
  <2> QED
    BY <1>5, <2>1, <2>2
<1>7. ASSUME NEW t \in Timers PROVE \E i \in 1 .. Len(c) : c[i] = t
  <2>1. CASE \E i \in 1 .. Len(a) : a[i] = t
    <3>1. PICK i \in 1 .. Len(a) : a[i] = t
      BY <2>1
    <3>2. i \in 1 .. Len(c) /\ c[i] = t
      BY <1>2, <1>3, <3>1
    <3> QED
      BY <3>2
  <2>2. CASE \E j \in 1 .. Len(b) : b[j] = t
    <3>1. PICK j \in 1 .. Len(b) : b[j] = t
      BY <2>2
    <3>2. /\ Len(a) + j \in 1 .. Len(a) + Len(b) /\ ~(Len(a) + j <= Len(a))
          /\ (Len(a) + j) - Len(a) = j
      BY <1>3, <3>1
    <3>3. Len(a) + j \in 1 .. Len(c) /\ c[Len(a) + j] = t
      BY <1>2, <3>1, <3>2
    <3> QED
      BY <3>3
  <2> QED
    BY <1>4, <2>1, <2>2
<1>8. IsInjective(c)
  BY <1>3, <1>6 DEF IsInjective
<1>9. ToSet(c) = Timers
  BY <1>3, <1>7 DEF ToSet
<1> QED
  BY <1>8, <1>9 DEF ListsPartition, a, b, c

(* The invariant says that the timers are sound. *)
LEMMA InvSound ==
  ASSUME ClockInv
  PROVE  TimersSound
PROOF
<1> DEFINE h == tmu.handle
           o == Holders(h, line)
           C == {n \in Channels : h[n] # NoTimer}
<1>1. /\ sched \in Scheds /\ Lists(sched) /\ Sorted(sched) /\ SchedInv(sched)
      /\ Owned(sched, o, renders) /\ line \in Timers /\ renders \in 0 .. MaxRenders
  BY DEF ClockInv, SchedInv, Owned
<1>2. h \in [Channels -> Timers \cup {NoTimer}]
  BY DEF ClockInv, TmuStates
<1>3. o[LineSlot] = line /\ \A n \in Channels : o[n] = h[n]
  BY <1>2, HoldersPoints
<1>4. \A t : Active(sched, t) <=> t \in Live(sched)
  BY <1>1, SchedFields
<1>5. ClockTypeOK
  BY <1>1 DEF ClockTypeOK, ClockInv, Scheds
<1>6. TimersPartition
  BY <1>1, ListsArePartition DEF TimersPartition
<1>7. line # NoTimer
  BY <1>1, SchedAssumption
<1> HIDE DEF o, h
<1>8. HandlesValid
  <2>1. ASSUME NEW k \in Slots, o[k] # NoTimer
        PROVE  Active(sched, o[k]) /\ sched.cb[o[k]] = SlotCallback(k)
    BY <1>1, <1>4, <2>1 DEF Owned
  <2>2. Active(sched, line) /\ sched.cb[line] = <<"line">>
    BY <1>3, <1>7, <2>1, SlotsFinite DEF SlotCallback
  <2>3. ASSUME NEW n \in Channels, h[n] # NoTimer
        PROVE  Active(sched, h[n]) /\ sched.cb[h[n]] = <<"tmu", n>>
    BY <1>3, <2>1, <2>3, ChannelSlots DEF SlotCallback
  <2> QED
    BY <2>2, <2>3 DEF HandlesValid, h
<1>9. NoTimerLeak
  <2>1. Holding(o) = C \cup {LineSlot} /\ LineSlot \notin C
    BY <1>3, <1>7, ChannelSlots, SlotsFinite DEF Holding
  <2>2. IsFiniteSet(C)
    <3>1. C \in SUBSET Slots /\ IsFiniteSet(Slots)
      BY ChannelSlots, SlotsFinite
    <3> QED
      BY <3>1, FS_Subset
  <2> HIDE DEF C
  <2>3. Cardinality(Holding(o)) = Cardinality(C) + 1
    BY <2>1, <2>2, FS_AddElement
  <2>4. Len(sched.live) = Cardinality(Holding(o)) + renders
    BY <1>1 DEF Owned
  <2> QED
    BY <2>3, <2>4 DEF NoTimerLeak, C, h
<1>10. StartedCounts
  BY DEF ClockInv
<1>11. NothingOverdue
  <2>1. \A t : t \in ToSet(sched.live) => \E i \in 1 .. Len(sched.live) : sched.live[i] = t
    BY <1>1, <1>4, SchedFields DEF Active
  <2> QED
    BY <1>1, <2>1 DEF NothingOverdue, QueueOrdered, Sorted
<1> QED
  BY <1>5, <1>6, <1>8, <1>9, <1>10, <1>11 DEF TimersSound, TimersOwned

(* scheduler.c with its three users, for any number of timers that exceeds the
   channels and the renders in flight: whatever the guest writes to the TMU and
   the SPG, in any slice, across debugger stops and cpu resets, every entry of
   the timers array stays on one of the two lists, the live ones are exactly
   those somebody holds a handle to and the renders in flight, no handle is
   stale, and base_time never passes a timer. *)
THEOREM TimersNeverLost == ClockSpec => []TimersSound
PROOF
<1>1. ClockInit => ClockInv
  BY InitInv
<1>2. ClockInv /\ [ClockNext]_clockVars => ClockInv'
  BY StepInv
<1>3. ClockInv => TimersSound
  BY InvSound
<1> QED
  BY <1>1, <1>2, <1>3, PTL DEF ClockSpec

=============================================================================
