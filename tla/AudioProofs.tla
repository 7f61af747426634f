----------------------------- MODULE AudioProofs -----------------------------
(***************************************************************************)
(* Proofs about Audio, the ring buffer between the thread that pushes      *)
(* frames and SDL's audio thread, which share it without a lock, and about *)
(* the interrupts and the channels of Aica.                                *)
(***************************************************************************)
EXTENDS Audio, Aica, WellFoundedInduction, TLAPS

-----------------------------------------------------------------------------
(* Arithmetic modulo Wrap and modulo Size. *)

(* Division with remainder. *)
LEMMA Division ==
  ASSUME NEW m \in Nat \ {0}, NEW n \in Int
  PROVE  /\ n % m \in 0..m - 1 /\ n \div m \in Int
         /\ n = m * (n \div m) + (n % m)
PROOF
  OBVIOUS

(* Quotient and remainder are unique. *)
LEMMA RemainderUnique ==
  ASSUME NEW m \in Nat \ {0}, NEW q \in Int, NEW r \in Int, 0 <= r, r < m
  PROVE  (m * q + r) % m = r
PROOF
  OBVIOUS

(* A multiple of m changes nothing modulo m. *)
LEMMA Multiples ==
  ASSUME NEW m \in Nat \ {0}, NEW q \in Int, NEW n \in Int
  PROVE  (n + m * q) % m = n % m
PROOF
<1>1. n = m * (n \div m) + (n % m) /\ n \div m \in Int /\ n % m \in 0..m - 1
  BY Division
<1>2. n + m * q = m * ((n \div m) + q) + (n % m)
  BY <1>1
<1>3. (m * ((n \div m) + q) + (n % m)) % m = n % m
  BY <1>1, RemainderUnique
<1> QED
  BY <1>2, <1>3

(* The offsets wrap around at a whole number of rings. *)
LEMMA WholeRings == \E c \in Int : Wrap = Size * c
PROOF
<1>1. Wrap = Size * (Wrap \div Size) + (Wrap % Size) /\ Wrap \div Size \in Int
  BY Division, AudioAssumption
<1> QED
  BY <1>1, AudioAssumption

(* So an offset and what it wraps around to have the same cell. *)
LEMMA CellWraps ==
  ASSUME NEW y \in Int
  PROVE  (y % Wrap) % Size = y % Size
PROOF
<1>1. PICK c \in Int : Wrap = Size * c
  BY WholeRings
<1>2. y = Wrap * (y \div Wrap) + (y % Wrap) /\ y \div Wrap \in Int /\ y % Wrap \in Int
  BY Division, AudioAssumption
<1> DEFINE q == c * (y \div Wrap)
           z == y % Wrap
<1>3. y = z + Size * q /\ q \in Int
  BY <1>1, <1>2, AudioAssumption
<1>4. z \in Int /\ Size \in Nat \ {0}
  BY <1>2, AudioAssumption
<1> HIDE DEF q, z
<1>5. (z + Size * q) % Size = z % Size
  BY <1>3, <1>4, Multiples
<1>6. y % Size = z % Size
  BY <1>3, <1>5
<1> QED
  BY <1>6 DEF z

\* How many frames the offset w is ahead of the offset r.
Gap(r, w) == (w - r) % Wrap

(* The gap without a modulus. *)
LEMMA GapValue ==
  ASSUME NEW r \in Offsets, NEW w \in Offsets
  PROVE  Gap(r, w) \in 0..Wrap - 1 /\ Gap(r, w) = IF w >= r THEN w - r ELSE w - r + Wrap
PROOF
  BY AudioAssumption DEF Gap, Offsets

(* Advancing without a modulus. *)
LEMMA AdvanceValue ==
  ASSUME NEW o \in Offsets, NEW n \in 0..Size
  PROVE  /\ Advanced(o, n) \in Offsets
         /\ Advanced(o, n) = IF o + n < Wrap THEN o + n ELSE o + n - Wrap
PROOF
  BY AudioAssumption DEF Advanced, Offsets

(* ringbuf_available, if the ring is not overfull. *)
LEMMA DistanceValue ==
  ASSUME NEW r \in Offsets, NEW w \in Offsets, Gap(r, w) <= Size
  PROVE  Distance(r, w) = Gap(r, w)
PROOF
<1>1. Size <= Wrap \div 2
  BY AudioAssumption
<1>2. Gap(r, w) \in 0..Wrap - 1
  BY GapValue
<1>3. Wrap \div 2 \in Int /\ Size \in Int
  BY AudioAssumption
<1> QED
  BY <1>1, <1>2, <1>3 DEF Distance, Gap

(* Advancing the write offset widens the gap ... *)
LEMMA WriteAdvances ==
  ASSUME NEW r \in Offsets, NEW w \in Offsets, NEW n \in 0..Size, Gap(r, w) + n <= Size
  PROVE  Gap(r, Advanced(w, n)) = Gap(r, w) + n
PROOF
<1> DEFINE a == Advanced(w, n)
<1>1. a \in Offsets /\ a = IF w + n < Wrap THEN w + n ELSE w + n - Wrap
  BY AdvanceValue
<1> HIDE DEF a
<1>2. Gap(r, w) \in 0..Wrap - 1 /\ Gap(r, w) = IF w >= r THEN w - r ELSE w - r + Wrap
  BY <1>1, GapValue
<1>3. Gap(r, a) \in 0..Wrap - 1 /\ Gap(r, a) = IF a >= r THEN a - r ELSE a - r + Wrap
  BY <1>1, GapValue
<1>4. {r, w, a} \subseteq Int /\ Size \in Int /\ Wrap \in Int /\ Wrap > 2 * Size /\ n \in 0..Size
  BY <1>1, AudioAssumption DEF Offsets
<1> QED
  BY <1>1, <1>2, <1>3, <1>4 DEF a, Offsets

(* ... advancing the read offset narrows it ... *)
LEMMA ReadAdvances ==
  ASSUME NEW r \in Offsets, NEW w \in Offsets, NEW n \in 0..Size, n <= Gap(r, w)
  PROVE  Gap(Advanced(r, n), w) = Gap(r, w) - n
PROOF
<1> DEFINE a == Advanced(r, n)
<1>1. a \in Offsets /\ a = IF r + n < Wrap THEN r + n ELSE r + n - Wrap
  BY AdvanceValue
<1> HIDE DEF a
<1>2. Gap(r, w) \in 0..Wrap - 1 /\ Gap(r, w) = IF w >= r THEN w - r ELSE w - r + Wrap
  BY <1>1, GapValue
<1>3. Gap(a, w) \in 0..Wrap - 1 /\ Gap(a, w) = IF w >= a THEN w - a ELSE w - a + Wrap
  BY <1>1, GapValue
<1>4. {r, w, a} \subseteq Int /\ Size \in Int /\ Wrap \in Int /\ Wrap > 2 * Size /\ n \in 0..Size
  BY <1>1, AudioAssumption DEF Offsets
<1> QED
  BY <1>1, <1>2, <1>3, <1>4 DEF a, Offsets

(* ... and the frames that are then close ahead were ahead before. *)
LEMMA StillAhead ==
  ASSUME NEW r \in Offsets, NEW x \in Offsets, NEW n \in 0..Size, NEW l \in 0..Size,
         Gap(Advanced(r, n), x) < l - n
  PROVE  Gap(r, x) < l
PROOF
<1> DEFINE a == Advanced(r, n)
<1>1. a \in Offsets /\ a = IF r + n < Wrap THEN r + n ELSE r + n - Wrap
  BY AdvanceValue
<1> HIDE DEF a
<1>2. Gap(r, x) \in 0..Wrap - 1 /\ Gap(r, x) = IF x >= r THEN x - r ELSE x - r + Wrap
  BY <1>1, GapValue
<1>3. Gap(a, x) \in 0..Wrap - 1 /\ Gap(a, x) = IF x >= a THEN x - a ELSE x - a + Wrap
  BY <1>1, GapValue
<1>4. {r, x, a} \subseteq Int /\ Size \in Int /\ Wrap \in Int /\ Wrap > 2 * Size /\ n \in 0..Size
  BY <1>1, AudioAssumption DEF Offsets
<1> QED
  BY <1>1, <1>2, <1>3, <1>4 DEF a, Offsets

(* Two offsets less than a ring apart have different cells. *)
LEMMA CellsApart ==
  ASSUME NEW x \in Offsets, NEW y \in Offsets, 0 < Gap(x, y), Gap(x, y) < Size
  PROVE  x % Size # y % Size
PROOF
<1> SUFFICES ASSUME x % Size = y % Size PROVE FALSE
  OBVIOUS
<1>1. PICK c \in Int : Wrap = Size * c
  BY WholeRings
<1>2. /\ x = Size * (x \div Size) + (x % Size) /\ x \div Size \in Int
      /\ y = Size * (y \div Size) + (y % Size) /\ y \div Size \in Int
  BY Division, AudioAssumption DEF Offsets
<1> DEFINE q == (y \div Size) - (x \div Size)
           d == Gap(x, y)
<1>3. y - x = Size * q /\ q \in Int
  BY <1>2, AudioAssumption DEF Offsets
<1>4. d = y - x \/ d = y - x + Wrap
  BY GapValue, AudioAssumption DEF Offsets
<1>5. 0 < d /\ d < Size /\ d \in Int
  BY GapValue
<1> HIDE DEF q, d
<1>6. PICK p \in Int : d = Size * p
  <2>1. CASE d = y - x
    BY <1>3, <2>1
  <2>2. CASE d = y - x + Wrap
    <3>1. d = Size * (q + c) /\ q + c \in Int
      BY <1>1, <1>3, <2>2, AudioAssumption
    <3> QED
      BY <3>1
  <2> QED
    BY <1>4, <2>1, <2>2
<1>7. Size \in Nat \ {0} /\ Size * 0 + d = d /\ Size * p + 0 = d
  BY <1>5, <1>6, AudioAssumption
<1>8. (Size * 0 + d) % Size = d
  BY <1>5, <1>7, RemainderUnique
<1>9. (Size * p + 0) % Size = 0
  BY <1>7, RemainderUnique
<1> QED
  BY <1>5, <1>7, <1>8, <1>9

-----------------------------------------------------------------------------
(* The inductive invariant. *)

Labels == {"poll", "low", "frame", "wait", "ui", "load", "copy", "play", "idle", "batch"}

AudioType == AudioTypeOK /\ pc \in [Threads -> Labels]

\* Frames in the ring, and frames of a push that are copied but not advanced over.
Queued == Gap(read, write)
Copied ==
  IF pc["main"] = "copy" THEN my["main"].i
  ELSE IF pc["emu"] = "copy" THEN my["emu"].i ELSE 0

\* The ring is not overfull, and what was copied from the read offset on is there.
RingInv ==
  /\ Queued <= Size
  /\ \A x \in Offsets : Gap(read, x) < Queued + Copied => data[x % Size] = x

\* One thread pushes at a time: the main thread while no guest runs.
OnePusher ==
  /\ pc["main"] \in {"load", "copy", "play"} => ~guestRuns
  /\ pc["emu"] # "idle" => guestRuns

\* What a producer saw may be stale, but then there is more room than it saw;
\* what it copies starts at the write offset and fits.
PushInv(t) ==
  /\ pc[t] \in {"load", "copy"} => my[t].ring = ring
  /\ pc[t] = "load" =>
       Queued <= Gap(my[t].seen, write) /\ Gap(my[t].seen, write) <= Size
  /\ pc[t] = "copy" =>
       /\ my[t].base = write /\ 0 <= my[t].n /\ Queued + my[t].n <= Size
       /\ my[t].i <= my[t].n

\* The callback copies from the read offset, and no more than there is.
PullInv ==
  /\ pc["callback"] \in {"load", "batch", "copy"} => my["callback"].ring = ring
  /\ pc["callback"] = "load" => my["callback"].seen = read
  /\ pc["callback"] \in {"batch", "copy"} => my["callback"].want <= Queued
  /\ pc["callback"] = "copy" =>
       /\ my["callback"].base = read /\ my["callback"].n = my["callback"].want
       /\ my["callback"].i <= my["callback"].n

AudioInv ==
  AudioType /\ RingInv /\ OnePusher /\ PushInv("main") /\ PushInv("emu") /\ PullInv

(* The largest request is at least as large as each. *)
LEMMA MostBounds ==
  /\ Most \in Nat /\ Batch \in 0..Most /\ Silence \in 0..Most /\ Chunk \in 0..Most
PROOF
  BY AudioAssumption DEF Most, Larger

(* The locals of an idle thread. *)
LEMMA NoLocalsType == NoLocals \in Locals
PROOF
<1>1. 0 \in Offsets /\ 0 \in -Size..Size /\ 0 \in 0..Size /\ 0 \in 0..Most /\ 0 \in 0..1
  BY MostBounds, AudioAssumption DEF Offsets
<1> QED
  BY <1>1 DEF NoLocals, Locals

(* The invariant implies the property. *)
LEMMA InvIntact ==
  ASSUME AudioInv
  PROVE  FramesIntact
PROOF
<1> USE DEF AudioInv, AudioType
<1>1. read \in Offsets /\ write \in Offsets /\ my \in [Threads -> Locals]
  BY DEF AudioTypeOK
<1>2. Distance(read, write) = Queued /\ Queued \in 0..Size
  BY <1>1, DistanceValue, GapValue DEF RingInv, Queued, Offsets
<1>3. \A t \in Producers : pc[t] = "load" => Available(t) \in 0..Size
  <2> SUFFICES ASSUME NEW t \in Producers, pc[t] = "load" PROVE Available(t) \in 0..Size
    OBVIOUS
  <2>1. my[t].seen \in Offsets /\ Gap(my[t].seen, write) <= Size
    BY <1>1 DEF Producers, Threads, Locals, PushInv
  <2>2. Gap(my[t].seen, write) \in 0..Wrap - 1
    BY <1>1, <2>1, GapValue
  <2> QED
    BY <1>1, <2>1, <2>2, DistanceValue DEF Available
<1>4. pc["callback"] = "load" => Available("callback") \in 0..Size
  BY <1>2 DEF PullInv, Available
<1>5. EndsAgree
  BY <1>2, <1>3, <1>4 DEF EndsAgree, PushInv, PullInv, Threads, Producers, AudioTypeOK
<1>6. ASSUME pc["callback"] = "copy", NEW k \in my["callback"].i..my["callback"].n - 1
      PROVE  data[Cell(my["callback"].base + k)] = Advanced(my["callback"].base, k)
  <2>1. my["callback"] \in Locals
    BY <1>1 DEF Threads
  <2>2. /\ my["callback"].base = read /\ k \in Int /\ 0 <= k /\ k < Queued
        /\ k \in 0..Size /\ Size \in Int
    BY <1>2, <1>6, <2>1, AudioAssumption DEF PullInv, Locals
  <2> DEFINE x == Advanced(read, k)
  <2>3. x \in Offsets
    BY <1>1, <2>2, AdvanceValue
  <2>4. Gap(read, read) = 0
    BY <1>1, GapValue DEF Offsets
  <2>5. Gap(read, x) = k
    BY <1>1, <2>2, <2>4, WriteAdvances
  <2>6. Cell(read + k) = x % Size
    BY <1>1, <2>2, CellWraps DEF Cell, Advanced, Offsets
  <2>7. Copied \in Nat
    BY <1>1 DEF Copied, Locals, Threads
  <2> HIDE DEF x
  <2>8. data[x % Size] = x
    BY <1>2, <2>2, <2>3, <2>5, <2>7 DEF RingInv
  <2> QED
    BY <2>2, <2>6, <2>8 DEF x
<1> QED
  BY <1>5, <1>6 DEF FramesIntact

(* The host starts with an empty ring. *)
LEMMA AudioInitInv ==
  ASSUME AudioInit
  PROVE  AudioInv
PROOF
<1>1. pc = [main |-> "poll", emu |-> "idle", callback |-> "idle"]
  BY DEF AudioInit
<1>2. pc["main"] = "poll" /\ pc["emu"] = "idle" /\ pc["callback"] = "idle"
      /\ pc \in [Threads -> Labels]
  BY <1>1 DEF Threads, Labels
<1>3. AudioTypeOK
  <2>1. my \in [Threads -> Locals]
    BY NoLocalsType DEF AudioInit
  <2>2. 0 \in Offsets /\ 0 \in 0..Work
    BY AudioAssumption DEF Offsets
  <2>3. data \in [Cells -> Offsets \cup {Blank}]
    BY DEF AudioInit
  <2>4. dev \in BOOLEAN /\ playing \in BOOLEAN /\ guestRuns \in BOOLEAN
    BY DEF AudioInit
  <2>5. ring \in 0..1 /\ read \in Offsets /\ write \in Offsets /\ work \in 0..Work
    BY <2>2 DEF AudioInit
  <2> QED
    BY <1>2, <2>1, <2>3, <2>4, <2>5 DEF AudioTypeOK
<1>4. Queued = 0 /\ Copied = 0
  <2>1. read = 0 /\ write = 0 /\ 0 \in Offsets
    BY AudioAssumption DEF AudioInit, Offsets
  <2> QED
    <3>1. Gap(0, 0) = 0
      BY <2>1, GapValue, AudioAssumption DEF Offsets
    <3> QED
      BY <1>2, <2>1, <3>1 DEF Queued, Copied
<1>5. RingInv
  <2>1. \A x \in Offsets : ~(Gap(read, x) < 0)
    <3>1. read \in Offsets
      BY <1>3 DEF AudioTypeOK
    <3>2. \A x \in Offsets : Gap(read, x) \in 0..Wrap - 1
      BY <3>1, GapValue
    <3> QED
      BY <3>2, AudioAssumption
  <2>2. 0 <= Size /\ 0 + 0 = 0
    BY AudioAssumption
  <2> QED
    BY <1>4, <2>1, <2>2 DEF RingInv
<1> QED
  BY <1>2, <1>3, <1>5 DEF AudioInv, AudioType, OnePusher, PushInv, PullInv

(* The facts about a state that satisfies the invariant which every action
   needs: only one producer is active, and what it has copied fits the ring. *)
LEMMA PushFacts ==
  ASSUME AudioInv, NEW t \in Producers, pc[t] \in {"load", "copy", "play"}
  PROVE  \E u \in Producers :
           /\ u # t /\ Producers = {t, u} /\ pc[u] \notin {"load", "copy", "play"}
           /\ Copied = IF pc[t] = "copy" THEN my[t].i ELSE 0
PROOF
<1>1. pc["main"] \in {"load", "copy", "play"} => pc["emu"] = "idle"
  BY DEF AudioInv, OnePusher
<1>2. pc["emu"] \in {"load", "copy", "play"} => pc["main"] \notin {"load", "copy", "play"}
  BY <1>1
<1>3. CASE t = "main"
  BY <1>1, <1>3 DEF Producers, Copied
<1>4. CASE t = "emu"
  BY <1>2, <1>4 DEF Producers, Copied
<1> QED
  BY <1>3, <1>4 DEF Producers

(* What is in the ring and what is copied into it fit the ring. *)
LEMMA WindowFits ==
  ASSUME AudioInv
  PROVE  Queued \in 0..Size /\ Copied \in 0..Size /\ Queued + Copied <= Size
PROOF
<1>1. read \in Offsets /\ write \in Offsets /\ \A t \in Threads : my[t] \in Locals
  BY DEF AudioInv, AudioType, AudioTypeOK
<1>2. Queued \in 0..Wrap - 1 /\ Queued <= Size
  BY <1>1, GapValue DEF Queued, AudioInv, RingInv
<1>3. Queued \in 0..Size
  BY <1>2, AudioAssumption
<1>4. CASE \E t \in Producers : pc[t] = "copy"
  <2>1. PICK t \in Producers : pc[t] = "copy"
    BY <1>4
  <2>2. Copied = my[t].i
    BY <2>1, PushFacts
  <2>3. /\ my[t].i \in 0..Size /\ my[t].n \in Int
        /\ my[t].i <= my[t].n /\ Queued + my[t].n <= Size
    BY <1>1, <2>1, AudioAssumption DEF AudioInv, PushInv, Producers, Threads, Locals
  <2> QED
    BY <1>3, <2>2, <2>3, AudioAssumption
<1>5. CASE ~\E t \in Producers : pc[t] = "copy"
  BY <1>3, <1>5, AudioAssumption DEF Copied, Producers
<1> QED
  BY <1>4, <1>5

(* The steps of audio_push keep the invariant. *)
LEMMA PushStep ==
  ASSUME AudioInv, NEW t \in Producers,
         PushRoom(t) \/ PushCopy(t) \/ PushAdvance(t) \/ PushPlay(t)
  PROVE  AudioInv'
PROOF
<1>1. /\ read \in Offsets /\ write \in Offsets /\ my \in [Threads -> Locals]
      /\ pc \in [Threads -> Labels] /\ t \in Threads /\ my[t] \in Locals
      /\ data \in [Cells -> Offsets \cup {Blank}]
  BY DEF AudioInv, AudioType, AudioTypeOK, Producers, Threads
<1>2. pc[t] \in {"load", "copy", "play"}
  BY DEF PushRoom, PushCopy, PushAdvance, PushPlay
<1>3. PICK u \in Producers :
        /\ u # t /\ Producers = {t, u} /\ pc[u] \notin {"load", "copy", "play"}
        /\ Copied = IF pc[t] = "copy" THEN my[t].i ELSE 0
  BY <1>2, PushFacts
<1>4. /\ t # "callback" /\ u # "callback" /\ u \in Threads
      /\ \A p \in Producers : p = t \/ p = u
  BY <1>3 DEF Producers, Threads
<1>5. Queued \in 0..Size /\ Copied \in 0..Size /\ Queued + Copied <= Size
  BY WindowFits
<1>6. Producers = {"main", "emu"}
  BY DEF Producers
<1>7. CASE PushRoom(t)
  <2> DEFINE n == Least(Remaining(t), my[t].want)
  <2>1. /\ pc[t] = "load" /\ pc' = [pc EXCEPT ![t] = "copy"]
        /\ my' = [my EXCEPT ![t].n = n, ![t].base = write, ![t].i = 0]
        /\ UNCHANGED <<dev, playing, ring, read, write, data, guestRuns, work>>
    BY <1>7 DEF PushRoom, Go
  <2>2. /\ Queued <= Gap(my[t].seen, write) /\ Gap(my[t].seen, write) <= Size
        /\ my[t].ring = ring
    BY <1>6, <2>1 DEF AudioInv, PushInv
  <2>3. Gap(my[t].seen, write) \in 0..Wrap - 1 /\ my[t].seen \in Offsets
    BY <1>1, GapValue DEF Locals
  <2>4. Remaining(t) = Size - Gap(my[t].seen, write)
    BY <1>1, <2>2, <2>3, DistanceValue DEF Remaining, Available
  <2>5. my[t].want \in 0..Most /\ Most \in Nat
    BY <1>1, MostBounds DEF Locals
  <2>6. n \in 0..Size /\ Queued + n <= Size
    BY <1>5, <2>2, <2>3, <2>4, <2>5, AudioAssumption DEF Least
  <2> HIDE DEF n
  <2>7. /\ my'[t] = [my[t] EXCEPT !.n = n, !.base = write, !.i = 0]
        /\ \A p \in Threads : p # t => my'[p] = my[p] /\ pc'[p] = pc[p]
        /\ pc'[t] = "copy"
    BY <1>1, <2>1 DEF Labels
  <2>8. my'[t] \in Locals /\ my'[t].n = n /\ my'[t].base = write /\ my'[t].i = 0
        /\ my'[t].ring = my[t].ring
    <3>1. n \in -Size..Size /\ 0 \in 0..Size
      BY <2>6, AudioAssumption
    <3> QED
      BY <1>1, <2>7, <3>1 DEF Locals
  <2>9. AudioType'
    <3>1. my' \in [Threads -> Locals] /\ pc' \in [Threads -> Labels]
      BY <1>1, <2>1, <2>7, <2>8 DEF Labels
    <3> QED
      BY <1>1, <1>4, <1>6, <2>1, <2>7, <3>1
         DEF AudioInv, AudioType, AudioTypeOK, Threads
  <2>10. Queued' = Queued /\ Copied' = 0 /\ Copied = 0
    BY <1>3, <1>4, <1>6, <2>1, <2>7, <2>8 DEF Queued, Copied
  <2>11. RingInv'
    BY <2>1, <2>10 DEF AudioInv, RingInv
  <2>12. OnePusher'
    BY <1>1, <1>6, <2>1, <2>7 DEF AudioInv, OnePusher, Threads
  <2>13. PushInv(t)' /\ PushInv(u)'
    BY <1>3, <1>4, <2>1, <2>2, <2>6, <2>7, <2>8, <2>10 DEF PushInv
  <2>14. PullInv'
    BY <1>4, <2>1, <2>7, <2>10 DEF AudioInv, PullInv, Threads
  <2> QED
    BY <1>3, <1>6, <2>9, <2>11, <2>12, <2>13, <2>14 DEF AudioInv
<1>8. CASE PushCopy(t)
  <2> DEFINE i == my[t].i
             y == Advanced(write, i)
  <2>1. /\ pc[t] = "copy" /\ i < my[t].n
        /\ data' = [data EXCEPT ![Cell(my[t].base + i)] = Advanced(my[t].base, i)]
        /\ my' = [my EXCEPT ![t].i = i + 1]
        /\ UNCHANGED <<dev, playing, ring, read, write, guestRuns, work, pc>>
    BY <1>8 DEF PushCopy
  <2>2. /\ my[t].base = write /\ Queued + my[t].n <= Size
        /\ i \in 0..Size /\ my[t].n \in Int /\ Copied = i
    <3>1. i \in 0..Size /\ my[t].n \in Int
      BY <1>1, AudioAssumption DEF Locals
    <3>2. my[t].base = write /\ Queued + my[t].n <= Size
      BY <1>6, <2>1 DEF AudioInv, PushInv
    <3> QED
      BY <1>3, <2>1, <3>1, <3>2
  <2>3. y \in Offsets /\ Gap(read, y) = Queued + i
    BY <1>1, <1>5, <2>1, <2>2, AdvanceValue, WriteAdvances, AudioAssumption DEF Queued
  <2>4. Cell(my[t].base + i) = y % Size /\ y % Size \in Cells
    <3>1. y % Size \in 0..Size - 1
      BY <2>3, AudioAssumption DEF Offsets
    <3> QED
      BY <1>1, <2>2, <3>1, CellWraps DEF Cell, Advanced, Offsets, Cells
  <2>5. data' = [data EXCEPT ![y % Size] = y]
    BY <2>1, <2>2, <2>4
  <2>6. /\ my'[t] = [my[t] EXCEPT !.i = i + 1]
        /\ \A p \in Threads : p # t => my'[p] = my[p]
    BY <1>1, <2>1
  <2>7. i + 1 \in 0..Size
    BY <1>5, <2>1, <2>2, AudioAssumption
  <2>8. /\ my'[t] \in Locals /\ my'[t].i = i + 1 /\ my'[t].n = my[t].n
        /\ my'[t].base = my[t].base /\ my'[t].ring = my[t].ring
    BY <1>1, <2>6, <2>7 DEF Locals
  <2> HIDE DEF i, y
  <2>9. AudioType'
    <3>1. my' \in [Threads -> Locals]
      BY <1>1, <2>1, <2>8
    <3>2. data' \in [Cells -> Offsets \cup {Blank}]
      <4>1. data \in [Cells -> Offsets \cup {Blank}]
        BY <1>1
      <4> QED
        BY <2>3, <2>5, <4>1
    <3> QED
      BY <2>1, <3>1, <3>2 DEF AudioInv, AudioType, AudioTypeOK
  <2>10. Queued' = Queued /\ Copied' = i + 1
    BY <1>3, <1>4, <1>6, <2>1, <2>8 DEF Queued, Copied
  <2>11. RingInv'
    <3> SUFFICES ASSUME NEW x \in Offsets, Gap(read, x) < Queued + (i + 1)
                 PROVE  data'[x % Size] = x
      BY <2>1, <2>10 DEF AudioInv, RingInv, Offsets
    <3>1. /\ Gap(read, x) \in 0..Wrap - 1
          /\ Gap(read, x) = IF x >= read THEN x - read ELSE x - read + Wrap
          /\ Gap(read, y) = IF y >= read THEN y - read ELSE y - read + Wrap
          /\ Gap(x, y) \in 0..Wrap - 1
          /\ Gap(x, y) = IF y >= x THEN y - x ELSE y - x + Wrap
      BY <1>1, <2>3, GapValue
    <3>2. x % Size \in Cells
      BY AudioAssumption DEF Offsets, Cells
    <3>3. CASE Gap(read, x) = Queued + i
      <4>1. x = y
        BY <1>1, <2>3, <3>1, <3>3, AudioAssumption DEF Offsets
      <4> QED
        BY <1>1, <2>4, <2>5, <4>1
    <3>4. CASE Gap(read, x) < Queued + i
      <4>1. 0 < Gap(x, y) /\ Gap(x, y) < Size
        BY <1>1, <1>5, <2>1, <2>2, <2>3, <3>1, <3>4, AudioAssumption DEF Offsets
      <4>2. x % Size # y % Size
        BY <2>3, <4>1, CellsApart
      <4>3. data[x % Size] = x
        BY <2>2, <3>4 DEF AudioInv, RingInv
      <4> QED
        BY <1>1, <2>5, <3>2, <4>2, <4>3
    <3> QED
      BY <1>5, <2>2, <3>1, <3>3, <3>4
  <2>12. OnePusher'
    BY <2>1 DEF AudioInv, OnePusher
  <2>13. PushInv(t)' /\ PushInv(u)'
    <3>1. i + 1 <= my[t].n /\ 0 <= my[t].n
      BY <2>1, <2>2
    <3> QED
      BY <1>3, <1>4, <1>6, <2>1, <2>2, <2>6, <2>8, <2>10, <3>1 DEF AudioInv, PushInv
  <2>14. PullInv'
    BY <1>4, <2>1, <2>6, <2>10 DEF AudioInv, PullInv, Threads
  <2> QED
    BY <1>3, <1>6, <2>9, <2>11, <2>12, <2>13, <2>14 DEF AudioInv
<1>9. CASE PushAdvance(t)
  <2> DEFINE n == my[t].n
  <2>1. /\ pc[t] = "copy" /\ my[t].i = n /\ write' = Advanced(write, n)
        /\ pc' = [pc EXCEPT ![t] = "play"]
        /\ UNCHANGED <<dev, playing, ring, read, data, guestRuns, work, my>>
    BY <1>9 DEF PushAdvance, Go
  <2>2. n \in 0..Size /\ Queued + n <= Size /\ Copied = n
    BY <1>1, <1>3, <1>5, <1>6, <2>1 DEF AudioInv, PushInv, Locals
  <2>3. write' \in Offsets /\ Queued' = Queued + n
    BY <1>1, <2>1, <2>2, AdvanceValue, WriteAdvances DEF Queued
  <2>4. pc'[t] = "play" /\ \A p \in Threads : p # t => pc'[p] = pc[p]
    BY <1>1, <2>1
  <2> HIDE DEF n
  <2>5. AudioType'
    <3>1. pc' \in [Threads -> Labels]
      BY <1>1, <2>1 DEF Labels
    <3> QED
      BY <1>1, <1>4, <1>6, <2>1, <2>3, <2>4, <3>1
         DEF AudioInv, AudioType, AudioTypeOK, Threads
  <2>6. Copied' = 0
    BY <1>3, <1>4, <1>6, <2>4 DEF Copied
  <2>7. Queued' + Copied' = Queued + Copied
    BY <1>5, <2>2, <2>3, <2>6
  <2>8. RingInv'
    <3>1. \A x \in Offsets : Gap(read, x) < Queued' + Copied' => data[x % Size] = x
      BY <2>7 DEF AudioInv, RingInv
    <3> QED
      BY <2>1, <2>2, <2>3, <3>1 DEF RingInv
  <2>9. OnePusher'
    BY <1>1, <1>6, <2>1, <2>4 DEF AudioInv, OnePusher, Threads
  <2>10. PushInv(t)' /\ PushInv(u)'
    BY <1>3, <1>4, <2>4 DEF PushInv
  <2>11. PullInv'
    <3>1. \A w \in Int : w <= Queued => w <= Queued'
      BY <1>5, <2>2, <2>3
    <3>2. my["callback"].want \in Int
      BY <1>1 DEF Threads, Locals
    <3> QED
      BY <1>4, <2>1, <2>4, <3>1, <3>2 DEF AudioInv, PullInv, Threads
  <2> QED
    BY <1>3, <1>6, <2>5, <2>8, <2>9, <2>10, <2>11 DEF AudioInv
<1>10. CASE PushPlay(t)
  <2>1. /\ pc[t] = "play" /\ playing' = TRUE
        /\ pc' = [pc EXCEPT ![t] = PushResume(t)]
        /\ my' = [my EXCEPT ![t] = NoLocals]
        /\ UNCHANGED <<dev, ring, read, write, data, guestRuns, work>>
    BY <1>10 DEF PushPlay, Go
  <2>2. PushResume(t) = IF t = "main" THEN "ui" ELSE "idle"
    BY DEF PushResume
  <2>3. /\ pc'[t] = PushResume(t)
        /\ \A p \in Threads : p # t => pc'[p] = pc[p] /\ my'[p] = my[p]
    BY <1>1, <2>1
  <2>4. AudioType'
    <3>1. pc' \in [Threads -> Labels]
      BY <1>1, <2>1, <2>2 DEF Labels
    <3>2. my' \in [Threads -> Locals]
      BY <1>1, <2>1, NoLocalsType
    <3> QED
      BY <1>1, <1>4, <1>6, <2>1, <2>2, <2>3, <3>1, <3>2
         DEF AudioInv, AudioType, AudioTypeOK, Threads
  <2>5. Queued' = Queued /\ Copied' = 0 /\ Copied = 0
    BY <1>3, <1>4, <1>6, <2>1, <2>2, <2>3 DEF Queued, Copied
  <2>6. RingInv'
    BY <2>1, <2>5 DEF AudioInv, RingInv
  <2>7. OnePusher'
    BY <1>1, <1>4, <1>6, <2>1, <2>2, <2>3 DEF AudioInv, OnePusher, Threads
  <2>8. PushInv(t)' /\ PushInv(u)'
    BY <1>3, <1>4, <2>2, <2>3 DEF PushInv
  <2>9. PullInv'
    BY <1>4, <2>1, <2>3, <2>5 DEF AudioInv, PullInv, Threads
  <2> QED
    BY <1>3, <1>6, <2>4, <2>6, <2>7, <2>8, <2>9 DEF AudioInv
<1> QED
  BY <1>7, <1>8, <1>9, <1>10

(* The steps of audio_write_cb keep the invariant. *)
LEMMA PullStep ==
  ASSUME AudioInv, CallbackStep
  PROVE  AudioInv'
PROOF
<1> DEFINE c == "callback"
<1>1. /\ read \in Offsets /\ write \in Offsets /\ my \in [Threads -> Locals]
      /\ pc \in [Threads -> Labels] /\ c \in Threads /\ my[c] \in Locals
      /\ "main" \in Threads /\ "emu" \in Threads
  BY DEF AudioInv, AudioType, AudioTypeOK, Threads
<1>2. Queued \in 0..Size /\ Copied \in 0..Size /\ Queued + Copied <= Size
  BY WindowFits
<1>3. Distance(read, write) = Queued
  BY <1>1, <1>2, DistanceValue DEF Queued
<1>4. UNCHANGED <<dev, playing, ring, write, data, guestRuns, work>>
  BY DEF CallbackStep, CallbackBegin, CallbackWant, CallbackBatch, CallbackCopy,
         CallbackAdvance, CallbackEnd
<1>5. my[c].want \in 0..Most /\ my[c].n \in -Size..Size /\ my[c].i \in 0..Size
      /\ Most \in Nat /\ Chunk \in Nat /\ Chunk <= Most
  BY <1>1, MostBounds, AudioAssumption DEF Locals
(* A step that leaves the read offset and the producers alone keeps all but the
   callback's own part. *)
<1>6. ASSUME read' = read, \A p \in Producers : pc'[p] = pc[p] /\ my'[p] = my[p],
             pc' \in [Threads -> Labels], my' \in [Threads -> Locals],
             pc'[c] \in {"idle", "load", "batch", "copy"}, PullInv'
      PROVE  AudioInv'
  <2>1. AudioType'
    BY <1>4, <1>6 DEF AudioInv, AudioType, AudioTypeOK, Producers
  <2>2. Queued' = Queued /\ Copied' = Copied
    BY <1>4, <1>6 DEF Queued, Copied, Producers
  <2>3. RingInv'
    BY <1>4, <1>6, <2>2 DEF AudioInv, RingInv
  <2>4. OnePusher'
    BY <1>4, <1>6 DEF AudioInv, OnePusher, Producers
  <2>5. PushInv("main")' /\ PushInv("emu")'
    BY <1>4, <1>6, <2>2 DEF AudioInv, PushInv, Producers
  <2> QED
    BY <1>6, <2>1, <2>3, <2>4, <2>5 DEF AudioInv
<1>7. \A p \in Producers : pc'[p] = pc[p] /\ my'[p] = my[p]
  BY <1>1 DEF CallbackStep, CallbackBegin, CallbackWant, CallbackBatch, CallbackCopy,
         CallbackAdvance, CallbackEnd, Go, LoadRead, Producers
<1>8. CASE CallbackBegin
  <2>1. /\ read' = read /\ pc' = [pc EXCEPT ![c] = "load"]
        /\ my' = [my EXCEPT ![c].seen = read, ![c].ring = ring]
    BY <1>8 DEF CallbackBegin, LoadRead, Go
  <2>2. my'[c] = [my[c] EXCEPT !.seen = read, !.ring = ring] /\ pc'[c] = "load"
    BY <1>1, <2>1
  <2>3. ring \in 0..1
    BY DEF AudioInv, AudioType, AudioTypeOK
  <2>4. my'[c] \in Locals /\ my'[c].seen = read /\ my'[c].ring = ring
    BY <1>1, <2>2, <2>3 DEF Locals
  <2>5. my' \in [Threads -> Locals] /\ pc' \in [Threads -> Labels]
    BY <1>1, <2>1, <2>4 DEF Labels
  <2>6. PullInv'
    BY <1>4, <2>1, <2>2, <2>4 DEF PullInv
  <2> QED
    BY <1>6, <1>7, <2>1, <2>2, <2>5, <2>6
<1>9. CASE CallbackWant
  <2> DEFINE w == Least(Available(c), Chunk)
  <2>1. /\ pc[c] = "load" /\ read' = read /\ pc' = [pc EXCEPT ![c] = "batch"]
        /\ my' = [my EXCEPT ![c].want = w]
    BY <1>9 DEF CallbackWant, Go
  <2>2. Available(c) = Queued /\ my[c].ring = ring
    BY <1>3, <2>1 DEF AudioInv, PullInv, Available
  <2>3. w \in 0..Most /\ w <= Queued
    BY <1>2, <1>5, <2>2, AudioAssumption DEF Least
  <2> HIDE DEF w
  <2>4. my'[c] = [my[c] EXCEPT !.want = w] /\ pc'[c] = "batch"
    BY <1>1, <2>1
  <2>5. my'[c] \in Locals /\ my'[c].want = w /\ my'[c].ring = ring
    BY <1>1, <2>2, <2>3, <2>4 DEF Locals
  <2>6. my' \in [Threads -> Locals] /\ pc' \in [Threads -> Labels]
    BY <1>1, <2>1, <2>5 DEF Labels
  <2>7. PullInv'
    BY <1>4, <2>1, <2>3, <2>4, <2>5 DEF PullInv, Queued
  <2> QED
    BY <1>6, <1>7, <2>1, <2>4, <2>6, <2>7
<1>10. CASE CallbackBatch
  <2> DEFINE n == Least(Distance(read, write), my[c].want)
  <2>1. /\ pc[c] = "batch" /\ read' = read /\ pc' = [pc EXCEPT ![c] = "copy"]
        /\ my' = [my EXCEPT ![c].n = n, ![c].base = read, ![c].i = 0]
    BY <1>10 DEF CallbackBatch, Go
  <2>2. my[c].ring = ring /\ my[c].want <= Queued
    BY <2>1 DEF AudioInv, PullInv
  <2>3. n = my[c].want /\ n \in -Size..Size /\ 0 \in 0..Size /\ 0 <= n
    BY <1>2, <1>3, <1>5, <2>2, AudioAssumption DEF Least
  <2> HIDE DEF n
  <2>4. /\ my'[c] = [my[c] EXCEPT !.n = n, !.base = read, !.i = 0]
        /\ pc'[c] = "copy"
    BY <1>1, <2>1
  <2>5. /\ my'[c] \in Locals /\ my'[c].want = my[c].want /\ my'[c].ring = ring
        /\ my'[c].n = n /\ my'[c].base = read /\ my'[c].i = 0
    BY <1>1, <2>2, <2>3, <2>4 DEF Locals
  <2>6. my' \in [Threads -> Locals] /\ pc' \in [Threads -> Labels]
    BY <1>1, <2>1, <2>5 DEF Labels
  <2>7. PullInv'
    BY <1>4, <2>1, <2>2, <2>3, <2>4, <2>5 DEF PullInv, Queued
  <2> QED
    BY <1>6, <1>7, <2>1, <2>4, <2>6, <2>7
<1>11. CASE CallbackCopy
  <2>1. /\ pc[c] = "copy" /\ my[c].i < my[c].n /\ read' = read /\ pc' = pc
        /\ my' = [my EXCEPT ![c].i = my[c].i + 1]
    BY <1>11 DEF CallbackCopy
  <2>2. my[c].i + 1 \in 0..Size /\ my[c].i + 1 <= my[c].n
    BY <1>5, <2>1, AudioAssumption
  <2>3. my'[c] = [my[c] EXCEPT !.i = my[c].i + 1]
    BY <1>1, <2>1
  <2>4. /\ my'[c] \in Locals /\ my'[c].want = my[c].want /\ my'[c].ring = my[c].ring
        /\ my'[c].n = my[c].n /\ my'[c].base = my[c].base /\ my'[c].i = my[c].i + 1
    BY <1>1, <2>2, <2>3 DEF Locals
  <2>5. my' \in [Threads -> Locals]
    BY <1>1, <2>1, <2>4
  <2>6. PullInv'
    BY <1>4, <2>1, <2>2, <2>4 DEF AudioInv, PullInv, Queued
  <2> QED
    BY <1>1, <1>6, <1>7, <2>1, <2>5, <2>6
<1>12. CASE CallbackAdvance
  <2> DEFINE n == my[c].n
  <2>1. /\ pc[c] = "copy" /\ read' = Advanced(read, n)
        /\ my' = [my EXCEPT ![c].want = my[c].want - n]
        /\ pc' = [pc EXCEPT ![c] = "batch"]
    BY <1>12 DEF CallbackAdvance, Go
  <2>2. n = my[c].want /\ n \in 0..Size /\ n <= Queued /\ my[c].ring = ring
    BY <1>2, <1>5, <2>1 DEF AudioInv, PullInv
  <2>3. read' \in Offsets /\ Queued' = Queued - n
    BY <1>1, <1>4, <2>1, <2>2, AdvanceValue, ReadAdvances DEF Queued
  <2>4. my'[c] = [my[c] EXCEPT !.want = my[c].want - n] /\ pc'[c] = "batch"
    BY <1>1, <2>1
  <2>5. my[c].want - n = 0 /\ 0 \in 0..Most
    BY <1>5, <2>2
  <2>6. my'[c] \in Locals /\ my'[c].want = 0 /\ my'[c].ring = ring
    BY <1>1, <2>2, <2>4, <2>5 DEF Locals
  <2> HIDE DEF n
  <2>7. AudioType'
    <3>1. my' \in [Threads -> Locals] /\ pc' \in [Threads -> Labels]
      BY <1>1, <2>1, <2>6 DEF Labels
    <3> QED
      BY <1>4, <1>7, <2>3, <2>4, <3>1 DEF AudioInv, AudioType, AudioTypeOK, Producers
  <2>8. Copied' = Copied
    BY <1>7 DEF Copied, Producers
  <2>9. RingInv'
    <3> SUFFICES ASSUME NEW x \in Offsets, Gap(read', x) < Queued' + Copied'
                 PROVE  data[x % Size] = x
      BY <1>2, <1>4, <2>2, <2>3, AudioAssumption DEF RingInv, Offsets
    <3> DEFINE l == Queued + Copied
    <3>1. l \in 0..Size /\ Queued' + Copied' = l - n
      BY <1>2, <2>2, <2>3, <2>8
    <3> HIDE DEF l
    <3>2. Gap(read, x) < l
      BY <1>1, <2>1, <2>2, <3>1, StillAhead
    <3> QED
      BY <3>2 DEF l, AudioInv, RingInv
  <2>10. OnePusher'
    BY <1>4, <1>7 DEF AudioInv, OnePusher, Producers
  <2>11. PushInv("main")' /\ PushInv("emu")'
    <3> SUFFICES ASSUME NEW p \in Producers PROVE PushInv(p)'
      BY DEF Producers
    <3>1. PushInv(p) /\ my[p] \in Locals /\ pc'[p] = pc[p] /\ my'[p] = my[p]
      BY <1>1, <1>7 DEF AudioInv, Producers
    <3>2. Queued' <= Queued
      BY <1>2, <2>2, <2>3
    <3>3. CASE pc[p] = "load"
      <4>1. Gap(my[p].seen, write) \in 0..Wrap - 1
        BY <1>1, <3>1, GapValue DEF Locals
      <4>2. Queued' <= Gap(my[p].seen, write)
        BY <1>2, <2>2, <2>3, <3>1, <3>3, <4>1 DEF PushInv
      <4> QED
        BY <1>4, <3>1, <3>3, <4>2 DEF PushInv
    <3>4. CASE pc[p] = "copy"
      <4>1. my[p].n \in Int /\ Size \in Int
        BY <3>1, AudioAssumption DEF Locals
      <4>2. Queued' + my[p].n <= Size
        BY <1>2, <2>2, <2>3, <3>1, <3>4, <4>1 DEF PushInv
      <4> QED
        BY <1>4, <3>1, <3>4, <4>2 DEF PushInv
    <3> QED
      BY <3>1, <3>3, <3>4 DEF PushInv
  <2>12. PullInv'
    <3>1. 0 <= Queued'
      BY <1>2, <2>2, <2>3
    <3> QED
      BY <1>4, <2>4, <2>6, <3>1 DEF PullInv
  <2> QED
    BY <2>7, <2>9, <2>10, <2>11, <2>12 DEF AudioInv
<1>13. CASE CallbackEnd
  <2>1. /\ read' = read /\ pc' = [pc EXCEPT ![c] = "idle"]
        /\ my' = [my EXCEPT ![c] = NoLocals]
    BY <1>13 DEF CallbackEnd, Go
  <2>2. my' \in [Threads -> Locals] /\ pc' \in [Threads -> Labels] /\ pc'[c] = "idle"
    BY <1>1, <2>1, NoLocalsType DEF Labels
  <2>3. PullInv'
    BY <2>2 DEF PullInv
  <2> QED
    BY <1>6, <1>7, <2>1, <2>2, <2>3
<1> QED
  BY <1>8, <1>9, <1>10, <1>11, <1>12, <1>13 DEF CallbackStep

(* A step that leaves the ring alone and starts no push keeps the invariant.
   The main loop takes such steps. *)
LEMMA OtherStep ==
  ASSUME AudioInv, UNCHANGED <<dev, playing, ring, read, write, data>>, AudioType',
         OnePusher', pc'["emu"] = pc["emu"], pc'["callback"] = pc["callback"],
         my'["emu"] = my["emu"], my'["callback"] = my["callback"],
         pc["main"] \notin {"load", "copy"}, pc'["main"] \notin {"load", "copy"}
  PROVE  AudioInv'
PROOF
<1>1. Queued' = Queued /\ Copied' = Copied
  BY DEF Queued, Copied
<1>2. RingInv'
  BY <1>1 DEF AudioInv, RingInv
<1>3. PushInv("main")' /\ PushInv("emu")' /\ PullInv'
  BY <1>1 DEF AudioInv, PushInv, PullInv
<1> QED
  BY <1>2, <1>3 DEF AudioInv

(* The entry of audio_push, by a producer t that may push: the ring is loaded,
   or there is no device and nothing happens. *)
LEMMA BeginStep ==
  ASSUME AudioInv, NEW t \in Producers, NEW n \in 0..Most, PushBegin(t, n),
         UNCHANGED <<dev, playing, ring, read, write, data, guestRuns>>,
         work' \in 0..Work, t = "main" => ~guestRuns, t = "emu" => guestRuns,
         pc[t] \notin {"load", "copy", "play"}
  PROVE  AudioInv'
PROOF
<1>1. /\ read \in Offsets /\ write \in Offsets /\ my \in [Threads -> Locals]
      /\ pc \in [Threads -> Labels] /\ t \in Threads /\ my[t] \in Locals
      /\ ring \in 0..1 /\ Threads = {"main", "emu", "callback"}
      /\ t # "callback" /\ Producers = {"main", "emu"}
  BY DEF AudioInv, AudioType, AudioTypeOK, Producers, Threads
<1>2. Queued' = Queued /\ Queued \in 0..Size
  BY WindowFits DEF Queued
<1>3. \A u \in Producers : u # t => pc[u] \notin {"load", "copy", "play"}
  BY <1>1 DEF AudioInv, OnePusher
<1>4. Copied = 0
  BY <1>1, <1>3 DEF Copied
<1>5. CASE dev
  <2>1. /\ my' = [my EXCEPT ![t].seen = read, ![t].ring = ring, ![t].want = n]
        /\ pc' = [pc EXCEPT ![t] = "load"]
    BY <1>5 DEF PushBegin, Go
  <2>2. /\ my'[t] = [my[t] EXCEPT !.seen = read, !.ring = ring, !.want = n]
        /\ pc'[t] = "load"
        /\ \A p \in Threads : p # t => pc'[p] = pc[p] /\ my'[p] = my[p]
    BY <1>1, <2>1
  <2>3. my'[t] \in Locals /\ my'[t].seen = read /\ my'[t].ring = ring
    BY <1>1, <2>2 DEF Locals
  <2>4. AudioType'
    <3>1. my' \in [Threads -> Locals] /\ pc' \in [Threads -> Labels]
      BY <1>1, <2>1, <2>3 DEF Labels
    <3> QED
      BY <1>1, <2>2, <3>1 DEF AudioInv, AudioType, AudioTypeOK
  <2>5. Copied' = 0
    BY <1>1, <1>3, <2>2 DEF Copied
  <2>6. RingInv'
    BY <1>2, <1>4, <2>5 DEF AudioInv, RingInv
  <2>7. OnePusher'
    BY <1>1, <2>2 DEF AudioInv, OnePusher
  <2>8. \A u \in Producers : PushInv(u)'
    <3>1. PushInv(t)'
      <4>1. Gap(read', write') = Queued /\ Queued <= Size /\ Queued <= Queued
        BY <1>2 DEF Queued
      <4> QED
        BY <1>2, <2>2, <2>3, <4>1 DEF PushInv
    <3>2. \A u \in Producers : u # t => PushInv(u)'
      BY <1>1, <1>3, <2>2 DEF PushInv
    <3> QED
      BY <3>1, <3>2
  <2>9. PullInv'
    BY <1>1, <1>2, <2>2 DEF AudioInv, PullInv
  <2> QED
    BY <1>1, <2>4, <2>6, <2>7, <2>8, <2>9 DEF AudioInv
<1>6. CASE ~dev
  <2>1. my' = my /\ pc' = [pc EXCEPT ![t] = PushResume(t)]
    BY <1>6 DEF PushBegin, Go
  <2>2. /\ pc'[t] = IF t = "main" THEN "ui" ELSE "idle"
        /\ \A p \in Threads : p # t => pc'[p] = pc[p]
    BY <1>1, <2>1 DEF PushResume
  <2>3. AudioType'
    <3>1. pc' \in [Threads -> Labels]
      BY <1>1, <2>1 DEF Labels, PushResume
    <3> QED
      BY <1>1, <2>1, <2>2, <3>1 DEF AudioInv, AudioType, AudioTypeOK
  <2>4. Copied' = 0
    BY <1>1, <1>3, <2>2 DEF Copied
  <2>5. RingInv'
    BY <1>2, <1>4, <2>4 DEF AudioInv, RingInv
  <2>6. OnePusher'
    BY <1>1, <2>2 DEF AudioInv, OnePusher
  <2>7. \A u \in Producers : PushInv(u)'
    BY <1>1, <1>3, <2>2 DEF PushInv
  <2>8. PullInv'
    BY <1>1, <1>2, <2>1, <2>2 DEF AudioInv, PullInv
  <2> QED
    BY <1>1, <2>3, <2>5, <2>6, <2>7, <2>8 DEF AudioInv
<1> QED
  BY <1>5, <1>6

(* audio_restart finds nobody in the ring. *)
LEMMA RestartStep ==
  ASSUME AudioInv, Restart, ~RestartsRace
  PROVE  AudioInv'
PROOF
<1>1. /\ pc["main"] = "poll" /\ pc["callback"] = "idle" /\ Unpushed = 0
      /\ dev' \in BOOLEAN /\ playing' = FALSE /\ ring' = 1 - ring
      /\ read' = 0 /\ write' = 0 /\ data' = [c \in Cells |-> Blank]
      /\ UNCHANGED <<guestRuns, work, pc, my>>
  BY DEF Restart, Quiet
<1>2. work \in 0..Work /\ ring \in 0..1
  BY DEF AudioInv, AudioType, AudioTypeOK
<1>3. pc["emu"] = "idle"
  BY <1>1, <1>2, AudioAssumption DEF Unpushed
<1>4. ring' \in 0..1 /\ read' \in Offsets /\ write' \in Offsets
      /\ data' \in [Cells -> Offsets \cup {Blank}]
  <2>1. 1 - ring \in 0..1
    BY <1>2
  <2>2. 0 \in Offsets
    BY AudioAssumption DEF Offsets
  <2> QED
    BY <1>1, <2>1, <2>2
<1>5. AudioType'
  BY <1>1, <1>4 DEF AudioInv, AudioType, AudioTypeOK
<1>6. Queued' = 0 /\ Copied' = 0
  <2>1. 0 \in Offsets
    BY AudioAssumption DEF Offsets
  <2>2. Gap(0, 0) = 0
    BY <2>1, GapValue, AudioAssumption DEF Offsets
  <2> QED
    BY <1>1, <1>3, <2>2 DEF Queued, Copied
<1>7. RingInv'
  <2>1. \A x \in Offsets : ~(Gap(read', x) < 0)
    <3>1. \A x \in Offsets : Gap(read', x) \in 0..Wrap - 1
      BY <1>4, GapValue
    <3> QED
      BY <3>1, AudioAssumption
  <2>2. 0 <= Size /\ 0 + 0 = 0
    BY AudioAssumption
  <2> QED
    BY <1>6, <2>1, <2>2 DEF RingInv, Offsets
<1> QED
  BY <1>1, <1>3, <1>5, <1>7 DEF AudioInv, OnePusher, PushInv, PullInv

(* Every step keeps the invariant. *)
LEMMA AudioStep ==
  ASSUME AudioInv, [AudioNext]_audioVars, ~RestartsRace, ~Debugger
  PROVE  AudioInv'
PROOF
<1>1. /\ my \in [Threads -> Locals] /\ pc \in [Threads -> Labels] /\ AudioTypeOK
      /\ Threads = {"main", "emu", "callback"} /\ work \in 0..Work
      /\ read \in Offsets /\ ring \in 0..1 /\ OnePusher /\ Work \in Nat
  BY AudioAssumption DEF AudioInv, AudioType, AudioTypeOK, Threads
<1>2. ASSUME NEW l \in {"poll", "low", "frame", "wait", "ui"},
             pc' = [pc EXCEPT !["main"] = l], my' \in [Threads -> Locals],
             my'["emu"] = my["emu"], my'["callback"] = my["callback"],
             UNCHANGED <<dev, playing, ring, read, write, data>>,
             guestRuns' \in BOOLEAN, guestRuns => guestRuns', work' \in 0..Work,
             pc["main"] \notin {"load", "copy", "play"}
      PROVE  AudioInv'
  <2>1. /\ pc'["main"] = l /\ pc'["emu"] = pc["emu"] /\ pc'["callback"] = pc["callback"]
        /\ pc' \in [Threads -> Labels]
    BY <1>1, <1>2 DEF Labels
  <2>2. AudioType'
    BY <1>1, <1>2, <2>1 DEF AudioType, AudioTypeOK
  <2>3. OnePusher'
    BY <1>1, <1>2, <2>1 DEF OnePusher
  <2> QED
    BY <1>2, <2>1, <2>2, <2>3, OtherStep
<1>3. CASE PollLow
  <2>1. CASE dev
    <3>1. /\ my' = [my EXCEPT !["main"].seen = read, !["main"].ring = ring]
          /\ pc' = [pc EXCEPT !["main"] = "low"] /\ pc["main"] = "poll"
          /\ UNCHANGED <<dev, playing, ring, read, write, data, guestRuns, work>>
      BY <1>3, <2>1 DEF PollLow, LoadRead, Go
    <3>2. [my["main"] EXCEPT !.seen = read, !.ring = ring] \in Locals
      BY <1>1 DEF Locals
    <3>3. /\ my' \in [Threads -> Locals]
          /\ my'["emu"] = my["emu"] /\ my'["callback"] = my["callback"]
      BY <1>1, <3>1, <3>2
    <3> QED
      BY <1>1, <1>2, <3>1, <3>3 DEF AudioTypeOK
  <2>2. CASE ~dev
    BY <1>1, <1>2, <1>3, <2>2 DEF PollLow, Go, AudioTypeOK
  <2> QED
    BY <2>1, <2>2
<1>4. ASSUME NEW played \in 0..Elapsed, CheckLow(played) PROVE AudioInv'
  <2>1. /\ pc["main"] = "low" /\ my' = [my EXCEPT !["main"] = NoLocals]
        /\ UNCHANGED <<dev, playing, ring, read, write, data, guestRuns, work>>
        /\ \E l \in {"frame", "poll"} : pc' = [pc EXCEPT !["main"] = l]
    BY <1>4 DEF CheckLow, Go
  <2>2. /\ my' \in [Threads -> Locals]
        /\ my'["emu"] = my["emu"] /\ my'["callback"] = my["callback"]
    BY <1>1, <2>1, NoLocalsType
  <2> QED
    BY <1>1, <1>2, <2>1, <2>2 DEF AudioTypeOK
<1>5. CASE Frame
  BY <1>1, <1>2, <1>5 DEF Frame, Go, AudioTypeOK
<1>6. CASE FrameDrawn
  BY <1>1, <1>2, <1>6 DEF FrameDrawn, Go, AudioTypeOK
<1>7. CASE SilentFrame
  BY <1>1, <1>7, MostBounds, BeginStep DEF SilentFrame, Producers
<1>8. ASSUME NEW load \in BOOLEAN, Ui(load) PROVE AudioInv'
  BY <1>1, <1>2, <1>8 DEF Ui, Go, AudioTypeOK
<1>9. CASE EmuPush
  <2>1. work' \in 0..Work
    BY <1>1, <1>9 DEF EmuPush
  <2> QED
    BY <1>9, <2>1, MostBounds, BeginStep DEF EmuPush, Producers
<1>10. ASSUME NEW t \in Producers,
              PushRoom(t) \/ PushCopy(t) \/ PushAdvance(t) \/ PushPlay(t)
       PROVE  AudioInv'
  BY <1>10, PushStep
<1>11. CASE CallbackStep
  BY <1>11, PullStep
<1>12. CASE Restart
  BY <1>12, RestartStep
<1>13. CASE UNCHANGED audioVars
  BY <1>13 DEF audioVars, AudioInv, AudioType, AudioTypeOK, RingInv, OnePusher, PushInv,
               PullInv, Queued, Copied
<1>14. "main" \in Producers /\ "emu" \in Producers
  BY DEF Producers
<1> QED
  BY <1>3, <1>4, <1>5, <1>6, <1>7, <1>8, <1>9, <1>10, <1>11, <1>12, <1>13, <1>14
     DEF AudioNext, MainStep, EmuStep, DebuggerTick

(* The ring buffer, which audio_push and audio_write_cb share without a lock, of
   any size, with batches of any size: a thread in the middle of using it uses
   the one that is current and finds between 0 and Size frames, and what the
   callback has still to copy are the frames pushed for these offsets.  This
   needs a user who does not toggle the sync option in the tail of a frame and
   a guest no debugger continues; without either it is false. *)
THEOREM RingSound ==
  ASSUME ~RestartsRace, ~Debugger
  PROVE  AudioSpec => []FramesIntact
PROOF
<1>1. AudioInit => AudioInv
  BY AudioInitInv
<1>2. AudioInv /\ [AudioNext]_audioVars => AudioInv'
  BY AudioStep
<1>3. AudioInv => FramesIntact
  BY InvIntact
<1> QED
  BY <1>1, <1>2, <1>3, PTL DEF AudioSpec

-----------------------------------------------------------------------------
(* The interrupts of the sound processor. *)

AiArms == [scieb : AiMasks \cup {{}}, scipd : SUBSET AiSources, l : Nat]
AiShs == [mcieb : AiMasks \cup {{}}, mcipd : SUBSET AiSources]

AiType ==
  /\ aiarm \in AiArms /\ aish \in AiShs
  /\ aifiq \in BOOLEAN /\ ailine \in BOOLEAN

\* AicaSignals is inductive once the registers have their types; the two
\* processors are apart.
ArmSignals ==
  /\ aiarm.l = 0 => aiarm.scipd \cap aiarm.scieb \subseteq aiunseen
  /\ aiarm.l # 0 => aifiq \/ aidriver # "idle"
ShSignals ==
  /\ ailine => aish.mcipd \cap aish.mcieb # {}
  /\ ~ailine => aish.mcipd \cap aish.mcieb \subseteq aiunseen
AiInv == AiType /\ ArmSignals /\ ShSignals

(* Of some sources there is a first. *)
LEMMA SourcesHaveFirst ==
  ASSUME NEW S \in SUBSET Nat, S # {}
  PROVE  \E x \in S : \A y \in S : x <= y
PROOF
<1> DEFINE R == {ss \in Nat \X Nat : ss[1] < ss[2]}
<1>1. IsWellFoundedOn(R, Nat)
  BY NatLessThanWellFounded DEF OpToRel
<1>2. PICK m \in S : \A y \in S : ~(<<y, m>> \in R)
  <2> HIDE DEF R
  <2> QED
    BY <1>1, WFMin
<1>3. \A y \in S : m <= y
  <2>1. \A y \in S : ~(y < m)
    BY <1>2
  <2> QED
    BY <2>1
<1> QED
  BY <1>3

(* aica_update_arm: a pending source is passed on unless another one is. *)
LEMMA UpdateArmSignals ==
  ASSUME 0 \notin AiSources, AiType, NEW c \in AiArms, UpdateArm(c)
  PROVE  /\ aiarm' \in AiArms /\ aifiq' \in BOOLEAN
         /\ aiarm'.l = 0 => aiarm'.scipd \cap aiarm'.scieb = {}
         /\ aiarm'.l # 0 => aifiq' \/ (c.l # 0 /\ aifiq' = aifiq)
PROOF
<1> DEFINE pending == c.scipd \cap c.scieb
           l == IF c.l = 0 /\ pending # {} THEN EncodeL(AiMin(pending)) ELSE c.l
<1>1. /\ aiarm' = [c EXCEPT !.l = l]
      /\ aifiq' = (aifiq \/ (c.l = 0 /\ l # 0))
  BY DEF UpdateArm
<1>2. c.l \in Nat /\ c.scipd \subseteq AiSources
  BY DEF AiArms
<1>3. ASSUME c.l = 0, pending # {}
      PROVE  l \in Nat /\ l # 0
  <2>0. AiSources \subseteq Nat
    <3>1. AiSources \subseteq 0 .. 10
      BY AiAssumption
    <3> QED
      BY <3>1
  <2>1. pending \in SUBSET Nat /\ pending # {} /\ 0 \notin pending
    BY <1>2, <1>3, <2>0
  <2>2. AiMin(pending) \in pending
    <3>1. \E x \in pending : \A y \in pending : x <= y
      BY <2>1, SourcesHaveFirst
    <3> QED
      BY <3>1 DEF AiMin
  <2>3. AiMin(pending) \in Nat /\ AiMin(pending) # 0
    BY <2>1, <2>2
  <2>4. \A i \in Nat : i # 0 => EncodeL(i) \in Nat /\ EncodeL(i) # 0
    BY DEF EncodeL
  <2>5. l = EncodeL(AiMin(pending))
    BY <1>3
  <2> QED
    BY <2>3, <2>4, <2>5
<1>4. l \in Nat /\ (l = 0 => pending = {}) /\ (c.l # 0 => l = c.l)
  BY <1>2, <1>3
<1> HIDE DEF l
<1>5. /\ aiarm' \in AiArms /\ aiarm'.l = l /\ aiarm'.scipd = c.scipd /\ aiarm'.scieb = c.scieb
  BY <1>1, <1>4 DEF AiArms
<1>6. aifiq' \in BOOLEAN
  BY <1>1
<1>7. aiarm'.l = 0 => aiarm'.scipd \cap aiarm'.scieb = {}
  BY <1>4, <1>5
<1>8. aiarm'.l # 0 => aifiq' \/ (c.l # 0 /\ aifiq' = aifiq)
  <2>1. aifiq \in BOOLEAN
    BY DEF AiType
  <2> QED
    BY <1>1, <1>5, <2>1
<1> QED
  BY <1>5, <1>6, <1>7, <1>8

(* aica_update_sh: the line is up exactly while something is pending. *)
LEMMA UpdateShSignals ==
  ASSUME NEW c \in AiShs, UpdateSh(c)
  PROVE  aish' \in AiShs /\ ailine' \in BOOLEAN /\ ShSignals'
PROOF
  BY DEF UpdateSh, ShSignals

(* The registers a handler computes before it updates. *)
LEMMA AiFields ==
  ASSUME AiType
  PROVE  /\ \A x \in AiSources : [aiarm EXCEPT !.scipd = @ \cup {x}] \in AiArms
                                 /\ [aiarm EXCEPT !.scipd = @ \cup {x}].l = aiarm.l
                                 /\ [aish EXCEPT !.mcipd = @ \cup {x}] \in AiShs
         /\ \A r : [aiarm EXCEPT !.scipd = @ \ r] \in AiArms /\ [aish EXCEPT !.mcipd = @ \ r] \in AiShs
                   /\ [aiarm EXCEPT !.scipd = @ \ r].l = aiarm.l
         /\ \A e \in AiMasks : [aiarm EXCEPT !.scieb = e] \in AiArms /\ [aish EXCEPT !.mcieb = e] \in AiShs
                               /\ [aiarm EXCEPT !.scieb = e].l = aiarm.l
         /\ [aiarm EXCEPT !.l = 0] \in AiArms
PROOF
  BY DEF AiType, AiArms, AiShs

(* Every step keeps the invariant. *)
LEMMA AiStep ==
  ASSUME 0 \notin AiSources, AiInv, [AiNext]_aivars
  PROVE  AiInv'
PROOF
<1>1. AiType /\ ArmSignals /\ ShSignals /\ aiarm \in AiArms /\ aish \in AiShs
  BY DEF AiInv, AiType
<1>2. ASSUME NEW c \in AiArms, UpdateArm(c), c.l = aiarm.l, aidriver' = aidriver
      PROVE  aiarm' \in AiArms /\ aifiq' \in BOOLEAN /\ ArmSignals'
  <2>1. /\ aiarm' \in AiArms /\ aifiq' \in BOOLEAN
        /\ aiarm'.l = 0 => aiarm'.scipd \cap aiarm'.scieb = {}
        /\ aiarm'.l # 0 => aifiq' \/ (c.l # 0 /\ aifiq' = aifiq)
    BY <1>1, <1>2, UpdateArmSignals
  <2>2. aiarm.l # 0 => aifiq \/ aidriver # "idle"
    BY <1>1 DEF ArmSignals
  <2> QED
    BY <1>2, <2>1, <2>2 DEF ArmSignals
<1>3. ASSUME UNCHANGED <<aish, ailine, aiunseen>> PROVE aish' \in AiShs /\ ailine' \in BOOLEAN /\ ShSignals'
  BY <1>1, <1>3 DEF ShSignals, AiType
<1>4. ASSUME UNCHANGED <<aiarm, aifiq, aidriver, aiunseen>>
      PROVE  aiarm' \in AiArms /\ aifiq' \in BOOLEAN /\ ArmSignals'
  BY <1>1, <1>4 DEF ArmSignals, AiType
<1>5. ASSUME NEW n \in AiTimers, TimerExpire(n) PROVE AiInv'
  <2>1. /\ aiarm' = [aiarm EXCEPT !.scipd = @ \cup {n}] /\ aish' = [aish EXCEPT !.mcipd = @ \cup {n}]
        /\ aiunseen' = aiunseen \cup {n} /\ UNCHANGED <<aifiq, ailine, aidriver>> /\ n \in AiSources
    BY <1>5, AiAssumption DEF TimerExpire
  <2>2. /\ aiarm' \in AiArms /\ aiarm'.scipd = aiarm.scipd \cup {n} /\ aiarm'.l = aiarm.l
        /\ aiarm'.scieb = aiarm.scieb
    BY <1>1, <2>1 DEF AiArms
  <2>3. /\ aish' \in AiShs /\ aish'.mcipd = aish.mcipd \cup {n} /\ aish'.mcieb = aish.mcieb
    BY <1>1, <2>1 DEF AiShs
  <2>4. ArmSignals'
    BY <1>1, <2>1, <2>2 DEF ArmSignals
  <2>5. ShSignals'
    BY <1>1, <2>1, <2>3 DEF ShSignals
  <2> QED
    BY <1>1, <2>1, <2>2, <2>3, <2>4, <2>5 DEF AiInv, AiType
<1>6. ASSUME NEW n \in AiTimers, NEW t \in BOOLEAN, WriteTimer(n, t) PROVE AiInv'
  BY <1>3, <1>4, <1>6 DEF WriteTimer, AiInv, AiType
<1>7. CASE NextSample
  <2>1. [aiarm EXCEPT !.scipd = @ \cup {AiSample}] \in AiArms
        /\ [aiarm EXCEPT !.scipd = @ \cup {AiSample}].l = aiarm.l
        /\ [aish EXCEPT !.mcipd = @ \cup {AiSample}] \in AiShs
    BY <1>1, AiFields, AiAssumption
  <2>2. aiarm' \in AiArms /\ aifiq' \in BOOLEAN /\ ArmSignals'
    BY <1>2, <1>7, <2>1 DEF NextSample
  <2>3. aish' \in AiShs /\ ailine' \in BOOLEAN /\ ShSignals'
    BY <1>7, <2>1, UpdateShSignals DEF NextSample
  <2> QED
    BY <2>2, <2>3 DEF AiInv, AiType
<1>8. ASSUME NEW c \in AiShs, UpdateSh(c), UNCHANGED <<aiarm, aifiq, aidriver, aiunseen>> PROVE AiInv'
  <2>1. aish' \in AiShs /\ ailine' \in BOOLEAN /\ ShSignals'
    BY <1>8, UpdateShSignals
  <2> QED
    BY <1>4, <1>8, <2>1 DEF AiInv, AiType
<1>9. ASSUME NEW c \in AiArms, UpdateArm(c), c.l = aiarm.l, UNCHANGED <<aish, ailine, aidriver, aiunseen>>
      PROVE  AiInv'
  <2>1. aiarm' \in AiArms /\ aifiq' \in BOOLEAN /\ ArmSignals'
    BY <1>2, <1>9
  <2> QED
    BY <1>3, <1>9, <2>1 DEF AiInv, AiType
<1>10. ASSUME NEW e \in AiMasks, WriteMcieb(e) PROVE AiInv'
  BY <1>1, <1>8, <1>10, AiFields DEF WriteMcieb
<1>11. ASSUME NEW e \in AiMasks, WriteMcire(e) PROVE AiInv'
  BY <1>1, <1>8, <1>11, AiFields DEF WriteMcire
<1>12. ASSUME NEW e \in AiMasks, WriteScieb(e) PROVE AiInv'
  <2> DEFINE regs == [aiarm EXCEPT !.scieb = e]
  <2>1. regs \in AiArms /\ regs.l = aiarm.l
    BY <1>1, AiFields
  <2>2. UpdateArm(regs) /\ UNCHANGED <<aish, ailine, aidriver, aiunseen>>
    BY <1>12 DEF WriteScieb
  <2> HIDE DEF regs
  <2> QED
    BY <1>9, <2>1, <2>2
<1>13. ASSUME NEW e \in AiMasks, WriteScire(e) PROVE AiInv'
  <2> DEFINE regs == [aiarm EXCEPT !.scipd = @ \ e]
  <2>1. regs \in AiArms /\ regs.l = aiarm.l
    BY <1>1, AiFields
  <2>2. UpdateArm(regs) /\ UNCHANGED <<aish, ailine, aidriver, aiunseen>>
    BY <1>13 DEF WriteScire
  <2> HIDE DEF regs
  <2> QED
    BY <1>9, <2>1, <2>2
<1>14. CASE WriteMcipd
  <2>1. [aish EXCEPT !.mcipd = @ \cup {AiData}] \in AiShs
    <3>1. AiData \in AiSources
      BY AiAssumption
    <3> QED
      BY <1>1, <3>1, AiFields
  <2> QED
    BY <1>8, <1>14, <2>1 DEF WriteMcipd
<1>15. CASE WriteScipd
  <2> DEFINE regs == [aiarm EXCEPT !.scipd = @ \cup {AiData}]
  <2>0. AiData \in AiSources
    BY AiAssumption
  <2>1. regs \in AiArms /\ regs.l = aiarm.l
    BY <1>1, <2>0, AiFields
  <2>2. UpdateArm(regs) /\ UNCHANGED <<aish, ailine, aidriver, aiunseen>>
    BY <1>15 DEF WriteScipd
  <2> HIDE DEF regs
  <2> QED
    BY <1>9, <2>1, <2>2
<1>16. ASSUME NEW hold \in BOOLEAN, WriteArmrst(hold) PROVE AiInv'
  <2>1. aidriver' # "idle" /\ UNCHANGED <<aiarm, aish, aifiq, ailine, aiunseen>>
    BY <1>16 DEF WriteArmrst
  <2>2. ArmSignals'
    BY <1>1, <2>1 DEF ArmSignals
  <2> QED
    BY <1>1, <1>3, <2>1, <2>2 DEF AiInv, AiType
<1>17. CASE WriteM
  <2>1. UpdateArm([aiarm EXCEPT !.l = 0]) /\ UNCHANGED <<aish, ailine, aiunseen>>
    BY <1>17 DEF WriteM
  <2>2. [aiarm EXCEPT !.l = 0] \in AiArms /\ [aiarm EXCEPT !.l = 0].l = 0
    BY <1>1 DEF AiArms
  <2>3. /\ aiarm' \in AiArms /\ aifiq' \in BOOLEAN
        /\ aiarm'.l = 0 => aiarm'.scipd \cap aiarm'.scieb = {}
        /\ aiarm'.l # 0 => aifiq'
    BY <1>1, <2>1, <2>2, UpdateArmSignals
  <2>4. ArmSignals'
    BY <2>3 DEF ArmSignals
  <2> QED
    BY <1>3, <2>1, <2>3, <2>4 DEF AiInv, AiType
<1>18. CASE TakeFiq
  <2>1. aidriver' = "handler" /\ aifiq' = FALSE /\ UNCHANGED <<aiarm, aish, ailine, aiunseen>>
    BY <1>18 DEF TakeFiq
  <2>2. ArmSignals'
    BY <1>1, <2>1 DEF ArmSignals
  <2> QED
    BY <1>1, <1>3, <2>1, <2>2 DEF AiInv, AiType
<1>19. CASE UNCHANGED aivars
  BY <1>3, <1>4, <1>19 DEF aivars, AiInv, AiType
<1> QED
  BY <1>5, <1>6, <1>7, <1>10, <1>11, <1>12, <1>13, <1>14, <1>15, <1>16, <1>17, <1>18, <1>19
     DEF AiNext

(* At first nothing is pending. *)
LEMMA AiInitInv ==
  ASSUME AiInit
  PROVE  AiInv
PROOF
<1>1. /\ aiarm = [scieb |-> {}, scipd |-> {}, l |-> 0] /\ aish = [mcieb |-> {}, mcipd |-> {}]
      /\ aifiq = FALSE /\ ailine = FALSE
  BY DEF AiInit
<1>2. aiarm \in AiArms /\ aiarm.l = 0 /\ aiarm.scipd = {}
  BY <1>1 DEF AiArms
<1>3. aish \in AiShs /\ aish.mcipd = {}
  BY <1>1 DEF AiShs
<1> QED
  BY <1>1, <1>2, <1>3 DEF AiInv, AiType, ArmSignals, ShSignals

(* Whatever sources, masks and writes of both processors, in any order with
   timers and sample batches, and across resets of the ARM7: aica_update_arm and
   aica_update_sh leave no enabled interrupt behind but what a timer has raised
   since the last batch.  Every source is given a level other than 0. *)
THEOREM InterruptsPassedOn ==
  ASSUME 0 \notin AiSources
  PROVE  AiSpec => []AicaSignals
PROOF
<1>1. AiInit => AiInv
  BY AiInitInv
<1>2. AiInv /\ [AiNext]_aivars => AiInv'
  BY AiStep
<1>3. AiInv => AicaSignals
  BY DEF AiInv, ArmSignals, ShSignals, AicaSignals
<1> QED
  BY <1>1, <1>2, <1>3, PTL DEF AiSpec

-----------------------------------------------------------------------------
(* The channels of the sound processor. *)

AvFormats == {"PCMS16", "PCMS8", "ADPCM", "STREAM"}
AvFns == 0 .. 1023
AvOcts == 0 .. 15
AvSettings == [fmt : AvFormats, loop : BOOLEAN, lsa : Nat, lea : Nat, fns : AvFns, oct : AvOcts]
Codec == [sample : Int, quant : Int]
Voices == [cfg : AvSettings, kyonb : BOOLEAN, active : BOOLEAN, phase : Nat, frc : Int, inc : Nat, looped : BOOLEAN,
           prev : Codec, next : Codec, loop : Codec]

\* The state of the decoder at a phase, if it decodes the sound at all.
InState(c, codec, p) == c.cfg.fmt # "STREAM" => codec = Decoded[c.cfg.fmt][p]

\* A channel is within its sound, its decoder is where a decoding from the start
\* is, and once past the loop start it remembers the state it had there.
Placed(c) ==
  /\ c \in Voices /\ c.cfg.lsa < c.cfg.lea /\ c.cfg.lea <= Len(AvSound)
  /\ c.active =>
       /\ c.phase < c.cfg.lea
       /\ InState(c, c.prev, c.phase)
       /\ c.phase > c.cfg.lsa => InState(c, c.loop, c.cfg.lsa)

\* A key bit that is set, and a channel that is active, was asked for.
Asked(n) == avch[n].active \/ avch[n].kyonb => n \in avasked

AvInv ==
  /\ DOMAIN avch = AvChannels /\ avch = [n \in AvChannels |-> avch[n]]
  /\ \A n \in AvChannels : Placed(avch[n]) /\ avch[n].frc >= 0 /\ Asked(n)

(* Counting from 0 reaches every number. *)
LEMMA CountsUp ==
  ASSUME NEW n \in Nat, NEW G \in SUBSET (0 .. n), 0 \in G, \A i \in 0 .. n - 1 : i \in G => i + 1 \in G
  PROVE  \A i \in 0 .. n : i \in G
PROOF
<1> DEFINE Out == {i \in 0 .. n : i \notin G}
           Less == {ss \in Nat \X Nat : ss[1] < ss[2]}
<1>1. SUFFICES ASSUME Out # {} PROVE FALSE
  OBVIOUS
<1>2. Out \in SUBSET Nat
  OBVIOUS
<1>3. IsWellFoundedOn(Less, Nat)
  BY NatLessThanWellFounded DEF OpToRel
<1>4. PICK m \in Out : \A u \in Out : ~(<<u, m>> \in Less)
  <2> HIDE DEF Less, Out
  <2> QED
    BY <1>1, <1>2, <1>3, WFMin
<1>5. m \in 0 .. n /\ m \notin G /\ m # 0
  OBVIOUS
<1>6. m - 1 \in 0 .. n - 1 /\ m - 1 \in 0 .. n /\ m - 1 < m /\ m - 1 \in Nat /\ m \in Nat /\ (m - 1) + 1 = m
  BY <1>5
<1>7. m - 1 \notin Out
  BY <1>4, <1>6
<1>8. m - 1 \in G
  BY <1>6, <1>7
<1> QED
  BY <1>5, <1>6, <1>8

-----------------------------------------------------------------------------
(* The decoder *)

(* AvSound has a nibble for every phase. *)
LEMMA SoundAt ==
  ASSUME NEW p \in Nat, Len(AvSound) > 0
  PROVE  AvSound[(p % Len(AvSound)) + 1] \in Nat
PROOF
<1>1. AvSound \in Seq(Nat) /\ Len(AvSound) \in Nat
  BY AiAssumption
<1>2. p % Len(AvSound) \in 0 .. Len(AvSound) - 1
  BY <1>1
<1> QED
  BY <1>1, <1>2

(* aica_decode_adpcm gives a state again. *)
LEMMA AdpcmState ==
  ASSUME NEW nibble \in Nat, NEW prev \in Int, NEW quant \in Int
  PROVE  DecodeAdpcm(nibble, prev, quant) \in Codec
PROOF
<1> DEFINE l4 == nibble \div 8
           l321 == nibble % 8
<1>1. l4 \in Int /\ l321 \in 0 .. 7
  OBVIOUS
<1>2. AdpcmScale[l321 + 1] \in Int /\ AdpcmRate[l321 + 1] \in Int
  BY <1>1 DEF AdpcmScale, AdpcmRate
<1>3. \A x \in Int : x \div 8 \in Int /\ x \div 256 \in Int
  OBVIOUS
<1>4. \A x \in Int : Clamp(x, -32768, 32767) \in Int /\ Clamp(x, QuantMin, QuantMax) \in Int
  BY DEF Clamp, QuantMin, QuantMax
<1> DEFINE a == AdpcmScale[l321 + 1]
           b == AdpcmRate[l321 + 1]
<1>5. DecodeAdpcm(nibble, prev, quant) =
        [sample |-> Clamp((1 - 2 * l4) * ((a * quant) \div 8) + prev, -32768, 32767),
         quant |-> Clamp((quant * b) \div 256, QuantMin, QuantMax)]
  BY DEF DecodeAdpcm
<1>6. a \in Int /\ b \in Int
  BY <1>2
<1> HIDE DEF l4, l321, a, b
<1>7. a * quant \in Int /\ quant * b \in Int
  BY <1>6
<1>8. (a * quant) \div 8 \in Int /\ (quant * b) \div 256 \in Int
  BY <1>3, <1>7
<1>9. (1 - 2 * l4) * ((a * quant) \div 8) + prev \in Int
  BY <1>1, <1>8
<1> QED
  BY <1>4, <1>5, <1>8, <1>9 DEF Codec

(* Decoding gives a state, and depends on the format and the phase alone. *)
LEMMA DecodeState ==
  ASSUME NEW c, c.phase \in Nat, c.cfg.fmt \in AvFormats, NEW state \in Codec, Len(AvSound) > 0
  PROVE  /\ Decode(c, state) \in Codec
         /\ Decode(c, state) = Decode([cfg |-> [fmt |-> c.cfg.fmt], phase |-> c.phase], state)
PROOF
<1> DEFINE nibble == AvSound[(c.phase % Len(AvSound)) + 1]
<1>1. nibble \in Nat
  BY SoundAt
<1>2. DecodeAdpcm(nibble, state.sample, state.quant) \in Codec
  BY <1>1, AdpcmState DEF Codec
<1>3. Decode(c, state) \in Codec
  <2> HIDE DEF nibble
  <2>1. Decode(c, state) = CASE c.cfg.fmt = "PCMS16" -> [sample |-> nibble, quant |-> state.quant]
                             [] c.cfg.fmt = "PCMS8" -> [sample |-> nibble * 256, quant |-> state.quant]
                             [] OTHER -> DecodeAdpcm(nibble, state.sample, state.quant)
    BY DEF Decode, nibble
  <2>2. state.quant \in Int /\ nibble * 256 \in Int /\ nibble \in Int
    BY <1>1 DEF Codec
  <2>3. CASE c.cfg.fmt = "PCMS16"
    BY <2>1, <2>2, <2>3 DEF Codec
  <2>4. CASE c.cfg.fmt = "PCMS8"
    BY <2>1, <2>2, <2>4 DEF Codec
  <2>5. CASE c.cfg.fmt # "PCMS16" /\ c.cfg.fmt # "PCMS8"
    BY <1>2, <2>1, <2>5
  <2> QED
    BY <2>3, <2>4, <2>5
<1>4. Decode(c, state) = Decode([cfg |-> [fmt |-> c.cfg.fmt], phase |-> c.phase], state)
  BY DEF Decode
<1> QED
  BY <1>3, <1>4

\* The decoder run over the first n nibbles.
RunOf(fmt, f, n) == f = [p \in 0 .. n |-> IF p = 0 THEN Fresh ELSE Decode([cfg |-> [fmt |-> fmt], phase |-> p - 1], f[p - 1])]

(* The run of the decoder is a function. *)
LEMMA RunExists ==
  ASSUME NEW fmt, NEW n \in Nat
  PROVE  \E f : RunOf(fmt, f, n)
PROOF
<1> DEFINE G == {m \in 0 .. n : \E f : RunOf(fmt, f, m)}
           Decoding(p, state) == Decode([cfg |-> [fmt |-> fmt], phase |-> p - 1], state)
<1>0. \A f, m : RunOf(fmt, f, m) <=> f = [p \in 0 .. m |-> IF p = 0 THEN Fresh ELSE Decoding(p, f[p - 1])]
  BY DEF RunOf
<1> HIDE DEF Decoding
<1>1. 0 \in G
  <2> DEFINE f == [p \in 0 .. 0 |-> Fresh]
  <2>1. f = [p \in 0 .. 0 |-> IF p = 0 THEN Fresh ELSE Decoding(p, f[p - 1])]
    <3>1. \A p \in 0 .. 0 : p = 0
      OBVIOUS
    <3> QED
      BY <3>1
  <2> HIDE DEF f
  <2>2. RunOf(fmt, f, 0)
    BY <1>0, <2>1
  <2> QED
    BY <2>2
<1>2. ASSUME NEW m \in 0 .. n - 1, m \in G PROVE m + 1 \in G
  <2>1. PICK f : f = [p \in 0 .. m |-> IF p = 0 THEN Fresh ELSE Decoding(p, f[p - 1])]
    BY <1>0, <1>2
  <2> DEFINE g == [p \in 0 .. m + 1 |-> IF p = 0 THEN Fresh ELSE Decoding(p, f[p - 1])]
  <2>2. ASSUME NEW p \in 0 .. m + 1
        PROVE  (IF p = 0 THEN Fresh ELSE Decoding(p, f[p - 1])) = (IF p = 0 THEN Fresh ELSE Decoding(p, g[p - 1]))
    <3>1. CASE p = 0
      BY <3>1
    <3>2. CASE p # 0
      <4>1. p - 1 \in 0 .. m /\ p - 1 \in 0 .. m + 1
        BY <3>2
      <4>2. f[p - 1] = (IF p - 1 = 0 THEN Fresh ELSE Decoding(p - 1, f[p - 1 - 1]))
        BY <2>1, <4>1
      <4>3. g[p - 1] = (IF p - 1 = 0 THEN Fresh ELSE Decoding(p - 1, f[p - 1 - 1]))
        BY <4>1
      <4> QED
        BY <4>2, <4>3
    <3> QED
      BY <3>1, <3>2
  <2>3. g = [p \in 0 .. m + 1 |-> IF p = 0 THEN Fresh ELSE Decoding(p, g[p - 1])]
    <3> DEFINE h == [p \in 0 .. m + 1 |-> IF p = 0 THEN Fresh ELSE Decoding(p, g[p - 1])]
    <3>1. \A p \in 0 .. m + 1 : g[p] = h[p]
      BY <2>2
    <3> QED
      BY <3>1
  <2> HIDE DEF g
  <2>4. RunOf(fmt, g, m + 1)
    BY <1>0, <2>3
  <2>5. m + 1 \in 0 .. n
    OBVIOUS
  <2> QED
    BY <2>4, <2>5
<1>3. G \in SUBSET (0 .. n)
  OBVIOUS
<1> HIDE DEF G
<1>4. n \in G
  <2>1. \A i \in 0 .. n : i \in G
    BY <1>1, <1>2, <1>3, CountsUp
  <2> QED
    BY <2>1
<1> QED
  BY <1>4 DEF G

(* So each state of the reference follows from the one before. *)
LEMMA DecodedStep ==
  ASSUME NEW fmt \in AvFormats, fmt # "STREAM"
  PROVE  /\ Decoded[fmt][0] = Fresh
         /\ \A p \in 0 .. Len(AvSound) - 1 :
              Decoded[fmt][p + 1] = Decode([cfg |-> [fmt |-> fmt], phase |-> p], Decoded[fmt][p])
PROOF
<1> DEFINE n == Len(AvSound)
           run == CHOOSE f : f = [p \in 0 .. n |-> IF p = 0 THEN Fresh ELSE Decode([cfg |-> [fmt |-> fmt], phase |-> p - 1], f[p - 1])]
<1>1. n \in Nat
  BY AiAssumption
<1>2. Decoded[fmt] = run
  <2>1. Decoded[fmt] = DecodedUpTo(fmt)
    BY DEF Decoded, AvFormats
  <2>2. DecodedUpTo(fmt) = run
    BY DEF DecodedUpTo
  <2> QED
    BY <2>1, <2>2
<1>3. \E f : f = [p \in 0 .. n |-> IF p = 0 THEN Fresh ELSE Decode([cfg |-> [fmt |-> fmt], phase |-> p - 1], f[p - 1])]
  BY <1>1, RunExists DEF RunOf
<1>4. run = [p \in 0 .. n |-> IF p = 0 THEN Fresh ELSE Decode([cfg |-> [fmt |-> fmt], phase |-> p - 1], run[p - 1])]
  BY <1>3, Zenon
<1> HIDE DEF run
<1>5. run[0] = Fresh
  BY <1>1, <1>4
<1>6. ASSUME NEW p \in 0 .. n - 1 PROVE run[p + 1] = Decode([cfg |-> [fmt |-> fmt], phase |-> p], run[p])
  <2>1. p + 1 \in 0 .. n /\ p + 1 # 0 /\ (p + 1) - 1 = p
    BY <1>1
  <2>2. run[p + 1] = Decode([cfg |-> [fmt |-> fmt], phase |-> (p + 1) - 1], run[(p + 1) - 1])
    BY <1>4, <2>1
  <2> QED
    BY <2>1, <2>2
<1> QED
  BY <1>2, <1>5, <1>6

-----------------------------------------------------------------------------
(* A channel *)

(* aica_channel_phaseinc gives a number. *)
LEMMA IncNat ==
  ASSUME NEW fns \in AvFns, NEW oct \in AvOcts
  PROVE  PhaseInc(fns, oct) \in Nat
PROOF
<1> DEFINE base == PhaseBase + fns * 256
<1>1. base \in Nat
  BY DEF PhaseBase, AvFns
<1>2. \A i \in 1 .. 9 : Octave[i] \in Nat \ {0}
  BY DEF Octave
<1>3. PhaseInc(fns, oct) = IF oct >= 8 THEN base \div Octave[17 - oct] ELSE base * Octave[oct + 1]
  BY DEF PhaseInc
<1>4. CASE oct >= 8
  <2>1. Octave[17 - oct] \in Nat \ {0}
    BY <1>2, <1>4 DEF AvOcts
  <2>2. \A d \in Nat \ {0} : base \div d \in Nat
    <3> HIDE DEF base
    <3> QED
      BY <1>1
  <2> HIDE DEF base
  <2> QED
    BY <1>3, <1>4, <2>1, <2>2
<1>5. CASE ~(oct >= 8)
  <2>1. Octave[oct + 1] \in Nat
    BY <1>2, <1>5 DEF AvOcts
  <2>2. \A d \in Nat : base * d \in Nat
    <3> HIDE DEF base
    <3> QED
      BY <1>1
  <2> HIDE DEF base
  <2> QED
    BY <1>3, <1>5, <2>1, <2>2
<1> QED
  BY <1>4, <1>5

(* aica_channel_key_off ends a channel and leaves its key bit clear. *)
LEMMA KeyOffPlaced ==
  ASSUME NEW c, Placed(c), ~c.active => ~c.kyonb
  PROVE  /\ Placed(KeyOff(c)) /\ ~KeyOff(c).active /\ ~KeyOff(c).kyonb
         /\ KeyOff(c).frc = c.frc
PROOF
<1>1. c \in Voices
  BY DEF Placed
<1>2. CASE ~c.active
  BY <1>2 DEF KeyOff
<1>3. CASE c.active
  <2> DEFINE d == [c EXCEPT !.active = FALSE, !.kyonb = FALSE]
  <2>1. KeyOff(c) = d
    BY <1>3 DEF KeyOff
  <2>2. d \in Voices /\ d.cfg = c.cfg /\ ~d.active /\ ~d.kyonb /\ d.frc = c.frc
    BY <1>1 DEF Voices
  <2> HIDE DEF d
  <2> QED
    BY <2>1, <2>2 DEF Placed
<1> QED
  BY <1>2, <1>3

(* A decoder that has decoded nothing is where the sound starts. *)
LEMMA FreshInState ==
  ASSUME NEW c \in Voices
  PROVE  InState(c, Fresh, 0)
PROOF
  BY DecodedStep DEF InState, Voices, AvSettings

(* aica_channel_key_on starts a channel at its first sample. *)
LEMMA KeyOnPlaced ==
  ASSUME NEW c, Placed(c), c.frc >= 0
  PROVE  Placed(KeyOn(c)) /\ KeyOn(c).frc >= 0
PROOF
<1>1. c \in Voices /\ c.cfg \in AvSettings
  BY DEF Placed, Voices
<1>2. CASE c.active
  BY <1>2 DEF KeyOn
<1>3. CASE ~c.active
  <2> DEFINE inc == PhaseInc(c.cfg.fns, c.cfg.oct)
             d == [c EXCEPT !.active = TRUE, !.phase = 0, !.frc = 0, !.inc = inc,
                            !.looped = FALSE, !.prev = Fresh, !.next = Fresh, !.loop = Fresh]
  <2>1. KeyOn(c) = d
    BY <1>3 DEF KeyOn
  <2>2. inc \in Nat
    BY <1>1, IncNat DEF AvSettings
  <2>3. Fresh \in Codec
    BY DEF Fresh, QuantMin, Codec
  <2> HIDE DEF inc
  <2> DEFINE zero == 0
             c1 == [c EXCEPT !.active = TRUE, !.phase = zero, !.frc = zero]
             c2 == [c1 EXCEPT !.inc = inc, !.looped = FALSE, !.prev = Fresh]
  <2>4. zero \in Nat /\ zero \in Int /\ zero = 0
    OBVIOUS
  <2> HIDE DEF c1, c2, zero
  <2>5. c1 \in Voices /\ c1.cfg = c.cfg /\ c1.phase = 0 /\ c1.frc = 0
    <3>1. c1 \in Voices
      BY <1>1, <2>4 DEF Voices, c1
    <3>2. c1.cfg = c.cfg /\ c1.phase = zero /\ c1.frc = zero
      BY <1>1, <2>4 DEF Voices, c1
    <3> QED
      BY <2>4, <3>1, <3>2
  <2>6. c2 \in Voices /\ c2.cfg = c.cfg /\ c2.phase = 0 /\ c2.frc = 0 /\ c2.prev = Fresh
    BY <2>2, <2>3, <2>5 DEF Voices, c2
  <2>7. d = [c2 EXCEPT !.next = Fresh, !.loop = Fresh]
    BY DEF c1, c2, zero
  <2> HIDE DEF d
  <2>8. d \in Voices /\ d.cfg = c.cfg /\ d.phase = 0 /\ d.frc = 0 /\ d.prev = Fresh
    BY <2>3, <2>6, <2>7 DEF Voices
  <2>9. InState(d, d.prev, d.phase)
    BY <2>8, FreshInState
  <2>10. c.cfg.lsa \in Nat /\ c.cfg.lea \in Nat /\ c.cfg.lsa < c.cfg.lea /\ c.cfg.lea <= Len(AvSound)
    BY <1>1 DEF Placed, AvSettings
  <2> QED
    BY <2>1, <2>8, <2>9, <2>10 DEF Placed
<1> QED
  BY <1>2, <1>3

\* What a step makes of a channel: the next sample, and the way back to the loop start.
Stepped(c, next, loop) == [c EXCEPT !.next = next, !.prev = next, !.loop = loop, !.frc = @ - PhaseBase, !.phase = @ + 1]
Ended(d) == [d EXCEPT !.looped = TRUE]
Again(d, loop) == [d EXCEPT !.looped = TRUE, !.phase = d.cfg.lsa, !.prev = IF d.cfg.fmt = "STREAM" THEN @ ELSE loop]

AfterStep(d, c, next, loop) ==
  /\ d \in Voices /\ d.cfg = c.cfg /\ d.active = c.active /\ d.kyonb = c.kyonb /\ d.phase = c.phase + 1
  /\ d.frc = c.frc - PhaseBase /\ d.prev = next /\ d.loop = loop
AfterAgain(d, c, loop) ==
  /\ d \in Voices /\ d.cfg = c.cfg /\ d.active = c.active /\ d.kyonb = c.kyonb /\ d.phase = c.cfg.lsa
  /\ d.frc = c.frc /\ d.loop = c.loop
  /\ c.cfg.fmt # "STREAM" => d.prev = loop

(* Their fields. *)
LEMMA SteppedFields ==
  ASSUME NEW c \in Voices, NEW next \in Codec, NEW loop \in Codec
  PROVE  AfterStep(Stepped(c, next, loop), c, next, loop)
PROOF
<1>1. PhaseBase \in Int
  BY DEF PhaseBase
<1>2. c.frc - PhaseBase \in Int /\ c.phase + 1 \in Nat
  BY <1>1 DEF Voices
<1> HIDE DEF PhaseBase
<1> QED
  BY <1>2 DEF Voices, Stepped, AfterStep

(* The end of the sound does not move the channel. *)
LEMMA EndedFields ==
  ASSUME NEW c \in Voices
  PROVE  LET d == Ended(c)
         IN  d \in Voices /\ d.cfg = c.cfg /\ d.active = c.active /\ d.kyonb = c.kyonb /\ d.frc = c.frc
PROOF
  BY DEF Voices, Ended

(* A loop takes the channel to the loop start with the state it had there. *)
LEMMA AgainFields ==
  ASSUME NEW c \in Voices, NEW loop \in Codec
  PROVE  AfterAgain(Again(c, loop), c, loop)
PROOF
<1> DEFINE codec == IF c.cfg.fmt = "STREAM" THEN c.prev ELSE loop
           lsa == c.cfg.lsa
<1>1. codec \in Codec /\ lsa \in Nat /\ (c.cfg.fmt # "STREAM" => codec = loop)
  BY DEF Voices, AvSettings
<1>2. Again(c, loop) = [c EXCEPT !.looped = TRUE, !.phase = lsa, !.prev = codec]
  BY DEF Again
<1> HIDE DEF codec, lsa
<1>3. [c EXCEPT !.looped = TRUE, !.phase = lsa, !.prev = codec] \in Voices
  BY <1>1 DEF Voices
<1> QED
  BY <1>1, <1>2, <1>3 DEF Voices, lsa, AfterAgain

(* aica_channel_step_one keeps a channel in its sound, whether the next sample
   is the next one, the loop start or none. *)
LEMMA StepOnePlaced ==
  ASSUME NEW c, Placed(c), ~c.active => ~c.kyonb
  PROVE  /\ Placed(StepOne(c)) /\ (~StepOne(c).active => ~StepOne(c).kyonb)
         /\ StepOne(c).frc = c.frc - PhaseBase
         /\ StepOne(c).active => c.active
PROOF
<1> DEFINE next == Decode(c, c.prev)
           loop == IF c.phase = c.cfg.lsa THEN c.prev ELSE c.loop
           d == Stepped(c, next, loop)
<1>1. /\ c \in Voices /\ c.cfg \in AvSettings /\ c.cfg.fmt \in AvFormats /\ c.phase \in Nat
      /\ c.prev \in Codec /\ c.loop \in Codec
      /\ c.cfg.lsa \in Nat /\ c.cfg.lea \in Nat /\ c.cfg.lsa < c.cfg.lea /\ c.cfg.lea <= Len(AvSound)
      /\ Len(AvSound) \in Nat
  BY AiAssumption DEF Placed, Voices, AvSettings
<1>2. next \in Codec /\ next = Decode([cfg |-> [fmt |-> c.cfg.fmt], phase |-> c.phase], c.prev)
  BY <1>1, DecodeState
<1>3. loop \in Codec
  BY <1>1
<1>4. ASSUME c.active
      PROVE  InState(c, next, c.phase + 1) /\ (c.phase >= c.cfg.lsa => InState(c, loop, c.cfg.lsa))
  <2>1. c.phase < c.cfg.lea /\ InState(c, c.prev, c.phase) /\ (c.phase > c.cfg.lsa => InState(c, c.loop, c.cfg.lsa))
    BY <1>4 DEF Placed
  <2>2. InState(c, next, c.phase + 1)
    <3>1. c.phase \in 0 .. Len(AvSound) - 1
      BY <1>1, <2>1
    <3>2. ASSUME c.cfg.fmt # "STREAM" PROVE next = Decoded[c.cfg.fmt][c.phase + 1]
      <4>1. c.prev = Decoded[c.cfg.fmt][c.phase]
        BY <2>1, <3>2 DEF InState
      <4> HIDE DEF next
      <4> QED
        BY <1>1, <1>2, <3>1, <3>2, <4>1, DecodedStep
    <3> QED
      BY <3>2 DEF InState
  <2>3. c.phase >= c.cfg.lsa => InState(c, loop, c.cfg.lsa)
    BY <1>1, <2>1
  <2> QED
    BY <2>2, <2>3
<1> HIDE DEF next, loop
<1>5. /\ d \in Voices /\ d.cfg = c.cfg /\ d.active = c.active /\ d.kyonb = c.kyonb /\ d.phase = c.phase + 1
      /\ d.frc = c.frc - PhaseBase /\ d.prev = next /\ d.loop = loop
  <2>1. AfterStep(Stepped(c, next, loop), c, next, loop)
    BY <1>1, <1>2, <1>3, SteppedFields
  <2> QED
    BY <2>1 DEF AfterStep
<1>6. ASSUME NEW e, e.cfg = c.cfg, NEW codec, NEW p PROVE InState(e, codec, p) <=> InState(c, codec, p)
  BY <1>6 DEF InState
<1> DEFINE ended == Ended(d)
           again == Again(d, loop)
<1>7. StepOne(c) = CASE d.phase < d.cfg.lea -> d
                     [] d.phase >= d.cfg.lea /\ ~d.cfg.loop -> KeyOff(ended)
                     [] OTHER -> again
  BY DEF StepOne, Stepped, Ended, Again, next, loop
<1> HIDE DEF d
<1>8. CASE d.phase < d.cfg.lea
  <2>1. StepOne(c) = d
    BY <1>7, <1>8, <1>5, <1>1
  <2>2. ASSUME d.active
        PROVE  InState(d, d.prev, d.phase) /\ (d.phase > d.cfg.lsa => InState(d, d.loop, d.cfg.lsa))
    <3>1. InState(c, d.prev, d.phase) /\ (c.phase >= c.cfg.lsa => InState(c, d.loop, c.cfg.lsa))
      BY <1>4, <1>5, <2>2
    <3>2. d.phase > d.cfg.lsa => c.phase >= c.cfg.lsa
      BY <1>1, <1>5
    <3> QED
      BY <1>5, <1>6, <3>1, <3>2
  <2>3. Placed(d)
    BY <1>1, <1>5, <1>8, <2>2 DEF Placed
  <2> QED
    BY <1>5, <2>1, <2>3
<1>9. CASE d.phase >= d.cfg.lea /\ ~d.cfg.loop
  <2>1. StepOne(c) = KeyOff(ended)
    BY <1>1, <1>5, <1>7, <1>9
  <2>2. ended \in Voices /\ ended.cfg = d.cfg /\ ended.active = d.active /\ ended.kyonb = d.kyonb /\ ended.frc = d.frc
    BY <1>5, EndedFields
  <2> HIDE DEF ended
  <2>3. KeyOff(ended) = IF ~ended.active THEN ended ELSE [ended EXCEPT !.active = FALSE, !.kyonb = FALSE]
    BY DEF KeyOff
  <2> DEFINE off == KeyOff(ended)
  <2>4. off \in Voices /\ off.cfg = c.cfg /\ ~off.active /\ ~off.kyonb /\ off.frc = d.frc
    <3>1. CASE ended.active
      <4>1. off = [ended EXCEPT !.active = FALSE, !.kyonb = FALSE]
        BY <2>3, <3>1
      <4> QED
        BY <1>5, <2>2, <4>1 DEF Voices
    <3>2. CASE ~ended.active
      BY <1>5, <2>2, <2>3, <3>2
    <3> QED
      BY <3>1, <3>2
  <2> HIDE DEF off
  <2>5. Placed(off)
    BY <1>1, <2>4 DEF Placed
  <2> QED
    BY <1>5, <2>1, <2>4, <2>5 DEF off
<1>10. CASE d.phase >= d.cfg.lea /\ d.cfg.loop
  <2>1. StepOne(c) = again
    BY <1>1, <1>5, <1>7, <1>10
  <2>2. /\ again \in Voices /\ again.cfg = c.cfg /\ again.active = c.active /\ again.kyonb = c.kyonb
        /\ again.frc = d.frc /\ again.phase = c.cfg.lsa /\ again.loop = loop
        /\ c.cfg.fmt # "STREAM" => again.prev = loop
    <3>1. AfterAgain(Again(d, loop), d, loop)
      BY <1>3, <1>5, AgainFields
    <3>2. AfterAgain(again, d, loop)
      BY <3>1
    <3> HIDE DEF again
    <3> QED
      BY <1>5, <3>2 DEF AfterAgain
  <2> HIDE DEF again
  <2>3. ASSUME again.active PROVE InState(again, again.prev, again.phase)
    <3>1. c.active /\ c.phase >= c.cfg.lsa
      BY <1>1, <1>5, <1>10, <2>2, <2>3
    <3>2. InState(c, loop, c.cfg.lsa)
      BY <1>4, <3>1
    <3> QED
      BY <2>2, <3>2 DEF InState
  <2>4. Placed(again)
    BY <1>1, <2>2, <2>3 DEF Placed
  <2> QED
    BY <1>5, <2>1, <2>2, <2>4
<1> QED
  BY <1>1, <1>5, <1>8, <1>9, <1>10 DEF AvSettings

\* The channel after each of the first n steps.
StepsOf(c, f, n) == f = [k \in 0 .. n |-> IF k = 0 THEN c ELSE StepOne(f[k - 1])]

(* The loop of a step is a function. *)
LEMMA StepsExist ==
  ASSUME NEW c, NEW n \in Nat
  PROVE  \E f : StepsOf(c, f, n)
PROOF
<1> DEFINE G == {m \in 0 .. n : \E f : StepsOf(c, f, m)}
<1>1. 0 \in G
  <2> DEFINE f == [k \in 0 .. 0 |-> c]
  <2>1. f = [k \in 0 .. 0 |-> IF k = 0 THEN c ELSE StepOne(f[k - 1])]
    <3>1. \A k \in 0 .. 0 : k = 0
      OBVIOUS
    <3> QED
      BY <3>1
  <2> HIDE DEF f
  <2>2. StepsOf(c, f, 0)
    BY <2>1 DEF StepsOf
  <2> QED
    BY <2>2
<1>2. ASSUME NEW m \in 0 .. n - 1, m \in G PROVE m + 1 \in G
  <2>1. PICK f : f = [k \in 0 .. m |-> IF k = 0 THEN c ELSE StepOne(f[k - 1])]
    BY <1>2 DEF StepsOf
  <2> DEFINE g == [k \in 0 .. m + 1 |-> IF k = 0 THEN c ELSE StepOne(f[k - 1])]
  <2>2. ASSUME NEW k \in 0 .. m + 1
        PROVE  (IF k = 0 THEN c ELSE StepOne(f[k - 1])) = (IF k = 0 THEN c ELSE StepOne(g[k - 1]))
    <3>1. CASE k = 0
      BY <3>1
    <3>2. CASE k # 0
      <4>1. k - 1 \in 0 .. m /\ k - 1 \in 0 .. m + 1
        BY <3>2
      <4>2. f[k - 1] = (IF k - 1 = 0 THEN c ELSE StepOne(f[k - 1 - 1]))
        BY <2>1, <4>1
      <4>3. g[k - 1] = (IF k - 1 = 0 THEN c ELSE StepOne(f[k - 1 - 1]))
        BY <4>1
      <4> QED
        BY <4>2, <4>3
    <3> QED
      BY <3>1, <3>2
  <2>3. g = [k \in 0 .. m + 1 |-> IF k = 0 THEN c ELSE StepOne(g[k - 1])]
    <3> DEFINE h == [k \in 0 .. m + 1 |-> IF k = 0 THEN c ELSE StepOne(g[k - 1])]
    <3>1. \A k \in 0 .. m + 1 : g[k] = h[k]
      BY <2>2
    <3> QED
      BY <3>1
  <2> HIDE DEF g
  <2>4. StepsOf(c, g, m + 1)
    BY <2>3 DEF StepsOf
  <2>5. m + 1 \in 0 .. n
    OBVIOUS
  <2> QED
    BY <2>4, <2>5
<1>3. G \in SUBSET (0 .. n)
  OBVIOUS
<1> HIDE DEF G
<1>4. n \in G
  <2>1. \A i \in 0 .. n : i \in G
    BY <1>1, <1>2, <1>3, CountsUp
  <2> QED
    BY <2>1
<1> QED
  BY <1>4 DEF G

\* What the first steps leave: k samples are used up.
Going(c, d, k) ==
  /\ Placed(d) /\ (~d.active => ~d.kyonb)
  /\ d.frc = c.frc - k * PhaseBase

(* aica_channel_step: however many samples the phase moves over, a channel that
   was active stays within its sound, or has ended with its key bit clear. *)
LEMMA ChannelStepPlaced ==
  ASSUME NEW c, Placed(c), c.frc >= 0
  PROVE  /\ Placed(ChannelStep(c)) /\ ChannelStep(c).frc >= 0
         /\ c.active => (~ChannelStep(c).active => ~ChannelStep(c).kyonb)
         /\ ~c.active => ChannelStep(c) = c
PROOF
<1> DEFINE moved == [c EXCEPT !.frc = @ + c.inc]
           n == moved.frc \div PhaseBase
           stepped == CHOOSE f : f = [k \in 0 .. n |-> IF k = 0 THEN moved ELSE StepOne(f[k - 1])]
<1>1. c \in Voices /\ c.frc \in Int /\ c.inc \in Nat
  BY DEF Placed, Voices
<1>2. CASE ~c.active
  <2>1. ChannelStep(c) = c
    BY <1>2 DEF ChannelStep
  <2> QED
    BY <1>2, <2>1
<1>3. CASE c.active
  <2>1. ChannelStep(c) = stepped[n]
    BY <1>3 DEF ChannelStep
  <2>2. moved \in Voices /\ moved.frc = c.frc + c.inc /\ moved.frc \in Nat
    BY <1>1 DEF Voices
  <2>3. moved.cfg = c.cfg /\ moved.active = c.active /\ moved.phase = c.phase /\ moved.prev = c.prev /\ moved.loop = c.loop
    BY <1>1 DEF Voices
  <2> HIDE DEF moved
  <2>4. Placed(moved)
    BY <2>2, <2>3 DEF Placed, InState
  <2>5. n \in Nat /\ n * PhaseBase <= moved.frc
    <3>1. \A x \in Nat : x \div 262144 \in Nat /\ (x \div 262144) * 262144 <= x
      OBVIOUS
    <3> QED
      BY <2>2, <3>1 DEF PhaseBase
  <2> HIDE DEF n
  <2>6. \E f : f = [k \in 0 .. n |-> IF k = 0 THEN moved ELSE StepOne(f[k - 1])]
    BY <2>5, StepsExist DEF StepsOf
  <2>7. stepped = [k \in 0 .. n |-> IF k = 0 THEN moved ELSE StepOne(stepped[k - 1])]
    BY <2>6, Zenon
  <2> HIDE DEF stepped
  <2> DEFINE G == {k \in 0 .. n : Going(moved, stepped[k], k)}
  <2>8. 0 \in G
    <3>1. stepped[0] = moved
      BY <2>5, <2>7
    <3>2. 0 * PhaseBase = 0 /\ moved.frc - 0 = moved.frc
      BY <2>2 DEF PhaseBase
    <3>3. Going(moved, moved, 0)
      BY <1>3, <2>3, <2>4, <3>2 DEF Going
    <3> QED
      BY <2>5, <3>1, <3>3
  <2>9. ASSUME NEW k \in 0 .. n - 1, k \in G PROVE k + 1 \in G
    <3>1. k + 1 \in 0 .. n /\ k + 1 # 0 /\ (k + 1) - 1 = k /\ k \in Nat
      BY <2>5
    <3>2. stepped[k + 1] = StepOne(stepped[k])
      BY <2>7, <3>1
    <3>3. Placed(stepped[k]) /\ (~stepped[k].active => ~stepped[k].kyonb) /\ stepped[k].frc = moved.frc - k * PhaseBase
      BY <2>9 DEF Going
    <3>4. /\ Placed(stepped[k + 1]) /\ (~stepped[k + 1].active => ~stepped[k + 1].kyonb)
          /\ stepped[k + 1].frc = stepped[k].frc - PhaseBase
      BY <3>2, <3>3, StepOnePlaced
    <3>5. (moved.frc - k * PhaseBase) - PhaseBase = moved.frc - (k + 1) * PhaseBase
      BY <2>2, <3>1 DEF PhaseBase
    <3>6. Going(moved, stepped[k + 1], k + 1)
      BY <3>3, <3>4, <3>5 DEF Going
    <3> QED
      BY <3>1, <3>6
  <2>10. G \in SUBSET (0 .. n)
    OBVIOUS
  <2>11. n \in G
    <3> HIDE DEF G
    <3>1. \A k \in 0 .. n : k \in G
      BY <2>5, <2>8, <2>9, <2>10, CountsUp
    <3> QED
      BY <2>5, <3>1
  <2>12. Going(moved, stepped[n], n)
    BY <2>11
  <2>13. moved.frc - n * PhaseBase >= 0
    BY <2>2, <2>5 DEF PhaseBase
  <2> QED
    BY <1>3, <2>1, <2>12, <2>13 DEF Going
<1> QED
  BY <1>2, <1>3

-----------------------------------------------------------------------------
(* The steps of the channels *)

(* aica_generate_frames steps every channel once; one that ends is asked for no
   more, and none starts. *)
LEMMA FrameStep ==
  ASSUME AvInv, GenerateFrame
  PROVE  AvInv'
PROOF
<1> DEFINE after == [n \in AvChannels |-> ChannelStep(avch[n])]
<1>1. avch' = after /\ avasked' = {n \in avasked : ~(avch[n].active /\ ~after[n].active)}
  BY DEF GenerateFrame
<1>2. ASSUME NEW n \in AvChannels PROVE Placed(avch'[n]) /\ avch'[n].frc >= 0 /\ Asked(n)'
  <2>1. avch'[n] = ChannelStep(avch[n]) /\ Placed(avch[n]) /\ avch[n].frc >= 0 /\ Asked(n)
    BY <1>1, <1>2 DEF AvInv
  <2>2. /\ Placed(ChannelStep(avch[n])) /\ ChannelStep(avch[n]).frc >= 0
        /\ avch[n].active => (~ChannelStep(avch[n]).active => ~ChannelStep(avch[n]).kyonb)
        /\ ~avch[n].active => ChannelStep(avch[n]) = avch[n]
    BY <2>1, ChannelStepPlaced
  <2>3. ASSUME avch'[n].active \/ avch'[n].kyonb PROVE n \in avasked'
    <3>1. n \in avasked
      BY <2>1, <2>2, <2>3 DEF Asked
    <3>2. ~(avch[n].active /\ ~avch'[n].active)
      BY <2>1, <2>2, <2>3
    <3> QED
      BY <1>1, <3>1, <3>2
  <2> QED
    BY <2>1, <2>2, <2>3 DEF Asked
<1>3. DOMAIN avch' = AvChannels /\ avch' = [n \in AvChannels |-> avch'[n]]
  BY <1>1
<1> QED
  BY <1>2, <1>3 DEF AvInv

\* Setting or clearing the key bit.
Bit(c, on) == [c EXCEPT !.kyonb = on]

(* A key bit does not move a channel. *)
LEMMA BitPlaced ==
  ASSUME NEW c, Placed(c), c.frc >= 0, NEW on \in BOOLEAN
  PROVE  Placed(Bit(c, on)) /\ Bit(c, on).frc >= 0 /\ Bit(c, on).active = c.active /\ Bit(c, on).kyonb = on
PROOF
<1> DEFINE d == Bit(c, on)
<1>1. c \in Voices
  BY DEF Placed
<1>2. /\ d \in Voices /\ d.cfg = c.cfg /\ d.active = c.active /\ d.kyonb = on /\ d.phase = c.phase
      /\ d.prev = c.prev /\ d.loop = c.loop /\ d.frc = c.frc
  BY <1>1 DEF Voices, Bit
<1> HIDE DEF d
<1>3. Placed(d)
  BY <1>2 DEF Placed, InState
<1> QED
  BY <1>2, <1>3 DEF d

(* aica_channel_key_on_execute: the key bits of all channels take effect, and
   each of those that are set was asked for. *)
LEMMA KeyStep ==
  ASSUME AvInv, NEW n \in AvChannels, NEW on \in BOOLEAN, NEW execute \in BOOLEAN, WriteKey(n, on, execute)
  PROVE  AvInv'
PROOF
<1> DEFINE written == [avch EXCEPT ![n].kyonb = on]
<1>1. /\ avch' = IF ~execute THEN written
                 ELSE [k \in AvChannels |-> IF written[k].kyonb THEN KeyOn(written[k]) ELSE KeyOff(written[k])]
      /\ avasked' = IF on THEN avasked \cup {n} ELSE avasked \ (IF execute \/ ~avch[n].active THEN {n} ELSE {})
  BY DEF WriteKey
<1>2. DOMAIN avch = AvChannels /\ \A k \in AvChannels : Placed(avch[k]) /\ avch[k].frc >= 0 /\ Asked(k)
  BY DEF AvInv
<1>3. /\ DOMAIN written = AvChannels /\ written = [k \in AvChannels |-> written[k]]
      /\ written[n] = Bit(avch[n], on)
      /\ \A k \in AvChannels : k # n => written[k] = avch[k]
  BY <1>2 DEF Bit
<1> HIDE DEF written
<1>4. /\ Placed(written[n]) /\ written[n].frc >= 0 /\ written[n].active = avch[n].active /\ written[n].kyonb = on
  BY <1>2, <1>3, BitPlaced
<1>5. ASSUME NEW k \in AvChannels PROVE Placed(written[k]) /\ written[k].frc >= 0
  BY <1>2, <1>3, <1>4
<1>6. ASSUME NEW k \in AvChannels, written[k].kyonb PROVE k \in avasked'
  <2>1. CASE k = n
    BY <1>1, <1>4, <1>6, <2>1
  <2>2. CASE k # n
    <3>1. k \in avasked
      BY <1>2, <1>3, <1>6, <2>2 DEF Asked
    <3> QED
      BY <1>1, <2>2, <3>1
  <2> QED
    BY <2>1, <2>2
<1>7. CASE ~execute
  <2>1. avch' = written
    BY <1>1, <1>7
  <2>2. ASSUME NEW k \in AvChannels, written[k].active PROVE k \in avasked'
    <3>1. avch[k].active
      BY <1>3, <1>4, <2>2
    <3>2. k \in avasked
      BY <1>2, <3>1 DEF Asked
    <3>3. k = n => ~(execute \/ ~avch[n].active)
      BY <1>7, <3>1
    <3> QED
      BY <1>1, <3>2, <3>3
  <2>3. ASSUME NEW k \in AvChannels PROVE Asked(k)'
    BY <1>6, <2>1, <2>2 DEF Asked
  <2> QED
    BY <1>3, <1>5, <2>1, <2>3 DEF AvInv
<1>8. CASE execute
  <2>1. avch' = [k \in AvChannels |-> IF written[k].kyonb THEN KeyOn(written[k]) ELSE KeyOff(written[k])]
    BY <1>1, <1>8
  <2>2. ASSUME NEW k \in AvChannels, written[k].kyonb PROVE Placed(avch'[k]) /\ avch'[k].frc >= 0 /\ Asked(k)'
    <3>1. avch'[k] = KeyOn(written[k])
      BY <2>1, <2>2
    <3> QED
      BY <1>5, <1>6, <2>2, <3>1, KeyOnPlaced DEF Asked
  <2>3. ASSUME NEW k \in AvChannels, ~written[k].kyonb PROVE Placed(avch'[k]) /\ avch'[k].frc >= 0 /\ Asked(k)'
    <3>1. avch'[k] = KeyOff(written[k])
      BY <2>1, <2>3
    <3>2. Placed(written[k]) /\ written[k].frc >= 0
      BY <1>5
    <3>3. /\ Placed(KeyOff(written[k])) /\ ~KeyOff(written[k]).active /\ ~KeyOff(written[k]).kyonb
          /\ KeyOff(written[k]).frc = written[k].frc
      BY <2>3, <3>2, KeyOffPlaced
    <3> QED
      BY <3>1, <3>2, <3>3 DEF Asked
  <2>4. \A k \in AvChannels : Placed(avch'[k]) /\ avch'[k].frc >= 0 /\ Asked(k)'
    BY <2>2, <2>3
  <2>5. DOMAIN avch' = AvChannels /\ avch' = [k \in AvChannels |-> avch'[k]]
    BY <2>1
  <2> QED
    BY <2>4, <2>5 DEF AvInv
<1> QED
  BY <1>7, <1>8

(* A new pitch does not move a channel: only the next steps are longer or
   shorter (aica_channel_reg_write). *)
LEMMA PitchStep ==
  ASSUME AvInv, NEW n \in AvChannels, NEW c \in AvConfigs, WritePitch(n, c)
  PROVE  AvInv'
PROOF
<1> DEFINE inc == PhaseInc(c.fns, c.oct)
           old == avch[n]
           new == [old EXCEPT !.cfg.fns = c.fns, !.cfg.oct = c.oct, !.inc = inc]
<1>1. DOMAIN avch = AvChannels /\ \A k \in AvChannels : Placed(avch[k]) /\ avch[k].frc >= 0 /\ Asked(k)
  BY DEF AvInv
<1>2. avasked' = avasked /\ avch' = [avch EXCEPT ![n].cfg.fns = c.fns, ![n].cfg.oct = c.oct, ![n].inc = inc]
  BY DEF WritePitch
<1>3. c.fns \in AvFns /\ c.oct \in AvOcts
  <2>1. AvConfigs \subseteq AvSettings
    BY AiAssumption DEF AvSettings, AvFormats, AvFns, AvOcts
  <2>2. c \in AvSettings
    BY <2>1
  <2> QED
    BY <2>2 DEF AvSettings
<1>4. inc \in Nat
  BY <1>3, IncNat
<1> HIDE DEF inc
<1>5. /\ DOMAIN avch' = AvChannels /\ avch' = [k \in AvChannels |-> avch'[k]]
      /\ avch'[n] = new /\ \A k \in AvChannels : k # n => avch'[k] = avch[k]
  BY <1>1, <1>2
<1>6. old \in Voices /\ old.cfg \in AvSettings /\ Placed(old)
  BY <1>1 DEF Placed, Voices
<1> HIDE DEF old
<1> DEFINE cfg == [old.cfg EXCEPT !.fns = c.fns, !.oct = c.oct]
<1> HIDE DEF new
<1>7. cfg \in AvSettings /\ cfg.fmt = old.cfg.fmt /\ cfg.lsa = old.cfg.lsa /\ cfg.lea = old.cfg.lea
  <2> DEFINE was == old.cfg
             fns == c.fns
             oct == c.oct
  <2>1. was \in AvSettings /\ fns \in AvFns /\ oct \in AvOcts
    BY <1>3, <1>6
  <2> HIDE DEF was, fns, oct
  <2>2. [was EXCEPT !.fns = fns, !.oct = oct] \in AvSettings
    BY <2>1 DEF AvSettings
  <2>3. LET made == [was EXCEPT !.fns = fns, !.oct = oct]
        IN  made.fmt = was.fmt /\ made.lsa = was.lsa /\ made.lea = was.lea
    BY <2>1 DEF AvSettings
  <2> QED
    BY <2>2, <2>3 DEF was, fns, oct
<1>8. new = [old EXCEPT !.cfg = cfg, !.inc = inc]
  BY <1>6 DEF Voices, new
<1> HIDE DEF cfg
<1>9. /\ new \in Voices /\ new.cfg = cfg /\ new.active = old.active /\ new.kyonb = old.kyonb /\ new.phase = old.phase
      /\ new.prev = old.prev /\ new.loop = old.loop /\ new.frc = old.frc
  BY <1>4, <1>6, <1>7, <1>8 DEF Voices
<1>10. Placed(new)
  BY <1>6, <1>7, <1>9 DEF Placed, InState
<1>11. \A k \in AvChannels : Placed(avch'[k]) /\ avch'[k].frc >= 0 /\ Asked(k)'
  BY <1>1, <1>2, <1>5, <1>9, <1>10 DEF Asked, old
<1> QED
  BY <1>5, <1>11 DEF AvInv

(* Reading LP clears it and does nothing else (aica_common_reg_read). *)
LEMMA ReadLpStep ==
  ASSUME AvInv, NEW n \in AvChannels, ReadLp(n)
  PROVE  AvInv'
PROOF
<1> DEFINE old == avch[n]
           new == [old EXCEPT !.looped = FALSE]
<1>1. DOMAIN avch = AvChannels /\ \A k \in AvChannels : Placed(avch[k]) /\ avch[k].frc >= 0 /\ Asked(k)
  BY DEF AvInv
<1>2. avasked' = avasked /\ avch' = [avch EXCEPT ![n].looped = FALSE]
  BY DEF ReadLp
<1>3. /\ DOMAIN avch' = AvChannels /\ avch' = [k \in AvChannels |-> avch'[k]]
      /\ avch'[n] = new /\ \A k \in AvChannels : k # n => avch'[k] = avch[k]
  BY <1>1, <1>2
<1>4. old \in Voices /\ Placed(old)
  BY <1>1 DEF Placed
<1> HIDE DEF old
<1>5. /\ new \in Voices /\ new.cfg = old.cfg /\ new.active = old.active /\ new.kyonb = old.kyonb /\ new.phase = old.phase
      /\ new.prev = old.prev /\ new.loop = old.loop /\ new.frc = old.frc
  BY <1>4 DEF Voices
<1> HIDE DEF new
<1>6. Placed(new)
  BY <1>4, <1>5 DEF Placed, InState
<1>7. \A k \in AvChannels : Placed(avch'[k]) /\ avch'[k].frc >= 0 /\ Asked(k)'
  BY <1>1, <1>2, <1>3, <1>5, <1>6 DEF Asked, old
<1> QED
  BY <1>3, <1>7 DEF AvInv

(* At first no channel plays. *)
LEMMA AvInitInv ==
  ASSUME AvInit
  PROVE  AvInv
PROOF
<1> DEFINE Idle(c) == [cfg |-> c, kyonb |-> FALSE, active |-> FALSE, phase |-> 0, frc |-> 0, inc |-> 0,
                       looped |-> FALSE, prev |-> Fresh, next |-> Fresh, loop |-> Fresh]
<1>1. avch \in [AvChannels -> {Idle(c) : c \in AvConfigs}]
  BY DEF AvInit
<1>2. Fresh \in Codec
  BY DEF Fresh, QuantMin, Codec
<1>3. ASSUME NEW n \in AvChannels PROVE Placed(avch[n]) /\ avch[n].frc >= 0 /\ Asked(n)
  <2>1. PICK c \in AvConfigs : avch[n] = Idle(c)
    <3> HIDE DEF Idle
    <3> QED
      BY <1>1
  <2>2. c \in AvSettings /\ c.lsa < c.lea /\ c.lea <= Len(AvSound)
    BY AiAssumption DEF AvSettings, AvFormats, AvFns, AvOcts
  <2>3. Idle(c) \in Voices
    BY <1>2, <2>2 DEF Voices
  <2>4. Placed(Idle(c))
    BY <2>2, <2>3 DEF Placed
  <2> QED
    BY <2>1, <2>4 DEF Asked
<1>4. DOMAIN avch = AvChannels /\ avch = [n \in AvChannels |-> avch[n]]
  BY <1>1
<1> QED
  BY <1>3, <1>4 DEF AvInv

(* Every step keeps the invariant. *)
LEMMA AvStep ==
  ASSUME AvInv, [AvNext]_avvars
  PROVE  AvInv'
PROOF
<1>1. CASE GenerateFrame
  BY <1>1, FrameStep
<1>2. ASSUME NEW n \in AvChannels, NEW on \in BOOLEAN, NEW execute \in BOOLEAN, WriteKey(n, on, execute) PROVE AvInv'
  BY <1>2, KeyStep
<1>3. ASSUME NEW n \in AvChannels, NEW c \in AvConfigs, WritePitch(n, c) PROVE AvInv'
  BY <1>3, PitchStep
<1>4. ASSUME NEW n \in AvChannels, ReadLp(n) PROVE AvInv'
  BY <1>4, ReadLpStep
<1>5. CASE UNCHANGED avvars
  BY <1>5 DEF avvars, AvInv, Asked
<1> QED
  BY <1>1, <1>2, <1>3, <1>4, <1>5 DEF AvNext

(* The invariant is what the voices promise, and more. *)
LEMMA AvInvExact ==
  ASSUME AvInv
  PROVE  VoiceExact
PROOF
<1>1. ASSUME NEW n \in AvChannels, avch[n].active
      PROVE  /\ avch[n].phase < avch[n].cfg.lea
             /\ avch[n].cfg.fmt # "STREAM" => avch[n].prev = Decoded[avch[n].cfg.fmt][avch[n].phase]
             /\ n \in avasked
  BY <1>1 DEF AvInv, Placed, InState, Asked
<1> QED
  BY <1>1 DEF VoiceExact

(* The sound processor loses no interrupt and plays what it is given, whatever
   the order of key events, pitches, frames, register writes, timers and resets:
   each machine keeps its own invariant, and leaves the other one alone. *)
THEOREM AicaHolds ==
  ASSUME 0 \notin AiSources
  PROVE  AicaSpec => []AicaExact
PROOF
<1> DEFINE AicaNext == (AiNext /\ UNCHANGED avvars) \/ (AvNext /\ UNCHANGED aivars)
<1>1. AiInit /\ AvInit => AiInv /\ AvInv
  BY AiInitInv, AvInitInv
<1>2. AiInv /\ AvInv /\ [AicaNext]_<<aivars, avvars>> => (AiInv /\ AvInv)'
  <2> SUFFICES ASSUME AiInv, AvInv, [AicaNext]_<<aivars, avvars>> PROVE AiInv' /\ AvInv'
    OBVIOUS
  <2>1. [AiNext]_aivars /\ [AvNext]_avvars
    OBVIOUS
  <2> QED
    BY <2>1, AiStep, AvStep
<1>3. AiInv /\ AvInv => AicaExact
  <2>1. AiInv => AicaSignals
    BY DEF AiInv, ArmSignals, ShSignals, AicaSignals
  <2> QED
    BY <2>1, AvInvExact DEF AicaExact
<1> QED
  BY <1>1, <1>2, <1>3, PTL DEF AicaSpec

=============================================================================
