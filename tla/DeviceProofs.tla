---------------------------- MODULE DeviceProofs ----------------------------
(***************************************************************************)
(* Proofs about the devices that the guest hands whole requests.           *)
(*                                                                         *)
(* HollyDma: the transfers of a G2 channel, whose registers the guest may  *)
(* write while a timer moves the rest of it, those of channel 2, and the   *)
(* interrupts that report them.                                            *)
(* Maple: the frames of a list, answered by controllers whose state the    *)
(* host changes meanwhile and by cards that outlive the process.           *)
(* Scif: the characters between the guest and a program on the host, which *)
(* pass a FIFO and a queue each way.                                       *)
(* Flash: the blocks of the flash rom, which the guest's library programs  *)
(* in pieces that a game or the process may end between.                   *)
(***************************************************************************)
EXTENDS HollyDma, Maple, Scif, Flash, WellFoundedInduction, TLAPS

\* The registers of a channel and its struct holly_g2_dma.
G2Regs ==
  [stag : Int, star : Int, len : Nat, last : BOOLEAN, en : BOOLEAN, st : BOOLEAN,
   dst : Int, src : Int, rem : Nat, restart : BOOLEAN]

G2Memory == [G2Cells -> Int]

G2Transfer == [stag : Int, star : Int, len : Nat, before : G2Memory, starts : Nat]

DmType ==
  /\ g2 \in [G2Channels -> G2Regs] /\ g2timers \in [G2Channels -> Nat]
  /\ g2mem \in [G2Channels -> G2Memory] /\ g2job \in [G2Channels -> G2Transfer]

\* The first n cells of transfer j, over what was there before.
After(j, n) ==
  [a \in G2Cells |-> IF a \in j.stag .. j.stag + n - 1 THEN j.star + (a - j.stag)
                    ELSE j.before[a]]

\* What a channel with registers d, t timers, memory m and n interrupts raised has
\* done of job j: while it runs, the struct counts from the addresses latched.
ChannelInv(d, t, m, j, n) ==
  /\ t = IF d.st THEN 1 ELSE 0
  /\ j.starts = n + (IF d.st THEN 1 ELSE 0)
  /\ m = After(j, j.len - (IF d.st THEN d.rem ELSE 0))
  /\ d.st => /\ 0 < d.rem /\ d.rem <= j.len
             /\ d.dst = j.stag + (j.len - d.rem) /\ d.src = j.star + (j.len - d.rem)
G2Inv == \A ch \in G2Channels : ChannelInv(g2[ch], g2timers[ch], g2mem[ch], g2job[ch], dmcalls[G2Int(ch)])

\* Channel 2 is where the guest's last transfer ended, or where it has put it since.
Channel2Type ==
  /\ c2 \in [sar : Int, tcr : Nat, ie : BOOLEAN, c2dlen : Nat]
  /\ \E S : c2job \in [next : Int, asked : Seq(S), starts : Nat, signals : Nat]
Channel2Inv == c2.sar = c2job.next /\ c2fifo = c2job.asked
SignalsInv == dmcalls[C2Int] = c2job.starts /\ dmcalls[TeInt] = c2job.signals

\* The bit of an interrupt is set from its last raise until it is cleared.
PendingInv ==
  /\ dmcalls \in [DmInts -> Nat] /\ dmacks \in [DmInts -> Nat]
  /\ \A x \in DmInts : dmacks[x] <= dmcalls[x] /\ (x \in dmist <=> dmcalls[x] > dmacks[x])

DmInv == DmType /\ G2Inv /\ Channel2Type /\ Channel2Inv /\ SignalsInv /\ PendingInv

(* Raising interrupts. *)
LEMMA RaiseKeeps ==
  ASSUME PendingInv, NEW S, Raise(S)
  PROVE  /\ PendingInv'
         /\ \A x \in DmInts : dmcalls'[x] = dmcalls[x] + (IF x \in S THEN 1 ELSE 0)
PROOF
<1>1. /\ dmist' = dmist \cup S /\ dmacks' = dmacks
      /\ dmcalls' = [x \in DmInts |-> dmcalls[x] + (IF x \in S THEN 1 ELSE 0)]
  BY DEF Raise
<1>2. \A x \in DmInts : dmcalls[x] \in Nat /\ dmacks[x] \in Nat /\ dmacks[x] <= dmcalls[x]
  BY DEF PendingInv
<1>3. \A x \in DmInts : dmcalls'[x] = dmcalls[x] + (IF x \in S THEN 1 ELSE 0)
  BY <1>1
<1>4. dmcalls' \in [DmInts -> Nat] /\ dmacks' \in [DmInts -> Nat]
  BY <1>1, <1>2 DEF PendingInv
<1>5. ASSUME NEW x \in DmInts
      PROVE  dmacks'[x] <= dmcalls'[x] /\ (x \in dmist' <=> dmcalls'[x] > dmacks'[x])
  <2>1. x \in dmist <=> dmcalls[x] > dmacks[x]
    BY DEF PendingInv
  <2> QED
    BY <1>1, <1>2, <1>3, <2>1
<1> QED
  BY <1>3, <1>4, <1>5 DEF PendingInv

(* No interrupt is another one. *)
LEMMA IntsApart ==
  /\ C2Int \in DmInts /\ TeInt \in DmInts /\ C2Int # TeInt
  /\ \A ch \in G2Channels : G2Int(ch) \in DmInts /\ G2Int(ch) # C2Int /\ G2Int(ch) # TeInt
  /\ \A c, ch \in G2Channels : G2Int(c) = G2Int(ch) => c = ch
PROOF
  BY DEF DmInts, G2Int, C2Int, TeInt

(* A chunk of n cells, written behind the first k ones. *)
LEMMA ChunkAppends ==
  ASSUME NEW j \in G2Transfer, NEW k \in Nat, NEW n \in Nat, NEW dst, NEW src,
         dst = j.stag + k, src = j.star + k
  PROVE  [a \in G2Cells |-> IF a \in dst .. dst + n - 1 THEN src + (a - dst)
                           ELSE After(j, k)[a]]
           = After(j, k + n)
PROOF
<1>1. j.stag \in Int /\ j.star \in Int /\ \A a \in G2Cells : a \in Int
  BY DmAssumption DEF G2Transfer
<1>2. ASSUME NEW a \in G2Cells
      PROVE  (IF a \in dst .. dst + n - 1 THEN src + (a - dst) ELSE After(j, k)[a])
               = After(j, k + n)[a]
  <2>1. After(j, k)[a] = IF a \in j.stag .. j.stag + k - 1 THEN j.star + (a - j.stag)
                         ELSE j.before[a]
    BY DEF After
  <2>2. After(j, k + n)[a] = IF a \in j.stag .. j.stag + (k + n) - 1
                             THEN j.star + (a - j.stag) ELSE j.before[a]
    BY DEF After
  <2>3. a \in j.stag .. j.stag + (k + n) - 1
          <=> a \in j.stag .. j.stag + k - 1 \/ a \in dst .. dst + n - 1
    BY <1>1
  <2>4. a \in dst .. dst + n - 1 => src + (a - dst) = j.star + (a - j.stag)
    BY <1>1
  <2>5. a \in dst .. dst + n - 1 => ~(a \in j.stag .. j.stag + k - 1)
    BY <1>1
  <2> QED
    BY <2>1, <2>2, <2>3, <2>4, <2>5
<1> QED
  BY <1>2 DEF After

\* The parts of a step of G2Step: how many cells, and the struct afterwards.
ChunkOf(d) == IF d.rem < G2Chunk THEN d.rem ELSE G2Chunk
MovedBy(d, n) == [d EXCEPT !.dst = @ + n, !.src = @ + n, !.rem = @ - n]
Stepped(d) == IF MovedBy(d, ChunkOf(d)).rem = 0 THEN G2End(MovedBy(d, ChunkOf(d)))
              ELSE MovedBy(d, ChunkOf(d))

(* Which fields a step changes. *)
LEMMA SteppedFields ==
  ASSUME NEW d \in G2Regs
  PROVE  /\ ChunkOf(d) \in Nat /\ ChunkOf(d) <= d.rem
         /\ Stepped(d) \in G2Regs
         /\ MovedBy(d, ChunkOf(d)).rem = d.rem - ChunkOf(d)
         /\ d.rem - ChunkOf(d) = 0 <=> d.rem <= G2Chunk
         /\ Stepped(d).st = (d.st /\ d.rem > G2Chunk)
         /\ Stepped(d).dst = d.dst + ChunkOf(d) /\ Stepped(d).src = d.src + ChunkOf(d)
         /\ Stepped(d).rem = d.rem - ChunkOf(d)
PROOF
<1>1. ChunkOf(d) \in Nat /\ ChunkOf(d) <= d.rem /\ d.rem \in Nat
      /\ (d.rem - ChunkOf(d) = 0 <=> d.rem <= G2Chunk) /\ d.rem - ChunkOf(d) \in Nat
  BY DmAssumption DEF G2Regs, ChunkOf
<1> DEFINE n == ChunkOf(d)
<1>2. d.dst + n \in Int /\ d.src + n \in Int
  BY <1>1 DEF G2Regs
<1> DEFINE w == MovedBy(d, n)
<1>3. /\ w \in G2Regs /\ w.rem = d.rem - n /\ w.dst = d.dst + n /\ w.src = d.src + n
      /\ w.st = d.st
  <2> HIDE DEF n
  <2>1. w = [d EXCEPT !.dst = d.dst + n, !.src = d.src + n, !.rem = d.rem - n]
    BY DEF MovedBy, G2Regs
  <2> QED
    BY <1>1, <1>2, <2>1 DEF G2Regs, n
<1>4. Stepped(d) = IF d.rem <= G2Chunk THEN G2End(w) ELSE w
  BY <1>1, <1>3 DEF Stepped
<1> HIDE DEF w
<1>5. /\ G2End(w) \in G2Regs /\ G2End(w).st = FALSE /\ G2End(w).dst = w.dst
      /\ G2End(w).src = w.src /\ G2End(w).rem = w.rem
  BY <1>3 DEF G2End, G2Regs
<1>6. CASE d.rem <= G2Chunk
  <2>1. Stepped(d) = G2End(w) /\ ~(d.rem > G2Chunk)
    BY <1>1, <1>4, <1>6, DmAssumption
  <2>2. Stepped(d).st = (d.st /\ d.rem > G2Chunk)
    BY <2>1, <1>5, Zenon
  <2> QED
    BY <2>1, <2>2, <1>1, <1>3, <1>5 DEF w
<1>7. CASE ~(d.rem <= G2Chunk)
  <2>1. Stepped(d) = w /\ d.rem > G2Chunk
    BY <1>1, <1>4, <1>7, DmAssumption
  <2>2. Stepped(d).st = (d.st /\ d.rem > G2Chunk)
    <3>1. d.st \in BOOLEAN
      BY DEF G2Regs
    <3> QED
      BY <2>1, <3>1, <1>3, Zenon
  <2> QED
    BY <2>1, <2>2, <1>1, <1>3 DEF w
<1> QED
  BY <1>6, <1>7

(* One chunk of a transfer that is under way brings the channel one chunk   *)
(* further (holly_g2_dma_timer_channel).                                    *)
LEMMA StepKeeps ==
  ASSUME NEW d \in G2Regs, NEW j \in G2Transfer, NEW calls \in Nat,
         d.st, d.rem <= j.len, j.starts = calls + 1,
         d.dst = j.stag + (j.len - d.rem), d.src = j.star + (j.len - d.rem),
         NEW m, m = After(j, j.len - d.rem)
  PROVE  LET n == ChunkOf(d)
             over == d.rem <= G2Chunk
         IN  ChannelInv(Stepped(d), IF over THEN 0 ELSE 1,
                        [a \in G2Cells |-> IF a \in d.dst .. d.dst + n - 1
                                           THEN d.src + (a - d.dst) ELSE m[a]],
                        j, calls + (IF over THEN 1 ELSE 0))
PROOF
<1> DEFINE n == ChunkOf(d)
           over == d.rem <= G2Chunk
           k == j.len - d.rem
           mm == [a \in G2Cells |-> IF a \in d.dst .. d.dst + n - 1
                                    THEN d.src + (a - d.dst) ELSE m[a]]
           w == Stepped(d)
<1>1. d.rem \in Nat /\ j.len \in Nat /\ k \in Nat /\ j.stag \in Int /\ j.star \in Int
  BY DEF G2Regs, G2Transfer
<1>2. /\ n \in Nat /\ n <= d.rem /\ w.st = (d.st /\ d.rem > G2Chunk)
      /\ w.dst = d.dst + n /\ w.src = d.src + n /\ w.rem = d.rem - n
      /\ d.rem - n = 0 <=> over
  BY SteppedFields
<1>3. mm = After(j, k + n)
  BY <1>1, <1>2, ChunkAppends
<1>4. w.st <=> ~over
  <2>1. d.rem > G2Chunk <=> ~over
    BY <1>1, DmAssumption
  <2> HIDE DEF w, over
  <2> QED
    BY <2>1, <1>2, Zenon
<1> HIDE DEF n, over, k, mm, w
<1>5. CASE over
  <2>1. k + n = j.len - 0
    BY <1>1, <1>2, <1>5 DEF k
  <2>2. mm = After(j, j.len - 0)
    BY <2>1, <1>3
  <2>3. ChannelInv(w, 0, mm, j, calls + 1)
    BY <2>2, <1>4, <1>5 DEF ChannelInv
  <2> QED
    BY <2>3, <1>5 DEF n, over, mm, w
<1>6. CASE ~over
  <2>1. k + n = j.len - w.rem /\ 0 < w.rem /\ w.rem <= j.len
    BY <1>1, <1>2, <1>6 DEF k
  <2>2. mm = After(j, j.len - w.rem)
    BY <2>1, <1>3
  <2>3. w.dst = j.stag + (j.len - w.rem) /\ w.src = j.star + (j.len - w.rem)
    BY <1>1, <1>2 DEF k
  <2>4. ChannelInv(w, 1, mm, j, calls + 0)
    BY <2>1, <2>2, <2>3, <1>4, <1>6 DEF ChannelInv
  <2> QED
    BY <2>4, <1>6 DEF n, over, mm, w
<1> QED
  BY <1>5, <1>6

(* A step of channel ch, under way with the registers d, moves that channel *)
(* only.                                                                    *)
LEMMA G2StepKeeps ==
  ASSUME DmInv, NEW ch \in G2Channels, NEW d \in G2Regs, NEW fired \in BOOLEAN,
         G2Step(ch, d, fired), g2timers[ch] = (IF fired THEN 1 ELSE 0),
         NEW j \in G2Transfer, d.st, d.rem <= j.len, j.starts = dmcalls[G2Int(ch)] + 1,
         d.dst = j.stag + (j.len - d.rem), d.src = j.star + (j.len - d.rem),
         g2mem[ch] = After(j, j.len - d.rem),
         g2job' = [g2job EXCEPT ![ch] = j], UNCHANGED c2job
  PROVE  DmType' /\ G2Inv' /\ SignalsInv' /\ PendingInv'
PROOF
<1> DEFINE n == ChunkOf(d)
           over == d.rem <= G2Chunk
           mm == [a \in G2Cells |-> IF a \in d.dst .. d.dst + n - 1
                                    THEN d.src + (a - d.dst) ELSE g2mem[ch][a]]
           calls == dmcalls[G2Int(ch)]
           new == IF over THEN {G2Int(ch)} ELSE {}
<1>1. DmType /\ SignalsInv /\ PendingInv
  BY DEF DmInv
<1>2. ChannelInv(Stepped(d), IF over THEN 0 ELSE 1, mm, j, calls + (IF over THEN 1 ELSE 0))
  <2>1. calls \in Nat
    BY <1>1, IntsApart DEF PendingInv
  <2> HIDE DEF calls
  <2>2. j.starts = calls + 1
    BY DEF calls
  <2> QED
    BY <2>1, <2>2, StepKeeps
<1>3. /\ n \in Nat /\ Stepped(d) \in G2Regs /\ MovedBy(d, n).rem = d.rem - n
      /\ d.rem - n = 0 <=> over
  BY SteppedFields
<1>4. g2' = [g2 EXCEPT ![ch] = Stepped(d)]
  BY DEF G2Step, Stepped, MovedBy, ChunkOf
<1>5. g2mem' = [g2mem EXCEPT ![ch] = mm]
  BY <1>1 DEF G2Step, ChunkOf, DmType, G2Memory
<1>6. g2timers' = [g2timers EXCEPT ![ch] = IF over THEN 0 ELSE 1]
  <2>1. g2timers' = [g2timers EXCEPT ![ch] = g2timers[ch] - (IF fired THEN 1 ELSE 0)
                                                + (IF MovedBy(d, n).rem = 0 THEN 0 ELSE 1)]
    BY <1>1 DEF G2Step, MovedBy, ChunkOf, DmType
  <2>2. g2timers[ch] - (IF fired THEN 1 ELSE 0) + (IF MovedBy(d, n).rem = 0 THEN 0 ELSE 1)
          = IF over THEN 0 ELSE 1
    BY <1>3
  <2> QED
    BY <2>1, <2>2
<1>7. Raise(new)
  <2>1. Raise(IF MovedBy(d, n).rem = 0 THEN {G2Int(ch)} ELSE {})
    BY DEF G2Step, MovedBy, ChunkOf
  <2> QED
    BY <2>1, <1>3
<1>8. mm \in G2Memory
  <2>1. g2mem[ch] \in G2Memory
    BY <1>1 DEF DmType
  <2>2. d.dst \in Int /\ d.src \in Int /\ \A a \in G2Cells : a \in Int
    BY DmAssumption DEF G2Regs
  <2> QED
    BY <2>1, <2>2, <1>3 DEF G2Memory
<1> HIDE DEF n, over, mm, new
<1>9. DmType'
  BY <1>1, <1>3, <1>4, <1>5, <1>6, <1>8 DEF DmType, over
<1>10. PendingInv' /\ \A x \in DmInts : dmcalls'[x] = dmcalls[x] + (IF x \in new THEN 1 ELSE 0)
  BY <1>1, <1>7, RaiseKeeps
<1>11. \A x \in DmInts : dmcalls[x] \in Nat
  BY <1>1 DEF PendingInv
<1>12. \A x \in DmInts : x # G2Int(ch) => dmcalls'[x] = dmcalls[x]
  BY <1>10, <1>11 DEF new
<1>13. dmcalls'[G2Int(ch)] = calls + (IF over THEN 1 ELSE 0)
  BY <1>10, IntsApart DEF new
<1>14. SignalsInv'
  BY <1>1, <1>12, IntsApart DEF SignalsInv
<1>15. ASSUME NEW c \in G2Channels
       PROVE  ChannelInv(g2'[c], g2timers'[c], g2mem'[c], g2job'[c], dmcalls'[G2Int(c)])
  <2>1. CASE c = ch
    <3>1. /\ g2'[c] = Stepped(d) /\ g2timers'[c] = (IF over THEN 0 ELSE 1) /\ g2mem'[c] = mm
          /\ g2job'[c] = j
      BY <1>1, <1>4, <1>5, <1>6, <2>1 DEF DmType, over
    <3>2. dmcalls'[G2Int(c)] = calls + (IF over THEN 1 ELSE 0)
      BY <1>13, <2>1
    <3>3. ChannelInv(Stepped(d), IF over THEN 0 ELSE 1, mm, j, calls + (IF over THEN 1 ELSE 0))
      BY <1>2
    <3> HIDE DEF calls
    <3> QED
      BY <3>1, <3>2, <3>3
  <2>2. CASE c # ch
    <3>1. /\ g2'[c] = g2[c] /\ g2timers'[c] = g2timers[c] /\ g2mem'[c] = g2mem[c]
          /\ g2job'[c] = g2job[c]
      BY <1>1, <1>4, <1>5, <1>6, <2>2 DEF DmType
    <3>2. dmcalls'[G2Int(c)] = dmcalls[G2Int(c)]
      BY <1>12, <2>2, IntsApart
    <3>3. ChannelInv(g2[c], g2timers[c], g2mem[c], g2job[c], dmcalls[G2Int(c)])
      BY DEF DmInv, G2Inv
    <3> QED
      BY <3>1, <3>2, <3>3
  <2> QED
    BY <2>1, <2>2
<1>16. G2Inv'
  BY <1>15 DEF G2Inv
<1> QED
  BY <1>9, <1>10, <1>14, <1>16

(* Nothing has been transferred yet. *)
LEMMA DmInitInv == DmInit => DmInv
PROOF
<1> SUFFICES ASSUME DmInit PROVE DmInv
  OBVIOUS
<1> DEFINE d0 == [stag |-> 0, star |-> 0, len |-> 0, last |-> FALSE, en |-> FALSE, st |-> FALSE,
                  dst |-> 0, src |-> 0, rem |-> 0, restart |-> FALSE]
           m0 == [a \in G2Cells |-> -1]
           j0 == [stag |-> 0, star |-> 0, len |-> 0, before |-> m0, starts |-> 0]
<1>1. d0 \in G2Regs
  BY DEF G2Regs
<1>2. m0 \in G2Memory
  BY DEF G2Memory
<1>3. j0 \in G2Transfer
  BY <1>2 DEF G2Transfer
<1>4. m0 = After(j0, j0.len - 0)
  <2>1. \A a \in G2Cells : a \notin j0.stag .. j0.stag + (j0.len - 0) - 1
    BY DmAssumption
  <2> QED
    BY <2>1 DEF After
<1>5. ~d0.st /\ j0.starts = 0
  OBVIOUS
<1> HIDE DEF d0, m0, j0
<1>6. ChannelInv(d0, 0, m0, j0, 0)
  BY <1>4, <1>5 DEF ChannelInv
<1>7. /\ g2 = [ch \in G2Channels |-> d0] /\ g2timers = [ch \in G2Channels |-> 0]
      /\ g2mem = [ch \in G2Channels |-> m0] /\ g2job = [ch \in G2Channels |-> j0]
  BY DEF DmInit, d0, m0, j0
<1>8. DmType
  BY <1>1, <1>2, <1>3, <1>7 DEF DmType
<1>9. Channel2Type /\ Channel2Inv
  <2>1. <<>> \in Seq({})
    OBVIOUS
  <2> QED
    BY <2>1 DEF DmInit, Channel2Type, Channel2Inv
<1>10. \A x \in DmInts : dmcalls[x] = 0
  BY DEF DmInit
<1>11. SignalsInv
  BY <1>10, IntsApart DEF DmInit, SignalsInv
<1>12. PendingInv
  BY DEF DmInit, PendingInv
<1>13. G2Inv
  BY <1>6, <1>7, <1>10, IntsApart DEF G2Inv
<1> QED
  BY <1>8, <1>9, <1>11, <1>12, <1>13 DEF DmInv

(* A write to SB_ADST of a channel that is not running: the registers are  *)
(* latched and the first chunk moved, or the channel is not enabled.       *)
LEMMA StartKeeps ==
  ASSUME ~G2Pokes, DmInv, NEW ch \in G2Channels, NEW v \in BOOLEAN, WriteADST(ch, v)
  PROVE  DmInv'
PROOF
<1>1. /\ DmType /\ Channel2Type /\ Channel2Inv /\ SignalsInv /\ PendingInv
      /\ ChannelInv(g2[ch], g2timers[ch], g2mem[ch], g2job[ch], dmcalls[G2Int(ch)])
  BY DEF DmInv, G2Inv
<1> DEFINE r == g2[ch]
           d == [r EXCEPT !.st = r.st \/ v]
<1>2. r \in G2Regs /\ g2mem[ch] \in G2Memory /\ v /\ ~r.st
  BY <1>1 DEF DmType, WriteADST
<1>3. /\ g2timers[ch] = 0 /\ g2mem[ch] = After(g2job[ch], g2job[ch].len - 0)
      /\ g2job[ch].starts = dmcalls[G2Int(ch)] + 0
  BY <1>1, <1>2 DEF ChannelInv
<1>4. (r.st \/ v) = TRUE
  BY <1>2
<1>5. d = [r EXCEPT !.st = TRUE]
  BY <1>4
<1>6. [g2[ch] EXCEPT !.st = @ \/ v] = d
  BY <1>2 DEF G2Regs
<1> HIDE DEF d
<1>7. /\ d \in G2Regs /\ d.st = TRUE /\ d.stag = r.stag /\ d.star = r.star /\ d.len = r.len
      /\ d.en = r.en
  BY <1>2, <1>5 DEF G2Regs
<1>8. Channel2Type' /\ Channel2Inv' /\ UNCHANGED c2job
  BY <1>1 DEF Channel2Type, Channel2Inv, WriteADST
<1>9. CASE ~d.en
  <2>1. /\ g2' = [g2 EXCEPT ![ch] = [d EXCEPT !.st = FALSE]]
        /\ UNCHANGED <<g2timers, g2mem, g2job, dmist, dmcalls, dmacks>>
    BY <1>6, <1>9 DEF WriteADST
  <2>2. [d EXCEPT !.st = FALSE] = r
    <3>1. r.st = FALSE
      BY <1>2 DEF G2Regs
    <3> QED
      BY <1>2, <1>5, <3>1 DEF G2Regs
  <2>3. g2' = g2
    BY <1>1, <2>1, <2>2 DEF DmType
  <2> QED
    BY <2>1, <2>3, <1>8 DEF DmInv, DmType, G2Inv, SignalsInv, PendingInv
<1>10. CASE d.en
  <2> DEFINE l == G2Latch(d)
             j == [stag |-> d.stag, star |-> d.star, len |-> d.len, before |-> g2mem[ch],
                   starts |-> g2job[ch].starts + 1]
  <2>1. /\ l \in G2Regs /\ l.st = TRUE /\ l.rem = d.len /\ l.dst = d.stag /\ l.src = d.star
    <3>1. d.last \in BOOLEAN /\ (~d.last) \in BOOLEAN
      BY <1>7 DEF G2Regs
    <3> DEFINE x == ~d.last
    <3>2. l = [d EXCEPT !.dst = d.stag, !.src = d.star, !.rem = d.len, !.restart = x]
      BY DEF G2Latch
    <3> HIDE DEF x, l
    <3> QED
      BY <1>7, <3>1, <3>2 DEF G2Regs, x
  <2>2. d.len \in Nat /\ d.stag \in Int /\ d.star \in Int
    BY <1>7 DEF G2Regs
  <2>3. j \in G2Transfer
    <3>1. g2job[ch].starts + 1 \in Nat
      BY <1>1 DEF DmType, G2Transfer
    <3> QED
      BY <1>2, <2>2, <3>1 DEF G2Transfer
  <2>4. G2Step(ch, l, FALSE)
    BY <1>6, <1>10 DEF WriteADST
  <2>5. g2job' = [g2job EXCEPT ![ch] = j]
    <3>1. g2job' = [g2job EXCEPT ![ch] =
            [stag |-> d.stag, star |-> d.star, len |-> d.len, before |-> g2mem[ch],
             starts |-> @.starts + 1]]
      BY <1>6, <1>10 DEF WriteADST
    <3> QED
      BY <3>1, <1>1 DEF DmType
  <2>6. g2mem[ch] = After(j, j.len - l.rem)
    <3>1. j.len - l.rem = 0
      BY <2>1, <2>2
    <3>2. After(j, 0) = g2mem[ch]
      <4>1. \A a \in G2Cells : a \notin j.stag .. j.stag + 0 - 1
        BY <2>2, DmAssumption
      <4>2. After(j, 0) = [a \in G2Cells |-> j.before[a]]
        BY <4>1 DEF After
      <4> QED
        BY <4>2, <1>2 DEF G2Memory
    <3> QED
      BY <3>1, <3>2
  <2>7. /\ l.rem <= j.len /\ l.dst = j.stag + (j.len - l.rem) /\ l.src = j.star + (j.len - l.rem)
        /\ j.starts = dmcalls[G2Int(ch)] + 1
    <3>1. dmcalls[G2Int(ch)] \in Nat
      BY <1>1, IntsApart DEF PendingInv
    <3>2. j.starts = g2job[ch].starts + 1
      OBVIOUS
    <3>3. j.starts = dmcalls[G2Int(ch)] + 1
      BY <1>3, <3>1, <3>2
    <3> QED
      BY <2>1, <2>2, <3>3
  <2> HIDE DEF l, j
  <2>8. l.st
    BY <2>1
  <2>9. DmType' /\ G2Inv' /\ SignalsInv' /\ PendingInv'
    BY <1>3, <1>8, <2>1, <2>3, <2>4, <2>5, <2>6, <2>7, <2>8, G2StepKeeps
  <2> QED
    BY <2>9, <1>8 DEF DmInv
<1> QED
  BY <1>9, <1>10

(* The timer of a running channel. *)
LEMMA TimerKeeps ==
  ASSUME DmInv, NEW ch \in G2Channels, G2Timer(ch)
  PROVE  DmInv'
PROOF
<1>1. /\ DmType /\ Channel2Type /\ Channel2Inv /\ SignalsInv /\ PendingInv
      /\ ChannelInv(g2[ch], g2timers[ch], g2mem[ch], g2job[ch], dmcalls[G2Int(ch)])
  BY DEF DmInv, G2Inv
<1> DEFINE d == g2[ch]
           j == g2job[ch]
<1>2. d \in G2Regs /\ j \in G2Transfer /\ d.rem \in Nat /\ j.len \in Nat
  BY <1>1 DEF DmType, G2Regs, G2Transfer
<1>3. d.st
  BY <1>1 DEF G2Timer, ChannelInv
<1>4. /\ g2timers[ch] = 1 /\ j.starts = dmcalls[G2Int(ch)] + 1 /\ g2mem[ch] = After(j, j.len - d.rem) /\ d.rem <= j.len
      /\ d.dst = j.stag + (j.len - d.rem) /\ d.src = j.star + (j.len - d.rem)
  BY <1>1, <1>3 DEF ChannelInv
<1>5. g2job' = [g2job EXCEPT ![ch] = j] /\ UNCHANGED c2job
  BY <1>1 DEF G2Timer, DmType
<1>6. G2Step(ch, d, TRUE)
  BY DEF G2Timer
<1> HIDE DEF d, j
<1>7. DmType' /\ G2Inv' /\ SignalsInv' /\ PendingInv'
  BY <1>2, <1>3, <1>4, <1>5, <1>6, G2StepKeeps
<1>8. Channel2Type' /\ Channel2Inv'
  BY <1>1 DEF Channel2Type, Channel2Inv, G2Timer
<1> QED
  BY <1>7, <1>8 DEF DmInv

(* The registers that the guest writes at any time are not those that a    *)
(* running transfer counts with.                                           *)
LEMMA WriteKeeps ==
  ASSUME DmInv, NEW ch \in G2Channels, NEW jb \in G2Jobs, NEW en \in BOOLEAN, WriteG2(ch, jb, en)
  PROVE  DmInv'
PROOF
<1>1. DmType /\ Channel2Type /\ Channel2Inv /\ SignalsInv /\ PendingInv
  BY DEF DmInv
<1> DEFINE r == g2[ch]
           w == [r EXCEPT !.stag = jb.stag, !.star = jb.star, !.len = jb.len, !.last = jb.last, !.en = en]
<1>2. r \in G2Regs /\ jb \in [stag : Int, star : Int, len : Nat, last : BOOLEAN]
  BY <1>1, DmAssumption DEF DmType
<1>3. g2' = [g2 EXCEPT ![ch] = w]
  BY <1>1 DEF WriteG2, DmType
<1>4. w \in G2Regs /\ w.st = r.st /\ w.dst = r.dst /\ w.src = r.src /\ w.rem = r.rem
  BY <1>2 DEF G2Regs
<1> HIDE DEF w
<1>5. UNCHANGED <<g2timers, g2mem, g2job, c2, c2fifo, c2job, dmist, dmcalls, dmacks>>
  BY DEF WriteG2
<1>6. DmType' /\ Channel2Type' /\ Channel2Inv' /\ SignalsInv' /\ PendingInv'
  BY <1>1, <1>3, <1>4, <1>5 DEF DmType, Channel2Type, Channel2Inv, SignalsInv, PendingInv
<1>7. ASSUME NEW c \in G2Channels
      PROVE  ChannelInv(g2'[c], g2timers'[c], g2mem'[c], g2job'[c], dmcalls'[G2Int(c)])
  <2>1. ChannelInv(g2[c], g2timers[c], g2mem[c], g2job[c], dmcalls[G2Int(c)])
    BY DEF DmInv, G2Inv
  <2>2. /\ g2'[c].st = g2[c].st /\ g2'[c].dst = g2[c].dst /\ g2'[c].src = g2[c].src
        /\ g2'[c].rem = g2[c].rem
    BY <1>1, <1>3, <1>4 DEF DmType
  <2> QED
    BY <2>1, <2>2, <1>5 DEF ChannelInv
<1> QED
  BY <1>6, <1>7 DEF DmInv, G2Inv

(* A register of channel 2 is written. *)
LEMMA RegisterKeeps ==
  ASSUME DmInv, C2Written, Channel2Type', Channel2Inv', c2job'.starts = c2job.starts,
         c2job'.signals = c2job.signals
  PROVE  DmInv'
PROOF
  BY DEF DmInv, C2Written, DmType, G2Inv, SignalsInv, PendingInv

(* A write to SB_C2DST. *)
LEMMA Channel2Keeps ==
  ASSUME ~C2Differs, DmInv, WriteC2DST
  PROVE  DmInv'
PROOF
<1> DEFINE n == c2.c2dlen
           more == [i \in 1 .. n |-> c2job.next + i - 1]
           ints == {C2Int} \cup {x \in {TeInt} : c2.ie}
<1>1. DmType /\ G2Inv /\ Channel2Type /\ Channel2Inv /\ SignalsInv /\ PendingInv
  BY DEF DmInv
<1>2. /\ n \in Nat /\ c2.tcr = n /\ c2.sar = c2job.next /\ c2job.next \in Int /\ c2.ie \in BOOLEAN
      /\ c2job.starts \in Nat /\ c2job.signals \in Nat /\ c2fifo = c2job.asked
  BY <1>1 DEF WriteC2DST, Channel2Type, Channel2Inv
<1>3. PICK S : c2job \in [next : Int, asked : Seq(S), starts : Nat, signals : Nat]
  BY <1>1 DEF Channel2Type
<1>4. c2' = [c2 EXCEPT !.sar = c2.sar + n, !.tcr = 0, !.c2dlen = 0]
  BY <1>1, <1>2 DEF WriteC2DST, DmacDdt, Channel2Type
<1>5. c2fifo' = c2fifo \o more
  BY <1>2 DEF WriteC2DST, DmacDdt
<1>6. /\ c2job'.next = c2job.next + n /\ c2job'.asked = c2job.asked \o more
      /\ c2job'.starts = c2job.starts + 1 /\ c2job'.signals = c2job.signals + (IF c2.ie THEN 1 ELSE 0)
  BY DEF WriteC2DST
<1>7. c2' \in [sar : Int, tcr : Nat, ie : BOOLEAN, c2dlen : Nat] /\ c2'.sar = c2.sar + n
  <2>1. c2.sar + n \in Int /\ 0 \in Nat
    BY <1>2
  <2> HIDE DEF n
  <2> QED
    BY <1>1, <1>4, <2>1 DEF Channel2Type
<1>8. \E T : c2job' \in [next : Int, asked : Seq(T), starts : Nat, signals : Nat]
  <2> DEFINE T == S \cup Int
  <2>1. c2job.asked \in Seq(T) /\ more \in Seq(T)
    <3>1. c2job.asked \in Seq(S)
      BY <1>3
    <3> DEFINE q == c2job.asked
               x == c2job.next
    <3>2. x \in Int /\ more = [i \in 1 .. n |-> x + i - 1]
      BY <1>2
    <3> HIDE DEF n, q, x, more
    <3>3. q \in Seq(S) => q \in Seq(T)
      OBVIOUS
    <3>4. \A i \in 1 .. n : x + i - 1 \in T
      BY <1>2, <3>2
    <3>5. more \in Seq(T)
      BY <1>2, <3>2, <3>4
    <3> QED
      BY <3>1, <3>3, <3>5 DEF q
  <2> HIDE DEF T
  <2>2. c2job.asked \o more \in Seq(T)
    BY <2>1
  <2>3. c2job.next + n \in Int /\ c2job.starts + 1 \in Nat
        /\ c2job.signals + (IF c2.ie THEN 1 ELSE 0) \in Nat
    BY <1>2
  <2>4. c2job' \in [next : Int, asked : Seq(T), starts : Nat, signals : Nat]
    BY <2>2, <2>3 DEF WriteC2DST
  <2> QED
    BY <2>4
<1>9. Channel2Type' /\ Channel2Inv'
  BY <1>2, <1>5, <1>6, <1>7, <1>8 DEF Channel2Type, Channel2Inv
<1>10. Raise(ints)
  BY DEF WriteC2DST
<1>11. C2Int \in ints /\ (TeInt \in ints <=> c2.ie) /\ \A ch \in G2Channels : G2Int(ch) \notin ints
  BY IntsApart
<1> HIDE DEF ints
<1>12. PendingInv' /\ \A x \in DmInts : dmcalls'[x] = dmcalls[x] + (IF x \in ints THEN 1 ELSE 0)
  BY <1>1, <1>10, RaiseKeeps
<1>13. \A x \in DmInts : dmcalls[x] \in Nat
  BY <1>1 DEF PendingInv
<1>14. SignalsInv'
  <2>1. dmcalls'[C2Int] = dmcalls[C2Int] + 1 /\ dmcalls'[TeInt] = dmcalls[TeInt] + (IF c2.ie THEN 1 ELSE 0)
    BY <1>11, <1>12, IntsApart
  <2> QED
    BY <1>1, <1>6, <2>1 DEF SignalsInv
<1>15. \A ch \in G2Channels : dmcalls'[G2Int(ch)] = dmcalls[G2Int(ch)]
  BY <1>11, <1>12, <1>13, IntsApart
<1>16. DmType' /\ G2Inv'
  <2>1. UNCHANGED <<g2, g2timers, g2mem, g2job>>
    BY DEF WriteC2DST
  <2>2. DmType'
    BY <1>1, <2>1 DEF DmType
  <2>3. G2Inv'
    BY <1>1, <1>15, <2>1 DEF G2Inv
  <2> QED
    BY <2>2, <2>3
<1> QED
  BY <1>9, <1>12, <1>14, <1>16 DEF DmInv

(* The guest clears interrupts. *)
LEMMA AckKeeps ==
  ASSUME DmInv, NEW ints \in SUBSET (dmist \ {TeInt}), AckDmas(ints)
  PROVE  DmInv'
PROOF
<1>1. /\ dmist' = dmist \ ints /\ dmcalls' = dmcalls
      /\ dmacks' = [x \in DmInts |-> IF x \in ints THEN dmcalls[x] ELSE dmacks[x]]
      /\ UNCHANGED <<g2, g2timers, g2mem, g2job, c2, c2fifo, c2job>>
  BY DEF AckDmas
<1>2. PendingInv
  BY DEF DmInv
<1>3. dmacks' \in [DmInts -> Nat] /\ dmcalls' \in [DmInts -> Nat]
  BY <1>1, <1>2 DEF PendingInv
<1>4. ASSUME NEW x \in DmInts
      PROVE  dmacks'[x] <= dmcalls'[x] /\ (x \in dmist' <=> dmcalls'[x] > dmacks'[x])
  <2>1. /\ dmcalls[x] \in Nat /\ dmacks[x] \in Nat /\ dmacks[x] <= dmcalls[x]
        /\ x \in dmist <=> dmcalls[x] > dmacks[x]
    BY <1>2 DEF PendingInv
  <2>2. dmacks'[x] = IF x \in ints THEN dmcalls[x] ELSE dmacks[x]
    BY <1>1
  <2> QED
    BY <1>1, <2>1, <2>2
<1>5. PendingInv'
  BY <1>3, <1>4 DEF PendingInv
<1>6. DmType' /\ G2Inv' /\ Channel2Type' /\ Channel2Inv' /\ SignalsInv'
  BY <1>1 DEF DmInv, DmType, G2Inv, Channel2Type, Channel2Inv, SignalsInv
<1> QED
  BY <1>5, <1>6 DEF DmInv

(* Every step keeps the invariant. *)
LEMMA DmStep == ~G2Pokes /\ ~C2Differs /\ DmInv /\ [DmNext]_dmvars => DmInv'
PROOF
<1> SUFFICES ASSUME ~G2Pokes, ~C2Differs, DmInv, [DmNext]_dmvars PROVE DmInv'
  OBVIOUS
<1>1. Channel2Type /\ Channel2Inv
  BY DEF DmInv
<1>2. CASE UNCHANGED dmvars
  BY <1>2 DEF dmvars, DmInv, DmType, G2Inv, Channel2Type, Channel2Inv, SignalsInv, PendingInv
<1>3. CASE \E ch \in G2Channels, v \in BOOLEAN : WriteADST(ch, v)
  BY <1>3, StartKeeps
<1>4. CASE \E ch \in G2Channels : G2Timer(ch)
  BY <1>4, TimerKeeps
<1>5. CASE \E ch \in G2Channels, j \in G2Jobs, en \in BOOLEAN : WriteG2(ch, j, en)
  BY <1>5, WriteKeeps
<1>6. CASE WriteSAR2(0)
  <2> DEFINE a == 0
  <2>1. a \in Int /\ c2' = [c2 EXCEPT !.sar = a] /\ c2job' = [c2job EXCEPT !.next = a] /\ C2Written
    BY <1>6 DEF WriteSAR2
  <2> HIDE DEF a
  <2>2. c2fifo' = c2fifo
    BY <2>1 DEF C2Written
  <2>3. /\ Channel2Type' /\ Channel2Inv'
        /\ c2job'.starts = c2job.starts /\ c2job'.signals = c2job.signals
    BY <1>1, <2>1, <2>2 DEF Channel2Type, Channel2Inv
  <2> QED
    BY <2>1, <2>3, RegisterKeeps
<1>7. CASE \E count \in C2Counts, ie \in BOOLEAN : WriteC2(count, ie)
  <2>1. PICK count \in Nat, ie \in BOOLEAN : WriteC2(count, ie)
    BY <1>7, DmAssumption
  <2>2. c2' = [c2 EXCEPT !.tcr = count, !.ie = ie] /\ c2job' = c2job /\ C2Written
    BY <2>1 DEF WriteC2
  <2>3. c2fifo' = c2fifo
    BY <2>2 DEF C2Written
  <2>4. Channel2Type' /\ Channel2Inv'
    BY <1>1, <2>2, <2>3 DEF Channel2Type, Channel2Inv
  <2> QED
    BY <2>2, <2>4, RegisterKeeps
<1>8. CASE \E len \in C2Counts : WriteC2DLEN(len)
  <2>1. PICK len \in Nat : WriteC2DLEN(len)
    BY <1>8, DmAssumption
  <2>2. c2' = [c2 EXCEPT !.c2dlen = len] /\ c2job' = c2job /\ C2Written
    BY <2>1 DEF WriteC2DLEN
  <2>3. c2fifo' = c2fifo
    BY <2>2 DEF C2Written
  <2>4. Channel2Type' /\ Channel2Inv'
    BY <1>1, <2>2, <2>3 DEF Channel2Type, Channel2Inv
  <2> QED
    BY <2>2, <2>4, RegisterKeeps
<1>9. CASE WriteC2DST
  BY <1>9, Channel2Keeps
<1>10. CASE \E ints \in SUBSET (dmist \ {TeInt}) : AckDmas(ints)
  BY <1>10, AckKeeps
<1> QED
  BY <1>2, <1>3, <1>4, <1>5, <1>6, <1>7, <1>8, <1>9, <1>10 DEF DmNext

(* The invariant says that transfers are exact. *)
LEMMA InvExact == DmInv => DmaExact
PROOF
<1> SUFFICES ASSUME DmInv PROVE DmaExact
  OBVIOUS
<1>1. c2fifo = c2job.asked /\ SignalsInv /\ PendingInv
  BY DEF DmInv, Channel2Inv
<1>2. ASSUME NEW ch \in G2Channels
      PROVE  /\ g2timers[ch] = IF g2[ch].st THEN 1 ELSE 0
             /\ g2job[ch].starts = dmcalls[G2Int(ch)] + IF g2[ch].st THEN 1 ELSE 0
             /\ Moved(ch)
  BY DEF DmInv, G2Inv, ChannelInv, Moved, After
<1> QED
  BY <1>1, <1>2 DEF DmaExact, SignalsInv, PendingInv

(* Whatever the chunk, the channels, the transfers and the order of writes *)
(* and timers, a G2 transfer moves what its registers said when it was     *)
(* started, with one timer while it runs; channel 2 moves what Holly was   *)
(* asked for, once; and each transfer raises its interrupt once, when all  *)
(* is moved, which is pending until the guest clears it (holly_g2_dma,     *)
(* holly_g2_dma_timer_channel, holly_ch2_dma, sh4_dmac_ddt).  The guest is *)
(* assumed to leave SB_ADST alone while it reads as 1, and to start        *)
(* channel 2 with DMATCR2, which is what the code goes by, and SB_C2DLEN,  *)
(* which it does not look at, saying the same.                             *)
THEOREM TransfersExact ==
  ASSUME ~G2Pokes, ~C2Differs
  PROVE  DmSpec => []DmaExact
PROOF
<1>1. DmInit => DmInv
  BY DmInitInv
<1>2. DmInv /\ [DmNext]_dmvars => DmInv'
  BY DmStep
<1>3. DmInv => DmaExact
  BY InvExact
<1> QED
  BY <1>1, <1>2, <1>3, PTL DEF DmSpec

-----------------------------------------------------------------------------
(* The maple bus: addresses of a card's file *)

\* struct maple_cond, what the host last said of a pad, a card and its file.
MpCond == [buttons : [MpButtons -> 0 .. 1], trig : 0 .. 255, joy : 0 .. 255]
MpHeld == [down : SUBSET MpButtons, joy : Int, trig : Nat]
MpCard == [0 .. MpBlocks - 1 -> [0 .. 3 -> Int]]
MpFile == [0 .. MpFileSize - 1 -> Int]

\* Every quarter of every block is in the file where BLK_OFFSET has it.
FileHolds(file, card) ==
  \A b \in 0 .. MpBlocks - 1, q \in 0 .. 3, w \in 0 .. MpWords - 1 :
    file[(b * 4 + q) * MpWords + w] = card[b][q]

(* BLK_OFFSET counts quarters. *)
LEMMA OffsetOfQuarter ==
  ASSUME NEW b \in Nat, NEW q \in Nat
  PROVE  BlkOffset(b, q) = (b * 4 + q) * MpWords
PROOF
  BY MpAssumption DEF BlkOffset

(* Every word of a quarter of a card is in its file. *)
LEMMA WordInFile ==
  ASSUME NEW b \in 0 .. MpBlocks - 1, NEW q \in 0 .. 3, NEW w \in 0 .. MpWords - 1
  PROVE  (b * 4 + q) * MpWords + w \in 0 .. MpFileSize - 1
PROOF
<1>1. MpWords \in Nat /\ MpBlocks \in Nat /\ MpWords > 0
  BY MpAssumption
<1> DEFINE k == b * 4 + q
<1>2. k \in Nat /\ k + 1 <= MpBlocks * 4
  BY <1>1
<1>3. \A x, y, z \in Nat : x <= y => x * z <= y * z
  OBVIOUS
<1>4. (k + 1) * MpWords <= (MpBlocks * 4) * MpWords
  BY <1>1, <1>2, <1>3
<1>5. (k + 1) * MpWords = k * MpWords + MpWords /\ k * MpWords \in Nat
  BY <1>1, <1>2
<1> QED
  BY <1>1, <1>4, <1>5 DEF MpFileSize

(* The words of one quarter are those of no other. *)
LEMMA QuartersApart ==
  ASSUME NEW k \in Nat, NEW l \in Nat, NEW w \in 0 .. MpWords - 1
  PROVE  k * MpWords + w \in l * MpWords .. l * MpWords + MpWords - 1 <=> k = l
PROOF
<1>1. MpWords \in Nat /\ MpWords > 0
  BY MpAssumption
<1>2. \A x, y, z \in Nat : x < y => x * z + z <= y * z
  <2>1. \A x, y, z \in Nat : x <= y => x * z <= y * z
    OBVIOUS
  <2>2. \A x, z \in Nat : (x + 1) * z = x * z + z /\ x + 1 \in Nat
    OBVIOUS
  <2> QED
    BY <2>1, <2>2
<1>3. k * MpWords \in Nat /\ l * MpWords \in Nat
  BY <1>1
<1>4. CASE k < l
  BY <1>1, <1>2, <1>3, <1>4
<1>5. CASE l < k
  BY <1>1, <1>2, <1>3, <1>5
<1>6. CASE k = l
  BY <1>1, <1>3, <1>6
<1> QED
  BY <1>4, <1>5, <1>6

(* The bytes of a block parameter give the block and the phase back. *)
LEMMA ParamsParse ==
  ASSUME NEW b \in Nat, NEW q
  PROVE  LET at == ParseBlockParam(BlockParam(b, q))
         IN  at.partition = 0 /\ at.phase = q /\ at.block = b
PROOF
<1>1. MpByte \in Nat \ {0}
  BY MpAssumption
<1>2. b = MpByte * (b \div MpByte) + (b % MpByte) /\ b \div MpByte \in Int /\ b % MpByte \in Int
  BY <1>1
<1>3. \A x, y \in Int : x * y = y * x
  OBVIOUS
<1>4. (b \div MpByte) * MpByte + (b % MpByte) = b
  <2>1. (b \div MpByte) * MpByte = MpByte * (b \div MpByte)
    BY <1>1, <1>2, <1>3
  <2> QED
    BY <1>2, <2>1
<1>5. BlockParam(b, q)[1] = 0 /\ BlockParam(b, q)[2] = q
      /\ BlockParam(b, q)[3] = b \div MpByte /\ BlockParam(b, q)[4] = b % MpByte
  BY DEF BlockParam
<1>6. ParseBlockParam(BlockParam(b, q)) =
        [partition |-> 0, phase |-> q, block |-> (b \div MpByte) * MpByte + (b % MpByte)]
  BY <1>5 DEF ParseBlockParam
<1> QED
  BY <1>4, <1>6

(* Writing a quarter to the file changes that quarter and no other. *)
LEMMA QuarterWritten ==
  ASSUME NEW file \in MpFile, NEW card \in MpCard, NEW stamp \in Int,
         NEW b \in 0 .. MpBlocks - 1, NEW q \in 0 .. 3, FileHolds(file, card)
  PROVE  FileHolds(QuarterAt(file, BlkOffset(b, q), stamp), [card EXCEPT ![b][q] = stamp])
PROOF
<1> DEFINE off == BlkOffset(b, q)
           written == QuarterAt(file, off, stamp)
           marked == [card EXCEPT ![b][q] = stamp]
<1>1. b \in Nat /\ q \in Nat
  BY MpAssumption
<1>a. off = (b * 4 + q) * MpWords
  BY <1>1, OffsetOfQuarter
<1>2. ASSUME NEW c \in 0 .. MpBlocks - 1, NEW r \in 0 .. 3, NEW w \in 0 .. MpWords - 1
      PROVE  written[(c * 4 + r) * MpWords + w] = marked[c][r]
  <2> DEFINE a == (c * 4 + r) * MpWords + w
  <2>1. a \in 0 .. MpFileSize - 1 /\ file[a] = card[c][r]
    BY WordInFile DEF FileHolds
  <2>2. c * 4 + r \in Nat /\ b * 4 + q \in Nat
    BY MpAssumption
  <2>3. a \in off .. off + MpWords - 1 <=> c * 4 + r = b * 4 + q
    BY <1>a, <2>2, QuartersApart
  <2>4. c * 4 + r = b * 4 + q <=> c = b /\ r = q
    BY MpAssumption
  <2>5. marked[c][r] = IF c = b /\ r = q THEN stamp ELSE card[c][r]
    BY DEF MpCard
  <2>6. written[a] = IF a \in off .. off + MpWords - 1 THEN stamp ELSE file[a]
    BY <2>1 DEF QuarterAt
  <2> QED
    BY <2>1, <2>3, <2>4, <2>5, <2>6
<1>3. FileHolds(written, marked)
  BY <1>2 DEF FileHolds
<1> QED
  BY <1>3

(* A block that is read is the four quarters of the card. *)
LEMMA BlockRead ==
  ASSUME NEW file \in MpFile, NEW card \in MpCard, NEW b \in 0 .. MpBlocks - 1,
         FileHolds(file, card)
  PROVE  [i \in 1 .. 4 * MpWords |-> file[BlkOffset(b, 0) + i - 1]]
           = [i \in 1 .. 4 * MpWords |-> card[b][(i - 1) \div MpWords]]
PROOF
<1>1. MpWords \in Nat \ {0} /\ b \in Nat /\ BlkOffset(b, 0) = (b * 4) * MpWords
  BY OffsetOfQuarter, MpAssumption
<1>2. ASSUME NEW i \in 1 .. 4 * MpWords
      PROVE  file[BlkOffset(b, 0) + i - 1] = card[b][(i - 1) \div MpWords]
  <2> DEFINE q == (i - 1) \div MpWords
             w == (i - 1) % MpWords
  <2>1. i - 1 = MpWords * q + w /\ q \in Int /\ w \in 0 .. MpWords - 1 /\ i - 1 \in Nat
    BY <1>1
  <2>2. q \in 0 .. 3
    <3>1. i - 1 < 4 * MpWords
      BY <1>1
    <3>2. ASSUME q < 0 PROVE FALSE
      <4>1. \A x, y \in Int : x > 0 /\ y < 0 => x * y + x <= 0
        OBVIOUS
      <4> QED
        BY <1>1, <2>1, <3>2, <4>1
    <3>3. ASSUME q > 3 PROVE FALSE
      <4>1. \A x, y \in Int : x > 0 /\ y > 3 => x * y >= 4 * x
        OBVIOUS
      <4> QED
        BY <1>1, <2>1, <3>1, <3>3, <4>1
    <3> QED
      BY <2>1, <3>2, <3>3
  <2>3. file[(b * 4 + q) * MpWords + w] = card[b][q]
    BY <2>1, <2>2 DEF FileHolds
  <2>4. \A x, y, z, u \in Int : (x + y) * z + u = x * z + (z * y + u)
    OBVIOUS
  <2>5. (b * 4 + q) * MpWords + w = BlkOffset(b, 0) + i - 1
    <3>1. (b * 4 + q) * MpWords + w = (b * 4) * MpWords + (MpWords * q + w)
      BY <1>1, <2>1, <2>4
    <3>2. (b * 4) * MpWords \in Int
      BY <1>1
    <3> QED
      BY <1>1, <2>1, <3>1, <3>2
  <2> QED
    BY <2>3, <2>5
<1> QED
  BY <1>2

-----------------------------------------------------------------------------
(* The maple bus: what the devices answer *)

(* Each frame is for the unit it names, or for the main device with it. *)
LEMMA UnitNamed ==
  ASSUME NEW f \in MpFrames
  PROVE  /\ DecodeUnit(f.dst) \in Connected <=> f.dst \cap Connected # {}
         /\ DecodeUnit(f.dst) = 0 <=> f.dst = {0}
         /\ DecodeUnit(f.dst) = MpMain <=> MpMain \in f.dst
PROOF
<1>1. PICK u \in 0 .. MpMain : f.dst \in {{u}, {u, MpMain}}
  BY MpFramesAssumption
<1> DEFINE S == f.dst \cup {0}
           top == IF MpMain \in f.dst THEN MpMain ELSE u
<1>2. top \in S /\ \A x \in S : x \in 0 .. MpMain /\ top >= x
  BY <1>1 DEF MpMain
<1>3. \A x \in S : (\A y \in S : x >= y) => x = top
  BY <1>2 DEF MpMain
<1> HIDE DEF S, top
<1>4. (CHOOSE x \in S : \A y \in S : x >= y) = top
  BY <1>2, <1>3
<1>5. DecodeUnit(f.dst) = top
  BY <1>4 DEF DecodeUnit, Max, S
<1> USE DEF top, MpMain, Connected
<1>6. CASE f.dst = {u}
  BY <1>5, <1>6
<1>7. CASE f.dst = {u, MpMain}
  BY <1>5, <1>7
<1> QED
  BY <1>1, <1>6, <1>7

\* What a card with that file has to answer to frame f: it fails no CHECK, writes
\* the quarter it is told to and nothing else, and reads a whole block.
CardDoes(r, f, file, stamp) ==
  /\ r.fatal = FALSE /\ r.cmd # "NONE"
  /\ f.cmd = "BLKWRITE" /\ f.fn = "MEMCARD" =>
       r.cmd = "ACK" /\ r.file = QuarterAt(file, BlkOffset(f.block, f.phase), stamp)
  /\ ~(f.cmd = "BLKWRITE" /\ f.fn = "MEMCARD") => r.file = file
  /\ f.cmd = "BLKREAD" => r.data = [i \in 1 .. 4 * MpWords |-> file[BlkOffset(f.block, 0) + i - 1]]

(* That is what vmu_frame does. *)
LEMMA CardAnswers ==
  ASSUME NEW f \in MpFrames, NEW file \in MpFile, NEW stamp \in Int
  PROVE  CardDoes(VmuFrame(f, file, stamp), f, file, stamp)
PROOF
<1> DEFINE at == ParseBlockParam(BlockParam(f.block, f.phase))
           off == BlkOffset(f.block, f.phase)
           r == VmuFrame(f, file, stamp)
           Answer(cmd, data) == [cmd |-> cmd, data |-> data, file |-> file, fatal |-> FALSE]
<1>1. /\ f.block \in 0 .. MpBlocks - 1 /\ f.phase \in 0 .. 3
      /\ f.cmd \in {"GETMEMINFO", "BLKREAD"} => f.fn = "MEMCARD"
      /\ f.cmd = "BLKREAD" => f.phase = 0
  BY MpFramesAssumption
<1>2. f.block \in Nat
  BY <1>1, MpAssumption
<1>3. at.partition = 0 /\ at.phase = f.phase /\ at.block = f.block
  BY <1>2, ParamsParse
<1>4. off \in Int /\ MpFileSize \in Int
  <2>1. f.phase \in Nat
    BY <1>1
  <2>2. off = (f.block * 4 + f.phase) * MpWords
    BY <1>2, <2>1, OffsetOfQuarter
  <2> QED
    BY <1>2, <2>1, <2>2, MpAssumption DEF MpFileSize
<1>5. f.cmd = "BLKREAD" => off + 4 * MpWords <= MpFileSize
  <2> SUFFICES ASSUME f.phase = 0 PROVE off + 4 * MpWords <= MpFileSize
    BY <1>1
  <2>1. MpWords \in Nat \ {0}
    BY MpAssumption
  <2>2. (f.block * 4 + 3) * MpWords + (MpWords - 1) \in 0 .. MpFileSize - 1
    <3>1. MpWords - 1 \in 0 .. MpWords - 1
      BY <2>1
    <3> QED
      BY <1>1, <3>1, WordInFile
  <2>3. off = (f.block * 4) * MpWords
    <3>1. off = (f.block * 4 + 0) * MpWords
      BY <1>2, OffsetOfQuarter
    <3> QED
      BY <1>2, <3>1
  <2>4. \A x, y \in Nat : (x + 3) * y = x * y + 3 * y /\ x * y \in Nat
    OBVIOUS
  <2>5. (f.block * 4 + 3) * MpWords = (f.block * 4) * MpWords + 3 * MpWords
    BY <1>2, <2>1, <2>4
  <2> QED
    BY <1>4, <2>1, <2>2, <2>3, <2>5
<1> HIDE DEF at, off
<1>6. CASE f.cmd = "DEVINFO"
  <2>1. r = Answer("DEVINFO", <<"vmu">>)
    BY <1>6 DEF VmuFrame
  <2> QED
    BY <1>6, <2>1 DEF CardDoes
<1>7. CASE f.cmd = "GETMEMINFO"
  <2>1. r = Answer("TRANSFER", <<"meminfo">>)
    BY <1>1, <1>7 DEF VmuFrame
  <2> QED
    BY <1>7, <2>1 DEF CardDoes
<1>8. CASE f.cmd = "BLKREAD"
  <2>1. BlkOffset(at.block, at.phase) = off /\ off = BlkOffset(f.block, 0)
    BY <1>1, <1>3, <1>8 DEF off
  <2>2. ~(f.fn # "MEMCARD" \/ at.partition # 0 \/ at.phase # 0 \/ BlkOffset(at.block, at.phase) + 4 * MpWords > MpFileSize)
    <3>1. 4 * MpWords \in Int
      BY MpAssumption
    <3> QED
      BY <1>1, <1>3, <1>4, <1>5, <1>8, <2>1, <3>1
  <2>3. r = Answer("TRANSFER", [i \in 1 .. 4 * MpWords |-> file[BlkOffset(at.block, at.phase) + i - 1]])
    BY <1>8, <2>2 DEF VmuFrame, at
  <2> QED
    BY <1>8, <2>1, <2>3 DEF CardDoes
<1>9. CASE f.cmd = "BLKWRITE" /\ f.fn = "MEMCARD"
  <2>1. BlkOffset(at.block, at.phase) = off
    BY <1>3 DEF off
  <2>2. r = [cmd |-> "ACK", data |-> <<>>,
             file |-> QuarterAt(file, BlkOffset(at.block, at.phase), stamp), fatal |-> FALSE]
    BY <1>3, <1>9 DEF VmuFrame, at
  <2>3. r.fatal = FALSE /\ r.cmd = "ACK" /\ r.file = QuarterAt(file, BlkOffset(at.block, at.phase), stamp)
    BY <2>2
  <2> QED
    BY <1>9, <2>1, <2>3 DEF off, CardDoes
<1>10. CASE f.cmd = "BLKWRITE" /\ f.fn # "MEMCARD"
  <2>1. r = Answer(IF f.fn = "LCD" THEN "ACK" ELSE "BADFUNC", <<>>)
    BY <1>10 DEF VmuFrame
  <2> QED
    BY <1>10, <2>1 DEF CardDoes
<1>11. CASE f.cmd = "BLKSYNC"
  <2>1. r = Answer("ACK", <<>>)
    BY <1>11 DEF VmuFrame
  <2> QED
    BY <1>11, <2>1 DEF CardDoes
<1>12. CASE f.cmd = "SETCOND"
  <2>1. r = Answer(IF f.fn = "CLOCK" THEN "ACK" ELSE "BADFUNC", <<>>)
    BY <1>12 DEF VmuFrame
  <2> QED
    BY <1>12, <2>1 DEF CardDoes
<1>13. CASE f.cmd \notin {"DEVINFO", "GETMEMINFO", "BLKREAD", "BLKWRITE", "BLKSYNC", "SETCOND"}
  <2>1. r = Answer("BADCMD", <<>>)
    BY <1>13 DEF VmuFrame
  <2> QED
    BY <1>13, <2>1 DEF CardDoes
<1> QED
  BY <1>6, <1>7, <1>8, <1>9, <1>10, <1>11, <1>12, <1>13

-----------------------------------------------------------------------------
(* The maple bus: the steps *)

\* A sequence, whatever its elements.
IsSequence(s) == \E S : s \in Seq(S)

MapleType ==
  /\ mpcnd \in [MpPorts -> MpCond] /\ mpheld \in [MpPorts -> MpHeld]
  /\ mpfile \in [MpPorts -> MpFile] /\ mpcard \in [MpPorts -> MpCard]
  /\ mplist \in Seq(MpFrames) /\ mpsent \in Seq(MpFrames)
  /\ IsSequence(mpres) /\ Len(mpres) = Len(mpsent)
  /\ mpcount \in [frames : Nat, inputs : Nat]

\* The copy of a controller's state is made for the frame in hand.
CopyOfFrame ==
  mpcopy # <<>> =>
    mplist # <<>> /\ DecodeUnit(Head(mplist).dst) = MpMain /\ Head(mplist).cmd = "GETCOND"

FilesHold == \A p \in MpPorts : FileHolds(mpfile[p], mpcard[p])

\* The inductive invariant.
MapleInv ==
  /\ MapleType /\ CopyOfFrame /\ FilesHold
  /\ ~mpfatal /\ (mpres # <<>> => LastAnswer) /\ PadsExact

(* The frame in hand is one of the guest's. *)
LEMMA FrameInHand ==
  ASSUME MapleType, mplist # <<>>
  PROVE  /\ Head(mplist) \in MpFrames /\ Tail(mplist) \in Seq(MpFrames)
         /\ Head(mplist).port \in MpPorts
         /\ Head(mplist).block \in 0 .. MpBlocks - 1 /\ Head(mplist).phase \in 0 .. 3
PROOF
<1>1. Head(mplist) \in MpFrames /\ Tail(mplist) \in Seq(MpFrames)
  BY DEF MapleType
<1> QED
  BY <1>1, MpFramesAssumption

(* An answer becomes the last one, for the frame that was in hand. *)
LEMMA AnswerIsLast ==
  ASSUME MapleType, mplist # <<>>, NEW r, Answered(r)
  PROVE  /\ mplist' \in Seq(MpFrames) /\ mpsent' \in Seq(MpFrames)
         /\ IsSequence(mpres') /\ Len(mpres') = Len(mpsent')
         /\ mpsent'[Len(mpsent')] = Head(mplist) /\ mpres'[Len(mpres')] = r
PROOF
<1>1. PICK S : mpres \in Seq(S)
  BY DEF MapleType, IsSequence
<1> DEFINE T == S \cup {r}
<1>2. mpres \in Seq(T) /\ r \in T
  BY <1>1
<1> HIDE DEF T
<1>3. mpsent \in Seq(MpFrames) /\ Head(mplist) \in MpFrames /\ Len(mpres) = Len(mpsent)
  BY FrameInHand DEF MapleType
<1>4. /\ Append(mpres, r) \in Seq(T) /\ Len(Append(mpres, r)) = Len(mpres) + 1
      /\ Append(mpres, r)[Len(mpres) + 1] = r
  BY <1>2
<1>5. /\ mpsent' \in Seq(MpFrames) /\ Len(mpsent') = Len(mpsent) + 1
      /\ mpsent'[Len(mpsent) + 1] = Head(mplist)
  BY <1>3 DEF Answered
<1> QED
  BY <1>3, <1>4, <1>5, FrameInHand DEF Answered, IsSequence

(* What a step leaves alone of the answers stays right. *)
LEMMA AnswersKept ==
  ASSUME MapleInv, UNCHANGED <<mpres, mpsent, mpcard>>
  PROVE  mpres' # <<>> => LastAnswer'
PROOF
  BY DEF MapleInv, LastAnswer, RightAnswer

(* A step that answers a frame, without changing a card or a controller. *)
LEMMA AnswerStep ==
  ASSUME MapleInv, mplist # <<>>, NEW r, Answered(r), RightAnswer(Head(mplist), r, mpcard),
         UNCHANGED <<mpcnd, mpfile, mpfatal, mpcard, mpheld, mpcount>>, mpcopy' = <<>>
  PROVE  MapleInv'
PROOF
<1>1. MapleType
  BY DEF MapleInv
<1>2. /\ mplist' \in Seq(MpFrames) /\ mpsent' \in Seq(MpFrames)
      /\ IsSequence(mpres') /\ Len(mpres') = Len(mpsent')
      /\ mpsent'[Len(mpsent')] = Head(mplist) /\ mpres'[Len(mpres')] = r
  BY <1>1, AnswerIsLast
<1>3. MapleType'
  BY <1>1, <1>2 DEF MapleType
<1>4. CopyOfFrame'
  BY DEF CopyOfFrame
<1>5. FilesHold'
  BY DEF MapleInv, FilesHold
<1>6. LastAnswer'
  BY <1>2 DEF LastAnswer
<1>7. PadsExact'
  BY DEF MapleInv, PadsExact, SpansByte
<1> QED
  BY <1>3, <1>4, <1>5, <1>6, <1>7 DEF MapleInv

(* The first state. *)
LEMMA MapleInitInv == MpInit => MapleInv
PROOF
<1> SUFFICES ASSUME MpInit PROVE MapleInv
  OBVIOUS
<1>1. 0 \in Int /\ 0 \in Nat /\ 0 \in 0 .. 255 /\ 128 \in 0 .. 255 /\ 1 \in 0 .. 1
  OBVIOUS
<1>2. DefaultCond \in MpCond
  BY <1>1 DEF DefaultCond, MpCond
<1>3. MapleType
  <2>1. mpcnd \in [MpPorts -> MpCond]
    BY <1>2 DEF MpInit
  <2>2. mpheld \in [MpPorts -> MpHeld]
    BY <1>1 DEF MpInit, MpHeld
  <2>3. mpfile \in [MpPorts -> MpFile] /\ mpcard \in [MpPorts -> MpCard]
    BY <1>1 DEF MpInit, MpFile, MpCard
  <2>4. <<>> \in Seq(MpFrames) /\ IsSequence(<<>>)
    BY DEF IsSequence
  <2> QED
    BY <2>1, <2>2, <2>3, <2>4 DEF MapleType, MpInit
<1>4. FilesHold
  BY WordInFile DEF FilesHold, FileHolds, MpInit
<1>5. PadsExact
  BY DEF PadsExact, SpansByte, MpInit, DefaultCond
<1> QED
  BY <1>3, <1>4, <1>5 DEF MapleInv, CopyOfFrame, MpInit

(* A list begins, or the process does. *)
LEMMA ListBegins ==
  ASSUME MapleInv, NEW list \in Seq(MpFrames), StartMapleDma(list)
  PROVE  MapleInv'
PROOF
<1>1. IsSequence(<<>>) /\ Len(<<>>) = 0 /\ Len(list) \in Nat /\ <<>> \in Seq(MpFrames)
  BY DEF IsSequence
<1>2. mpcount' \in [frames : Nat, inputs : Nat]
  BY <1>1 DEF MapleInv, MapleType, StartMapleDma
<1>3. MapleType'
  BY <1>1, <1>2 DEF MapleInv, MapleType, StartMapleDma
<1>4. CopyOfFrame'
  BY DEF MapleInv, CopyOfFrame, StartMapleDma
<1>5. FilesHold' /\ PadsExact'
  BY DEF MapleInv, FilesHold, PadsExact, SpansByte, StartMapleDma
<1> QED
  BY <1>3, <1>4, <1>5 DEF MapleInv, StartMapleDma

(* A restart of the process keeps the files of the cards (vmu_create). *)
LEMMA RestartKeeps == ASSUME MapleInv, MapleRestart PROVE MapleInv'
PROOF
<1>1. 0 \in Int /\ 0 \in Nat /\ 0 \in 0 .. 255 /\ 128 \in 0 .. 255 /\ 1 \in 0 .. 1
  OBVIOUS
<1>2. DefaultCond \in MpCond
  BY <1>1 DEF DefaultCond, MpCond
<1>3. MapleType'
  <2>1. mpcnd' \in [MpPorts -> MpCond]
    BY <1>2 DEF MapleRestart
  <2>2. mpheld' \in [MpPorts -> MpHeld]
    BY <1>1 DEF MapleRestart, MpHeld
  <2>3. <<>> \in Seq(MpFrames) /\ IsSequence(<<>>)
    BY DEF IsSequence
  <2> QED
    BY <2>1, <2>2, <2>3 DEF MapleInv, MapleType, MapleRestart
<1>4. FilesHold'
  BY DEF MapleInv, FilesHold, MapleRestart
<1>5. PadsExact'
  BY DEF PadsExact, SpansByte, MapleRestart, DefaultCond
<1> QED
  BY <1>3, <1>4, <1>5 DEF MapleInv, CopyOfFrame, MapleRestart

(* A card answers a frame, and may be written. *)
LEMMA CardKeeps == ASSUME MapleInv, CardFrame PROVE MapleInv'
PROOF
<1> DEFINE f == Head(mplist)
           stamp == mpcount.frames - Len(mplist) + 1
           r == VmuFrame(f, mpfile[f.port], stamp)
           answer == [cmd |-> r.cmd, src |-> f.dst, data |-> r.data]
           off == BlkOffset(f.block, f.phase)
<1>1. MapleType /\ mplist # <<>> /\ DecodeUnit(f.dst) = 0 /\ mpcopy' = mpcopy
  BY DEF MapleInv, CardFrame
<1>2. /\ f \in MpFrames /\ Tail(mplist) \in Seq(MpFrames) /\ f.port \in MpPorts
      /\ f.block \in 0 .. MpBlocks - 1 /\ f.phase \in 0 .. 3
  BY <1>1, FrameInHand
<1>3. stamp \in Int /\ mpfile[f.port] \in MpFile /\ mpcard[f.port] \in MpCard
      /\ FileHolds(mpfile[f.port], mpcard[f.port])
  <2>1. mpcount.frames \in Nat /\ Len(mplist) \in Nat
    BY <1>1 DEF MapleType
  <2> QED
    BY <1>1, <1>2, <2>1 DEF MapleInv, MapleType, FilesHold
<1>4. f.dst = {0}
  BY <1>1, <1>2, UnitNamed
<1>5. /\ r.fatal = FALSE /\ r.cmd # "NONE"
      /\ f.cmd = "BLKWRITE" /\ f.fn = "MEMCARD" => r.cmd = "ACK" /\ r.file = QuarterAt(mpfile[f.port], off, stamp)
      /\ ~(f.cmd = "BLKWRITE" /\ f.fn = "MEMCARD") => r.file = mpfile[f.port]
      /\ f.cmd = "BLKREAD" => r.data = [i \in 1 .. 4 * MpWords |-> mpfile[f.port][BlkOffset(f.block, 0) + i - 1]]
  <2> DEFINE before == mpfile[f.port]
  <2>1. f \in MpFrames /\ before \in MpFile /\ stamp \in Int
    BY <1>2, <1>3
  <2> HIDE DEF f, stamp, before
  <2>2. CardDoes(VmuFrame(f, before, stamp), f, before, stamp)
    BY <2>1, CardAnswers
  <2> QED
    BY <2>2 DEF before, CardDoes
<1>6. /\ mpfatal' = r.fatal /\ mpfile' = [mpfile EXCEPT ![f.port] = r.file] /\ Answered(answer)
      /\ mpcard' = IF f.cmd = "BLKWRITE" /\ f.fn = "MEMCARD"
                   THEN [mpcard EXCEPT ![f.port][f.block][f.phase] = stamp] ELSE mpcard
      /\ UNCHANGED <<mpcnd, mpheld, mpcount>>
  BY DEF CardFrame
<1>7. /\ mplist' \in Seq(MpFrames) /\ mpsent' \in Seq(MpFrames)
      /\ IsSequence(mpres') /\ Len(mpres') = Len(mpsent')
      /\ mpsent'[Len(mpsent')] = f /\ mpres'[Len(mpres')] = answer
  <2> HIDE DEF answer
  <2> QED
    BY <1>1, <1>6, AnswerIsLast
<1> DEFINE card == IF f.cmd = "BLKWRITE" /\ f.fn = "MEMCARD"
                   THEN [mpcard[f.port] EXCEPT ![f.block][f.phase] = stamp] ELSE mpcard[f.port]
           file == r.file
<1> HIDE DEF r, stamp
<1>8. card \in MpCard /\ file \in MpFile /\ FileHolds(file, card)
  <2>1. CASE f.cmd = "BLKWRITE" /\ f.fn = "MEMCARD"
    <3>1. card = [mpcard[f.port] EXCEPT ![f.block][f.phase] = stamp] /\ file = QuarterAt(mpfile[f.port], off, stamp)
      BY <1>5, <2>1
    <3>2. [mpcard[f.port] EXCEPT ![f.block][f.phase] = stamp] \in MpCard
      BY <1>2, <1>3 DEF MpCard
    <3>3. QuarterAt(mpfile[f.port], off, stamp) \in MpFile
      BY <1>3 DEF QuarterAt, MpFile
    <3>4. FileHolds(QuarterAt(mpfile[f.port], off, stamp), [mpcard[f.port] EXCEPT ![f.block][f.phase] = stamp])
      BY <1>2, <1>3, QuarterWritten
    <3> QED
      BY <3>1, <3>2, <3>3, <3>4
  <2>2. CASE ~(f.cmd = "BLKWRITE" /\ f.fn = "MEMCARD")
    BY <1>3, <1>5, <2>2
  <2> QED
    BY <2>1, <2>2
<1>9. mpfile' = [mpfile EXCEPT ![f.port] = file] /\ mpcard' = [mpcard EXCEPT ![f.port] = card]
  <2>1. mpcard \in [MpPorts -> MpCard]
    BY <1>1 DEF MapleType
  <2> QED
    BY <1>2, <1>6, <2>1
<1> HIDE DEF card, file, f
<1>10. mpfile' \in [MpPorts -> MpFile] /\ mpcard' \in [MpPorts -> MpCard]
  BY <1>1, <1>2, <1>8, <1>9 DEF MapleType
<1>11. FilesHold'
  <2>1. ASSUME NEW p \in MpPorts PROVE FileHolds(mpfile'[p], mpcard'[p])
    <3>1. mpfile'[p] = (IF p = f.port THEN file ELSE mpfile[p]) /\ mpcard'[p] = (IF p = f.port THEN card ELSE mpcard[p])
      BY <1>1, <1>2, <1>9 DEF MapleType
    <3> QED
      BY <1>8, <3>1 DEF MapleInv, FilesHold
  <2> QED
    BY <2>1 DEF FilesHold
<1>12. MapleType'
  BY <1>1, <1>6, <1>7, <1>10 DEF MapleType
<1>13. CopyOfFrame'
  BY <1>1 DEF MapleInv, CopyOfFrame, MpMain, f
<1>14. LastAnswer'
  <2>1. mpcard'[f.port] = card
    BY <1>1, <1>2, <1>9 DEF MapleType
  <2>2. answer.cmd = r.cmd /\ answer.src = f.dst /\ answer.data = r.data
    OBVIOUS
  <2>3. answer # MpNone
    BY <1>5, <2>2 DEF MpNone
  <2>4. f.dst \cap Connected # {}
    BY <1>4 DEF Connected
  <2>5. f.cmd = "BLKREAD" => answer.data = [i \in 1 .. 4 * MpWords |-> mpcard'[f.port][f.block][(i - 1) \div MpWords]]
    <3>1. f.cmd = "BLKREAD" => card = mpcard[f.port]
      BY DEF card
    <3>2. [i \in 1 .. 4 * MpWords |-> mpfile[f.port][BlkOffset(f.block, 0) + i - 1]]
            = [i \in 1 .. 4 * MpWords |-> mpcard[f.port][f.block][(i - 1) \div MpWords]]
      BY <1>2, <1>3, BlockRead
    <3> QED
      BY <1>5, <2>1, <2>2, <3>1, <3>2
  <2>6. f.cmd = "BLKWRITE" /\ f.fn = "MEMCARD" => answer.cmd = "ACK"
    BY <1>5, <2>2
  <2> HIDE DEF answer
  <2>7. RightAnswer(f, answer, mpcard')
    BY <1>4, <2>2, <2>3, <2>4, <2>5, <2>6 DEF RightAnswer, MpMain
  <2> QED
    BY <1>7, <2>7 DEF LastAnswer
<1>15. PadsExact'
  BY <1>6 DEF MapleInv, PadsExact, SpansByte
<1>16. ~mpfatal'
  BY <1>5, <1>6
<1> QED
  BY <1>11, <1>12, <1>13, <1>14, <1>15, <1>16 DEF MapleInv

(* A controller answers, at once or when its state is copied. *)
LEMMA ControllerAnswers ==
  ASSUME NEW f \in MpFrames, DecodeUnit(f.dst) = MpMain, NEW cmd, cmd # "NONE", NEW data
  PROVE  RightAnswer(f, [cmd |-> cmd, src |-> Identified(f.dst), data |-> data], mpcard)
PROOF
<1>1. MpMain \in f.dst /\ f.dst # {0}
  BY UnitNamed DEF MpMain
<1>2. f.dst = {MpMain} => Identified(f.dst) = {0, MpMain}
  BY DEF Identified, Connected, MpMain
<1> DEFINE r == [cmd |-> cmd, src |-> Identified(f.dst), data |-> data]
<1>3. r.cmd = cmd /\ r.src = Identified(f.dst)
  OBVIOUS
<1>4. r # MpNone
  BY <1>3 DEF MpNone
<1>5. f.dst \cap Connected # {}
  BY <1>1 DEF Connected
<1> HIDE DEF r
<1>6. RightAnswer(f, r, mpcard)
  BY <1>1, <1>2, <1>3, <1>4, <1>5 DEF RightAnswer
<1> QED
  BY <1>6 DEF r

(* A frame for a controller, answered at once (controller_frame). *)
LEMMA ControllerKeeps == ASSUME MapleInv, ControllerFrame PROVE MapleInv'
PROOF
<1> DEFINE f == Head(mplist)
           cmd == IF f.cmd = "DEVINFO" THEN "DEVINFO" ELSE "BADCMD"
           data == IF f.cmd = "DEVINFO" THEN <<"controller">> ELSE <<>>
           r == [cmd |-> cmd, src |-> Identified(f.dst), data |-> data]
<1>1. /\ mplist # <<>> /\ DecodeUnit(f.dst) = MpMain /\ Answered(r)
      /\ UNCHANGED <<mpcnd, mpfile, mpcopy, mpfatal, mpcard, mpheld, mpcount>>
  BY DEF ControllerFrame
<1>2. f \in MpFrames /\ cmd # "NONE"
  BY <1>1, FrameInHand DEF MapleInv
<1> HIDE DEF cmd, data
<1>3. RightAnswer(f, r, mpcard)
  BY <1>1, <1>2, ControllerAnswers
<1> HIDE DEF r
<1>4. mpcopy = <<>>
  BY DEF MapleInv, CopyOfFrame, ControllerFrame
<1> QED
  BY <1>1, <1>3, <1>4, AnswerStep

(* GETCOND ends with the state it copied (controller_frame). *)
LEMMA GetCondKeeps == ASSUME MapleInv, GetCondEnd PROVE MapleInv'
PROOF
<1> DEFINE f == Head(mplist)
           data == Append(mpcopy, mpcnd[f.port].joy)
           r == [cmd |-> "TRANSFER", src |-> Identified(f.dst), data |-> data]
<1>1. /\ mplist # <<>> /\ mpcopy # <<>> /\ Answered(r) /\ mpcopy' = <<>>
      /\ UNCHANGED <<mpcnd, mpfile, mpfatal, mpcard, mpheld, mpcount>>
  BY DEF GetCondEnd
<1>2. f \in MpFrames /\ DecodeUnit(f.dst) = MpMain
  BY <1>1, FrameInHand DEF MapleInv, CopyOfFrame
<1> HIDE DEF data
<1>3. RightAnswer(f, r, mpcard)
  BY <1>2, ControllerAnswers
<1> HIDE DEF r
<1> QED
  BY <1>1, <1>3, AnswerStep

(* GETCOND begins: nothing is answered yet. *)
LEMMA CopyBegins == ASSUME MapleInv, GetCondBegin PROVE MapleInv'
PROOF
<1>1. /\ mplist # <<>> /\ DecodeUnit(Head(mplist).dst) = MpMain /\ Head(mplist).cmd = "GETCOND"
      /\ UNCHANGED <<mpcnd, mpfile, mplist, mpres, mpfatal, mpsent, mpcard, mpheld, mpcount>>
  BY DEF GetCondBegin
<1>2. MapleType' /\ CopyOfFrame'
  BY <1>1 DEF MapleInv, MapleType, CopyOfFrame, IsSequence
<1>3. FilesHold' /\ PadsExact'
  BY <1>1 DEF MapleInv, FilesHold, PadsExact, SpansByte
<1> QED
  BY <1>1, <1>2, <1>3, AnswersKept DEF MapleInv

(* What scaling makes of an axis. *)
LEMMA AxisScaled ==
  ASSUME NEW v \in MpValues
  PROVE  /\ SpansByte(ScaleJoy(v), v, -32768) /\ (ScaleJoy(v) < 128 <=> v < 0)
         /\ v >= 0 => SpansByte(ScaleTrig(v), v, 0)
PROOF
<1>1. v \in Int /\ -32768 <= v /\ v <= 32767
  BY MpAssumption
<1> QED
  BY <1>1 DEF SpansByte, ScaleJoy, ScaleTrig

(* A pad and what the host last said of it. *)
PadExact(cnd, held) ==
  /\ \A b \in MpButtons : cnd.buttons[b] = IF b \in held.down THEN 0 ELSE 1
  /\ SpansByte(cnd.joy, held.joy, -32768)
  /\ cnd.joy < 128 <=> held.joy < 0
  /\ SpansByte(cnd.trig, held.trig, 0)

(* An event of the host changes one pad. *)
LEMMA ControlKeeps ==
  ASSUME MapleInv, NEW port \in MpPorts, NEW cnd \in MpCond, NEW held \in MpHeld,
         PadExact(cnd, held), MpControl(port, cnd, held)
  PROVE  MapleInv'
PROOF
<1>1. /\ mpcnd' = [mpcnd EXCEPT ![port] = cnd] /\ mpheld' = [mpheld EXCEPT ![port] = held]
      /\ UNCHANGED <<mpfile, mplist, mpcopy, mpres, mpfatal, mpsent, mpcard>>
      /\ mpcount' \in [frames : Nat, inputs : Nat]
  BY DEF MpControl, MapleInv, MapleType
<1>2. mpcnd' \in [MpPorts -> MpCond] /\ mpheld' \in [MpPorts -> MpHeld]
  BY <1>1 DEF MapleInv, MapleType
<1>3. MapleType' /\ CopyOfFrame'
  BY <1>1, <1>2 DEF MapleInv, MapleType, CopyOfFrame, IsSequence
<1>4. FilesHold'
  BY <1>1 DEF MapleInv, FilesHold
<1>5. ASSUME NEW p \in MpPorts PROVE PadExact(mpcnd'[p], mpheld'[p])
  <2>1. CASE p = port
    <3>1. mpcnd'[p] = cnd /\ mpheld'[p] = held
      BY <1>1, <2>1 DEF MapleInv, MapleType
    <3> QED
      BY <3>1
  <2>2. CASE p # port
    <3>1. mpcnd'[p] = mpcnd[p] /\ mpheld'[p] = mpheld[p]
      BY <1>1, <2>2 DEF MapleInv, MapleType
    <3> QED
      BY <3>1 DEF MapleInv, PadsExact, PadExact
  <2> QED
    BY <2>1, <2>2
<1>6. PadsExact'
  BY <1>5 DEF PadsExact, PadExact
<1> QED
  BY <1>1, <1>3, <1>4, <1>6, AnswersKept DEF MapleInv

(* controller_input. *)
LEMMA InputKeeps ==
  ASSUME MapleInv, NEW p \in MpPorts,
         \/ \E b \in MpButtons : PressButton(p, b) \/ ReleaseButton(p, b)
         \/ \E v \in MpValues : MoveJoy(p, v) \/ (v >= 0 /\ MoveTrig(p, v))
  PROVE  MapleInv'
PROOF
<1> DEFINE c == mpcnd[p]
           h == mpheld[p]
<1>1. c \in MpCond /\ h \in MpHeld
  BY DEF MapleInv, MapleType
<1>2. PadExact(c, h)
  BY DEF MapleInv, PadsExact, PadExact
<1>3. /\ c.buttons \in [MpButtons -> 0 .. 1] /\ c.trig \in 0 .. 255 /\ c.joy \in 0 .. 255
      /\ h.down \in SUBSET MpButtons /\ h.joy \in Int /\ h.trig \in Nat
      /\ c = [buttons |-> c.buttons, trig |-> c.trig, joy |-> c.joy]
      /\ h = [down |-> h.down, joy |-> h.joy, trig |-> h.trig]
  BY <1>1 DEF MpCond, MpHeld
<1>4. ASSUME NEW b \in MpButtons, PressButton(p, b) PROVE MapleInv'
  <2> DEFINE buttons == [c.buttons EXCEPT ![b] = 0]
             down == h.down \cup {b}
             d == [buttons |-> buttons, trig |-> c.trig, joy |-> c.joy]
             k == [down |-> down, joy |-> h.joy, trig |-> h.trig]
  <2>1. MpControl(p, d, k)
    <3>1. MpControl(p, [c EXCEPT !.buttons[b] = 0], [h EXCEPT !.down = h.down \cup {b}])
      BY <1>4 DEF PressButton
    <3>2. [c EXCEPT !.buttons[b] = 0] = d
      BY <1>3
    <3>3. [h EXCEPT !.down = h.down \cup {b}] = k
      BY <1>3
    <3> QED
      BY <3>1, <3>2, <3>3
  <2>2. buttons \in [MpButtons -> 0 .. 1] /\ down \in SUBSET MpButtons
        /\ \A x \in MpButtons : buttons[x] = IF x \in down THEN 0 ELSE 1
    BY <1>2, <1>3 DEF PadExact
  <2> HIDE DEF buttons, down
  <2>3. d \in MpCond /\ k \in MpHeld
    BY <1>3, <2>2 DEF MpCond, MpHeld
  <2>4. d.buttons = buttons /\ d.trig = c.trig /\ d.joy = c.joy
        /\ k.down = down /\ k.joy = h.joy /\ k.trig = h.trig
    OBVIOUS
  <2> HIDE DEF d, k, c, h
  <2>5. PadExact(d, k)
    BY <1>2, <2>2, <2>4 DEF PadExact
  <2> QED
    BY <2>1, <2>3, <2>5, ControlKeeps
<1>5. ASSUME NEW b \in MpButtons, ReleaseButton(p, b) PROVE MapleInv'
  <2> DEFINE buttons == [c.buttons EXCEPT ![b] = 1]
             down == h.down \ {b}
             d == [buttons |-> buttons, trig |-> c.trig, joy |-> c.joy]
             k == [down |-> down, joy |-> h.joy, trig |-> h.trig]
  <2>1. MpControl(p, d, k)
    <3>1. MpControl(p, [c EXCEPT !.buttons[b] = 1], [h EXCEPT !.down = h.down \ {b}])
      BY <1>5 DEF ReleaseButton
    <3>2. [c EXCEPT !.buttons[b] = 1] = d
      BY <1>3
    <3>3. [h EXCEPT !.down = h.down \ {b}] = k
      BY <1>3
    <3> QED
      BY <3>1, <3>2, <3>3
  <2>2. buttons \in [MpButtons -> 0 .. 1] /\ down \in SUBSET MpButtons
        /\ \A x \in MpButtons : buttons[x] = IF x \in down THEN 0 ELSE 1
    BY <1>2, <1>3 DEF PadExact
  <2> HIDE DEF buttons, down
  <2>3. d \in MpCond /\ k \in MpHeld
    BY <1>3, <2>2 DEF MpCond, MpHeld
  <2>4. d.buttons = buttons /\ d.trig = c.trig /\ d.joy = c.joy
        /\ k.down = down /\ k.joy = h.joy /\ k.trig = h.trig
    OBVIOUS
  <2> HIDE DEF d, k, c, h
  <2>5. PadExact(d, k)
    BY <1>2, <2>2, <2>4 DEF PadExact
  <2> QED
    BY <2>1, <2>3, <2>5, ControlKeeps
<1>6. ASSUME NEW v \in MpValues, MoveJoy(p, v) PROVE MapleInv'
  <2> DEFINE d == [buttons |-> c.buttons, trig |-> c.trig, joy |-> ScaleJoy(v)]
             k == [down |-> h.down, joy |-> v, trig |-> h.trig]
  <2>1. MpControl(p, d, k)
    <3>1. MpControl(p, [c EXCEPT !.joy = ScaleJoy(v)], [h EXCEPT !.joy = v])
      BY <1>6 DEF MoveJoy
    <3>2. [c EXCEPT !.joy = ScaleJoy(v)] = d
      BY <1>3
    <3>3. [h EXCEPT !.joy = v] = k
      BY <1>3
    <3> QED
      BY <3>1, <3>2, <3>3
  <2>2. v \in Int /\ ScaleJoy(v) \in 0 .. 255
    BY AxisScaled, MpAssumption DEF SpansByte
  <2>3. d \in MpCond /\ k \in MpHeld
    BY <1>3, <2>2 DEF MpCond, MpHeld
  <2>4. d.buttons = c.buttons /\ d.trig = c.trig /\ d.joy = ScaleJoy(v)
        /\ k.down = h.down /\ k.joy = v /\ k.trig = h.trig
    OBVIOUS
  <2> HIDE DEF d, k, c, h
  <2>5. PadExact(d, k)
    BY <1>2, <2>4, AxisScaled DEF PadExact
  <2> QED
    BY <2>1, <2>3, <2>5, ControlKeeps
<1>7. ASSUME NEW v \in MpValues, v >= 0, MoveTrig(p, v) PROVE MapleInv'
  <2> DEFINE d == [buttons |-> c.buttons, trig |-> ScaleTrig(v), joy |-> c.joy]
             k == [down |-> h.down, joy |-> h.joy, trig |-> v]
  <2>1. MpControl(p, d, k)
    <3>1. MpControl(p, [c EXCEPT !.trig = ScaleTrig(v)], [h EXCEPT !.trig = v])
      BY <1>7 DEF MoveTrig
    <3>2. [c EXCEPT !.trig = ScaleTrig(v)] = d
      BY <1>3
    <3>3. [h EXCEPT !.trig = v] = k
      BY <1>3
    <3> QED
      BY <3>1, <3>2, <3>3
  <2>2. v \in Nat /\ ScaleTrig(v) \in 0 .. 255
    BY <1>7, AxisScaled, MpAssumption DEF SpansByte
  <2>3. d \in MpCond /\ k \in MpHeld
    BY <1>3, <2>2 DEF MpCond, MpHeld
  <2>4. d.buttons = c.buttons /\ d.trig = ScaleTrig(v) /\ d.joy = c.joy
        /\ k.down = h.down /\ k.joy = h.joy /\ k.trig = v
    OBVIOUS
  <2> HIDE DEF d, k, c, h
  <2>5. PadExact(d, k)
    BY <1>2, <1>7, <2>4, AxisScaled DEF PadExact
  <2> QED
    BY <2>1, <2>3, <2>5, ControlKeeps
<1> QED
  BY <1>4, <1>5, <1>6, <1>7

(* Every step keeps the invariant. *)
LEMMA MapleStep == MapleInv /\ [MpNext]_mpvars => MapleInv'
PROOF
<1> SUFFICES ASSUME MapleInv, [MpNext]_mpvars PROVE MapleInv'
  OBVIOUS
<1>1. CASE UNCHANGED mpvars
  <2>1. UNCHANGED <<mpcnd, mpfile, mplist, mpcopy, mpres, mpfatal, mpsent, mpcard, mpheld, mpcount>>
    BY <1>1 DEF mpvars
  <2>2. MapleType' /\ CopyOfFrame' /\ FilesHold' /\ PadsExact' /\ ~mpfatal'
    BY <2>1 DEF MapleInv, MapleType, CopyOfFrame, FilesHold, PadsExact, SpansByte, IsSequence
  <2> QED
    BY <2>1, <2>2, AnswersKept DEF MapleInv
<1>2. ASSUME NEW f \in MpFrames, StartMapleDma(<<f>>) PROVE MapleInv'
  <2>1. <<f>> \in Seq(MpFrames)
    OBVIOUS
  <2> QED
    BY <1>2, <2>1, ListBegins
<1>3. ASSUME NEW f \in MpFrames, NEW g \in MpFrames, StartMapleDma(<<f, g>>) PROVE MapleInv'
  <2>1. <<f, g>> \in Seq(MpFrames)
    OBVIOUS
  <2> QED
    BY <1>3, <2>1, ListBegins
<1>4. CASE NoDevice
  <2>1. /\ mplist # <<>> /\ DecodeUnit(Head(mplist).dst) \notin Connected /\ Answered(MpNone)
        /\ UNCHANGED <<mpcnd, mpfile, mpcopy, mpfatal, mpcard, mpheld, mpcount>>
    BY <1>4 DEF NoDevice
  <2>2. Head(mplist) \in MpFrames
    BY <2>1, FrameInHand DEF MapleInv
  <2>3. Head(mplist).dst \cap Connected = {}
    BY <2>1, <2>2, UnitNamed
  <2>4. RightAnswer(Head(mplist), MpNone, mpcard)
    BY <2>3 DEF RightAnswer, Connected, MpMain
  <2>5. mpcopy = <<>>
    BY <2>1 DEF MapleInv, CopyOfFrame, Connected
  <2> QED
    BY <2>1, <2>4, <2>5, AnswerStep
<1> QED
  BY <1>1, <1>2, <1>3, <1>4, CardKeeps, ControllerKeeps, CopyBegins, GetCondKeeps, InputKeeps, RestartKeeps
  DEF MpNext

(* For any number of ports, blocks and words, any frames and axes of any   *)
(* value: every quarter of every card is in its file at its place and in   *)
(* no other, over restarts between two frames, each frame is answered by   *)
(* the device it names, no CHECK fails and the pads follow the host        *)
(* (holly_maple_dma, vmu_frame, controller_frame, controller_input).       *)
THEOREM MapleHolds == MpSpec => []MapleExact
PROOF
<1>1. MapleInv => MapleExact
  BY DEF MapleInv, FilesHold, FileHolds, MapleExact
<1> QED
  BY <1>1, MapleInitInv, MapleStep, PTL DEF MpSpec

-----------------------------------------------------------------------------
(* The serial port: characters that pass three places in a row *)

Sorted(s) == \A i, j \in 1 .. Len(s) : i < j => s[i] < s[j]
Ahead(s, t) == \A i \in 1 .. Len(s), j \in 1 .. Len(t) : s[i] < t[j]
Within(s, n) == \A i \in 1 .. Len(s) : s[i] \in 1 .. n

\* Of the characters up to n, those that are not lost are in a, b and c, the
\* earliest ones in a.
Chain(a, b, c, n, lost) ==
  /\ a \in Seq(Nat) /\ b \in Seq(Nat) /\ c \in Seq(Nat) /\ n \in Nat /\ lost \in Nat
  /\ Len(a) + Len(b) + Len(c) + lost = n
  /\ Sorted(a) /\ Sorted(b) /\ Sorted(c)
  /\ Ahead(a, b) /\ Ahead(a, c) /\ Ahead(b, c)
  /\ Within(a, n) /\ Within(b, n) /\ Within(c, n)

(* What a sequence of numbers with one more at its end looks like. *)
LEMMA NumberAppended ==
  ASSUME NEW s \in Seq(Nat), NEW x \in Nat, NEW i \in 1 .. Len(Append(s, x))
  PROVE  \/ i = Len(s) + 1 /\ Append(s, x)[i] = x
         \/ i \in 1 .. Len(s) /\ Append(s, x)[i] = s[i] /\ s[i] \in Nat
PROOF
  OBVIOUS

(* And one without its first. *)
LEMMA NumberDropped ==
  ASSUME NEW s \in Seq(Nat), Len(s) > 0, NEW i \in 1 .. Len(Tail(s))
  PROVE  /\ Tail(s)[i] = s[i + 1] /\ i + 1 \in 1 .. Len(s) /\ 1 \in 1 .. Len(s) /\ 1 < i + 1
         /\ s[i + 1] \in Nat /\ s[1] \in Nat
PROOF
  OBVIOUS

(* A number behind all of a sequence goes to its end. *)
LEMMA EndOfSorted ==
  ASSUME NEW s \in Seq(Nat), NEW x \in Nat, Sorted(s), \A i \in 1 .. Len(s) : s[i] < x
  PROVE  Sorted(Append(s, x))
PROOF
<1>1. ASSUME NEW i \in 1 .. Len(Append(s, x)), NEW j \in 1 .. Len(Append(s, x)), i < j
      PROVE  Append(s, x)[i] < Append(s, x)[j]
  <2>1. /\ \/ i = Len(s) + 1 /\ Append(s, x)[i] = x
           \/ i \in 1 .. Len(s) /\ Append(s, x)[i] = s[i] /\ s[i] \in Nat
        /\ \/ j = Len(s) + 1 /\ Append(s, x)[j] = x
           \/ j \in 1 .. Len(s) /\ Append(s, x)[j] = s[j] /\ s[j] \in Nat
    BY NumberAppended
  <2>2. Len(s) \in Nat
    OBVIOUS
  <2>3. i \in 1 .. Len(s) /\ j \in 1 .. Len(s) => s[i] < s[j]
    BY <1>1 DEF Sorted
  <2>4. i \in 1 .. Len(s) => s[i] < x
    OBVIOUS
  <2> QED
    BY <1>1, <2>1, <2>2, <2>3, <2>4
<1> QED
  BY <1>1 DEF Sorted

(* One more character behind, or in front of, another part of the stream. *)
LEMMA EndAhead ==
  ASSUME NEW s \in Seq(Nat), NEW x \in Nat, NEW t
  PROVE  /\ Ahead(t, s) /\ (\A i \in 1 .. Len(t) : t[i] < x) => Ahead(t, Append(s, x))
         /\ Ahead(s, t) /\ (\A i \in 1 .. Len(t) : x < t[i]) => Ahead(Append(s, x), t)
PROOF
<1>1. ASSUME Ahead(t, s), \A i \in 1 .. Len(t) : t[i] < x,
             NEW i \in 1 .. Len(t), NEW j \in 1 .. Len(Append(s, x))
      PROVE  t[i] < Append(s, x)[j]
  <2>1. j \in 1 .. Len(s) => t[i] < s[j]
    BY <1>1 DEF Ahead
  <2>2. t[i] < x
    BY <1>1
  <2> QED
    BY <2>1, <2>2, NumberAppended
<1>2. ASSUME Ahead(s, t), \A i \in 1 .. Len(t) : x < t[i],
             NEW i \in 1 .. Len(Append(s, x)), NEW j \in 1 .. Len(t)
      PROVE  Append(s, x)[i] < t[j]
  <2>1. i \in 1 .. Len(s) => s[i] < t[j]
    BY <1>2 DEF Ahead
  <2>2. x < t[j]
    BY <1>2
  <2> QED
    BY <2>1, <2>2, NumberAppended
<1> QED
  BY <1>1, <1>2 DEF Ahead

(* One more character within the first n. *)
LEMMA EndWithin ==
  ASSUME NEW s \in Seq(Nat), NEW n \in Nat, NEW x \in 1 .. n, Within(s, n)
  PROVE  Within(Append(s, x), n)
PROOF
<1>1. x \in Nat
  OBVIOUS
<1>2. ASSUME NEW i \in 1 .. Len(Append(s, x)) PROVE Append(s, x)[i] \in 1 .. n
  <2>1. i \in 1 .. Len(s) => s[i] \in 1 .. n
    BY DEF Within
  <2> QED
    BY <1>1, <2>1, NumberAppended
<1> QED
  BY <1>2 DEF Within

(* The first of a sorted sequence leaves it. *)
LEMMA RestOfSorted ==
  ASSUME NEW s \in Seq(Nat), Len(s) > 0, NEW n \in Nat
  PROVE  /\ Sorted(s) => Sorted(Tail(s)) /\ \A i \in 1 .. Len(Tail(s)) : s[1] < Tail(s)[i]
         /\ Within(s, n) => Within(Tail(s), n) /\ s[1] \in 1 .. n
         /\ \A t : /\ Ahead(s, t) => Ahead(Tail(s), t) /\ \A j \in 1 .. Len(t) : s[1] < t[j]
                   /\ Ahead(t, s) => Ahead(t, Tail(s)) /\ \A j \in 1 .. Len(t) : t[j] < s[1]
PROOF
<1>1. 1 \in 1 .. Len(s)
  OBVIOUS
<1>2. ASSUME NEW i \in 1 .. Len(Tail(s))
      PROVE  Tail(s)[i] = s[i + 1] /\ i + 1 \in 1 .. Len(s) /\ i \in Int /\ 1 < i + 1
  BY NumberDropped
<1>3. ASSUME Sorted(s), NEW i \in 1 .. Len(Tail(s)) PROVE s[1] < Tail(s)[i]
  BY <1>1, <1>2, <1>3 DEF Sorted
<1>4. ASSUME Sorted(s), NEW i \in 1 .. Len(Tail(s)), NEW j \in 1 .. Len(Tail(s)), i < j
      PROVE  Tail(s)[i] < Tail(s)[j]
  <2>1. i + 1 < j + 1
    BY <1>2, <1>4
  <2> QED
    BY <1>2, <1>4, <2>1 DEF Sorted
<1>5. ASSUME Within(s, n) PROVE Within(Tail(s), n) /\ s[1] \in 1 .. n
  BY <1>1, <1>2, <1>5 DEF Within
<1>6. ASSUME NEW t, Ahead(s, t) PROVE Ahead(Tail(s), t) /\ \A j \in 1 .. Len(t) : s[1] < t[j]
  BY <1>1, <1>2, <1>6 DEF Ahead
<1>7. ASSUME NEW t, Ahead(t, s) PROVE Ahead(t, Tail(s)) /\ \A j \in 1 .. Len(t) : t[j] < s[1]
  BY <1>1, <1>2, <1>7 DEF Ahead
<1>8. Sorted(s) => Sorted(Tail(s))
  BY <1>4 DEF Sorted
<1> QED
  BY <1>3, <1>5, <1>6, <1>7, <1>8

(* Two sequences of numbers, one after the other. *)
LEMMA NumberJoined ==
  ASSUME NEW a \in Seq(Nat), NEW b \in Seq(Nat), NEW i \in 1 .. Len(a \o b)
  PROVE  \/ i \in 1 .. Len(a) /\ (a \o b)[i] = a[i] /\ a[i] \in Nat
         \/ /\ i > Len(a) /\ i - Len(a) \in 1 .. Len(b)
            /\ (a \o b)[i] = b[i - Len(a)] /\ b[i - Len(a)] \in Nat
PROOF
  OBVIOUS

(* Two sorted parts of the stream, put together. *)
LEMMA SortedJoined ==
  ASSUME NEW a \in Seq(Nat), NEW b \in Seq(Nat), Sorted(a), Sorted(b), Ahead(a, b)
  PROVE  Sorted(a \o b)
PROOF
<1>1. ASSUME NEW i \in 1 .. Len(a \o b), NEW j \in 1 .. Len(a \o b), i < j
      PROVE  (a \o b)[i] < (a \o b)[j]
  <2>1. Len(a) \in Nat /\ i \in Int /\ j \in Int
    OBVIOUS
  <2>2. CASE j \in 1 .. Len(a)
    <3>1. i \in 1 .. Len(a)
      BY <1>1, <2>1, <2>2
    <3>2. (a \o b)[i] = a[i] /\ (a \o b)[j] = a[j]
      BY <3>1, <2>2
    <3> QED
      BY <1>1, <2>2, <3>1, <3>2 DEF Sorted
  <2>3. CASE j \notin 1 .. Len(a)
    <3>1. j - Len(a) \in 1 .. Len(b) /\ (a \o b)[j] = b[j - Len(a)]
      BY <2>3, NumberJoined
    <3>2. CASE i \in 1 .. Len(a)
      <4>1. (a \o b)[i] = a[i]
        BY <3>2
      <4> QED
        BY <3>1, <3>2, <4>1 DEF Ahead
    <3>3. CASE i \notin 1 .. Len(a)
      <4>1. i - Len(a) \in 1 .. Len(b) /\ (a \o b)[i] = b[i - Len(a)]
        BY <3>3, NumberJoined
      <4>2. i - Len(a) < j - Len(a)
        BY <1>1, <2>1
      <4> QED
        BY <3>1, <4>1, <4>2 DEF Sorted
    <3> QED
      BY <3>2, <3>3
  <2> QED
    BY <2>2, <2>3
<1> QED
  BY <1>1 DEF Sorted

(* Two parts of the stream, put together. *)
LEMMA WithinJoined ==
  ASSUME NEW a \in Seq(Nat), NEW b \in Seq(Nat), NEW n \in Nat
  PROVE  /\ Within(a, n) /\ Within(b, n) => Within(a \o b, n)
         /\ \A c : Ahead(a, c) /\ Ahead(b, c) => Ahead(a \o b, c)
PROOF
<1>1. ASSUME Within(a, n), Within(b, n), NEW i \in 1 .. Len(a \o b) PROVE (a \o b)[i] \in 1 .. n
  BY <1>1, NumberJoined DEF Within
<1>2. ASSUME NEW c, Ahead(a, c), Ahead(b, c), NEW i \in 1 .. Len(a \o b), NEW j \in 1 .. Len(c)
      PROVE  (a \o b)[i] < c[j]
  BY <1>2, NumberJoined DEF Ahead
<1> QED
  BY <1>1, <1>2 DEF Within, Ahead

(* The three parts of a chain are a stream. *)
LEMMA ChainIsStream ==
  ASSUME NEW a, NEW b, NEW c, NEW n, NEW lost, Chain(a, b, c, n, lost)
  PROVE  Stream(a \o b \o c, n, lost)
PROOF
<1>1. /\ a \in Seq(Nat) /\ b \in Seq(Nat) /\ c \in Seq(Nat) /\ n \in Nat /\ lost \in Nat
      /\ Len(a) + Len(b) + Len(c) + lost = n
  BY DEF Chain
<1>2. /\ Sorted(a) /\ Sorted(b) /\ Sorted(c)
      /\ Ahead(a, b) /\ Ahead(a, c) /\ Ahead(b, c)
      /\ Within(a, n) /\ Within(b, n) /\ Within(c, n)
  BY DEF Chain
<1>3. /\ a \o b \in Seq(Nat) /\ Len(a \o b) = Len(a) + Len(b)
      /\ Sorted(a \o b) /\ Within(a \o b, n) /\ Ahead(a \o b, c)
  BY <1>1, <1>2, SortedJoined, WithinJoined
<1>4. ASSUME NEW ab \in Seq(Nat), Len(ab) = Len(a) + Len(b), Sorted(ab), Within(ab, n), Ahead(ab, c)
      PROVE  Stream(ab \o c, n, lost)
  <2>1. ab \o c \in Seq(Nat) /\ Len(ab \o c) = Len(ab) + Len(c)
    BY <1>1
  <2>2. Sorted(ab \o c) /\ Within(ab \o c, n)
    BY <1>1, <1>2, <1>4, SortedJoined, WithinJoined
  <2>3. ASSUME NEW s \in Seq(Nat), Len(s) = Len(ab) + Len(c), Sorted(s), Within(s, n)
        PROVE  Stream(s, n, lost)
    <3>1. Len(s) + lost = n /\ DOMAIN s = 1 .. Len(s) /\ Len(s) \in Nat
      BY <1>1, <1>4, <2>3
    <3>2. ASSUME NEW i \in 1 .. Len(s) PROVE s[i] \in 1 .. n /\ (i > 1 => s[i - 1] < s[i])
      <4>1. i > 1 => i - 1 \in 1 .. Len(s) /\ i - 1 < i
        BY <3>1
      <4> QED
        BY <2>3, <4>1 DEF Sorted, Within
    <3> QED
      BY <3>1, <3>2 DEF Stream
  <2> QED
    BY <2>1, <2>2, <2>3
<1> QED
  BY <1>3, <1>4

(* How long sequences become. *)
LEMMA NumberLengths ==
  ASSUME NEW s \in Seq(Nat)
  PROVE  /\ Len(s) \in Nat
         /\ \A x \in Nat : Append(s, x) \in Seq(Nat) /\ Len(Append(s, x)) = Len(s) + 1
         /\ Len(s) > 0 => Tail(s) \in Seq(Nat) /\ Len(Tail(s)) = Len(s) - 1
PROOF
  OBVIOUS

(* What one end of a chain does: a number is sent, one passes from place   *)
(* to place, what is in a place is lost.                                   *)
LEMMA ChainGrows ==
  ASSUME NEW a, NEW b, NEW c, NEW n, NEW lost, Chain(a, b, c, n, lost)
  PROVE  Chain(a, b, Append(c, n + 1), n + 1, lost)
PROOF
<1>1. /\ a \in Seq(Nat) /\ b \in Seq(Nat) /\ c \in Seq(Nat) /\ n \in Nat /\ lost \in Nat
  BY DEF Chain
<1>0. n \in Nat /\ lost \in Nat /\ Len(a) + Len(b) + Len(c) + lost = n
  BY DEF Chain
<1>2. /\ Sorted(a) /\ Sorted(b) /\ Sorted(c)
      /\ Ahead(a, b) /\ Ahead(a, c) /\ Ahead(b, c)
      /\ Within(a, n) /\ Within(b, n) /\ Within(c, n)
  BY DEF Chain
<1>3. ASSUME NEW s \in Seq(Nat), Within(s, n)
      PROVE  Within(s, n + 1) /\ \A i \in 1 .. Len(s) : s[i] < n + 1
  BY <1>1, <1>3 DEF Within
<1>4. n + 1 \in Nat /\ n + 1 \in 1 .. n + 1
  BY <1>1
<1>5. /\ Append(c, n + 1) \in Seq(Nat)
      /\ Len(a) + Len(b) + Len(Append(c, n + 1)) + lost = n + 1
  <2>1. Len(a) \in Nat /\ Len(b) \in Nat /\ Len(c) \in Nat
    BY <1>1, NumberLengths
  <2>2. Append(c, n + 1) \in Seq(Nat) /\ Len(Append(c, n + 1)) = Len(c) + 1
    BY <1>1, <1>4, NumberLengths
  <2> QED
    BY <1>0, <2>1, <2>2
<1>6. Sorted(Append(c, n + 1))
  BY <1>1, <1>2, <1>3, <1>4, EndOfSorted
<1>7. Ahead(a, Append(c, n + 1)) /\ Ahead(b, Append(c, n + 1))
  BY <1>1, <1>2, <1>3, <1>4, EndAhead
<1>8. Within(a, n + 1) /\ Within(b, n + 1) /\ Within(Append(c, n + 1), n + 1)
  BY <1>1, <1>2, <1>3, <1>4, EndWithin
<1> QED
  BY <1>1, <1>2, <1>4, <1>5, <1>6, <1>7, <1>8 DEF Chain

(* The first character of the last part moves to the middle one. *)
LEMMA ChainMovesIn ==
  ASSUME NEW a, NEW b, NEW c, NEW n, NEW lost, Chain(a, b, c, n, lost), Len(c) > 0
  PROVE  Chain(a, Append(b, c[1]), Tail(c), n, lost)
PROOF
<1>1. /\ a \in Seq(Nat) /\ b \in Seq(Nat) /\ c \in Seq(Nat) /\ n \in Nat /\ lost \in Nat
  BY DEF Chain
<1>0. n \in Nat /\ lost \in Nat /\ Len(a) + Len(b) + Len(c) + lost = n
  BY DEF Chain
<1>2. /\ Sorted(a) /\ Sorted(b) /\ Sorted(c)
      /\ Ahead(a, b) /\ Ahead(a, c) /\ Ahead(b, c)
      /\ Within(a, n) /\ Within(b, n) /\ Within(c, n)
  BY DEF Chain
<1>3. /\ Sorted(Tail(c)) /\ (\A i \in 1 .. Len(Tail(c)) : c[1] < Tail(c)[i])
      /\ Within(Tail(c), n) /\ c[1] \in 1 .. n
  BY <1>1, <1>2, RestOfSorted
<1>4. /\ Ahead(a, Tail(c)) /\ \A j \in 1 .. Len(a) : a[j] < c[1]
      /\ Ahead(b, Tail(c)) /\ \A j \in 1 .. Len(b) : b[j] < c[1]
  BY <1>1, <1>2, RestOfSorted
<1>5. c[1] \in Nat
  BY <1>3
<1>6. /\ Append(b, c[1]) \in Seq(Nat) /\ Tail(c) \in Seq(Nat)
      /\ Len(a) + Len(Append(b, c[1])) + Len(Tail(c)) + lost = n
  <2>1. Len(a) \in Nat /\ Len(b) \in Nat /\ Len(c) \in Nat
    BY <1>1, NumberLengths
  <2>2. Append(b, c[1]) \in Seq(Nat) /\ Tail(c) \in Seq(Nat)
    BY <1>1, <1>5, NumberLengths
  <2>3. Len(Append(b, c[1])) = Len(b) + 1 /\ Len(Tail(c)) = Len(c) - 1
    BY <1>1, <1>5, NumberLengths
  <2>4. Len(a) \in Int /\ Len(b) \in Int /\ Len(c) \in Int /\ lost \in Int /\ n \in Int
    BY <1>0, <2>1
  <2>5. ASSUME NEW u, NEW v, u = Len(b) + 1, v = Len(c) - 1 PROVE Len(a) + u + v + lost = n
    BY <1>0, <2>4, <2>5
  <2> QED
    BY <2>2, <2>3, <2>5
<1>7. Sorted(Append(b, c[1]))
  BY <1>1, <1>2, <1>4, <1>5, EndOfSorted
<1>8. Ahead(a, Append(b, c[1])) /\ Ahead(Append(b, c[1]), Tail(c))
  BY <1>1, <1>2, <1>3, <1>4, <1>5, EndAhead
<1>9. Within(Append(b, c[1]), n)
  BY <1>1, <1>2, <1>3, EndWithin
<1> QED
  BY <1>1, <1>2, <1>3, <1>4, <1>6, <1>7, <1>8, <1>9 DEF Chain

(* The first character of the middle part moves to the first one. *)
LEMMA ChainMovesOut ==
  ASSUME NEW a, NEW b, NEW c, NEW n, NEW lost, Chain(a, b, c, n, lost), Len(b) > 0
  PROVE  Chain(Append(a, b[1]), Tail(b), c, n, lost)
PROOF
<1>1. /\ a \in Seq(Nat) /\ b \in Seq(Nat) /\ c \in Seq(Nat) /\ n \in Nat /\ lost \in Nat
  BY DEF Chain
<1>0. n \in Nat /\ lost \in Nat /\ Len(a) + Len(b) + Len(c) + lost = n
  BY DEF Chain
<1>2. /\ Sorted(a) /\ Sorted(b) /\ Sorted(c)
      /\ Ahead(a, b) /\ Ahead(a, c) /\ Ahead(b, c)
      /\ Within(a, n) /\ Within(b, n) /\ Within(c, n)
  BY DEF Chain
<1>3. /\ Sorted(Tail(b)) /\ (\A i \in 1 .. Len(Tail(b)) : b[1] < Tail(b)[i])
      /\ Within(Tail(b), n) /\ b[1] \in 1 .. n
  BY <1>1, <1>2, RestOfSorted
<1>4. /\ Ahead(a, Tail(b)) /\ \A j \in 1 .. Len(a) : a[j] < b[1]
      /\ Ahead(Tail(b), c) /\ \A j \in 1 .. Len(c) : b[1] < c[j]
  BY <1>1, <1>2, RestOfSorted
<1>5. b[1] \in Nat
  BY <1>3
<1>6. /\ Append(a, b[1]) \in Seq(Nat) /\ Tail(b) \in Seq(Nat)
      /\ Len(Append(a, b[1])) + Len(Tail(b)) + Len(c) + lost = n
  <2>1. Len(a) \in Nat /\ Len(b) \in Nat /\ Len(c) \in Nat
    BY <1>1, NumberLengths
  <2>2. Append(a, b[1]) \in Seq(Nat) /\ Tail(b) \in Seq(Nat)
    BY <1>1, <1>5, NumberLengths
  <2>3. Len(Append(a, b[1])) = Len(a) + 1 /\ Len(Tail(b)) = Len(b) - 1
    BY <1>1, <1>5, NumberLengths
  <2>4. Len(a) \in Int /\ Len(b) \in Int /\ Len(c) \in Int /\ lost \in Int /\ n \in Int
    BY <1>0, <2>1
  <2>5. ASSUME NEW u, NEW v, u = Len(a) + 1, v = Len(b) - 1 PROVE u + v + Len(c) + lost = n
    BY <1>0, <2>4, <2>5
  <2> QED
    BY <2>2, <2>3, <2>5
<1>7. Sorted(Append(a, b[1]))
  BY <1>1, <1>2, <1>4, <1>5, EndOfSorted
<1>8. Ahead(Append(a, b[1]), Tail(b)) /\ Ahead(Append(a, b[1]), c)
  BY <1>1, <1>2, <1>3, <1>4, <1>5, EndAhead
<1>9. Within(Append(a, b[1]), n)
  BY <1>1, <1>2, <1>3, EndWithin
<1> QED
  BY <1>1, <1>2, <1>3, <1>4, <1>6, <1>7, <1>8, <1>9 DEF Chain

(* The middle or the last part is lost, and with it that many characters. *)
LEMMA ChainLoses ==
  ASSUME NEW a, NEW b, NEW c, NEW n, NEW lost, Chain(a, b, c, n, lost)
  PROVE  /\ Chain(a, <<>>, c, n, lost + Len(b))
         /\ Chain(a, b, <<>>, n, lost + Len(c))
PROOF
<1>1. /\ a \in Seq(Nat) /\ b \in Seq(Nat) /\ c \in Seq(Nat) /\ n \in Nat /\ lost \in Nat
  BY DEF Chain
<1>0. n \in Nat /\ lost \in Nat /\ Len(a) + Len(b) + Len(c) + lost = n
  BY DEF Chain
<1>2. /\ Sorted(a) /\ Sorted(b) /\ Sorted(c)
      /\ Ahead(a, b) /\ Ahead(a, c) /\ Ahead(b, c)
      /\ Within(a, n) /\ Within(b, n) /\ Within(c, n)
  BY DEF Chain
<1> DEFINE none == <<>>
<1>3. none \in Seq(Nat) /\ Len(none) = 0
  OBVIOUS
<1>4. 1 .. 0 = {}
  OBVIOUS
<1> HIDE DEF none
<1>5. Sorted(none) /\ Within(none, n)
  BY <1>3, <1>4 DEF Sorted, Within
<1>6. \A t : Ahead(none, t) /\ Ahead(t, none)
  BY <1>3, <1>4 DEF Ahead
<1>7. Len(b) \in Nat /\ Len(c) \in Nat /\ Len(a) \in Nat
  BY <1>1
<1>8. /\ Len(a) + Len(none) + Len(c) + (lost + Len(b)) = n
      /\ Len(a) + Len(b) + Len(none) + (lost + Len(c)) = n
      /\ lost + Len(b) \in Nat /\ lost + Len(c) \in Nat
  BY <1>0, <1>3, <1>7
<1>9. Chain(a, none, c, n, lost + Len(b)) /\ Chain(a, b, none, n, lost + Len(c))
  BY <1>1, <1>2, <1>3, <1>5, <1>6, <1>8 DEF Chain
<1> QED
  BY <1>9 DEF none

(* The numbers of a chain are those sent. *)
LEMMA ChainTypes ==
  ASSUME NEW a, NEW b, NEW c, NEW n, NEW lost, Chain(a, b, c, n, lost)
  PROVE  /\ a \in Seq(Nat) /\ b \in Seq(Nat) /\ c \in Seq(Nat) /\ n \in Nat /\ lost \in Nat
         /\ Len(b) > 0 => b[1] \in 1 .. n
         /\ Len(c) > 0 => c[1] \in 1 .. n
PROOF
<1>1. /\ a \in Seq(Nat) /\ b \in Seq(Nat) /\ c \in Seq(Nat) /\ n \in Nat /\ lost \in Nat
      /\ Within(b, n) /\ Within(c, n)
  BY DEF Chain
<1>2. ASSUME NEW s \in Seq(Nat), Len(s) > 0, Within(s, n) PROVE s[1] \in 1 .. n
  BY <1>1, <1>2, RestOfSorted
<1> QED
  BY <1>1, <1>2

(* Two sequences with the same elements are the same. *)
LEMMA SameNumbers ==
  ASSUME NEW s \in Seq(Nat), NEW t \in Seq(Nat), Len(s) = Len(t), \A i \in 1 .. Len(s) : s[i] = t[i]
  PROVE  s = t
PROOF
  OBVIOUS

FifoOK(q) == q \in [head : 0 .. ScFifo, tail : 0 .. ScFifo, data : [0 .. ScFifo -> Nat]]

(* Where an index of the ring is that has gone past its end. *)
LEMMA FifoWraps ==
  ASSUME NEW x \in 0 .. 2 * ScFifo + 1
  PROVE  x % (ScFifo + 1) = (IF x <= ScFifo THEN x ELSE x - (ScFifo + 1))
PROOF
<1>1. ScFifo \in Nat
  BY ScAssumption
<1>2. ASSUME NEW m \in Nat \ {0}, NEW y \in Nat, y < 2 * m PROVE y % m = (IF y < m THEN y ELSE y - m)
  <2>1. y = m * (y \div m) + (y % m) /\ y % m \in 0 .. m - 1 /\ y \div m \in Int
    OBVIOUS
  <2>2. y \div m = 0 \/ y \div m = 1
    <3>1. CASE y \div m >= 2
      <4>1. m * (y \div m) >= m * 2
        BY <2>1, <3>1
      <4> QED
        BY <1>2, <2>1, <4>1
    <3>2. CASE y \div m < 0
      <4>1. m * (y \div m) <= m * (-1)
        BY <2>1, <3>2
      <4> QED
        BY <1>2, <2>1, <4>1
    <3> QED
      BY <2>1, <3>1, <3>2
  <2> QED
    BY <1>2, <2>1, <2>2
<1> DEFINE m == ScFifo + 1
<1>3. m \in Nat \ {0} /\ x \in Nat /\ x < 2 * m /\ (x < m <=> x <= ScFifo)
  BY <1>1
<1>4. x % m = (IF x < m THEN x ELSE x - m)
  <2> HIDE DEF m
  <2> QED
    BY <1>2, <1>3
<1> QED
  BY <1>3, <1>4

(* The index that follows in a FIFO (fifo_push, fifo_pop). *)
LEMMA NextWraps ==
  ASSUME NEW i \in 0 .. ScFifo
  PROVE  (i + 1) % (ScFifo + 1) = (IF i = ScFifo THEN 0 ELSE i + 1)
PROOF
<1>1. ScFifo \in Nat
  BY ScAssumption
<1> DEFINE x == i + 1
<1>2. x \in 0 .. 2 * ScFifo + 1 /\ (x <= ScFifo <=> i # ScFifo) /\ (i = ScFifo => x - (ScFifo + 1) = 0)
  BY <1>1
<1>3. x % (ScFifo + 1) = (IF i = ScFifo THEN 0 ELSE x)
  <2> HIDE DEF x
  <2> QED
    BY <1>2, FifoWraps
<1> QED
  BY <1>3

(* The index of the i-th character of a FIFO whose tail is at t. *)
LEMMA IndexWraps ==
  ASSUME NEW t \in 0 .. ScFifo, NEW i \in 1 .. ScFifo + 1
  PROVE  (t + i - 1) % (ScFifo + 1)
           = (IF t + i - 1 <= ScFifo THEN t + i - 1 ELSE (t + i - 1) - (ScFifo + 1))
PROOF
<1>1. ScFifo \in Nat
  BY ScAssumption
<1>2. t + i - 1 \in 0 .. 2 * ScFifo + 1
  BY <1>1
<1>3. \A x \in 0 .. 2 * ScFifo + 1 :
        x % (ScFifo + 1) = (IF x <= ScFifo THEN x ELSE x - (ScFifo + 1))
  BY FifoWraps
<1> QED
  BY <1>2, <1>3, Zenon

(* How much is in a FIFO, and what. *)
LEMMA FifoHolds ==
  ASSUME NEW q, FifoOK(q)
  PROVE  /\ FifoSize(q) \in 0 .. ScFifo
         /\ FifoSize(q) = 0 <=> q.head = q.tail
         /\ FifoContent(q) \in Seq(Nat) /\ Len(FifoContent(q)) = FifoSize(q)
         /\ \A i \in 1 .. FifoSize(q) :
              /\ (q.tail + i - 1) % (ScFifo + 1) \in 0 .. ScFifo
              /\ FifoContent(q)[i] = q.data[(q.tail + i - 1) % (ScFifo + 1)]
PROOF
<1>0. q.data \in [0 .. ScFifo -> Nat]
  BY DEF FifoOK
<1>1. ScFifo \in Nat /\ q.head \in 0 .. ScFifo /\ q.tail \in 0 .. ScFifo
  BY ScAssumption DEF FifoOK
<1>2. FifoSize(q) \in 0 .. ScFifo /\ (FifoSize(q) = 0 <=> q.head = q.tail)
  <2> DEFINE head == q.head
             tail == q.tail
  <2>1. FifoSize(q) = (IF head < tail THEN ScFifo + 1 - (tail - head) ELSE head - tail)
    BY DEF FifoSize
  <2>2. head \in 0 .. ScFifo /\ tail \in 0 .. ScFifo
    BY <1>1
  <2> HIDE DEF head, tail
  <2>3. FifoSize(q) \in 0 .. ScFifo /\ (FifoSize(q) = 0 <=> head = tail)
    BY <1>1, <2>1, <2>2
  <2> QED
    BY <2>3 DEF head, tail
<1>3. ASSUME NEW i \in 1 .. FifoSize(q)
      PROVE  (q.tail + i - 1) % (ScFifo + 1) \in 0 .. ScFifo
  <2>1. q.tail + i - 1 \in Nat /\ ScFifo + 1 \in Nat \ {0}
    BY <1>1, <1>2
  <2>2. \A x \in Nat, m \in Nat \ {0} : x % m \in 0 .. m - 1
    OBVIOUS
  <2>3. (q.tail + i - 1) % (ScFifo + 1) \in 0 .. (ScFifo + 1) - 1
    BY <2>1, <2>2
  <2> QED
    BY <1>1, <2>3
<1>4. ASSUME NEW i \in 1 .. FifoSize(q)
      PROVE  q.data[(q.tail + i - 1) % (ScFifo + 1)] \in Nat
  BY <1>0, <1>3
<1>6. FifoContent(q) \in Seq(Nat) /\ Len(FifoContent(q)) = FifoSize(q)
  <2>1. FifoSize(q) \in Nat
    BY <1>1, <1>2
  <2> QED
    BY <1>4, <2>1 DEF FifoContent
<1> QED
  BY <1>2, <1>3, <1>6 DEF FifoContent

(* What is put in is behind all that it holds. *)
LEMMA EnqueueAppends ==
  ASSUME NEW q, FifoOK(q), NEW x \in Nat, ~FifoFull(q)
  PROVE  /\ FifoOK(Enqueued(q, x)) /\ FifoSize(Enqueued(q, x)) = FifoSize(q) + 1
         /\ FifoContent(Enqueued(q, x)) = Append(FifoContent(q), x)
PROOF
<1>0. q.data \in [0 .. ScFifo -> Nat]
  BY DEF FifoOK
<1>1. ScFifo \in Nat /\ q.head \in 0 .. ScFifo /\ q.tail \in 0 .. ScFifo
  BY ScAssumption DEF FifoOK
<1>2. (q.head + 1) % (ScFifo + 1) = (IF q.head = ScFifo THEN 0 ELSE q.head + 1)
  BY <1>1, NextWraps
<1> DEFINE e == Enqueued(q, x)
           next == IF q.head = ScFifo THEN 0 ELSE q.head + 1
           cells == [q.data EXCEPT ![q.head] = x]
<1>3. e.head = next /\ e.tail = q.tail /\ e.data = cells /\ FifoOK(e)
  <2>1. next \in 0 .. ScFifo /\ cells \in [0 .. ScFifo -> Nat]
    BY <1>0, <1>1
  <2>2. e = [q EXCEPT !.data = cells, !.head = next]
    BY <1>1, <1>2 DEF Enqueued, FifoNext, FifoOK
  <2> HIDE DEF next, cells, e
  <2> QED
    BY <2>1, <2>2 DEF FifoOK
<1>4. FifoSize(e) = FifoSize(q) + 1
  BY <1>1, <1>3 DEF FifoSize, FifoFull
<1>5. FifoSize(q) \in 0 .. ScFifo - 1
  <2>1. FifoSize(q) \in 0 .. ScFifo /\ FifoSize(q) # ScFifo
    BY FifoHolds DEF FifoFull
  <2> QED
    BY <1>1, <2>1
<1>6. ASSUME NEW i \in 1 .. FifoSize(q)
      PROVE  FifoContent(e)[i] = FifoContent(q)[i]
  <2> DEFINE k == (q.tail + i - 1) % (ScFifo + 1)
  <2>1. k \in 0 .. ScFifo /\ FifoContent(q)[i] = q.data[k]
    BY FifoHolds
  <2>2. i \in 1 .. FifoSize(e)
    BY <1>4, <1>5
  <2>3. FifoContent(e)[i] = cells[k]
    <3>1. FifoContent(e)[i] = e.data[(e.tail + i - 1) % (ScFifo + 1)]
      <4> HIDE DEF e
      <4> QED
        BY <2>2 DEF FifoContent
    <3> QED
      BY <1>3, <3>1
  <2>4. k # q.head
    <3>1. i \in 1 .. ScFifo + 1
      BY <1>1, <1>5
    <3>2. k = (IF q.tail + i - 1 <= ScFifo THEN q.tail + i - 1 ELSE (q.tail + i - 1) - (ScFifo + 1))
      BY <1>1, <3>1, IndexWraps
    <3> HIDE DEF k
    <3> QED
      BY <1>1, <1>5, <3>2 DEF FifoSize
  <2>5. cells[k] = q.data[k]
    BY <1>0, <2>1, <2>4
  <2> HIDE DEF k
  <2> QED
    BY <2>1, <2>3, <2>5
<1>7. FifoContent(e)[FifoSize(q) + 1] = x
  <2> DEFINE n == FifoSize(q) + 1
             k == (q.tail + n - 1) % (ScFifo + 1)
  <2>1. n \in 1 .. FifoSize(e)
    BY <1>4, <1>5
  <2>2. FifoContent(e)[n] = cells[k]
    <3>1. FifoContent(e)[n] = e.data[(e.tail + n - 1) % (ScFifo + 1)]
      <4>1. FifoOK(e) /\ n \in 1 .. FifoSize(e)
        BY <1>3, <2>1
      <4> HIDE DEF e, n
      <4> QED
        BY <4>1, FifoHolds
    <3> QED
      BY <1>3, <3>1
  <2>3. k = q.head
    <3>1. n \in 1 .. ScFifo + 1
      BY <1>1, <1>5
    <3>2. k = (IF q.tail + n - 1 <= ScFifo THEN q.tail + n - 1 ELSE (q.tail + n - 1) - (ScFifo + 1))
      <4> HIDE DEF n
      <4> QED
        BY <1>1, <3>1, IndexWraps
    <3>3. n = FifoSize(q) + 1
      OBVIOUS
    <3> HIDE DEF k, n
    <3> QED
      BY <1>1, <1>5, <3>2, <3>3 DEF FifoSize
  <2>4. cells[q.head] = x
    BY <1>0, <1>1
  <2> HIDE DEF k, cells
  <2> QED
    BY <2>2, <2>3, <2>4
<1> DEFINE old == FifoContent(q)
           new == FifoContent(e)
<1>8. old \in Seq(Nat) /\ Len(old) = FifoSize(q) /\ new \in Seq(Nat) /\ Len(new) = FifoSize(q) + 1
  BY <1>3, <1>4, FifoHolds
<1>9. new = Append(old, x)
  <2>1. Append(old, x) \in Seq(Nat) /\ Len(Append(old, x)) = Len(old) + 1
    BY <1>8, NumberLengths
  <2>2. ASSUME NEW i \in 1 .. Len(new) PROVE new[i] = Append(old, x)[i]
    <3>1. i \in 1 .. Len(Append(old, x))
      BY <1>8, <2>1
    <3>2. (i = Len(old) + 1 /\ Append(old, x)[i] = x) \/ (i \in 1 .. Len(old) /\ Append(old, x)[i] = old[i])
      BY <1>8, <3>1, NumberAppended
    <3> QED
      BY <1>6, <1>7, <1>8, <3>2
  <2> QED
    BY <1>8, <2>1, <2>2, SameNumbers
<1> QED
  BY <1>3, <1>4, <1>9

(* What is taken out was its first. *)
LEMMA DequeueTails ==
  ASSUME NEW q, FifoOK(q), q.head # q.tail
  PROVE  /\ FifoOK(Dequeued(q)) /\ FifoSize(Dequeued(q)) = FifoSize(q) - 1
         /\ FifoContent(Dequeued(q)) = Tail(FifoContent(q))
         /\ FifoSize(q) > 0 /\ FifoContent(q)[1] = q.data[q.tail]
PROOF
<1>0. q.data \in [0 .. ScFifo -> Nat]
  BY DEF FifoOK
<1>1. ScFifo \in Nat /\ q.head \in 0 .. ScFifo /\ q.tail \in 0 .. ScFifo
  BY ScAssumption DEF FifoOK
<1>2. (q.tail + 1) % (ScFifo + 1) = (IF q.tail = ScFifo THEN 0 ELSE q.tail + 1)
  BY <1>1, NextWraps
<1> DEFINE e == Dequeued(q)
           next == IF q.tail = ScFifo THEN 0 ELSE q.tail + 1
<1>3. e.head = q.head /\ e.tail = next /\ e.data = q.data /\ FifoOK(e)
  <2>1. next \in 0 .. ScFifo
    BY <1>1
  <2>2. e = [q EXCEPT !.tail = next]
    BY <1>1, <1>2 DEF Dequeued, FifoNext, FifoOK
  <2> HIDE DEF next, e
  <2> QED
    BY <2>1, <2>2 DEF FifoOK
<1>4. FifoSize(e) = FifoSize(q) - 1
  BY <1>1, <1>3 DEF FifoSize
<1>5. FifoSize(q) \in 1 .. ScFifo
  <2>1. FifoSize(q) \in 0 .. ScFifo /\ FifoSize(q) # 0
    BY FifoHolds
  <2> QED
    BY <1>1, <2>1
<1>6. ASSUME NEW i \in 1 .. FifoSize(q) - 1
      PROVE  FifoContent(e)[i] = FifoContent(q)[i + 1]
  <2>1. i \in 1 .. FifoSize(e) /\ i + 1 \in 1 .. FifoSize(q) /\ i \in Int
    BY <1>4, <1>5
  <2>2. FifoContent(e)[i] = q.data[(next + i - 1) % (ScFifo + 1)]
    BY <1>3, <2>1, FifoHolds
  <2>3. FifoContent(q)[i + 1] = q.data[(q.tail + (i + 1) - 1) % (ScFifo + 1)]
    BY <2>1, FifoHolds
  <2>4. next \in 0 .. ScFifo /\ i \in 1 .. ScFifo + 1 /\ i + 1 \in 1 .. ScFifo + 1
    BY <1>1, <1>5, <2>1
  <2>5. /\ (next + i - 1) % (ScFifo + 1)
             = (IF next + i - 1 <= ScFifo THEN next + i - 1 ELSE (next + i - 1) - (ScFifo + 1))
        /\ (q.tail + (i + 1) - 1) % (ScFifo + 1)
             = (IF q.tail + (i + 1) - 1 <= ScFifo THEN q.tail + (i + 1) - 1 ELSE (q.tail + (i + 1) - 1) - (ScFifo + 1))
    <3> HIDE DEF next
    <3> QED
      BY <1>1, <2>4, IndexWraps
  <2>6. (next + i - 1) % (ScFifo + 1) = (q.tail + (i + 1) - 1) % (ScFifo + 1)
    BY <1>1, <1>5, <2>1, <2>5
  <2> QED
    BY <2>2, <2>3, <2>6
<1>7. FifoContent(q)[1] = q.data[q.tail]
  <2>1. 1 \in 1 .. FifoSize(q)
    BY <1>5
  <2>2. q.tail + 1 - 1 = q.tail /\ q.tail \in 0 .. 2 * ScFifo + 1
    BY <1>1
  <2>3. q.tail % (ScFifo + 1) = q.tail
    BY <1>1, <2>2, FifoWraps
  <2> QED
    BY <2>1, <2>2, <2>3, FifoHolds
<1> DEFINE old == FifoContent(q)
           new == FifoContent(e)
<1>8. old \in Seq(Nat) /\ Len(old) = FifoSize(q) /\ new \in Seq(Nat) /\ Len(new) = FifoSize(q) - 1
  BY <1>3, <1>4, FifoHolds
<1>9. new = Tail(old)
  <2>1. Len(old) > 0
    BY <1>5, <1>8
  <2>2. Tail(old) \in Seq(Nat) /\ Len(Tail(old)) = Len(old) - 1
    BY <1>8, <2>1, NumberLengths
  <2>3. ASSUME NEW i \in 1 .. Len(new) PROVE new[i] = Tail(old)[i]
    <3>1. i \in 1 .. Len(Tail(old)) /\ i \in 1 .. FifoSize(q) - 1
      BY <1>8, <2>2
    <3>2. Tail(old)[i] = old[i + 1]
      BY <1>8, <2>1, <3>1, NumberDropped
    <3> QED
      BY <1>6, <3>1, <3>2
  <2> QED
    BY <1>8, <2>2, <2>3, SameNumbers
<1> QED
  BY <1>3, <1>4, <1>5, <1>7, <1>9

(* Where in its blocks the character k of a queue is, and that one place   *)
(* is that of one character.                                               *)
LEMMA BlockPlace ==
  ASSUME NEW l \in Nat \ {0}, NEW len \in 1 .. ScBlock, NEW k \in Nat, k < (l - 1) * ScBlock + len
  PROVE  /\ k \div ScBlock \in 0 .. l - 1 /\ k % ScBlock \in 0 .. ScBlock - 1
         /\ k \div ScBlock = l - 1 => k % ScBlock < len
PROOF
<1>1. ScBlock \in Nat \ {0}
  BY ScAssumption
<1>2. ASSUME NEW m \in Nat \ {0}
      PROVE  k = m * (k \div m) + (k % m) /\ k % m \in 0 .. m - 1 /\ k \div m \in Nat
  OBVIOUS
<1> DEFINE d == k \div ScBlock
           r == k % ScBlock
<1>3. k = ScBlock * d + r /\ r \in 0 .. ScBlock - 1 /\ d \in Nat
  BY <1>1, <1>2
<1> HIDE DEF d, r
<1>4. d <= l - 1
  <2>1. SUFFICES ASSUME d >= l PROVE FALSE
    BY <1>3
  <2>2. \A x, y, z \in Nat : x <= y => z * x <= z * y
    OBVIOUS
  <2>3. ScBlock * l <= ScBlock * d
    BY <1>1, <1>3, <2>1, <2>2
  <2>4. (l - 1) * ScBlock = ScBlock * l - ScBlock
    BY <1>1
  <2>5. ScBlock * l \in Nat /\ ScBlock * d \in Nat
    BY <1>1, <1>3
  <2> QED
    BY <1>1, <1>3, <2>3, <2>4, <2>5
<1>5. d = l - 1 => r < len
  <2>1. SUFFICES ASSUME d = l - 1 PROVE r < len
    OBVIOUS
  <2>2. ScBlock * d = (l - 1) * ScBlock /\ ScBlock * d \in Nat
    BY <1>1, <1>3, <2>1
  <2> QED
    BY <1>1, <1>3, <2>2
<1> QED
  BY <1>3, <1>4, <1>5 DEF d, r

(* The block and the place in it of a character of a queue. *)
LEMMA PlaceBlock ==
  ASSUME NEW d \in Nat, NEW r \in 0 .. ScBlock - 1
  PROVE  (d * ScBlock + r) \div ScBlock = d /\ (d * ScBlock + r) % ScBlock = r
PROOF
<1>1. ScBlock \in Nat \ {0}
  BY ScAssumption
<1> DEFINE k == d * ScBlock + r
           e == k \div ScBlock
           s == k % ScBlock
<1>2. k \in Nat
  BY <1>1
<1>3. \A x \in Nat, m \in Nat \ {0} : x = m * (x \div m) + (x % m) /\ x % m \in 0 .. m - 1 /\ x \div m \in Nat
  OBVIOUS
<1>4. k = ScBlock * e + s /\ s \in 0 .. ScBlock - 1 /\ e \in Nat
  BY <1>1, <1>2, <1>3
<1>5. k = ScBlock * d + r
  BY <1>1
<1> HIDE DEF k, e, s
<1>6. \A x, y \in Nat, z \in Nat : x < y => z * x + z <= z * y
  <2>1. \A x, y, z \in Nat : x <= y => z * x <= z * y
    OBVIOUS
  <2>2. \A x, z \in Nat : z * (x + 1) = z * x + z /\ x + 1 \in Nat
    OBVIOUS
  <2> QED
    BY <2>1, <2>2
<1>7. ScBlock * d \in Nat /\ ScBlock * e \in Nat
  BY <1>1, <1>4
<1>8. e = d
  <2>1. CASE e < d
    <3>1. ScBlock * e + ScBlock <= ScBlock * d
      BY <1>1, <1>4, <1>6, <2>1
    <3> QED
      BY <1>1, <1>4, <1>5, <1>7, <3>1
  <2>2. CASE d < e
    <3>1. ScBlock * d + ScBlock <= ScBlock * e
      BY <1>1, <1>4, <1>6, <2>2
    <3> QED
      BY <1>1, <1>4, <1>5, <1>7, <3>1
  <2> QED
    BY <1>4, <2>1, <2>2
<1>9. s = r
  BY <1>4, <1>5, <1>7, <1>8
<1> QED
  BY <1>8, <1>9 DEF k, e, s

DataBlock == [data : Seq(Nat), read : 0 .. ScBlock - 1]

\* Every block but the last is full, and only the first has been read from.
QueueOK(q) ==
  /\ q \in Seq(DataBlock)
  /\ \A i \in 1 .. Len(q) :
       /\ Len(q[i].data) \in 1 .. ScBlock
       /\ i < Len(q) => Len(q[i].data) = ScBlock
       /\ i > 1 => q[i].read = 0
       /\ q[i].read <= Len(q[i].data)

\* Where a queue ends, counted from the start of its first block.
QueueEnd(q) == IF q = <<>> THEN 0 ELSE (Len(q) - 1) * ScBlock + Len(q[Len(q)].data)

(* A queue's blocks as numbers. *)
LEMMA QueueShape ==
  ASSUME NEW q, QueueOK(q), q # <<>>
  PROVE  /\ Len(q) \in Nat \ {0} /\ Len(q[Len(q)].data) \in 1 .. ScBlock
         /\ (Len(q) - 1) * ScBlock \in Nat
         /\ Head(q) = q[1] /\ q[1].read \in 0 .. ScBlock - 1 /\ q[1].read <= Len(q[1].data)
         /\ Len(q) > 1 => Len(q[1].data) = ScBlock /\ (Len(q) - 1) * ScBlock >= ScBlock
         /\ \A i \in 1 .. Len(q) : q[i] \in DataBlock
PROOF
<1>1. Len(q) \in Nat \ {0} /\ \A i \in 1 .. Len(q) : q[i] \in DataBlock
  <2>1. q \in Seq(DataBlock)
    BY DEF QueueOK
  <2> QED
    BY <2>1
<1>2. 1 \in 1 .. Len(q) /\ Len(q) \in 1 .. Len(q)
  BY <1>1
<1>3. ScBlock \in Nat \ {0}
  BY ScAssumption
<1>4. Len(q[Len(q)].data) \in 1 .. ScBlock /\ q[1].read <= Len(q[1].data)
  BY <1>2 DEF QueueOK
<1>5. q[1].read \in 0 .. ScBlock - 1
  BY <1>1, <1>2 DEF DataBlock
<1>6. \A l \in Nat \ {0}, b \in Nat : (l - 1) * b \in Nat /\ (l > 1 => (l - 1) * b >= b)
  <2>1. \A m, b \in Nat : m * b \in Nat /\ (m >= 1 => m * b >= b)
    OBVIOUS
  <2> QED
    BY <2>1
<1>7. (Len(q) - 1) * ScBlock \in Nat /\ (Len(q) > 1 => (Len(q) - 1) * ScBlock >= ScBlock)
  BY <1>1, <1>3, <1>6
<1>8. Len(q) > 1 => Len(q[1].data) = ScBlock
  BY <1>2 DEF QueueOK
<1> QED
  BY <1>1, <1>4, <1>5, <1>7, <1>8

(* What a queue holds is what its blocks hold from where it is read to its *)
(* end, and it is empty when that is nothing.                              *)
LEMMA QueueHolds ==
  ASSUME NEW q, QueueOK(q)
  PROVE  /\ QueueRead(q) \in 0 .. ScBlock - 1 /\ QueueEnd(q) \in Nat /\ QueueLen(q) \in Nat
         /\ QueueEnd(q) = QueueRead(q) + QueueLen(q)
         /\ QueueEmpty(q) <=> QueueLen(q) = 0
PROOF
<1>1. ScBlock \in Nat \ {0}
  BY ScAssumption
<1>2. CASE q = <<>>
  BY <1>1, <1>2 DEF QueueRead, QueueEnd, QueueLen, QueueEmpty
<1>3. CASE q # <<>>
  <2> DEFINE whole == (Len(q) - 1) * ScBlock
             len == Len(q[Len(q)].data)
             first == Len(q[1].data)
             read == q[1].read
  <2>1. /\ whole \in Nat /\ len \in 1 .. ScBlock /\ read \in 0 .. ScBlock - 1 /\ read <= first
        /\ Len(q) > 1 => first = ScBlock /\ whole >= ScBlock
    BY <1>3, QueueShape
  <2>2. Len(q) = 1 => whole = 0 /\ first = len
    BY <1>1
  <2>3. /\ QueueRead(q) = read /\ QueueEnd(q) = whole + len /\ QueueLen(q) = whole + len - read
        /\ QueueEmpty(q) <=> read >= first
    BY <1>3, QueueShape DEF QueueRead, QueueEnd, QueueLen, QueueEmpty
  <2>4. Len(q) \in Nat \ {0}
    BY <1>3, QueueShape
  <2> HIDE DEF whole, len, first, read
  <2>5. CASE Len(q) = 1
    BY <1>1, <2>1, <2>2, <2>3, <2>5
  <2>6. CASE Len(q) > 1
    BY <1>1, <2>1, <2>3, <2>6
  <2>7. \A n \in Nat \ {0} : n = 1 \/ n > 1
    OBVIOUS
  <2> QED
    BY <2>4, <2>5, <2>6, <2>7
<1> QED
  BY <1>2, <1>3

(* Its characters, with the block and the place each is in. *)
LEMMA QueueChars ==
  ASSUME NEW q, QueueOK(q), NEW k \in Nat, k < QueueEnd(q)
  PROVE  /\ (k \div ScBlock) + 1 \in 1 .. Len(q) /\ k \div ScBlock \in Nat
         /\ (k % ScBlock) + 1 \in 1 .. Len(q[(k \div ScBlock) + 1].data) /\ k % ScBlock \in 0 .. ScBlock - 1
         /\ CharAt(q, k) = q[(k \div ScBlock) + 1].data[(k % ScBlock) + 1]
         /\ CharAt(q, k) \in Nat
PROOF
<1>1. ScBlock \in Nat \ {0}
  BY ScAssumption
<1>2. q # <<>>
  BY DEF QueueEnd
<1> DEFINE l == Len(q)
           len == Len(q[Len(q)].data)
           d == k \div ScBlock
           r == k % ScBlock
<1>3. /\ l \in Nat \ {0} /\ len \in 1 .. ScBlock /\ k < (l - 1) * ScBlock + len
      /\ \A i \in 1 .. l : q[i] \in DataBlock
  BY <1>2, QueueShape DEF QueueEnd
<1>4. d \in 0 .. l - 1 /\ r \in 0 .. ScBlock - 1 /\ (d = l - 1 => r < len)
  <2> HIDE DEF l, len
  <2> QED
    BY <1>3, BlockPlace
<1> HIDE DEF d, r
<1>5. d + 1 \in 1 .. l /\ (d = l - 1 => d + 1 = l) /\ (d # l - 1 => d + 1 < l)
  <2> HIDE DEF l
  <2> QED
    BY <1>3, <1>4
<1>6. r + 1 \in 1 .. Len(q[d + 1].data)
  <2>1. CASE d = l - 1
    <3>1. Len(q[d + 1].data) = len
      BY <1>5, <2>1
    <3> HIDE DEF l, len
    <3> QED
      BY <1>1, <1>3, <1>4, <2>1, <3>1
  <2>2. CASE d # l - 1
    <3>1. Len(q[d + 1].data) = ScBlock
      BY <1>5, <2>2 DEF QueueOK
    <3> QED
      BY <1>1, <1>4, <3>1
  <2> QED
    BY <2>1, <2>2
<1>7. q[d + 1].data \in Seq(Nat)
  BY <1>3, <1>5 DEF DataBlock
<1>8. q[d + 1].data[r + 1] \in Nat
  <2> DEFINE s == q[d + 1].data
  <2>1. s \in Seq(Nat) /\ r + 1 \in 1 .. Len(s)
    BY <1>6, <1>7
  <2> HIDE DEF s
  <2>2. s[r + 1] \in Nat
    BY <2>1
  <2> QED
    BY <2>2 DEF s
<1>9. CharAt(q, k) = q[d + 1].data[r + 1]
  BY DEF CharAt, d, r
<1>10. d \in Nat
  BY <1>3, <1>4
<1> QED
  BY <1>4, <1>5, <1>6, <1>8, <1>9, <1>10 DEF d, r

(* What a queue holds: the characters from its read to its end place. *)
LEMMA QueueContents ==
  ASSUME NEW q, QueueOK(q)
  PROVE  /\ QueueContent(q) \in Seq(Nat) /\ Len(QueueContent(q)) = QueueLen(q)
         /\ \A i \in 1 .. QueueLen(q) :
              /\ QueueContent(q)[i] = CharAt(q, QueueRead(q) + i - 1)
              /\ QueueRead(q) + i - 1 \in Nat /\ QueueRead(q) + i - 1 < QueueEnd(q)
PROOF
<1>1. /\ ScBlock \in Nat \ {0} /\ QueueRead(q) \in 0 .. ScBlock - 1 /\ QueueLen(q) \in Nat
      /\ QueueEnd(q) = QueueRead(q) + QueueLen(q)
  BY ScAssumption, QueueHolds
<1>2. ASSUME NEW i \in 1 .. QueueLen(q)
      PROVE  QueueRead(q) + i - 1 \in Nat /\ QueueRead(q) + i - 1 < QueueEnd(q)
  BY <1>1
<1>3. ASSUME NEW i \in 1 .. QueueLen(q) PROVE CharAt(q, QueueRead(q) + i - 1) \in Nat
  BY <1>2, QueueChars
<1>4. QueueContent(q) \in Seq(Nat) /\ Len(QueueContent(q)) = QueueLen(q)
  BY <1>1, <1>3 DEF QueueContent
<1> QED
  BY <1>2, <1>4 DEF QueueContent

(* A queue with the same characters and one more holds one more. *)
LEMMA QueueGrows ==
  ASSUME NEW q, NEW e, NEW x \in Nat, QueueOK(q), QueueOK(e),
         QueueRead(e) = QueueRead(q), QueueEnd(e) = QueueEnd(q) + 1,
         \A k \in Nat : k < QueueEnd(q) => CharAt(e, k) = CharAt(q, k),
         CharAt(e, QueueEnd(q)) = x
  PROVE  QueueContent(e) = Append(QueueContent(q), x)
PROOF
<1> DEFINE old == QueueContent(q)
           new == QueueContent(e)
           read == QueueRead(q)
<1>1. /\ ScBlock \in Nat \ {0} /\ read \in 0 .. ScBlock - 1 /\ QueueLen(q) \in Nat /\ QueueLen(e) \in Nat
      /\ QueueEnd(q) = read + QueueLen(q) /\ QueueEnd(e) = read + QueueLen(e)
  BY ScAssumption, QueueHolds
<1>2. QueueLen(e) = QueueLen(q) + 1
  BY <1>1
<1>3. old \in Seq(Nat) /\ new \in Seq(Nat)
  BY QueueContents
<1>4. Len(old) = QueueLen(q) /\ Len(new) = QueueLen(q) + 1
  BY <1>2, QueueContents
<1>5. ASSUME NEW i \in 1 .. QueueLen(q) PROVE new[i] = old[i]
  <2>1. i \in 1 .. QueueLen(e)
    BY <1>1, <1>2
  <2>2. new[i] = CharAt(e, read + i - 1) /\ old[i] = CharAt(q, read + i - 1)
    BY <2>1, QueueContents
  <2>3. read + i - 1 \in Nat /\ read + i - 1 < QueueEnd(q)
    BY QueueContents
  <2> QED
    BY <2>2, <2>3
<1>6. new[QueueLen(q) + 1] = x
  <2>1. QueueLen(q) + 1 \in 1 .. QueueLen(e)
    BY <1>1, <1>2
  <2>2. new[QueueLen(q) + 1] = CharAt(e, read + (QueueLen(q) + 1) - 1)
    BY <2>1, QueueContents
  <2>3. read + (QueueLen(q) + 1) - 1 = QueueEnd(q)
    BY <1>1
  <2> QED
    BY <2>2, <2>3
<1> HIDE DEF old, new
<1>7. Append(old, x) \in Seq(Nat) /\ Len(Append(old, x)) = Len(new)
  <2>1. Append(old, x) \in Seq(Nat) /\ Len(Append(old, x)) = Len(old) + 1
    BY <1>3, NumberLengths
  <2> QED
    BY <1>4, <2>1
<1>8. ASSUME NEW i \in 1 .. Len(new) PROVE new[i] = Append(old, x)[i]
  <2>1. i \in 1 .. Len(Append(old, x))
    BY <1>7
  <2>2. (i = Len(old) + 1 /\ Append(old, x)[i] = x) \/ (i \in 1 .. Len(old) /\ Append(old, x)[i] = old[i])
    BY <1>3, <2>1, NumberAppended
  <2> QED
    BY <1>4, <1>5, <1>6, <2>2
<1>9. new = Append(old, x)
  BY <1>3, <1>7, <1>8, SameNumbers
<1> QED
  BY <1>9 DEF old, new

(* One whose characters are those of another from its second on holds the  *)
(* rest of it.                                                             *)
LEMMA QueueShrinks ==
  ASSUME NEW q, NEW e, QueueOK(q), QueueOK(e), QueueLen(q) > 0, QueueLen(e) = QueueLen(q) - 1,
         \A i \in Nat : i < QueueLen(e) => CharAt(e, QueueRead(e) + i) = CharAt(q, QueueRead(q) + i + 1)
  PROVE  QueueContent(e) = Tail(QueueContent(q))
PROOF
<1> DEFINE old == QueueContent(q)
           new == QueueContent(e)
<1>1. /\ ScBlock \in Nat \ {0} /\ QueueRead(q) \in 0 .. ScBlock - 1 /\ QueueLen(q) \in Nat
      /\ QueueRead(e) \in 0 .. ScBlock - 1 /\ QueueLen(e) \in Nat
  BY ScAssumption, QueueHolds
<1>2. old \in Seq(Nat) /\ new \in Seq(Nat)
  BY QueueContents
<1>3. Len(old) = QueueLen(q) /\ Len(new) = QueueLen(q) - 1
  BY QueueContents
<1>4. ASSUME NEW i \in 1 .. QueueLen(e) PROVE new[i] = old[i + 1]
  <2>1. i + 1 \in 1 .. QueueLen(q) /\ i - 1 \in Nat /\ i - 1 < QueueLen(e)
    BY <1>1
  <2>2. new[i] = CharAt(e, QueueRead(e) + i - 1) /\ old[i + 1] = CharAt(q, QueueRead(q) + (i + 1) - 1)
    BY <2>1, QueueContents
  <2>3. QueueRead(e) + i - 1 = QueueRead(e) + (i - 1)
    BY <1>1
  <2>4. QueueRead(q) + (i + 1) - 1 = QueueRead(q) + (i - 1) + 1
    BY <1>1
  <2> QED
    BY <2>1, <2>2, <2>3, <2>4
<1> HIDE DEF old, new
<1>5. Len(old) > 0
  BY <1>3
<1>6. Tail(old) \in Seq(Nat) /\ Len(Tail(old)) = Len(new)
  <2>1. Tail(old) \in Seq(Nat) /\ Len(Tail(old)) = Len(old) - 1
    BY <1>2, <1>5, NumberLengths
  <2> QED
    BY <1>3, <2>1
<1>7. ASSUME NEW i \in 1 .. Len(new) PROVE new[i] = Tail(old)[i]
  <2>1. i \in 1 .. Len(Tail(old)) /\ i \in 1 .. QueueLen(e)
    BY <1>3, <1>6
  <2>2. Tail(old)[i] = old[i + 1]
    BY <1>2, <1>5, <2>1, NumberDropped
  <2> QED
    BY <1>4, <2>1, <2>2
<1>8. new = Tail(old)
  BY <1>2, <1>6, <1>7, SameNumbers
<1> QED
  BY <1>8 DEF old, new

(* What sequences of blocks look like after a change at one end. *)
LEMMA BlockAppended ==
  ASSUME NEW S, NEW s \in Seq(S), NEW x \in S
  PROVE  /\ Append(s, x) \in Seq(S) /\ Len(Append(s, x)) = Len(s) + 1 /\ Append(s, x) # <<>>
         /\ \A i \in 1 .. Len(s) : Append(s, x)[i] = s[i]
         /\ Append(s, x)[Len(s) + 1] = x
PROOF
  OBVIOUS

(* A sequence of blocks with one of them replaced. *)
LEMMA BlockReplaced ==
  ASSUME NEW S, NEW s \in Seq(S), NEW x \in S, NEW j \in 1 .. Len(s)
  PROVE  /\ [s EXCEPT ![j] = x] \in Seq(S) /\ Len([s EXCEPT ![j] = x]) = Len(s)
         /\ [s EXCEPT ![j] = x] # <<>>
         /\ \A i \in 1 .. Len(s) : [s EXCEPT ![j] = x][i] = (IF i = j THEN x ELSE s[i])
PROOF
  OBVIOUS

(* A sequence of blocks without its first one. *)
LEMMA BlockDropped ==
  ASSUME NEW S, NEW s \in Seq(S), s # <<>>
  PROVE  /\ Tail(s) \in Seq(S) /\ Len(Tail(s)) = Len(s) - 1
         /\ Len(s) = 1 => Tail(s) = <<>>
         /\ Len(s) > 1 => Tail(s) # <<>>
         /\ \A i \in 1 .. Len(Tail(s)) : Tail(s)[i] = s[i + 1] /\ i + 1 \in 1 .. Len(s)
PROOF
<1>1. Tail(s) \in Seq(S) /\ Len(Tail(s)) = Len(s) - 1
  OBVIOUS
<1>2. \A t \in Seq(S) : Len(t) = 0 => t = <<>>
  OBVIOUS
<1>3. ASSUME Len(s) = 1 PROVE Tail(s) = <<>>
  <2>1. Len(Tail(s)) = 0
    BY <1>1, <1>3
  <2> QED
    BY <1>1, <1>2, <2>1
<1>4. ASSUME Len(s) > 1 PROVE Tail(s) # <<>>
  <2>1. Len(Tail(s)) # 0
    BY <1>1, <1>4
  <2>2. Len(<<>>) = 0
    OBVIOUS
  <2> QED
    BY <2>1, <2>2, Zenon
<1>5. ASSUME NEW i \in 1 .. Len(Tail(s)) PROVE Tail(s)[i] = s[i + 1] /\ i + 1 \in 1 .. Len(s)
  OBVIOUS
<1> QED
  BY <1>1, <1>3, <1>4, <1>5

(* A character put into a queue is behind all that it holds: in a block of *)
(* its own...                                                              *)
LEMMA PutBegins ==
  ASSUME NEW q, QueueOK(q), NEW x \in Nat, q = <<>> \/ Len(q[Len(q)].data) >= ScBlock
  PROVE  LET e == Append(q, [data |-> <<x>>, read |-> 0])
         IN  /\ QueueOK(e) /\ QueueRead(e) = QueueRead(q) /\ QueueEnd(e) = QueueEnd(q) + 1
             /\ \A k \in Nat : k < QueueEnd(q) => CharAt(e, k) = CharAt(q, k)
             /\ CharAt(e, QueueEnd(q)) = x
PROOF
<1> DEFINE one == <<x>>
           block == [data |-> one, read |-> 0]
           e == Append(q, block)
<1>1. ScBlock \in Nat \ {0} /\ q \in Seq(DataBlock) /\ Len(q) \in Nat
  BY ScAssumption DEF QueueOK
<1>2. one \in Seq(Nat) /\ Len(one) = 1 /\ one[1] = x
  OBVIOUS
<1> HIDE DEF one
<1>3. block \in DataBlock /\ block.data = one /\ block.read = 0
  BY <1>1, <1>2 DEF DataBlock
<1> HIDE DEF block
<1>4. /\ e \in Seq(DataBlock) /\ Len(e) = Len(q) + 1 /\ e # <<>>
      /\ \A i \in 1 .. Len(q) : e[i] = q[i]
      /\ e[Len(q) + 1] = block
  BY <1>1, <1>3, BlockAppended
<1> HIDE DEF e
<1>5. QueueEnd(q) = Len(q) * ScBlock
  <2>1. CASE q = <<>>
    BY <1>1, <2>1 DEF QueueEnd
  <2>2. CASE q # <<>>
    <3>1. Len(q[Len(q)].data) \in 1 .. ScBlock /\ Len(q[Len(q)].data) >= ScBlock
      BY <2>2, QueueShape
    <3>2. Len(q[Len(q)].data) = ScBlock
      BY <1>1, <3>1
    <3>3. \A l \in Nat, b \in Nat : (l - 1) * b + b = l * b
      OBVIOUS
    <3>4. QueueEnd(q) = (Len(q) - 1) * ScBlock + ScBlock
      BY <2>2, <3>2 DEF QueueEnd
    <3> QED
      BY <1>1, <3>3, <3>4
  <2> QED
    BY <2>1, <2>2
<1>6. QueueEnd(e) = QueueEnd(q) + 1
  <2>1. Len(e[Len(e)].data) = 1 /\ Len(e) - 1 = Len(q)
    BY <1>1, <1>2, <1>3, <1>4
  <2>2. QueueEnd(e) = Len(q) * ScBlock + 1
    BY <1>4, <2>1 DEF QueueEnd
  <2> QED
    BY <1>5, <2>2
<1>7. QueueOK(e)
  <2>1. ASSUME NEW i \in 1 .. Len(e)
        PROVE  /\ Len(e[i].data) \in 1 .. ScBlock
               /\ i < Len(e) => Len(e[i].data) = ScBlock
               /\ i > 1 => e[i].read = 0
               /\ e[i].read <= Len(e[i].data)
    <3>1. CASE i = Len(q) + 1
      <4>1. e[i].read = 0 /\ Len(e[i].data) = 1
        BY <1>2, <1>3, <1>4, <3>1
      <4>2. 1 \in 1 .. ScBlock /\ ~(i < Len(e))
        BY <1>1, <1>4, <3>1
      <4> QED
        BY <4>1, <4>2
    <3>2. CASE i # Len(q) + 1
      <4>1. i \in 1 .. Len(q) /\ e[i] = q[i]
        BY <1>1, <1>4, <3>2
      <4>2. Len(q[i].data) = ScBlock
        <5>1. CASE i = Len(q)
          <6>1. q # <<>>
            BY <4>1
          <6>2. Len(q[Len(q)].data) \in 1 .. ScBlock /\ Len(q[Len(q)].data) >= ScBlock
            BY <6>1, QueueShape
          <6> QED
            BY <1>1, <5>1, <6>2
        <5>2. CASE i # Len(q)
          <6>1. i < Len(q)
            BY <1>1, <4>1, <5>2
          <6> QED
            BY <4>1, <6>1 DEF QueueOK
        <5> QED
          BY <5>1, <5>2
      <4>3. (i > 1 => q[i].read = 0) /\ q[i].read <= Len(q[i].data)
        BY <4>1 DEF QueueOK
      <4>4. ScBlock \in 1 .. ScBlock
        BY <1>1
      <4> QED
        BY <4>1, <4>2, <4>3, <4>4
    <3> QED
      BY <3>1, <3>2
  <2> QED
    BY <1>4, <2>1 DEF QueueOK
<1>8. QueueRead(e) = QueueRead(q)
  <2>1. e # <<>> /\ Head(e) = e[1]
    BY <1>4, <1>7, QueueShape
  <2>2. CASE q = <<>>
    <3>1. Len(q) + 1 = 1
      BY <2>2
    <3>2. e[1] = block
      BY <1>4, <3>1
    <3> QED
      BY <1>3, <2>1, <2>2, <3>2 DEF QueueRead
  <2>3. CASE q # <<>>
    <3>1. 1 \in 1 .. Len(q) /\ Head(q) = q[1]
      BY <2>3, QueueShape
    <3> QED
      BY <1>4, <2>1, <2>3, <3>1 DEF QueueRead
  <2> QED
    BY <2>2, <2>3
<1>9. ASSUME NEW k \in Nat, k < QueueEnd(q) PROVE CharAt(e, k) = CharAt(q, k)
  <2>1. (k \div ScBlock) + 1 \in 1 .. Len(q)
    BY <1>9, QueueChars
  <2>2. e[(k \div ScBlock) + 1] = q[(k \div ScBlock) + 1]
    BY <1>4, <2>1
  <2> QED
    BY <2>2 DEF CharAt
<1>10. CharAt(e, QueueEnd(q)) = x
  <2>1. 0 \in 0 .. ScBlock - 1
    BY <1>1
  <2>2. (Len(q) * ScBlock + 0) \div ScBlock = Len(q) /\ (Len(q) * ScBlock + 0) % ScBlock = 0
    BY <1>1, <2>1, PlaceBlock
  <2>3. Len(q) * ScBlock + 0 = QueueEnd(q)
    BY <1>1, <1>5
  <2>4. CharAt(e, QueueEnd(q)) = e[Len(q) + 1].data[0 + 1]
    BY <2>2, <2>3 DEF CharAt
  <2> QED
    BY <1>2, <1>3, <1>4, <2>4
<1> QED
  BY <1>6, <1>7, <1>8, <1>9, <1>10 DEF e, block, one

(* ...or at the end of the last one. *)
LEMMA PutEnds ==
  ASSUME NEW q, QueueOK(q), NEW x \in Nat, q # <<>>, Len(q[Len(q)].data) < ScBlock
  PROVE  LET e == [q EXCEPT ![Len(q)].data = Append(@, x)]
         IN  /\ QueueOK(e) /\ QueueRead(e) = QueueRead(q) /\ QueueEnd(e) = QueueEnd(q) + 1
             /\ \A k \in Nat : k < QueueEnd(q) => CharAt(e, k) = CharAt(q, k)
             /\ CharAt(e, QueueEnd(q)) = x
PROOF
<1> DEFINE l == Len(q)
           data == q[l].data
           more == Append(data, x)
           block == [q[l] EXCEPT !.data = more]
           e == [q EXCEPT ![l] = block]
<1>1. /\ ScBlock \in Nat \ {0} /\ q \in Seq(DataBlock)
      /\ l \in Nat \ {0} /\ l \in 1 .. l /\ q[l] \in DataBlock /\ 1 \in 1 .. l
  BY ScAssumption, QueueShape DEF QueueOK
<1>2. data \in Seq(Nat) /\ q[l].read \in 0 .. ScBlock - 1
  BY <1>1 DEF DataBlock
<1>3. Len(data) \in 1 .. ScBlock /\ q[l].read <= Len(data) /\ (l > 1 => q[l].read = 0) /\ Len(data) < ScBlock
  BY <1>1 DEF QueueOK
<1>4. /\ more \in Seq(Nat) /\ Len(more) = Len(data) + 1 /\ more[Len(data) + 1] = x
      /\ \A i \in 1 .. Len(data) : more[i] = data[i]
  BY <1>2, BlockAppended
<1> HIDE DEF more
<1>5. block \in DataBlock /\ block.data = more /\ block.read = q[l].read
  BY <1>1, <1>4 DEF DataBlock
<1>6. e = [q EXCEPT ![l].data = Append(@, x)]
  BY <1>1 DEF more
<1> HIDE DEF block
<1>7. /\ e \in Seq(DataBlock) /\ Len(e) = l /\ e # <<>>
      /\ \A i \in 1 .. l : e[i] = (IF i = l THEN block ELSE q[i])
  BY <1>1, <1>5, BlockReplaced
<1> HIDE DEF e
<1>8. QueueEnd(q) = (l - 1) * ScBlock + Len(data)
  BY DEF QueueEnd
<1>9. QueueEnd(e) = QueueEnd(q) + 1
  <2>1. QueueEnd(e) = (l - 1) * ScBlock + Len(more)
    BY <1>1, <1>5, <1>7 DEF QueueEnd
  <2>2. (l - 1) * ScBlock \in Nat /\ Len(data) \in Nat
    BY <1>3, QueueShape
  <2> QED
    BY <1>4, <1>8, <2>1, <2>2
<1>10. QueueOK(e)
  <2>1. ASSUME NEW i \in 1 .. Len(e)
        PROVE  /\ Len(e[i].data) \in 1 .. ScBlock
               /\ i < Len(e) => Len(e[i].data) = ScBlock
               /\ i > 1 => e[i].read = 0
               /\ e[i].read <= Len(e[i].data)
    <3>1. CASE i = l
      <4>1. e[i].data = more /\ e[i].read = q[l].read
        BY <1>5, <1>7, <3>1
      <4>2. \A n \in 1 .. ScBlock, r \in 0 .. ScBlock - 1 :
              n < ScBlock /\ r <= n => n + 1 \in 1 .. ScBlock /\ r <= n + 1
        BY ScAssumption
      <4>3. Len(more) \in 1 .. ScBlock /\ q[l].read <= Len(more)
        BY <1>2, <1>3, <1>4, <4>2
      <4>4. ~(i < Len(e))
        <5> HIDE DEF l
        <5> QED
          BY <1>1, <1>7, <3>1
      <4> QED
        BY <1>3, <3>1, <4>1, <4>3, <4>4
    <3>2. CASE i # l
      <4>1. i \in 1 .. Len(q) /\ e[i] = q[i] /\ (i < Len(e) => i < Len(q))
        BY <1>7, <3>2
      <4> QED
        BY <4>1 DEF QueueOK
    <3> QED
      BY <3>1, <3>2
  <2> QED
    BY <1>7, <2>1 DEF QueueOK
<1>11. QueueRead(e) = QueueRead(q)
  <2>1. Head(e) = e[1] /\ Head(q) = q[1]
    BY <1>7, <1>10, QueueShape
  <2>2. e[1].read = q[1].read
    BY <1>1, <1>5, <1>7
  <2> QED
    BY <1>7, <2>1, <2>2 DEF QueueRead
<1>12. ASSUME NEW k \in Nat, k < QueueEnd(q) PROVE CharAt(e, k) = CharAt(q, k)
  <2> DEFINE b == (k \div ScBlock) + 1
             r == (k % ScBlock) + 1
  <2>1. b \in 1 .. l /\ r \in 1 .. Len(q[b].data)
    BY <1>12, QueueChars
  <2>2. CharAt(e, k) = e[b].data[r] /\ CharAt(q, k) = q[b].data[r]
    BY DEF CharAt
  <2> HIDE DEF b, r
  <2>3. CASE b = l
    <3>1. e[b].data = more /\ q[b].data = data
      BY <1>1, <1>5, <1>7, <2>3
    <3> HIDE DEF data
    <3> QED
      BY <1>4, <2>1, <2>2, <3>1
  <2>4. CASE b # l
    BY <1>7, <2>1, <2>2, <2>4
  <2> QED
    BY <2>3, <2>4
<1>13. CharAt(e, QueueEnd(q)) = x
  <2>1. l - 1 \in Nat /\ Len(data) \in 0 .. ScBlock - 1
    <3> HIDE DEF l, data
    <3> QED
      BY <1>1, <1>3
  <2>2. QueueEnd(q) \div ScBlock = l - 1 /\ QueueEnd(q) % ScBlock = Len(data)
    <3> HIDE DEF l, data
    <3> QED
      BY <1>8, <2>1, PlaceBlock
  <2>3. (l - 1) + 1 = l
    BY <1>1
  <2>4. CharAt(e, QueueEnd(q)) = e[l].data[Len(data) + 1]
    BY <2>2, <2>3 DEF CharAt
  <2>5. e[l].data = more
    BY <1>1, <1>5, <1>7
  <2> QED
    BY <1>4, <2>4, <2>5
<1> QED
  BY <1>6, <1>9, <1>10, <1>11, <1>12, <1>13

(* A character put into a queue goes to its end. *)
LEMMA PutAppends ==
  ASSUME NEW q, QueueOK(q), NEW x \in Nat
  PROVE  QueueOK(QueuePut(q, x)) /\ QueueContent(QueuePut(q, x)) = Append(QueueContent(q), x)
PROOF
<1>1. CASE q = <<>> \/ Len(q[Len(q)].data) >= ScBlock
  <2> DEFINE e == Append(q, [data |-> <<x>>, read |-> 0])
  <2>1. QueuePut(q, x) = e
    BY <1>1 DEF QueuePut
  <2>2. /\ QueueOK(e) /\ QueueRead(e) = QueueRead(q) /\ QueueEnd(e) = QueueEnd(q) + 1
        /\ \A k \in Nat : k < QueueEnd(q) => CharAt(e, k) = CharAt(q, k)
        /\ CharAt(e, QueueEnd(q)) = x
    BY <1>1, PutBegins
  <2> HIDE DEF e
  <2>3. QueueContent(e) = Append(QueueContent(q), x)
    BY <2>2, QueueGrows
  <2> QED
    BY <2>1, <2>2, <2>3
<1>2. CASE ~(q = <<>> \/ Len(q[Len(q)].data) >= ScBlock)
  <2> DEFINE e == [q EXCEPT ![Len(q)].data = Append(@, x)]
  <2>1. QueuePut(q, x) = e
    BY <1>2 DEF QueuePut
  <2>2. q # <<>> /\ Len(q[Len(q)].data) < ScBlock
    <3>1. q # <<>> /\ Len(q[Len(q)].data) \in 1 .. ScBlock /\ ~(Len(q[Len(q)].data) >= ScBlock)
      BY <1>2, QueueShape
    <3>2. \A n \in 1 .. ScBlock : ~(n >= ScBlock) => n < ScBlock
      BY ScAssumption
    <3> QED
      BY <3>1, <3>2
  <2>3. /\ QueueOK(e) /\ QueueRead(e) = QueueRead(q) /\ QueueEnd(e) = QueueEnd(q) + 1
        /\ \A k \in Nat : k < QueueEnd(q) => CharAt(e, k) = CharAt(q, k)
        /\ CharAt(e, QueueEnd(q)) = x
    BY <2>2, PutEnds
  <2> HIDE DEF e
  <2>4. QueueContent(e) = Append(QueueContent(q), x)
    BY <2>3, QueueGrows
  <2> QED
    BY <2>1, <2>3, <2>4
<1> QED
  BY <1>1, <1>2

(* What a read leaves: of a block read to its end the blocks behind it...  *)
LEMMA RestOfBlocks ==
  ASSUME NEW q, QueueOK(q), q # <<>>, q[1].read = ScBlock - 1, q[1].read < Len(q[1].data)
  PROVE  /\ QueueOK(Tail(q)) /\ QueueLen(Tail(q)) = QueueLen(q) - 1
         /\ \A i \in Nat : i < QueueLen(Tail(q)) =>
              CharAt(Tail(q), QueueRead(Tail(q)) + i) = CharAt(q, QueueRead(q) + i + 1)
PROOF
<1> DEFINE l == Len(q)
           e == Tail(q)
<1>1. /\ ScBlock \in Nat \ {0} /\ q \in Seq(DataBlock) /\ l \in Nat \ {0} /\ Head(q) = q[1]
      /\ Len(q[1].data) = ScBlock
  <2>1. ScBlock \in Nat \ {0} /\ q \in Seq(DataBlock) /\ l \in Nat \ {0} /\ Head(q) = q[1]
    BY ScAssumption, QueueShape DEF QueueOK
  <2>2. 1 \in 1 .. Len(q)
    BY <2>1
  <2>3. Len(q[1].data) \in 1 .. ScBlock
    BY <2>2 DEF QueueOK
  <2>4. \A n \in 1 .. ScBlock : ScBlock - 1 < n => n = ScBlock
    BY <2>1
  <2> QED
    BY <2>1, <2>3, <2>4
<1>2. /\ e \in Seq(DataBlock) /\ Len(e) = l - 1 /\ (l = 1 => e = <<>>) /\ (l > 1 => e # <<>>)
      /\ \A i \in 1 .. Len(e) : e[i] = q[i + 1] /\ i + 1 \in 1 .. Len(q)
  BY <1>1, BlockDropped
<1> HIDE DEF e
<1>3. QueueOK(e)
  <2>1. ASSUME NEW i \in 1 .. Len(e)
        PROVE  /\ Len(e[i].data) \in 1 .. ScBlock
               /\ i < Len(e) => Len(e[i].data) = ScBlock
               /\ i > 1 => e[i].read = 0
               /\ e[i].read <= Len(e[i].data)
    <3>1. e[i] = q[i + 1] /\ i + 1 \in 1 .. Len(q)
      BY <1>2
    <3>2. (i < Len(e) => i + 1 < Len(q)) /\ i + 1 > 1
      <4> HIDE DEF l
      <4>1. Len(q) = l
        BY DEF l
      <4> QED
        BY <1>1, <1>2, <4>1
    <3> QED
      BY <3>1, <3>2 DEF QueueOK
  <2> QED
    BY <1>2, <2>1 DEF QueueOK
<1>4. QueueRead(q) = ScBlock - 1
  BY <1>1 DEF QueueRead
<1>5. QueueRead(e) = 0
  <2>1. CASE e = <<>>
    BY <2>1 DEF QueueRead
  <2>2. CASE e # <<>>
    <3>1. Head(e) = e[1] /\ 1 \in 1 .. Len(e)
      BY <1>3, <2>2, QueueShape
    <3>2. e[1] = q[2] /\ 2 \in 1 .. Len(q)
      BY <1>2, <3>1
    <3>3. q[2].read = 0
      BY <3>2 DEF QueueOK
    <3> QED
      BY <2>2, <3>1, <3>2, <3>3 DEF QueueRead
  <2> QED
    BY <2>1, <2>2
<1>6. QueueEnd(e) = QueueEnd(q) - ScBlock
  <2>1. CASE l = 1
    <3>1. QueueEnd(q) = (1 - 1) * ScBlock + ScBlock
      BY <1>1, <2>1 DEF QueueEnd
    <3>2. QueueEnd(e) = 0
      BY <1>2, <2>1 DEF QueueEnd
    <3> QED
      BY <1>1, <3>1, <3>2
  <2>2. CASE l # 1
    <3>1. l > 1
      <4> HIDE DEF l
      <4> QED
        BY <1>1, <2>2
    <3>2. Len(e) \in 1 .. Len(e) /\ Len(e) + 1 = l
      <4>1. Len(e) = l - 1
        BY <1>2
      <4> HIDE DEF l
      <4> QED
        BY <1>1, <3>1, <4>1
    <3>3. e[Len(e)] = q[l]
      BY <1>2, <3>2
    <3> DEFINE len == Len(q[l].data)
    <3>4. QueueEnd(e) = (Len(e) - 1) * ScBlock + len /\ QueueEnd(q) = (l - 1) * ScBlock + len
      BY <1>2, <3>1, <3>3 DEF QueueEnd
    <3>5. Len(e) = l - 1 /\ len \in 1 .. ScBlock
      BY <1>2, QueueShape
    <3> HIDE DEF l, len
    <3>6. \A m \in Nat, b \in Nat : ((m - 1) - 1) * b = (m - 1) * b - b
      OBVIOUS
    <3>7. \A m \in Nat, b \in Nat : (m - 1) * b \in Int
      OBVIOUS
    <3>8. (Len(e) - 1) * ScBlock = (l - 1) * ScBlock - ScBlock /\ (l - 1) * ScBlock \in Int
      BY <1>1, <3>5, <3>6, <3>7
    <3> QED
      BY <1>1, <3>4, <3>5, <3>8
  <2> QED
    BY <2>1, <2>2
<1>7. QueueLen(e) = QueueLen(q) - 1
  <2>1. /\ QueueEnd(q) = (ScBlock - 1) + QueueLen(q) /\ QueueEnd(e) = 0 + QueueLen(e)
        /\ QueueLen(q) \in Nat /\ QueueLen(e) \in Nat
    BY <1>3, <1>4, <1>5, QueueHolds
  <2> QED
    BY <1>1, <1>6, <2>1
<1>8. ASSUME NEW k \in Nat, k < QueueLen(e) PROVE CharAt(e, QueueRead(e) + k) = CharAt(q, QueueRead(q) + k + 1)
  <2> DEFINE d == k \div ScBlock
             r == k % ScBlock
  <2>1. QueueEnd(e) = QueueLen(e)
    <3>1. QueueEnd(e) = 0 + QueueLen(e) /\ QueueLen(e) \in Nat
      BY <1>3, <1>5, QueueHolds
    <3> QED
      BY <3>1
  <2>2. d + 1 \in 1 .. Len(e) /\ d \in Nat /\ r \in 0 .. ScBlock - 1
    BY <1>3, <1>8, <2>1, QueueChars
  <2>3. k = ScBlock * d + r
    <3>1. \A x \in Nat, m \in Nat \ {0} : x = m * (x \div m) + (x % m)
      OBVIOUS
    <3> QED
      BY <1>1, <3>1
  <2>4. CharAt(e, k) = e[d + 1].data[r + 1]
    BY DEF CharAt
  <2> HIDE DEF d, r
  <2>5. QueueRead(q) + k + 1 = (d + 1) * ScBlock + r
    <3>1. (d + 1) * ScBlock = ScBlock * d + ScBlock /\ ScBlock * d \in Nat
      BY <1>1, <2>2
    <3> QED
      BY <1>1, <1>4, <2>2, <2>3, <3>1
  <2>6. CharAt(q, QueueRead(q) + k + 1) = q[(d + 1) + 1].data[r + 1]
    <3>1. d + 1 \in Nat
      BY <2>2
    <3>2. ((d + 1) * ScBlock + r) \div ScBlock = d + 1 /\ ((d + 1) * ScBlock + r) % ScBlock = r
      BY <2>2, <3>1, PlaceBlock
    <3> QED
      BY <2>5, <3>2 DEF CharAt
  <2>7. e[d + 1] = q[(d + 1) + 1]
    BY <1>2, <2>2
  <2>8. QueueRead(e) + k = k
    BY <1>5
  <2> QED
    BY <2>4, <2>6, <2>7, <2>8
<1> QED
  BY <1>3, <1>7, <1>8 DEF e

(* ...of any other all but its first character. *)
LEMMA RestOfBlock ==
  ASSUME NEW q, QueueOK(q), q # <<>>, q[1].read + 1 < ScBlock, q[1].read < Len(q[1].data), QueueLen(q) > 0
  PROVE  LET e == [q EXCEPT ![1].read = @ + 1]
         IN  /\ QueueOK(e) /\ QueueLen(e) = QueueLen(q) - 1
             /\ \A i \in Nat : i < QueueLen(e) =>
                  CharAt(e, QueueRead(e) + i) = CharAt(q, QueueRead(q) + i + 1)
PROOF
<1> DEFINE l == Len(q)
           next == q[1].read + 1
           block == [q[1] EXCEPT !.read = next]
           e == [q EXCEPT ![1] = block]
<1>1. /\ ScBlock \in Nat \ {0} /\ q \in Seq(DataBlock) /\ l \in Nat \ {0} /\ Head(q) = q[1]
      /\ 1 \in 1 .. l /\ q[1] \in DataBlock
  BY ScAssumption, QueueShape DEF QueueOK
<1>2. q[1].read \in 0 .. ScBlock - 1 /\ Len(q[1].data) \in Nat
  <2>1. q[1].data \in Seq(Nat)
    BY <1>1 DEF DataBlock
  <2> QED
    BY <1>1, <2>1 DEF DataBlock
<1>3. next \in 0 .. ScBlock - 1 /\ next <= Len(q[1].data)
  <2> DEFINE r == q[1].read
             n == Len(q[1].data)
  <2>1. r \in 0 .. ScBlock - 1 /\ n \in Nat /\ r < n /\ r + 1 < ScBlock
    BY <1>2
  <2> HIDE DEF r, n
  <2>2. r + 1 \in 0 .. ScBlock - 1 /\ r + 1 <= n
    BY <1>1, <2>1
  <2> QED
    BY <2>2 DEF r, n
<1>4. e = [q EXCEPT ![1].read = @ + 1]
  BY <1>1
<1> HIDE DEF next
<1>5. block \in DataBlock /\ block.data = q[1].data /\ block.read = next
  BY <1>1, <1>3 DEF DataBlock
<1> HIDE DEF block
<1>6. /\ e \in Seq(DataBlock) /\ Len(e) = l /\ e # <<>>
      /\ \A i \in 1 .. l : e[i] = (IF i = 1 THEN block ELSE q[i])
  BY <1>1, <1>5, BlockReplaced
<1> HIDE DEF e
<1>7. ASSUME NEW i \in 1 .. l PROVE e[i].data = q[i].data /\ (i # 1 => e[i] = q[i]) /\ (i = 1 => e[i].read = next)
  BY <1>5, <1>6
<1>8. QueueOK(e)
  <2>1. ASSUME NEW i \in 1 .. Len(e)
        PROVE  /\ Len(e[i].data) \in 1 .. ScBlock
               /\ i < Len(e) => Len(e[i].data) = ScBlock
               /\ i > 1 => e[i].read = 0
               /\ e[i].read <= Len(e[i].data)
    <3>1. i \in 1 .. l /\ i \in 1 .. Len(q) /\ (i < Len(e) => i < Len(q)) /\ (i = 1 => ~(i > 1))
      BY <1>6
    <3>2. CASE i = 1
      <4>1. e[i].data = q[1].data /\ e[i].read = next /\ Len(e[i].data) = Len(q[i].data)
        BY <1>7, <3>1, <3>2
      <4>2. Len(q[i].data) \in 1 .. ScBlock /\ (i < Len(q) => Len(q[i].data) = ScBlock)
        BY <3>1 DEF QueueOK
      <4> QED
        BY <1>3, <3>1, <3>2, <4>1, <4>2
    <3>3. CASE i # 1
      <4>1. e[i] = q[i]
        BY <1>7, <3>1, <3>3
      <4> QED
        BY <3>1, <4>1 DEF QueueOK
    <3> QED
      BY <3>2, <3>3
  <2> QED
    BY <1>6, <2>1 DEF QueueOK
<1>9. QueueRead(q) = q[1].read /\ QueueRead(e) = next
  <2>1. Head(e) = e[1]
    BY <1>6, <1>8, QueueShape
  <2> QED
    BY <1>1, <1>6, <1>7, <2>1 DEF QueueRead
<1>10. QueueEnd(e) = QueueEnd(q)
  <2>1. l \in 1 .. l
    <3> HIDE DEF l
    <3> QED
      BY <1>1
  <2>2. e[Len(e)].data = q[Len(q)].data
    BY <1>6, <1>7, <2>1
  <2> QED
    BY <1>6, <2>2 DEF QueueEnd
<1>11. QueueLen(e) = QueueLen(q) - 1
  <2>1. /\ QueueEnd(q) = q[1].read + QueueLen(q) /\ QueueEnd(q) = next + QueueLen(e)
        /\ QueueLen(q) \in Nat /\ QueueLen(e) \in Nat
    BY <1>8, <1>9, <1>10, QueueHolds
  <2>2. next = q[1].read + 1 /\ q[1].read \in Int
    BY <1>2 DEF next
  <2> QED
    BY <2>1, <2>2
<1>12. ASSUME NEW k \in Nat, k < QueueLen(e) PROVE CharAt(e, QueueRead(e) + k) = CharAt(q, QueueRead(q) + k + 1)
  <2> DEFINE n == next + k
             b == (n \div ScBlock) + 1
  <2>1. QueueEnd(q) = next + QueueLen(e) /\ QueueLen(e) \in Nat
    BY <1>8, <1>9, <1>10, QueueHolds
  <2>2. n \in Nat /\ n < QueueEnd(q)
    BY <1>1, <1>3, <1>12, <2>1
  <2>3. b \in 1 .. l
    BY <2>2, QueueChars
  <2>4. CharAt(e, n) = CharAt(q, n)
    BY <1>7, <2>3 DEF CharAt
  <2>5. QueueRead(e) + k = n /\ QueueRead(q) + k + 1 = n
    <3>1. next = q[1].read + 1 /\ q[1].read \in Int
      BY <1>2 DEF next
    <3> QED
      BY <1>9, <3>1
  <2> QED
    BY <2>4, <2>5
<1> QED
  BY <1>4, <1>8, <1>11, <1>12

(* A character taken from a queue is its first one. *)
LEMMA RestIsTail ==
  ASSUME NEW q, QueueOK(q), ~QueueEmpty(q)
  PROVE  /\ QueueOK(QueueRest(q)) /\ QueueContent(QueueRest(q)) = Tail(QueueContent(q))
         /\ Len(QueueContent(q)) > 0 /\ QueueContent(q)[1] = QueueFirst(q)
PROOF
<1>1. q # <<>> /\ ~(Head(q).read >= Len(Head(q).data))
  BY DEF QueueEmpty
<1>2. Head(q) = q[1] /\ q[1].read \in 0 .. ScBlock - 1 /\ q[1] \in DataBlock
  <2>1. 1 \in 1 .. Len(q)
    BY <1>1, QueueShape
  <2> QED
    BY <1>1, <2>1, QueueShape
<1>3. ScBlock \in Nat \ {0} /\ QueueLen(q) \in Nat \ {0}
  <2>1. QueueLen(q) \in Nat /\ QueueLen(q) # 0
    BY QueueHolds
  <2> QED
    BY <2>1, ScAssumption
<1>4. q[1].read < Len(q[1].data)
  <2>1. q[1].data \in Seq(Nat)
    BY <1>2 DEF DataBlock
  <2>2. Len(q[1].data) \in Nat
    BY <2>1, NumberLengths
  <2>3. \A x \in Int, y \in Nat : ~(x >= y) => x < y
    OBVIOUS
  <2> QED
    BY <1>1, <1>2, <1>3, <2>2, <2>3
<1>5. Len(QueueContent(q)) > 0
  BY <1>3, QueueContents
<1>6. QueueContent(q)[1] = QueueFirst(q)
  <2> DEFINE r == q[1].read
  <2>1. 1 \in 1 .. QueueLen(q)
    BY <1>3
  <2>2. QueueContent(q)[1] = CharAt(q, QueueRead(q) + 1 - 1)
    BY <2>1, QueueContents
  <2>3. QueueRead(q) = r /\ r \in 0 .. ScBlock - 1
    BY <1>1, <1>2 DEF QueueRead
  <2>4. (0 * ScBlock + r) \div ScBlock = 0 /\ (0 * ScBlock + r) % ScBlock = r
    BY <2>3, PlaceBlock
  <2> HIDE DEF r
  <2>5. 0 * ScBlock + r = r /\ QueueRead(q) + 1 - 1 = r
    BY <1>3, <2>3
  <2>6. CharAt(q, r) = q[0 + 1].data[r + 1]
    BY <2>4, <2>5 DEF CharAt
  <2> QED
    BY <1>2, <2>2, <2>5, <2>6 DEF QueueFirst, r
<1>7. CASE Head(q).read + 1 >= ScBlock
  <2>1. q[1].read = ScBlock - 1
    BY <1>2, <1>3, <1>7
  <2>2. QueueRest(q) = Tail(q)
    BY <1>7 DEF QueueRest
  <2>3. /\ QueueOK(Tail(q)) /\ QueueLen(Tail(q)) = QueueLen(q) - 1
        /\ \A i \in Nat : i < QueueLen(Tail(q)) =>
             CharAt(Tail(q), QueueRead(Tail(q)) + i) = CharAt(q, QueueRead(q) + i + 1)
    BY <1>1, <1>4, <2>1, RestOfBlocks
  <2>4. QueueContent(Tail(q)) = Tail(QueueContent(q))
    BY <1>3, <2>3, QueueShrinks
  <2> QED
    BY <1>5, <1>6, <2>2, <2>3, <2>4
<1>8. CASE ~(Head(q).read + 1 >= ScBlock)
  <2> DEFINE e == [q EXCEPT ![1].read = @ + 1]
  <2>1. q[1].read + 1 < ScBlock
    BY <1>2, <1>3, <1>8
  <2>2. QueueRest(q) = e
    BY <1>8 DEF QueueRest
  <2>3. QueueLen(q) > 0
    BY <1>3
  <2>4. /\ QueueOK(e) /\ QueueLen(e) = QueueLen(q) - 1
        /\ \A i \in Nat : i < QueueLen(e) =>
             CharAt(e, QueueRead(e) + i) = CharAt(q, QueueRead(q) + i + 1)
    BY <1>1, <1>4, <2>1, <2>3, RestOfBlock
  <2> HIDE DEF e
  <2>5. QueueContent(e) = Tail(QueueContent(q))
    BY <2>3, <2>4, QueueShrinks
  <2> QED
    BY <1>5, <1>6, <2>2, <2>4, <2>5
<1> QED
  BY <1>7, <1>8

-----------------------------------------------------------------------------
(* The two loops of sh4_scif_run *)

(* Counting from 0 reaches every number. *)
LEMMA CountsUp ==
  ASSUME NEW n \in Nat, NEW G \in SUBSET (0 .. n), 0 \in G, \A i \in 0 .. n - 1 : i \in G => i + 1 \in G
  PROVE  \A i \in 0 .. n : i \in G
PROOF
<1> DEFINE Out == {i \in 0 .. n : i \notin G}
           Less == {ss \in Nat \X Nat : ss[1] < ss[2]}
<1>1. SUFFICES ASSUME Out # {} PROVE FALSE
  OBVIOUS
<1>2. Out \in SUBSET Nat
  OBVIOUS
<1>3. IsWellFoundedOn(Less, Nat)
  BY NatLessThanWellFounded DEF OpToRel
<1>4. PICK m \in Out : \A u \in Out : ~(<<u, m>> \in Less)
  <2> HIDE DEF Less, Out
  <2> QED
    BY <1>1, <1>2, <1>3, WFMin
<1>5. m \in 0 .. n /\ m \notin G /\ m # 0
  OBVIOUS
<1>6. m - 1 \in 0 .. n - 1 /\ m - 1 \in 0 .. n /\ m - 1 < m /\ m - 1 \in Nat /\ m \in Nat /\ (m - 1) + 1 = m
  BY <1>5
<1>7. m - 1 \notin Out
  BY <1>4, <1>6
<1>8. m - 1 \in G
  BY <1>6, <1>7
<1> QED
  BY <1>5, <1>6, <1>8

One(way, p) == IF way = "receive" THEN ReceiveOne(p) ELSE TransmitOne(p)

\* f holds a port after each of n passes of a loop.
Passes(way, p, f, n) == f = [i \in 0 .. n |-> IF i = 0 THEN p ELSE One(way, f[i - 1])]

(* The passes of a loop one after the other are a function. *)
LEMMA PassesExist ==
  ASSUME NEW way, NEW p, NEW n \in Nat
  PROVE  \E f : Passes(way, p, f, n)
PROOF
<1> DEFINE G == {m \in 0 .. n : \E f : Passes(way, p, f, m)}
<1>1. 0 \in G
  <2> DEFINE f == [i \in 0 .. 0 |-> p]
  <2>1. f = [i \in 0 .. 0 |-> IF i = 0 THEN p ELSE One(way, f[i - 1])]
    <3>1. \A i \in 0 .. 0 : i = 0
      OBVIOUS
    <3> QED
      BY <3>1
  <2> HIDE DEF f
  <2>2. Passes(way, p, f, 0)
    BY <2>1 DEF Passes
  <2> QED
    BY <2>2
<1>2. ASSUME NEW m \in 0 .. n - 1, m \in G PROVE m + 1 \in G
  <2>1. PICK f : f = [i \in 0 .. m |-> IF i = 0 THEN p ELSE One(way, f[i - 1])]
    BY <1>2 DEF Passes
  <2> DEFINE g == [i \in 0 .. m + 1 |-> IF i = 0 THEN p ELSE One(way, f[i - 1])]
  <2>2. ASSUME NEW i \in 0 .. m + 1
        PROVE  (IF i = 0 THEN p ELSE One(way, f[i - 1])) = (IF i = 0 THEN p ELSE One(way, g[i - 1]))
    <3>1. CASE i = 0
      BY <3>1
    <3>2. CASE i # 0
      <4>1. i - 1 \in 0 .. m /\ i - 1 \in 0 .. m + 1
        BY <3>2
      <4>2. f[i - 1] = (IF i - 1 = 0 THEN p ELSE One(way, f[i - 1 - 1]))
        BY <2>1, <4>1
      <4>3. g[i - 1] = (IF i - 1 = 0 THEN p ELSE One(way, f[i - 1 - 1]))
        BY <4>1
      <4> QED
        BY <4>2, <4>3
    <3> QED
      BY <3>1, <3>2
  <2>3. g = [i \in 0 .. m + 1 |-> IF i = 0 THEN p ELSE One(way, g[i - 1])]
    <3> DEFINE h == [i \in 0 .. m + 1 |-> IF i = 0 THEN p ELSE One(way, g[i - 1])]
    <3>1. \A i \in 0 .. m + 1 : g[i] = h[i]
      BY <2>2
    <3> QED
      BY <3>1
  <2> HIDE DEF g
  <2>4. Passes(way, p, g, m + 1)
    BY <2>3 DEF Passes
  <2>5. m + 1 \in 0 .. n
    OBVIOUS
  <2> QED
    BY <2>4, <2>5
<1>3. G \in SUBSET (0 .. n)
  OBVIOUS
<1> HIDE DEF G
<1>4. n \in G
  <2>1. \A i \in 0 .. n : i \in G
    BY <1>1, <1>2, <1>3, CountsUp
  <2> QED
    BY <2>1
<1> QED
  BY <1>4 DEF G

(* What each loop gives is what is there after ScFifo passes. *)
LEMMA LoopPasses ==
  ASSUME NEW p
  PROVE  /\ \E f : Passes("receive", p, f, ScFifo) /\ ReceiveAll(p) = f[ScFifo]
         /\ \E f : Passes("transmit", p, f, ScFifo) /\ TransmitAll(p) = f[ScFifo]
PROOF
<1>1. ScFifo \in Nat
  BY ScAssumption
<1>2. \E f : Passes("receive", p, f, ScFifo) /\ ReceiveAll(p) = f[ScFifo]
  <2> DEFINE after == CHOOSE f : f = [n \in 0 .. ScFifo |-> IF n = 0 THEN p ELSE ReceiveOne(f[n - 1])]
  <2>1. ReceiveAll(p) = after[ScFifo]
    BY DEF ReceiveAll
  <2>2. \E f : f = [n \in 0 .. ScFifo |-> IF n = 0 THEN p ELSE ReceiveOne(f[n - 1])]
    <3>1. PICK f : Passes("receive", p, f, ScFifo)
      BY <1>1, PassesExist
    <3>2. f = [n \in 0 .. ScFifo |-> IF n = 0 THEN p ELSE One("receive", f[n - 1])]
      BY <3>1 DEF Passes
    <3>3. \A x : One("receive", x) = ReceiveOne(x)
      BY DEF One
    <3>4. f = [n \in 0 .. ScFifo |-> IF n = 0 THEN p ELSE ReceiveOne(f[n - 1])]
      BY <3>2, <3>3
    <3> QED
      BY <3>4
  <2>3. after = [n \in 0 .. ScFifo |-> IF n = 0 THEN p ELSE ReceiveOne(after[n - 1])]
    BY <2>2, Zenon
  <2> HIDE DEF after
  <2>4. Passes("receive", p, after, ScFifo)
    BY <2>3 DEF Passes, One
  <2> QED
    BY <2>1, <2>4
<1>3. \E f : Passes("transmit", p, f, ScFifo) /\ TransmitAll(p) = f[ScFifo]
  <2> DEFINE after == CHOOSE f : f = [n \in 0 .. ScFifo |-> IF n = 0 THEN p ELSE TransmitOne(f[n - 1])]
  <2>1. TransmitAll(p) = after[ScFifo]
    BY DEF TransmitAll
  <2>2. \E f : f = [n \in 0 .. ScFifo |-> IF n = 0 THEN p ELSE TransmitOne(f[n - 1])]
    <3>1. PICK f : Passes("transmit", p, f, ScFifo)
      BY <1>1, PassesExist
    <3>2. f = [n \in 0 .. ScFifo |-> IF n = 0 THEN p ELSE One("transmit", f[n - 1])]
      BY <3>1 DEF Passes
    <3>3. \A x : One("transmit", x) = TransmitOne(x)
      BY DEF One
    <3>4. f = [n \in 0 .. ScFifo |-> IF n = 0 THEN p ELSE TransmitOne(f[n - 1])]
      BY <3>2, <3>3
    <3> QED
      BY <3>4
  <2>3. after = [n \in 0 .. ScFifo |-> IF n = 0 THEN p ELSE TransmitOne(after[n - 1])]
    BY <2>2, Zenon
  <2> HIDE DEF after
  <2>4. Passes("transmit", p, after, ScFifo)
    BY <2>3 DEF Passes, One
  <2> QED
    BY <2>1, <2>4
<1> QED
  BY <1>2, <1>3

Fifos == [head : 0 .. ScFifo, tail : 0 .. ScFifo, data : [0 .. ScFifo -> Nat]]
ScFlags == {"RDF", "TDFE", "TEND"}
ScRegs ==
  [rx : Fifos, tx : Fifos, r : 0 .. ScFifo, t : 0 .. ScFifo, flags : SUBSET ScFlags,
   scr : SUBSET {"RE", "TE", "RIE", "TIE"}, rtrg : ScRtrg, ttrg : ScTtrg]
ScPorts == [sc : ScRegs, irq : SUBSET {"RXI", "TXI"}, fatal : {FALSE}, wq : Seq(DataBlock), rq : Seq(DataBlock)]

\* Every character sent is where it belongs.
InPlace(c, wq, rq, h) ==
  /\ Chain(h.guestGot, FifoContent(c.rx), QueueContent(wq), h.hostSent, h.lostIn)
  /\ Chain(h.hostGot, QueueContent(rq), FifoContent(c.tx), h.guestSent, h.lostOut)

Counted(c) == c.r = FifoSize(c.rx) /\ c.t = FifoSize(c.tx)
Flagged(c) ==
  /\ ReceiveTriggered(c) => "RDF" \in c.flags
  /\ TransmitTriggered(c) => "TDFE" \in c.flags
Asked(c, irq) == ("RXI" \in irq => "RIE" \in c.scr) /\ ("TXI" \in irq => "TIE" \in c.scr)

\* A port in use, but for the request a loop may leave behind halfway: TXI
\* with TDFE cleared again.
PortOK(p, h) ==
  /\ p \in ScPorts /\ QueueOK(p.wq) /\ QueueOK(p.rq)
  /\ InPlace(p.sc, p.wq, p.rq, h)
  /\ Counted(p.sc) /\ Flagged(p.sc) /\ Asked(p.sc, p.irq)

\* What receiving leaves alone.
SendsAsBefore(e, p) ==
  /\ e.sc.t = p.sc.t /\ e.sc.scr = p.sc.scr /\ e.sc.ttrg = p.sc.ttrg
  /\ "TDFE" \in e.sc.flags <=> "TDFE" \in p.sc.flags
  /\ "TXI" \in e.irq <=> "TXI" \in p.irq

(* The fields of a port and its registers. *)
LEMMA PortFields ==
  ASSUME NEW p \in ScPorts
  PROVE  /\ p.sc \in ScRegs /\ p.irq \in SUBSET {"RXI", "TXI"} /\ p.fatal = FALSE
         /\ p.wq \in Seq(DataBlock) /\ p.rq \in Seq(DataBlock)
         /\ FifoOK(p.sc.rx) /\ FifoOK(p.sc.tx)
         /\ p.sc.r \in 0 .. ScFifo /\ p.sc.t \in 0 .. ScFifo /\ p.sc.flags \in SUBSET ScFlags
         /\ p.sc.scr \in SUBSET {"RE", "TE", "RIE", "TIE"}
         /\ p.sc.rtrg \in 1 .. ScFifo /\ p.sc.ttrg \in 1 .. ScFifo - 1
PROOF
<1>1. /\ p.sc \in ScRegs /\ p.irq \in SUBSET {"RXI", "TXI"} /\ p.fatal \in {FALSE}
      /\ p.wq \in Seq(DataBlock) /\ p.rq \in Seq(DataBlock)
  BY DEF ScPorts
<1>2. p.fatal = FALSE
  BY <1>1, Zenon
<1> DEFINE c == p.sc
<1>3. c \in ScRegs
  BY <1>1
<1> HIDE DEF c
<1>4. /\ c.rx \in Fifos /\ c.tx \in Fifos /\ c.r \in 0 .. ScFifo /\ c.t \in 0 .. ScFifo
      /\ c.flags \in SUBSET ScFlags /\ c.scr \in SUBSET {"RE", "TE", "RIE", "TIE"}
      /\ c.rtrg \in ScRtrg /\ c.ttrg \in ScTtrg
  BY <1>3 DEF ScRegs
<1>5. c.rtrg \in 1 .. ScFifo /\ c.ttrg \in 1 .. ScFifo - 1
  BY <1>4, ScAssumption
<1>6. FifoOK(c.rx) /\ FifoOK(c.tx)
  BY <1>4 DEF FifoOK, Fifos
<1> QED
  BY <1>1, <1>2, <1>4, <1>5, <1>6 DEF c

(* One character received. *)
LEMMA ReceivedOne ==
  ASSUME NEW p, NEW h, PortOK(p, h)
  PROVE  PortOK(ReceiveOne(p), h) /\ SendsAsBefore(ReceiveOne(p), p)
PROOF
<1>1. CASE p.fatal \/ p.sc.r >= ScFifo \/ QueueEmpty(p.wq)
  BY <1>1 DEF ReceiveOne, SendsAsBefore
<1>2. CASE ~(p.fatal \/ p.sc.r >= ScFifo \/ QueueEmpty(p.wq))
  <2> DEFINE rest == QueueRest(p.wq)
             char == QueueFirst(p.wq)
             q == Enqueued(p.sc.rx, char)
             size == FifoSize(q)
             met == size >= p.sc.rtrg
             flags == IF met THEN p.sc.flags \cup {"RDF"} ELSE p.sc.flags \ {"RDF"}
             d == [p.sc EXCEPT !.rx = q, !.r = size, !.flags = flags]
             irq == IF "RIE" \in p.sc.scr /\ "RDF" \in flags THEN p.irq \cup {"RXI"} ELSE p.irq
             e == [p EXCEPT !.wq = rest, !.sc = d, !.irq = irq]
  <2>1. /\ p \in ScPorts /\ QueueOK(p.wq) /\ QueueOK(p.rq)
        /\ Counted(p.sc) /\ Flagged(p.sc) /\ Asked(p.sc, p.irq)
        /\ Chain(h.guestGot, FifoContent(p.sc.rx), QueueContent(p.wq), h.hostSent, h.lostIn)
        /\ Chain(h.hostGot, QueueContent(p.rq), FifoContent(p.sc.tx), h.guestSent, h.lostOut)
    BY DEF PortOK, InPlace
  <2>2. /\ p.sc \in ScRegs /\ p.irq \in SUBSET {"RXI", "TXI"}
        /\ FifoOK(p.sc.rx) /\ p.sc.r \in 0 .. ScFifo /\ p.sc.flags \in SUBSET ScFlags
        /\ p.sc.rtrg \in 1 .. ScFifo
    BY <2>1, PortFields
  <2>3. /\ QueueOK(rest) /\ QueueContent(rest) = Tail(QueueContent(p.wq))
        /\ Len(QueueContent(p.wq)) > 0 /\ QueueContent(p.wq)[1] = char
    BY <1>2, <2>1, RestIsTail
  <2>4. char \in Nat
    <3>1. Len(QueueContent(p.wq)) > 0 /\ char = QueueContent(p.wq)[1]
      BY <2>3
    <3>2. QueueContent(p.wq)[1] \in 1 .. h.hostSent /\ h.hostSent \in Nat
      BY <2>1, <3>1, ChainTypes
    <3> QED
      BY <3>1, <3>2
  <2>5. ~FifoFull(p.sc.rx)
    <3>1. p.sc.r = FifoSize(p.sc.rx) /\ ~(p.sc.r >= ScFifo)
      BY <1>2, <2>1 DEF Counted
    <3> QED
      BY <2>2, <3>1, ScAssumption DEF FifoFull
  <2>6. /\ FifoOK(q) /\ size = FifoSize(p.sc.rx) + 1
        /\ FifoContent(q) = Append(FifoContent(p.sc.rx), char)
    BY <2>2, <2>4, <2>5, EnqueueAppends
  <2>7. ReceiveOne(p) = e
    <3> DEFINE p2 == [p EXCEPT !.wq = rest]
               mid == [p.sc EXCEPT !.rx = q, !.r = size]
    <3>1. ReceiveOne(p) = ReceiveEnqueue(p2, char)
      BY <1>2 DEF ReceiveOne
    <3>2. p2.sc = p.sc /\ p2.irq = p.irq
      BY <2>1 DEF ScPorts
    <3>3. mid.flags = p.sc.flags /\ mid.r = size /\ mid.rtrg = p.sc.rtrg /\ mid.scr = p.sc.scr
      BY <2>2 DEF ScRegs
    <3>4. Flag(mid, "RDF", ReceiveTriggered(mid)) = [mid EXCEPT !.flags = flags]
      BY <3>3 DEF Flag, ReceiveTriggered
    <3>5. [mid EXCEPT !.flags = flags] = d
      BY <2>2 DEF ScRegs
    <3>6. d.scr = p.sc.scr /\ d.flags = flags
      <4> HIDE DEF flags
      <4> QED
        BY <2>2 DEF ScRegs
    <3>7. ReceiveEnqueue(p2, char) = [p2 EXCEPT !.sc = d, !.irq = irq]
      <4>1. ReceiveEnqueue(p2, char) =
              [p2 EXCEPT !.sc = Flag(mid, "RDF", ReceiveTriggered(mid)),
                         !.irq = IF /\ "RIE" \in Flag(mid, "RDF", ReceiveTriggered(mid)).scr
                                    /\ "RDF" \in Flag(mid, "RDF", ReceiveTriggered(mid)).flags
                                 THEN p2.irq \cup {"RXI"} ELSE p2.irq]
        <5> HIDE DEF p2
        <5> QED
          BY <2>5, <3>2 DEF ReceiveEnqueue
      <4>2. Flag(mid, "RDF", ReceiveTriggered(mid)) = d
        BY <3>4, <3>5
      <4> HIDE DEF mid, d, flags, p2
      <4> QED
        BY <3>2, <3>6, <4>1, <4>2
    <3>8. [p2 EXCEPT !.sc = d, !.irq = irq] = e
      <4> HIDE DEF d, irq, rest
      <4> QED
        BY <2>1 DEF ScPorts
    <3> QED
      BY <3>1, <3>7, <3>8
  <2>8. size \in 0 .. ScFifo /\ size = p.sc.r + 1
    <3>1. size \in 0 .. ScFifo
      BY <2>6, FifoHolds
    <3> QED
      BY <2>1, <2>6, <3>1 DEF Counted
  <2>9. flags \in SUBSET ScFlags /\ irq \in SUBSET {"RXI", "TXI"}
    <3>1. flags \in SUBSET ScFlags
      BY <2>2 DEF ScFlags
    <3> HIDE DEF flags
    <3> QED
      BY <2>2, <3>1
  <2>10. (met => "RDF" \in flags) /\ ("TDFE" \in flags <=> "TDFE" \in p.sc.flags)
    <3> HIDE DEF met
    <3> QED
      OBVIOUS
  <2>11. ("RXI" \in irq => "RXI" \in p.irq \/ "RIE" \in p.sc.scr) /\ ("TXI" \in irq <=> "TXI" \in p.irq)
    <3> HIDE DEF flags
    <3> QED
      OBVIOUS
  <2>12. q \in Fifos
    BY <2>6 DEF FifoOK, Fifos
  <2> HIDE DEF irq, flags, size, q, rest, char, met
  <2>13. /\ d \in ScRegs /\ d.rx = q /\ d.r = size /\ d.flags = flags /\ d.tx = p.sc.tx
         /\ d.t = p.sc.t /\ d.scr = p.sc.scr /\ d.rtrg = p.sc.rtrg /\ d.ttrg = p.sc.ttrg
    BY <2>2, <2>8, <2>9, <2>12 DEF ScRegs
  <2> HIDE DEF d
  <2>14. /\ e \in ScPorts /\ e.sc = d /\ e.irq = irq /\ e.wq = rest /\ e.rq = p.rq
    <3>1. rest \in Seq(DataBlock)
      BY <2>3 DEF QueueOK
    <3> QED
      BY <2>1, <2>9, <2>13, <3>1 DEF ScPorts
  <2> HIDE DEF e
  <2>15. Chain(h.guestGot, FifoContent(q), QueueContent(rest), h.hostSent, h.lostIn)
    <3>1. Chain(h.guestGot, Append(FifoContent(p.sc.rx), QueueContent(p.wq)[1]), Tail(QueueContent(p.wq)),
                h.hostSent, h.lostIn)
      BY <2>1, <2>3, ChainMovesIn
    <3> QED
      BY <2>3, <2>6, <3>1
  <2>16. Counted(d) /\ Flagged(d) /\ Asked(d, irq)
    <3>1. Counted(d)
      BY <2>1, <2>13 DEF Counted, size
    <3>2. Flagged(d)
      BY <2>1, <2>10, <2>13 DEF Flagged, ReceiveTriggered, TransmitTriggered, met
    <3>3. Asked(d, irq)
      BY <2>1, <2>11, <2>13 DEF Asked
    <3> QED
      BY <3>1, <3>2, <3>3
  <2>17. PortOK(e, h)
    BY <2>1, <2>3, <2>13, <2>14, <2>15, <2>16 DEF PortOK, InPlace
  <2>18. SendsAsBefore(e, p)
    BY <2>10, <2>11, <2>13, <2>14 DEF SendsAsBefore
  <2> QED
    BY <2>7, <2>17, <2>18
<1> QED
  BY <1>1, <1>2

(* One character sent on. *)
LEMMA TransmittedOne ==
  ASSUME NEW p, NEW h, PortOK(p, h)
  PROVE  /\ PortOK(TransmitOne(p), h)
         /\ TransmitOne(p).sc.t = (IF p.sc.t = 0 THEN 0 ELSE p.sc.t - 1)
PROOF
<1>0. p \in ScPorts /\ p.fatal = FALSE /\ p.sc.t \in 0 .. ScFifo
  <2>1. p \in ScPorts
    BY DEF PortOK
  <2> QED
    BY <2>1, PortFields
<1>1. CASE p.sc.t = 0
  BY <1>1 DEF TransmitOne
<1>2. CASE p.sc.t # 0
  <2> DEFINE char == p.sc.tx.data[p.sc.tx.tail]
             q == Dequeued(p.sc.tx)
             size == FifoSize(q)
             met == size <= p.sc.ttrg
             filled == IF met THEN p.sc.flags \cup {"TDFE"} ELSE p.sc.flags \ {"TDFE"}
             flags == IF size = 0 THEN filled \cup {"TEND"} ELSE filled \ {"TEND"}
             d == [p.sc EXCEPT !.tx = q, !.t = size, !.flags = flags]
             irq == IF "TIE" \in p.sc.scr /\ "TDFE" \in flags THEN p.irq \cup {"TXI"} ELSE p.irq
             more == QueuePut(p.rq, char)
             e == [p EXCEPT !.sc = d, !.irq = irq, !.rq = more]
  <2>1. /\ p \in ScPorts /\ QueueOK(p.wq) /\ QueueOK(p.rq)
        /\ Counted(p.sc) /\ Flagged(p.sc) /\ Asked(p.sc, p.irq)
        /\ Chain(h.guestGot, FifoContent(p.sc.rx), QueueContent(p.wq), h.hostSent, h.lostIn)
        /\ Chain(h.hostGot, QueueContent(p.rq), FifoContent(p.sc.tx), h.guestSent, h.lostOut)
    BY DEF PortOK, InPlace
  <2>2. /\ p.sc \in ScRegs /\ p.irq \in SUBSET {"RXI", "TXI"}
        /\ FifoOK(p.sc.tx) /\ p.sc.flags \in SUBSET ScFlags
        /\ p.sc.ttrg \in 1 .. ScFifo - 1
    BY <2>1, PortFields
  <2>3. p.sc.tx.head # p.sc.tx.tail
    <3>1. p.sc.t = FifoSize(p.sc.tx)
      BY <2>1 DEF Counted
    <3> QED
      BY <1>2, <2>2, <3>1, FifoHolds
  <2>4. /\ FifoOK(q) /\ size = FifoSize(p.sc.tx) - 1
        /\ FifoContent(q) = Tail(FifoContent(p.sc.tx))
        /\ FifoSize(p.sc.tx) > 0 /\ FifoContent(p.sc.tx)[1] = char
    BY <2>2, <2>3, DequeueTails
  <2>5. Len(FifoContent(p.sc.tx)) > 0
    BY <2>2, <2>4, FifoHolds
  <2>6. char \in Nat
    <3>1. FifoContent(p.sc.tx)[1] \in 1 .. h.guestSent /\ h.guestSent \in Nat
      BY <2>1, <2>5, ChainTypes
    <3> QED
      BY <2>4, <3>1
  <2>7. QueueOK(more) /\ QueueContent(more) = Append(QueueContent(p.rq), char)
    BY <2>1, <2>6, PutAppends
  <2>8. TransmitOne(p) = e
    <3> DEFINE mid == [p.sc EXCEPT !.tx = q, !.t = size]
               c3 == [mid EXCEPT !.flags = filled]
    <3>1. TransmitOne(p) = TransmitDequeue(p)
      BY <1>0, <1>2 DEF TransmitOne
    <3>2. mid.flags = p.sc.flags /\ mid.t = size /\ mid.ttrg = p.sc.ttrg /\ mid.scr = p.sc.scr
      BY <2>2 DEF ScRegs
    <3>3. Flag(mid, "TDFE", TransmitTriggered(mid)) = c3
      BY <3>2 DEF Flag, TransmitTriggered
    <3>4. c3.flags = filled
      <4> HIDE DEF filled
      <4> QED
        BY <2>2 DEF ScRegs
    <3>5. Flag(c3, "TEND", mid.t = 0) = [c3 EXCEPT !.flags = flags]
      <4> HIDE DEF filled, c3
      <4> QED
        BY <3>2, <3>4 DEF Flag
    <3>6. [c3 EXCEPT !.flags = flags] = d
      <4> HIDE DEF filled, flags
      <4> QED
        BY <2>2 DEF ScRegs
    <3>7. d.scr = p.sc.scr /\ d.flags = flags
      <4> HIDE DEF flags
      <4> QED
        BY <2>2 DEF ScRegs
    <3>8. TransmitDequeue(p) = e
      <4> DEFINE g == Flag(Flag(mid, "TDFE", TransmitTriggered(mid)), "TEND", mid.t = 0)
      <4>1. TransmitDequeue(p) =
              [p EXCEPT !.sc = g,
                        !.irq = IF "TIE" \in g.scr /\ "TDFE" \in g.flags THEN p.irq \cup {"TXI"} ELSE p.irq,
                        !.rq = more]
        BY <2>3 DEF TransmitDequeue
      <4>2. g = d
        <5> HIDE DEF mid, c3, d
        <5> QED
          BY <3>3, <3>5, <3>6
      <4> HIDE DEF g, d, flags
      <4> QED
        BY <3>7, <4>1, <4>2
    <3> QED
      BY <3>1, <3>8
  <2>9. size \in 0 .. ScFifo /\ size = p.sc.t - 1
    <3>1. size \in 0 .. ScFifo
      BY <2>4, FifoHolds
    <3> QED
      BY <2>1, <2>4, <3>1 DEF Counted
  <2>10. flags \in SUBSET ScFlags /\ (met => "TDFE" \in flags) /\ ("RDF" \in flags <=> "RDF" \in p.sc.flags)
    <3>1. /\ filled \in SUBSET ScFlags /\ (met => "TDFE" \in filled)
          /\ ("RDF" \in filled <=> "RDF" \in p.sc.flags)
      <4> HIDE DEF met
      <4> QED
        BY <2>2 DEF ScFlags
    <3> HIDE DEF filled, met, size
    <3> QED
      BY <3>1 DEF ScFlags
  <2>11. /\ irq \in SUBSET {"RXI", "TXI"}
         /\ "TXI" \in irq => "TXI" \in p.irq \/ "TIE" \in p.sc.scr
         /\ "RXI" \in irq <=> "RXI" \in p.irq
    <3> HIDE DEF flags
    <3> QED
      BY <2>2
  <2>12. q \in Fifos
    BY <2>4 DEF FifoOK, Fifos
  <2> HIDE DEF irq, flags, filled, size, q, more, char, met
  <2>13. /\ d \in ScRegs /\ d.tx = q /\ d.t = size /\ d.flags = flags /\ d.rx = p.sc.rx
         /\ d.r = p.sc.r /\ d.scr = p.sc.scr /\ d.rtrg = p.sc.rtrg /\ d.ttrg = p.sc.ttrg
    BY <2>2, <2>9, <2>10, <2>12 DEF ScRegs
  <2> HIDE DEF d
  <2>14. /\ e \in ScPorts /\ e.sc = d /\ e.irq = irq /\ e.wq = p.wq /\ e.rq = more
    <3>1. more \in Seq(DataBlock)
      BY <2>7 DEF QueueOK
    <3> QED
      BY <2>1, <2>11, <2>13, <3>1 DEF ScPorts
  <2> HIDE DEF e
  <2>15. Chain(h.hostGot, QueueContent(more), FifoContent(q), h.guestSent, h.lostOut)
    <3>1. Chain(h.hostGot, Append(QueueContent(p.rq), FifoContent(p.sc.tx)[1]), Tail(FifoContent(p.sc.tx)),
                h.guestSent, h.lostOut)
      BY <2>1, <2>5, ChainMovesIn
    <3> QED
      BY <2>4, <2>7, <3>1
  <2>16. Counted(d) /\ Flagged(d) /\ Asked(d, irq)
    <3>1. Counted(d)
      BY <2>1, <2>13 DEF Counted, size
    <3>2. Flagged(d)
      BY <2>1, <2>10, <2>13 DEF Flagged, ReceiveTriggered, TransmitTriggered, met
    <3>3. Asked(d, irq)
      BY <2>1, <2>11, <2>13 DEF Asked
    <3> QED
      BY <3>1, <3>2, <3>3
  <2>17. PortOK(e, h)
    BY <2>1, <2>7, <2>13, <2>14, <2>15, <2>16 DEF PortOK, InPlace
  <2>18. e.sc.t = p.sc.t - 1
    BY <2>9, <2>13, <2>14
  <2> QED
    BY <1>2, <2>8, <2>17, <2>18
<1> QED
  BY <1>1, <1>2

(* All of them. *)
LEMMA ReceivedAll ==
  ASSUME NEW p, NEW h, PortOK(p, h)
  PROVE  PortOK(ReceiveAll(p), h) /\ SendsAsBefore(ReceiveAll(p), p)
PROOF
<1>1. PICK f : Passes("receive", p, f, ScFifo) /\ ReceiveAll(p) = f[ScFifo]
  BY LoopPasses
<1>2. ScFifo \in Nat
  BY ScAssumption
<1>3. \A i \in 0 .. ScFifo : f[i] = (IF i = 0 THEN p ELSE One("receive", f[i - 1]))
  BY <1>1 DEF Passes
<1> DEFINE G == {i \in 0 .. ScFifo : PortOK(f[i], h) /\ SendsAsBefore(f[i], p)}
<1>4. 0 \in G
  <2>1. 0 \in 0 .. ScFifo
    BY <1>2
  <2>2. f[0] = p
    BY <1>3, <2>1
  <2>3. SendsAsBefore(p, p)
    BY DEF SendsAsBefore
  <2> QED
    BY <2>1, <2>2, <2>3
<1>5. ASSUME NEW i \in 0 .. ScFifo - 1, i \in G PROVE i + 1 \in G
  <2>1. i + 1 \in 0 .. ScFifo /\ i + 1 # 0 /\ (i + 1) - 1 = i
    BY <1>2
  <2>2. f[i + 1] = ReceiveOne(f[i])
    BY <1>3, <2>1 DEF One
  <2>3. PortOK(f[i], h) /\ SendsAsBefore(f[i], p)
    BY <1>5
  <2>4. PortOK(f[i + 1], h) /\ SendsAsBefore(f[i + 1], f[i])
    BY <2>2, <2>3, ReceivedOne
  <2>5. SendsAsBefore(f[i + 1], p)
    BY <2>3, <2>4 DEF SendsAsBefore
  <2> QED
    BY <2>1, <2>4, <2>5
<1>6. G \in SUBSET (0 .. ScFifo)
  OBVIOUS
<1> HIDE DEF G
<1>7. \A i \in 0 .. ScFifo : i \in G
  BY <1>2, <1>4, <1>5, <1>6, CountsUp
<1>8. ScFifo \in G
  BY <1>2, <1>7
<1> QED
  BY <1>1, <1>8 DEF G

(* None is left then. *)
LEMMA TransmittedAll ==
  ASSUME NEW p, NEW h, PortOK(p, h)
  PROVE  PortOK(TransmitAll(p), h) /\ TransmitAll(p).sc.t = 0
PROOF
<1>1. PICK f : Passes("transmit", p, f, ScFifo) /\ TransmitAll(p) = f[ScFifo]
  BY LoopPasses
<1>2. ScFifo \in Nat
  BY ScAssumption
<1>3. \A i \in 0 .. ScFifo : f[i] = (IF i = 0 THEN p ELSE One("transmit", f[i - 1]))
  BY <1>1 DEF Passes
<1>4. ASSUME NEW x, PortOK(x, h) PROVE x.sc.t \in 0 .. ScFifo
  <2>1. x \in ScPorts
    BY <1>4 DEF PortOK
  <2> QED
    BY <2>1, PortFields
<1> DEFINE G == {i \in 0 .. ScFifo : PortOK(f[i], h) /\ f[i].sc.t <= ScFifo - i}
<1>5. 0 \in G
  <2>1. 0 \in 0 .. ScFifo
    BY <1>2
  <2>2. f[0] = p
    BY <1>3, <2>1
  <2>3. f[0].sc.t <= ScFifo - 0
    BY <1>2, <1>4, <2>2
  <2> QED
    BY <2>1, <2>2, <2>3
<1>6. ASSUME NEW i \in 0 .. ScFifo - 1, i \in G PROVE i + 1 \in G
  <2>1. i + 1 \in 0 .. ScFifo /\ i + 1 # 0 /\ (i + 1) - 1 = i
    BY <1>2
  <2>2. f[i + 1] = TransmitOne(f[i])
    BY <1>3, <2>1 DEF One
  <2>3. PortOK(f[i], h) /\ f[i].sc.t <= ScFifo - i /\ f[i].sc.t \in 0 .. ScFifo
    BY <1>4, <1>6
  <2>4. PortOK(f[i + 1], h) /\ f[i + 1].sc.t = (IF f[i].sc.t = 0 THEN 0 ELSE f[i].sc.t - 1)
    BY <2>2, <2>3, TransmittedOne
  <2>5. f[i + 1].sc.t <= ScFifo - (i + 1)
    <3>1. \A t \in 0 .. ScFifo : t <= ScFifo - i => (IF t = 0 THEN 0 ELSE t - 1) <= ScFifo - (i + 1)
      BY <1>2
    <3> QED
      BY <2>3, <2>4, <3>1
  <2> QED
    BY <2>1, <2>4, <2>5
<1>7. G \in SUBSET (0 .. ScFifo)
  OBVIOUS
<1> HIDE DEF G
<1>8. \A i \in 0 .. ScFifo : i \in G
  BY <1>2, <1>5, <1>6, <1>7, CountsUp
<1>9. ScFifo \in G
  BY <1>2, <1>8
<1>10. PortOK(f[ScFifo], h) /\ f[ScFifo].sc.t <= ScFifo - ScFifo
  BY <1>9 DEF G
<1>11. f[ScFifo].sc.t = 0
  <2>1. f[ScFifo].sc.t \in 0 .. ScFifo
    BY <1>4, <1>10
  <2>2. \A t \in 0 .. ScFifo : t <= ScFifo - ScFifo => t = 0
    BY <1>2
  <2> QED
    BY <1>10, <2>1, <2>2
<1> QED
  BY <1>1, <1>10, <1>11

-----------------------------------------------------------------------------
(* The serial port as a whole *)

ScGuests == [ready : BOOLEAN, cleared : BOOLEAN, room : Nat]
ScHists ==
  [hostSent : Nat, guestSent : Nat, hostGot : Seq(Nat), guestGot : Seq(Nat), lostIn : Nat, lostOut : Nat]

\* The registers tell what the FIFOs hold, and the guest has no more room
\* than there is: none before it has seen TDFE come back, which then means
\* that the trigger is met.
InUse(c, irq, g) ==
  /\ Counted(c) /\ Flagged(c) /\ Asked(c, irq)
  /\ "TXI" \in irq => "TDFE" \in c.flags
  /\ g.room <= ScFifo - c.t
  /\ g.cleared => g.room = 0 /\ ("TDFE" \in c.flags => TransmitTriggered(c))

SerialInv ==
  /\ scserial \in BOOLEAN /\ sc \in ScRegs /\ scirq \in SUBSET {"RXI", "TXI"} /\ scfatal = FALSE
  /\ QueueOK(scwriteq) /\ QueueOK(screadq)
  /\ scguest \in ScGuests /\ schist \in ScHists
  /\ InPlace(sc, scwriteq, screadq, schist)
  /\ scguest.ready => InUse(sc, scirq, scguest)

(* The fields of the registers, the guest and the history. *)
LEMMA ScFields ==
  /\ \A c \in ScRegs :
       /\ FifoOK(c.rx) /\ FifoOK(c.tx) /\ c.rx \in Fifos /\ c.tx \in Fifos
       /\ c.r \in 0 .. ScFifo /\ c.t \in 0 .. ScFifo
       /\ c.flags \in SUBSET ScFlags /\ c.scr \in SUBSET {"RE", "TE", "RIE", "TIE"}
       /\ c.rtrg \in ScRtrg /\ c.ttrg \in ScTtrg /\ c.rtrg \in 1 .. ScFifo /\ c.ttrg \in 1 .. ScFifo - 1
  /\ \A g \in ScGuests : g.ready \in BOOLEAN /\ g.cleared \in BOOLEAN /\ g.room \in Nat
  /\ \A h \in ScHists :
       /\ h.hostSent \in Nat /\ h.guestSent \in Nat /\ h.hostGot \in Seq(Nat) /\ h.guestGot \in Seq(Nat)
       /\ h.lostIn \in Nat /\ h.lostOut \in Nat
PROOF
<1>1. ASSUME NEW c \in ScRegs
      PROVE  /\ c.rx \in Fifos /\ c.tx \in Fifos /\ c.r \in 0 .. ScFifo /\ c.t \in 0 .. ScFifo
             /\ c.flags \in SUBSET ScFlags /\ c.scr \in SUBSET {"RE", "TE", "RIE", "TIE"}
             /\ c.rtrg \in ScRtrg /\ c.ttrg \in ScTtrg
  BY DEF ScRegs
<1>2. ASSUME NEW c \in ScRegs
      PROVE  c.rtrg \in 1 .. ScFifo /\ c.ttrg \in 1 .. ScFifo - 1 /\ FifoOK(c.rx) /\ FifoOK(c.tx)
  BY <1>1, ScAssumption DEF FifoOK, Fifos
<1>3. \A g \in ScGuests : g.ready \in BOOLEAN /\ g.cleared \in BOOLEAN /\ g.room \in Nat
  BY DEF ScGuests
<1>4. \A h \in ScHists :
        /\ h.hostSent \in Nat /\ h.guestSent \in Nat /\ h.hostGot \in Seq(Nat) /\ h.guestGot \in Seq(Nat)
        /\ h.lostIn \in Nat /\ h.lostOut \in Nat
  BY DEF ScHists
<1> QED
  BY <1>1, <1>2, <1>3, <1>4

(* The least and the greatest trigger are triggers. *)
LEMMA TriggersExist == Min(ScRtrg) \in ScRtrg /\ Max(ScTtrg) \in ScTtrg
PROOF
<1>1. ScFifo \in Nat /\ ScRtrg \subseteq 1 .. ScFifo /\ ScRtrg # {} /\ ScTtrg \subseteq 1 .. ScFifo - 1 /\ ScTtrg # {}
  BY ScAssumption
<1>2. ASSUME NEW P \in SUBSET (0 .. ScFifo), P # {} PROVE \E x \in P : \A y \in P : x <= y
  <2> DEFINE Less == {ss \in Nat \X Nat : ss[1] < ss[2]}
  <2>1. IsWellFoundedOn(Less, Nat)
    BY NatLessThanWellFounded DEF OpToRel
  <2>2. PICK m \in P : \A u \in P : ~(<<u, m>> \in Less)
    <3>1. P \in SUBSET Nat
      BY <1>1
    <3> HIDE DEF Less
    <3> QED
      BY <1>2, <2>1, <3>1, WFMin
  <2>3. ASSUME NEW u \in P PROVE m <= u
    <3>1. u \in Nat /\ m \in Nat
      OBVIOUS
    <3>2. ~(u < m)
      BY <2>2, <3>1
    <3> QED
      BY <3>1, <3>2
  <2> QED
    BY <2>3
<1>3. \E x \in ScRtrg : \A y \in ScRtrg : x <= y
  <2>1. ScRtrg \in SUBSET (0 .. ScFifo)
    BY <1>1
  <2> QED
    BY <1>1, <1>2, <2>1
<1>4. \E x \in ScTtrg : \A y \in ScTtrg : y <= x
  <2> DEFINE P == {i \in 0 .. ScFifo : ScFifo - i \in ScTtrg}
  <2>1. P # {}
    <3>1. PICK t \in ScTtrg : TRUE
      BY <1>1
    <3>2. ScFifo - t \in 0 .. ScFifo /\ ScFifo - (ScFifo - t) = t
      BY <1>1
    <3> QED
      BY <3>1, <3>2
  <2>2. P \in SUBSET (0 .. ScFifo)
    OBVIOUS
  <2>3. PICK m \in P : \A i \in P : m <= i
    <3> HIDE DEF P
    <3> QED
      BY <1>2, <2>1, <2>2
  <2>4. ASSUME NEW t \in ScTtrg PROVE t <= ScFifo - m
    <3>1. ScFifo - t \in 0 .. ScFifo /\ ScFifo - (ScFifo - t) = t /\ t \in Int
      BY <1>1
    <3>2. ScFifo - t \in P
      BY <3>1
    <3>3. m <= ScFifo - t /\ m \in 0 .. ScFifo
      BY <2>3, <3>2
    <3> QED
      BY <1>1, <3>1, <3>3
  <2>5. ScFifo - m \in ScTtrg
    OBVIOUS
  <2> QED
    BY <2>4, <2>5
<1>5. Min(ScRtrg) \in ScRtrg
  BY <1>3, Zenon DEF Min
<1>6. Max(ScTtrg) \in ScTtrg
  <2>1. \E x \in ScTtrg : \A y \in ScTtrg : x >= y
    BY <1>1, <1>4
  <2> QED
    BY <2>1, Zenon DEF Max
<1> QED
  BY <1>5, <1>6

(* What is empty holds nothing. *)
LEMMA NothingHeld ==
  /\ QueueOK(<<>>) /\ QueueContent(<<>>) = <<>>
  /\ \A q : FifoOK(q) /\ q.head = q.tail => FifoContent(q) = <<>>
PROOF
<1>0. \A s \in Seq(Nat) : Len(s) = 0 => s = <<>>
  OBVIOUS
<1>1. QueueOK(<<>>)
  <2>1. <<>> \in Seq(DataBlock) /\ \A i \in 1 .. Len(<<>>) : FALSE
    OBVIOUS
  <2> QED
    BY <2>1 DEF QueueOK
<1>2. QueueContent(<<>>) = <<>>
  <2>1. QueueLen(<<>>) = 0
    BY DEF QueueLen
  <2>2. QueueContent(<<>>) \in Seq(Nat) /\ Len(QueueContent(<<>>)) = 0
    BY <1>1, <2>1, QueueContents
  <2> QED
    BY <1>0, <2>2, Zenon
<1>3. ASSUME NEW q, FifoOK(q), q.head = q.tail PROVE FifoContent(q) = <<>>
  <2>1. FifoContent(q) \in Seq(Nat) /\ Len(FifoContent(q)) = 0
    BY <1>3, FifoHolds
  <2> QED
    BY <1>0, <2>1, Zenon
<1> QED
  BY <1>1, <1>2, <1>3

(* The port comes up empty. *)
LEMMA SerialInitInv == ASSUME ~ScLazy, ScInit PROVE SerialInv
PROOF
<1> DEFINE cells == [i \in 0 .. ScFifo |-> 0]
           empty == [head |-> 0, tail |-> 0, data |-> cells]
           none == <<>>
<1>1. ScFifo \in Nat
  BY ScAssumption
<1>2. empty \in Fifos /\ empty.head = empty.tail /\ empty = EmptyFifo
  BY <1>1 DEF Fifos, EmptyFifo
<1> HIDE DEF empty
<1>3. FifoContent(empty) = none
  BY <1>2, NothingHeld DEF FifoOK, Fifos
<1>4. Min(ScRtrg) \in ScRtrg /\ Max(ScTtrg) \in ScTtrg
  BY TriggersExist
<1> DEFINE rtrg == Min(ScRtrg)
           ttrg == Max(ScTtrg)
           c == [rx |-> empty, tx |-> empty, r |-> 0, t |-> 0, flags |-> {"TDFE", "TEND"},
                 scr |-> {}, rtrg |-> rtrg, ttrg |-> ttrg]
           g == [ready |-> FALSE, cleared |-> ScLazy, room |-> 0]
           h == [hostSent |-> 0, guestSent |-> 0, hostGot |-> none, guestGot |-> none, lostIn |-> 0, lostOut |-> 0]
<1>5. /\ scserial \in BOOLEAN /\ sc = c /\ scirq = {} /\ scfatal = FALSE
      /\ scwriteq = none /\ screadq = none /\ scguest = g /\ schist = h
  BY <1>2 DEF ScInit
<1> HIDE DEF rtrg, ttrg
<1>6. c \in ScRegs /\ c.rx = empty /\ c.tx = empty
  BY <1>1, <1>2, <1>4 DEF ScRegs, ScFlags, rtrg, ttrg
<1>7. g \in ScGuests /\ g.ready = FALSE
  <2>1. ScLazy \in BOOLEAN
    BY ScAssumption
  <2>2. g \in ScGuests
    BY <2>1 DEF ScGuests
  <2> QED
    BY <2>2
<1>8. none \in Seq(Nat) /\ Len(none) = 0
  OBVIOUS
<1>9. QueueOK(none) /\ QueueContent(none) = none
  BY NothingHeld
<1> HIDE DEF none
<1>10. /\ h \in ScHists /\ h.hostSent = 0 /\ h.guestSent = 0 /\ h.hostGot = none /\ h.guestGot = none
       /\ h.lostIn = 0 /\ h.lostOut = 0
  BY <1>8 DEF ScHists
<1> HIDE DEF c, g, h
<1>11. Chain(none, none, none, 0, 0)
  <2>1. 1 .. 0 = {}
    OBVIOUS
  <2>2. Sorted(none) /\ Ahead(none, none) /\ Within(none, 0)
    BY <1>8, <2>1 DEF Sorted, Ahead, Within
  <2>3. Len(none) + Len(none) + Len(none) + 0 = 0
    BY <1>8
  <2> QED
    BY <1>8, <2>2, <2>3 DEF Chain
<1>12. InPlace(c, none, none, h)
  BY <1>3, <1>6, <1>9, <1>10, <1>11 DEF InPlace
<1> QED
  BY <1>5, <1>6, <1>7, <1>9, <1>10, <1>12 DEF SerialInv

(* A write of SCSCR2 sets the modes and updates the interrupts. *)
LEMMA ScWriteControl ==
  ASSUME SerialInv, NEW v \in ScModes, WriteSCSCR2(v)
  PROVE  SerialInv'
PROOF
<1> DEFINE c == [sc EXCEPT !.scr = v]
           flags == IF "TE" \in v THEN sc.flags ELSE sc.flags \cup {"TEND"}
           d == [c EXCEPT !.flags = flags]
           irq == scirq \ ({x \in {"RXI"} : "RIE" \notin v} \cup {x \in {"TXI"} : "TIE" \notin v})
<1>1. /\ sc \in ScRegs /\ scirq \in SUBSET {"RXI", "TXI"} /\ InPlace(sc, scwriteq, screadq, schist)
      /\ scguest.ready => InUse(sc, scirq, scguest)
  BY DEF SerialInv
<1>2. v \in SUBSET {"RE", "TE", "RIE", "TIE"}
  BY ScAssumption
<1>3. c.flags = sc.flags /\ c.scr = v /\ c \in ScRegs
  BY <1>1, <1>2 DEF ScRegs
<1>4. sc' = d
  <2>1. sc' = IF "TE" \in v THEN c ELSE Flag(c, "TEND", TRUE)
    BY DEF WriteSCSCR2
  <2>2. Flag(c, "TEND", TRUE) = [c EXCEPT !.flags = sc.flags \cup {"TEND"}]
    BY <1>3 DEF Flag
  <2>3. c = [c EXCEPT !.flags = sc.flags]
    BY <1>3 DEF ScRegs
  <2> HIDE DEF c
  <2> QED
    BY <2>1, <2>2, <2>3
<1>5. flags \in SUBSET ScFlags /\ ("RDF" \in flags <=> "RDF" \in sc.flags) /\ ("TDFE" \in flags <=> "TDFE" \in sc.flags)
  BY <1>1, ScFields DEF ScFlags
<1>6. irq \in SUBSET {"RXI", "TXI"} /\ ("RXI" \in irq => "RIE" \in v) /\ ("TXI" \in irq => "TIE" \in v /\ "TXI" \in scirq)
  BY <1>1
<1>7. scirq' = irq
  BY DEF WriteSCSCR2
<1> HIDE DEF flags, irq
<1>8. /\ d \in ScRegs /\ d.rx = sc.rx /\ d.tx = sc.tx /\ d.r = sc.r /\ d.t = sc.t /\ d.flags = flags
      /\ d.scr = v /\ d.rtrg = sc.rtrg /\ d.ttrg = sc.ttrg
  BY <1>1, <1>2, <1>5 DEF ScRegs
<1> HIDE DEF c, d
<1>9. UNCHANGED <<scserial, scfatal, scwriteq, screadq, scguest, schist>>
  BY DEF WriteSCSCR2
<1>10. InPlace(d, scwriteq, screadq, schist)
  BY <1>1, <1>8 DEF InPlace
<1>11. scguest.ready => InUse(d, irq, scguest)
  BY <1>1, <1>5, <1>6, <1>8 DEF InUse, Counted, Flagged, Asked, ReceiveTriggered, TransmitTriggered
<1> QED
  BY <1>4, <1>6, <1>7, <1>8, <1>9, <1>10, <1>11 DEF SerialInv

\* d has the registers of c, but for the flags.
FlagsApart(d, c) ==
  /\ d \in ScRegs /\ d.rx = c.rx /\ d.tx = c.tx /\ d.r = c.r /\ d.t = c.t
  /\ d.scr = c.scr /\ d.rtrg = c.rtrg /\ d.ttrg = c.ttrg

(* What changes in the registers when a flag does. *)
LEMMA FlagChanges ==
  ASSUME NEW c \in ScRegs, NEW f \in ScFlags, NEW on
  PROVE  /\ FlagsApart(Flag(c, f, on), c)
         /\ Flag(c, f, on).flags = (IF on THEN c.flags \cup {f} ELSE c.flags \ {f})
PROOF
<1> DEFINE d == Flag(c, f, on)
           flags == IF on THEN c.flags \cup {f} ELSE c.flags \ {f}
<1>1. d = [c EXCEPT !.flags = flags]
  BY DEF Flag
<1>2. flags \in SUBSET ScFlags
  BY ScFields
<1> HIDE DEF flags, d
<1>3. FlagsApart(d, c) /\ d.flags = flags
  BY <1>1, <1>2 DEF ScRegs, FlagsApart
<1> QED
  BY <1>3 DEF flags, d

(* What a reset of either FIFO leaves. *)
LEMMA ReceiveIsReset ==
  ASSUME NEW p \in ScPorts, NEW e, e = ReceiveReset(p)
  PROVE  /\ e \in ScPorts /\ e.irq = p.irq \ {"RXI"} /\ e.fatal = p.fatal /\ e.wq = p.wq /\ e.rq = p.rq
         /\ FifoContent(e.sc.rx) = <<>> /\ FifoSize(e.sc.rx) = 0 /\ e.sc.r = 0
         /\ e.sc.tx = p.sc.tx /\ e.sc.t = p.sc.t /\ e.sc.rtrg = p.sc.rtrg /\ e.sc.ttrg = p.sc.ttrg
PROOF
<1> DEFINE rx == [p.sc.rx EXCEPT !.head = 0, !.tail = 0]
           c == [p.sc EXCEPT !.rx = rx, !.r = 0]
           d == Flag(c, "RDF", FALSE)
           irq == p.irq \ {"RXI"}
<1>1. p.sc \in ScRegs /\ p.irq \in SUBSET {"RXI", "TXI"} /\ FifoOK(p.sc.rx)
  BY PortFields
<1>2. 0 \in 0 .. ScFifo
  BY ScAssumption
<1>3. p.sc.rx \in Fifos
  BY <1>1 DEF FifoOK, Fifos
<1>4. rx \in Fifos /\ rx.head = rx.tail
  BY <1>2, <1>3 DEF Fifos
<1>5. c = [p.sc EXCEPT !.rx.head = 0, !.rx.tail = 0, !.r = 0]
  BY <1>1 DEF ScRegs
<1> HIDE DEF rx
<1>6. c \in ScRegs /\ c.rx = rx /\ c.r = 0 /\ c.tx = p.sc.tx /\ c.t = p.sc.t /\ c.rtrg = p.sc.rtrg /\ c.ttrg = p.sc.ttrg
  BY <1>1, <1>2, <1>4 DEF ScRegs
<1>7. e = [p EXCEPT !.sc = d, !.irq = irq]
  <2>1. e = [p EXCEPT !.sc = Flag([p.sc EXCEPT !.rx.head = 0, !.rx.tail = 0, !.r = 0], "RDF", FALSE), !.irq = irq]
    BY DEF ReceiveReset
  <2> HIDE DEF c, irq
  <2> QED
    BY <1>5, <2>1
<1> HIDE DEF c
<1>8. "RDF" \in ScFlags
  BY DEF ScFlags
<1>9. d \in ScRegs /\ d.rx = rx /\ d.r = 0 /\ d.tx = p.sc.tx /\ d.t = p.sc.t /\ d.rtrg = p.sc.rtrg /\ d.ttrg = p.sc.ttrg
  <2>1. FlagsApart(d, c)
    BY <1>6, <1>8, FlagChanges
  <2> HIDE DEF d
  <2> QED
    BY <1>6, <2>1 DEF FlagsApart
<1>10. irq \in SUBSET {"RXI", "TXI"}
  BY <1>1
<1> HIDE DEF d, irq
<1>11. e \in ScPorts /\ e.sc = d /\ e.irq = irq /\ e.fatal = p.fatal /\ e.wq = p.wq /\ e.rq = p.rq
  BY <1>7, <1>9, <1>10 DEF ScPorts
<1>12. FifoContent(rx) = <<>> /\ FifoSize(rx) = 0
  <2>1. FifoOK(rx)
    BY <1>4 DEF FifoOK, Fifos
  <2> QED
    BY <1>4, <2>1, NothingHeld, FifoHolds
<1> QED
  BY <1>9, <1>11, <1>12 DEF irq

(* A reset of the transmit FIFO empties it, and takes its interrupt back. *)
LEMMA TransmitIsReset ==
  ASSUME NEW p \in ScPorts, NEW e, e = TransmitReset(p)
  PROVE  /\ e \in ScPorts /\ e.irq = p.irq \ {"TXI"} /\ e.fatal = p.fatal /\ e.wq = p.wq /\ e.rq = p.rq
         /\ FifoContent(e.sc.tx) = <<>> /\ FifoSize(e.sc.tx) = 0 /\ e.sc.t = 0 /\ "TDFE" \in e.sc.flags
         /\ e.sc.rx = p.sc.rx /\ e.sc.r = p.sc.r /\ e.sc.rtrg = p.sc.rtrg /\ e.sc.ttrg = p.sc.ttrg
PROOF
<1> DEFINE tx == [p.sc.tx EXCEPT !.head = 0, !.tail = 0]
           c == [p.sc EXCEPT !.tx = tx, !.t = 0]
           ended == Flag(c, "TEND", TRUE)
           d == Flag(ended, "TDFE", TRUE)
           irq == p.irq \ {"TXI"}
<1>1. p.sc \in ScRegs /\ p.irq \in SUBSET {"RXI", "TXI"} /\ FifoOK(p.sc.tx)
  BY PortFields
<1>2. 0 \in 0 .. ScFifo
  BY ScAssumption
<1>3. p.sc.tx \in Fifos
  BY <1>1 DEF FifoOK, Fifos
<1>4. tx \in Fifos /\ tx.head = tx.tail
  BY <1>2, <1>3 DEF Fifos
<1>5. c = [p.sc EXCEPT !.tx.head = 0, !.tx.tail = 0, !.t = 0]
  BY <1>1 DEF ScRegs
<1> HIDE DEF tx
<1>6. c \in ScRegs /\ c.tx = tx /\ c.t = 0 /\ c.rx = p.sc.rx /\ c.r = p.sc.r /\ c.rtrg = p.sc.rtrg /\ c.ttrg = p.sc.ttrg
  BY <1>1, <1>2, <1>4 DEF ScRegs
<1>7. e = [p EXCEPT !.sc = d, !.irq = irq]
  <2>1. e = [p EXCEPT !.sc = Flag(Flag([p.sc EXCEPT !.tx.head = 0, !.tx.tail = 0, !.t = 0], "TEND", TRUE), "TDFE", TRUE),
                      !.irq = irq]
    BY DEF TransmitReset
  <2> HIDE DEF c, irq
  <2> QED
    BY <1>5, <2>1
<1> HIDE DEF c
<1>8. "TEND" \in ScFlags /\ "TDFE" \in ScFlags
  BY DEF ScFlags
<1>9. /\ ended \in ScRegs /\ ended.tx = tx /\ ended.t = 0 /\ ended.rx = p.sc.rx /\ ended.r = p.sc.r
      /\ ended.rtrg = p.sc.rtrg /\ ended.ttrg = p.sc.ttrg
  BY <1>6, <1>8, FlagChanges DEF FlagsApart
<1> HIDE DEF ended
<1>10. /\ d \in ScRegs /\ d.tx = tx /\ d.t = 0 /\ d.rx = p.sc.rx /\ d.r = p.sc.r
       /\ d.rtrg = p.sc.rtrg /\ d.ttrg = p.sc.ttrg /\ "TDFE" \in d.flags
  <2>1. FlagsApart(d, ended) /\ d.flags = (IF TRUE THEN ended.flags \cup {"TDFE"} ELSE ended.flags \ {"TDFE"})
    BY <1>8, <1>9, FlagChanges
  <2> HIDE DEF d
  <2> QED
    BY <1>9, <2>1 DEF FlagsApart
<1>11. irq \in SUBSET {"RXI", "TXI"}
  BY <1>1
<1> HIDE DEF d, irq
<1>12. e \in ScPorts /\ e.sc = d /\ e.irq = irq /\ e.fatal = p.fatal /\ e.wq = p.wq /\ e.rq = p.rq
  BY <1>7, <1>10, <1>11 DEF ScPorts
<1>13. FifoContent(tx) = <<>> /\ FifoSize(tx) = 0
  <2>1. FifoOK(tx)
    BY <1>4 DEF FifoOK, Fifos
  <2> QED
    BY <1>4, <2>1, NothingHeld, FifoHolds
<1> QED
  BY <1>10, <1>12, <1>13 DEF irq

(* The port as a record. *)
LEMMA PortIsThere ==
  ASSUME SerialInv
  PROVE  /\ Port \in ScPorts /\ Port.sc = sc /\ Port.irq = scirq /\ Port.fatal = scfatal
         /\ Port.wq = scwriteq /\ Port.rq = screadq
PROOF
<1>1. /\ sc \in ScRegs /\ scirq \in SUBSET {"RXI", "TXI"} /\ scfatal \in {FALSE}
      /\ scwriteq \in Seq(DataBlock) /\ screadq \in Seq(DataBlock)
  BY DEF SerialInv, QueueOK
<1> QED
  BY <1>1 DEF Port, ScPorts

(* A write of SCFCR2 sets the triggers and may reset the FIFOs. *)
LEMMA ScWriteFifo ==
  ASSUME SerialInv, NEW r \in ScRtrg, NEW t \in ScTtrg, WriteSCFCR2(r, t)
  PROVE  SerialInv'
PROOF
<1> DEFINE p0 == [Port EXCEPT !.sc = [@ EXCEPT !.rtrg = r, !.ttrg = t]]
           p1 == ReceiveReset(p0)
           p2 == TransmitReset(p1)
           in == schist.lostIn + FifoSize(sc.rx)
           out == schist.lostOut + FifoSize(sc.tx)
           h == [schist EXCEPT !.lostIn = in, !.lostOut = out]
           g == [ready |-> TRUE, cleared |-> TRUE, room |-> 0]
<1>1. /\ sc \in ScRegs /\ InPlace(sc, scwriteq, screadq, schist)
      /\ schist \in ScHists /\ scserial \in BOOLEAN /\ scfatal = FALSE
      /\ QueueOK(scwriteq) /\ QueueOK(screadq)
  BY DEF SerialInv
<1>2. ScFifo \in Nat /\ r \in 1 .. ScFifo /\ t \in 1 .. ScFifo - 1
  BY ScAssumption
<1>3. FifoOK(sc.rx) /\ FifoOK(sc.tx)
  BY <1>1, ScFields
<1>4. StorePort(p2) /\ scguest' = g /\ schist' = h /\ scserial' = scserial
  BY DEF WriteSCFCR2
<1>5. /\ p0 \in ScPorts /\ p0.sc.rtrg = r /\ p0.sc.ttrg = t /\ p0.irq = scirq /\ p0.fatal = scfatal
      /\ p0.wq = scwriteq /\ p0.rq = screadq
  <2> DEFINE c == [sc EXCEPT !.rtrg = r, !.ttrg = t]
  <2>1. c \in ScRegs /\ c.rtrg = r /\ c.ttrg = t
    BY <1>1 DEF ScRegs
  <2>2. p0 = [Port EXCEPT !.sc = c]
    BY PortIsThere
  <2> HIDE DEF c, p0
  <2>3. /\ p0 \in ScPorts /\ p0.sc = c /\ p0.irq = Port.irq /\ p0.fatal = Port.fatal
        /\ p0.wq = Port.wq /\ p0.rq = Port.rq
    BY <2>1, <2>2, PortIsThere DEF ScPorts
  <2> QED
    BY <2>1, <2>3, PortIsThere
<1> HIDE DEF p0
<1>6. /\ p1 \in ScPorts /\ p1.irq = scirq \ {"RXI"} /\ p1.fatal = scfatal /\ p1.wq = scwriteq /\ p1.rq = screadq
      /\ FifoContent(p1.sc.rx) = <<>> /\ FifoSize(p1.sc.rx) = 0 /\ p1.sc.r = 0
      /\ p1.sc.rtrg = r /\ p1.sc.ttrg = t
  BY <1>5, ReceiveIsReset
<1> HIDE DEF p1
<1>7. /\ p2 \in ScPorts /\ p2.irq = (scirq \ {"RXI"}) \ {"TXI"} /\ p2.fatal = scfatal
      /\ p2.wq = scwriteq /\ p2.rq = screadq
      /\ FifoContent(p2.sc.rx) = <<>> /\ FifoSize(p2.sc.rx) = 0 /\ p2.sc.r = 0
      /\ FifoContent(p2.sc.tx) = <<>> /\ FifoSize(p2.sc.tx) = 0 /\ p2.sc.t = 0 /\ "TDFE" \in p2.sc.flags
      /\ p2.sc.rtrg = r /\ p2.sc.ttrg = t
  BY <1>6, TransmitIsReset
<1> HIDE DEF p2
<1>8. p2.sc \in ScRegs /\ p2.irq \in SUBSET {"RXI", "TXI"}
  BY <1>7, PortFields
<1>9. FifoSize(sc.rx) \in Nat /\ FifoSize(sc.tx) \in Nat
  BY <1>2, <1>3, FifoHolds
<1>10. in \in Nat /\ out \in Nat
  BY <1>1, <1>9, ScFields
<1>11. /\ in = schist.lostIn + FifoSize(sc.rx) /\ out = schist.lostOut + FifoSize(sc.tx)
  OBVIOUS
<1> HIDE DEF in, out
<1>12. /\ h \in ScHists /\ h.hostSent = schist.hostSent /\ h.guestSent = schist.guestSent
       /\ h.hostGot = schist.hostGot /\ h.guestGot = schist.guestGot /\ h.lostIn = in /\ h.lostOut = out
  <2>1. schist \in ScHists
    BY <1>1
  <2> QED
    BY <1>10, <2>1 DEF ScHists
<1>13. g \in ScGuests /\ g.room = 0
  BY DEF ScGuests
<1> HIDE DEF h, g
<1>14. InPlace(p2.sc, scwriteq, screadq, h)
  <2>1. /\ Chain(schist.guestGot, FifoContent(sc.rx), QueueContent(scwriteq), schist.hostSent, schist.lostIn)
        /\ Chain(schist.hostGot, QueueContent(screadq), FifoContent(sc.tx), schist.guestSent, schist.lostOut)
    BY <1>1 DEF InPlace
  <2>2. Len(FifoContent(sc.rx)) = FifoSize(sc.rx) /\ Len(FifoContent(sc.tx)) = FifoSize(sc.tx)
    BY <1>3, FifoHolds
  <2>3. Chain(schist.guestGot, <<>>, QueueContent(scwriteq), schist.hostSent, schist.lostIn + Len(FifoContent(sc.rx)))
    BY <2>1, ChainLoses
  <2>4. Chain(schist.hostGot, QueueContent(screadq), <<>>, schist.guestSent, schist.lostOut + Len(FifoContent(sc.tx)))
    BY <2>1, ChainLoses
  <2> QED
    BY <1>7, <1>11, <1>12, <2>2, <2>3, <2>4 DEF InPlace
<1>15. InUse(p2.sc, p2.irq, g)
  <2>1. Counted(p2.sc)
    BY <1>7 DEF Counted
  <2>2. ~ReceiveTriggered(p2.sc) /\ TransmitTriggered(p2.sc)
    BY <1>2, <1>7 DEF ReceiveTriggered, TransmitTriggered
  <2>3. g.room <= ScFifo - p2.sc.t
    BY <1>2, <1>7, <1>13
  <2>4. "RXI" \notin p2.irq /\ "TXI" \notin p2.irq
    BY <1>7
  <2> QED
    BY <1>7, <1>13, <2>1, <2>2, <2>3, <2>4 DEF InUse, Flagged, Asked
<1>16. /\ sc' = p2.sc /\ scirq' = p2.irq /\ scfatal' = scfatal /\ scwriteq' = scwriteq /\ screadq' = screadq
  BY <1>4, <1>7 DEF StorePort
<1> QED
  BY <1>1, <1>4, <1>8, <1>12, <1>13, <1>14, <1>15, <1>16 DEF SerialInv

(* A read of SCFSR2 with all that it moves. *)
LEMMA ScReadStatus == ASSUME ~ScLazy, SerialInv, ReadSCFSR2 PROVE SerialInv'
PROOF
<1> DEFINE h == schist
           rec == IF "RE" \in sc.scr THEN ReceiveAll(Port) ELSE Port
           p == ScifRun(Port)
           g == IF "TDFE" \in p.sc.flags /\ scguest.cleared
                THEN [scguest EXCEPT !.cleared = FALSE, !.room = ScFifo - sc.ttrg] ELSE scguest
<1>1. /\ sc \in ScRegs /\ scguest \in ScGuests /\ scguest.ready /\ InUse(sc, scirq, scguest)
      /\ schist \in ScHists /\ scserial \in BOOLEAN
  BY DEF SerialInv, ReadSCFSR2, Ready
<1>2. ScFifo \in Nat /\ sc.t \in 0 .. ScFifo /\ sc.ttrg \in 1 .. ScFifo - 1 /\ scguest.room \in Nat
  BY <1>1, ScFields, ScAssumption
<1>3. StorePort(p) /\ scguest' = g /\ UNCHANGED <<scserial, schist>>
  BY DEF ReadSCFSR2
<1>4. PortOK(Port, h)
  <2>1. /\ QueueOK(scwriteq) /\ QueueOK(screadq) /\ InPlace(sc, scwriteq, screadq, schist)
        /\ Counted(sc) /\ Flagged(sc) /\ Asked(sc, scirq)
    BY <1>1 DEF SerialInv, InUse
  <2> QED
    BY <2>1, PortIsThere DEF PortOK
<1>5. SendsAsBefore(Port, Port)
  BY DEF SendsAsBefore
<1>6. PortOK(rec, h) /\ SendsAsBefore(rec, Port)
  BY <1>4, <1>5, ReceivedAll
<1>7. p = (IF ~scserial THEN Port ELSE IF "TE" \in sc.scr THEN TransmitAll(rec) ELSE rec)
  BY PortIsThere DEF ScifRun
<1> HIDE DEF rec
<1>8. PortOK(p, h) /\ (p.sc.t = 0 \/ SendsAsBefore(p, Port))
  <2> HIDE DEF p
  <2> QED
    BY <1>4, <1>5, <1>6, <1>7, TransmittedAll
<1> HIDE DEF p
<1>9. /\ p \in ScPorts /\ QueueOK(p.wq) /\ QueueOK(p.rq) /\ InPlace(p.sc, p.wq, p.rq, h)
      /\ Counted(p.sc) /\ Flagged(p.sc) /\ Asked(p.sc, p.irq)
  BY <1>8 DEF PortOK
<1>10. /\ p.sc \in ScRegs /\ p.irq \in SUBSET {"RXI", "TXI"} /\ p.fatal = FALSE
       /\ p.sc.t \in 0 .. ScFifo /\ p.sc.ttrg \in 1 .. ScFifo - 1
  BY <1>9, PortFields
<1>11. /\ sc' = p.sc /\ scirq' = p.irq /\ scfatal' = FALSE /\ scwriteq' = p.wq /\ screadq' = p.rq
  BY <1>3, <1>10 DEF StorePort
<1>12. CASE p.sc.t = 0
  <2>1. TransmitTriggered(p.sc) /\ "TDFE" \in p.sc.flags
    <3>1. TransmitTriggered(p.sc)
      BY <1>10, <1>12 DEF TransmitTriggered
    <3> QED
      BY <1>9, <3>1 DEF Flagged
  <2>2. g \in ScGuests /\ g.ready /\ g.room <= ScFifo /\ ~g.cleared
    <3>1. CASE scguest.cleared
      <4> DEFINE room == ScFifo - sc.ttrg
      <4>1. room \in Nat /\ room <= ScFifo
        BY <1>2
      <4>2. g = [scguest EXCEPT !.cleared = FALSE, !.room = room]
        BY <2>1, <3>1
      <4> HIDE DEF room, g
      <4>3. g \in ScGuests /\ g.ready = scguest.ready /\ g.room = room /\ g.cleared = FALSE
        BY <1>1, <4>1, <4>2 DEF ScGuests
      <4> QED
        BY <1>1, <4>1, <4>3
    <3>2. CASE ~scguest.cleared
      <4>1. g = scguest
        BY <3>2
      <4>2. scguest.room <= ScFifo
        <5>1. scguest.room <= ScFifo - sc.t
          BY <1>1 DEF InUse
        <5> QED
          BY <1>2, <5>1
      <4> QED
        BY <1>1, <3>2, <4>1, <4>2
    <3> QED
      BY <3>1, <3>2
  <2> HIDE DEF g
  <2>3. g.room <= ScFifo - p.sc.t
    BY <1>2, <1>12, <2>2
  <2>4. InUse(p.sc, p.irq, g)
    BY <1>9, <2>1, <2>2, <2>3 DEF InUse
  <2> QED
    BY <1>1, <1>3, <1>9, <1>10, <1>11, <2>2, <2>4 DEF SerialInv
<1>13. CASE SendsAsBefore(p, Port)
  <2>1. /\ p.sc.t = sc.t /\ p.sc.ttrg = sc.ttrg
        /\ "TDFE" \in p.sc.flags <=> "TDFE" \in sc.flags
        /\ "TXI" \in p.irq <=> "TXI" \in scirq
    BY <1>13, PortIsThere DEF SendsAsBefore
  <2>2. "TXI" \in p.irq => "TDFE" \in p.sc.flags
    BY <1>1, <2>1 DEF InUse
  <2>3. /\ g \in ScGuests /\ g.ready /\ g.room <= ScFifo - sc.t
        /\ g.cleared => g.room = 0 /\ "TDFE" \notin sc.flags
    <3>1. CASE "TDFE" \in p.sc.flags /\ scguest.cleared
      <4> DEFINE room == ScFifo - sc.ttrg
      <4>1. room \in Nat /\ room <= ScFifo - sc.t
        <5>1. sc.t <= sc.ttrg
          BY <1>1, <2>1, <3>1 DEF InUse, TransmitTriggered
        <5> QED
          BY <1>2, <5>1
      <4>2. g = [scguest EXCEPT !.cleared = FALSE, !.room = room]
        BY <3>1
      <4> HIDE DEF room, g
      <4>3. g \in ScGuests /\ g.ready = scguest.ready /\ g.room = room /\ g.cleared = FALSE
        BY <1>1, <4>1, <4>2 DEF ScGuests
      <4> QED
        BY <1>1, <4>1, <4>3
    <3>2. CASE ~("TDFE" \in p.sc.flags /\ scguest.cleared)
      <4>1. g = scguest
        BY <3>2
      <4>2. scguest.cleared => "TDFE" \notin sc.flags
        BY <2>1, <3>2
      <4>3. scguest.room <= ScFifo - sc.t /\ (scguest.cleared => scguest.room = 0)
        BY <1>1 DEF InUse
      <4> QED
        BY <1>1, <4>1, <4>2, <4>3
    <3> QED
      BY <3>1, <3>2
  <2> HIDE DEF g
  <2>4. InUse(p.sc, p.irq, g)
    BY <1>9, <2>1, <2>2, <2>3 DEF InUse
  <2> QED
    BY <1>1, <1>3, <1>9, <1>10, <1>11, <2>3, <2>4 DEF SerialInv
<1> QED
  BY <1>8, <1>12, <1>13

(* A write to it. *)
LEMMA ScWriteStatus == ASSUME ~ScLazy, SerialInv, WriteSCFSR2 PROVE SerialInv'
PROOF
<1> DEFINE c1 == Flag(sc, "RDF", ReceiveTriggered(sc))
           mid == Flag(c1, "TDFE", TransmitTriggered(sc))
           c3 == Flag(mid, "TEND", sc.t = 0)
           irq == scirq \ ({x \in {"RXI"} : "RIE" \in c3.scr /\ "RDF" \notin c3.flags}
                           \cup {x \in {"TXI"} : "TIE" \in c3.scr /\ "TDFE" \notin c3.flags})
           g == [scguest EXCEPT !.cleared = TRUE, !.room = 0]
<1>1. /\ sc \in ScRegs /\ scguest \in ScGuests /\ scguest.ready /\ InUse(sc, scirq, scguest)
      /\ scirq \in SUBSET {"RXI", "TXI"} /\ InPlace(sc, scwriteq, screadq, schist)
  BY DEF SerialInv, WriteSCFSR2, Ready
<1>2. "RDF" \in ScFlags /\ "TDFE" \in ScFlags /\ "TEND" \in ScFlags
  BY DEF ScFlags
<1>3. /\ FlagsApart(c1, sc)
      /\ c1.flags = (IF ReceiveTriggered(sc) THEN sc.flags \cup {"RDF"} ELSE sc.flags \ {"RDF"})
  BY <1>1, <1>2, FlagChanges
<1>4. sc' = c3 /\ scirq' = irq /\ scguest' = g /\ UNCHANGED <<scserial, scfatal, scwriteq, screadq, schist>>
  BY DEF WriteSCFSR2
<1> HIDE DEF c1
<1>5. /\ FlagsApart(mid, c1)
      /\ mid.flags = (IF TransmitTriggered(sc) THEN c1.flags \cup {"TDFE"} ELSE c1.flags \ {"TDFE"})
  <2>1. c1 \in ScRegs
    BY <1>3 DEF FlagsApart
  <2> QED
    BY <1>2, <2>1, FlagChanges
<1> HIDE DEF mid
<1>6. /\ FlagsApart(c3, mid)
      /\ c3.flags = (IF sc.t = 0 THEN mid.flags \cup {"TEND"} ELSE mid.flags \ {"TEND"})
  <2>1. mid \in ScRegs
    BY <1>5 DEF FlagsApart
  <2> QED
    BY <1>2, <2>1, FlagChanges
<1> HIDE DEF c3
<1>7. FlagsApart(c3, sc)
  BY <1>3, <1>5, <1>6 DEF FlagsApart
<1>8. ("RDF" \in c3.flags <=> ReceiveTriggered(sc)) /\ ("TDFE" \in c3.flags <=> TransmitTriggered(sc))
  <2>1. "RDF" \in c1.flags <=> ReceiveTriggered(sc)
    BY <1>3
  <2>2. ("RDF" \in mid.flags <=> "RDF" \in c1.flags) /\ ("TDFE" \in mid.flags <=> TransmitTriggered(sc))
    BY <1>5
  <2>3. ("RDF" \in c3.flags <=> "RDF" \in mid.flags) /\ ("TDFE" \in c3.flags <=> "TDFE" \in mid.flags)
    BY <1>6
  <2> QED
    BY <2>1, <2>2, <2>3
<1>9. g \in ScGuests /\ g.ready = scguest.ready /\ g.room = 0
  BY <1>1 DEF ScGuests
<1>10. irq \in SUBSET {"RXI", "TXI"} /\ (\A x \in irq : x \in scirq)
       /\ ("TXI" \in irq => "TIE" \notin c3.scr \/ "TDFE" \in c3.flags)
  BY <1>1
<1> HIDE DEF irq, g
<1>11. ScFifo \in Nat /\ sc.t \in 0 .. ScFifo
  BY <1>1, ScFields, ScAssumption
<1>12. InUse(c3, irq, g)
  <2>1. Counted(c3) /\ Asked(c3, irq)
    BY <1>1, <1>7, <1>10 DEF InUse, Counted, Asked, FlagsApart
  <2>2. ReceiveTriggered(c3) = ReceiveTriggered(sc) /\ TransmitTriggered(c3) = TransmitTriggered(sc)
    BY <1>7 DEF FlagsApart, ReceiveTriggered, TransmitTriggered
  <2>3. Flagged(c3)
    BY <1>8, <2>2 DEF Flagged
  <2>4. "TXI" \in irq => "TDFE" \in c3.flags
    BY <1>10, <2>1 DEF Asked
  <2>5. g.room <= ScFifo - c3.t
    <3>1. c3.t = sc.t
      BY <1>7 DEF FlagsApart
    <3> QED
      BY <1>9, <1>11, <3>1
  <2> QED
    BY <1>8, <1>9, <2>1, <2>2, <2>3, <2>4, <2>5 DEF InUse
<1>13. InPlace(c3, scwriteq, screadq, schist) /\ c3 \in ScRegs
  BY <1>1, <1>7 DEF InPlace, FlagsApart
<1> QED
  BY <1>4, <1>9, <1>10, <1>12, <1>13 DEF SerialInv

(* The guest takes a character. *)
LEMMA ScReadData == ASSUME ~ScLazy, SerialInv, ReadSCFRDR2 PROVE SerialInv'
PROOF
<1> DEFINE q == Dequeued(sc.rx)
           size == FifoSize(q)
           d == [sc EXCEPT !.rx = q, !.r = size]
           char == sc.rx.data[sc.rx.tail]
           got == Append(schist.guestGot, char)
           h == [schist EXCEPT !.guestGot = got]
<1>1. /\ sc \in ScRegs /\ scguest \in ScGuests /\ InUse(sc, scirq, scguest)
      /\ schist \in ScHists /\ sc.rx.tail # sc.rx.head
      /\ Chain(schist.guestGot, FifoContent(sc.rx), QueueContent(scwriteq), schist.hostSent, schist.lostIn)
      /\ Chain(schist.hostGot, QueueContent(screadq), FifoContent(sc.tx), schist.guestSent, schist.lostOut)
  BY DEF SerialInv, ReadSCFRDR2, Ready, InPlace
<1>2. /\ ScFifo \in Nat /\ FifoOK(sc.rx) /\ sc.r \in 0 .. ScFifo /\ sc.rtrg \in 1 .. ScFifo
  BY <1>1, ScFields, ScAssumption
<1>3. /\ FifoOK(q) /\ size = FifoSize(sc.rx) - 1 /\ FifoContent(q) = Tail(FifoContent(sc.rx))
      /\ FifoSize(sc.rx) > 0 /\ FifoContent(sc.rx)[1] = char
  BY <1>1, <1>2, DequeueTails
<1>4. size \in 0 .. ScFifo /\ q \in Fifos /\ Len(FifoContent(sc.rx)) > 0
  BY <1>2, <1>3, FifoHolds DEF FifoOK, Fifos
<1>5. Chain(got, FifoContent(q), QueueContent(scwriteq), schist.hostSent, schist.lostIn)
  <2>1. Chain(Append(schist.guestGot, FifoContent(sc.rx)[1]), Tail(FifoContent(sc.rx)), QueueContent(scwriteq),
              schist.hostSent, schist.lostIn)
    BY <1>1, <1>4, ChainMovesOut
  <2> QED
    BY <1>3, <2>1
<1>6. /\ sc' = d /\ schist' = h /\ UNCHANGED <<scserial, scirq, scfatal, scwriteq, screadq, scguest>>
  BY DEF ReadSCFRDR2
<1>7. got \in Seq(Nat)
  BY <1>5, ChainTypes
<1>8. size = sc.r - 1
  BY <1>1, <1>3 DEF InUse, Counted
<1> HIDE DEF q, got
<1>9. /\ h \in ScHists /\ h.hostSent = schist.hostSent /\ h.guestSent = schist.guestSent
      /\ h.hostGot = schist.hostGot /\ h.guestGot = got /\ h.lostIn = schist.lostIn /\ h.lostOut = schist.lostOut
  BY <1>1, <1>7 DEF ScHists
<1>10. size = FifoSize(q)
  OBVIOUS
<1> HIDE DEF size, h
<1>11. /\ d \in ScRegs /\ d.rx = q /\ d.r = size /\ d.tx = sc.tx /\ d.t = sc.t /\ d.flags = sc.flags
       /\ d.scr = sc.scr /\ d.rtrg = sc.rtrg /\ d.ttrg = sc.ttrg
  BY <1>1, <1>4 DEF ScRegs
<1> HIDE DEF d
<1>12. InPlace(d, scwriteq, screadq, h)
  BY <1>1, <1>5, <1>9, <1>11 DEF InPlace
<1>13. InUse(d, scirq, scguest)
  <2>1. Counted(d)
    BY <1>1, <1>10, <1>11 DEF InUse, Counted
  <2>2. ReceiveTriggered(d) => ReceiveTriggered(sc)
    BY <1>2, <1>8, <1>11 DEF ReceiveTriggered
  <2>3. Flagged(d) /\ Asked(d, scirq)
    BY <1>1, <1>11, <2>2 DEF InUse, Flagged, Asked, TransmitTriggered
  <2> QED
    BY <1>1, <1>11, <2>1, <2>3 DEF InUse, TransmitTriggered
<1> QED
  BY <1>6, <1>9, <1>11, <1>12, <1>13 DEF SerialInv

(* The guest gives one: there is room, as it has seen. *)
LEMMA ScWriteData == ASSUME ~ScLazy, SerialInv, WriteSCFTDR2 PROVE SerialInv'
PROOF
<1> DEFINE char == schist.guestSent + 1
           q == Enqueued(sc.tx, char)
           size == FifoSize(q)
           d == [sc EXCEPT !.tx = q, !.t = size]
           h == [schist EXCEPT !.guestSent = char]
           room == scguest.room - 1
           g == [scguest EXCEPT !.room = room]
<1>1. /\ sc \in ScRegs /\ scguest \in ScGuests /\ scguest.ready /\ InUse(sc, scirq, scguest)
      /\ schist \in ScHists /\ scguest.room > 0
      /\ Chain(schist.guestGot, FifoContent(sc.rx), QueueContent(scwriteq), schist.hostSent, schist.lostIn)
      /\ Chain(schist.hostGot, QueueContent(screadq), FifoContent(sc.tx), schist.guestSent, schist.lostOut)
  BY DEF SerialInv, WriteSCFTDR2, Ready, InPlace
<1>2. /\ ScFifo \in Nat /\ FifoOK(sc.tx) /\ sc.t \in 0 .. ScFifo /\ sc.ttrg \in 1 .. ScFifo - 1
      /\ scguest.room \in Nat /\ schist.guestSent \in Nat
  BY <1>1, ScFields, ScAssumption
<1>3. sc.t = FifoSize(sc.tx) /\ scguest.room <= ScFifo - sc.t /\ ~scguest.cleared
  <2>1. sc.t = FifoSize(sc.tx) /\ scguest.room <= ScFifo - sc.t /\ (scguest.cleared => scguest.room = 0)
    BY <1>1 DEF InUse, Counted
  <2> QED
    BY <1>1, <1>2, <2>1
<1>4. ~FifoFull(sc.tx)
  BY <1>1, <1>2, <1>3 DEF FifoFull
<1>5. char \in Nat /\ room \in Nat
  BY <1>1, <1>2
<1>6. /\ FifoOK(q) /\ size = FifoSize(sc.tx) + 1 /\ FifoContent(q) = Append(FifoContent(sc.tx), char)
  BY <1>2, <1>4, <1>5, EnqueueAppends
<1>7. size \in 0 .. ScFifo /\ q \in Fifos
  BY <1>6, FifoHolds DEF FifoOK, Fifos
<1>8. Chain(schist.hostGot, QueueContent(screadq), FifoContent(q), char, schist.lostOut)
  <2>1. Chain(schist.hostGot, QueueContent(screadq), Append(FifoContent(sc.tx), char), char, schist.lostOut)
    BY <1>1, ChainGrows
  <2> QED
    BY <1>6, <2>1
<1>9. /\ sc' = d /\ scfatal' = FALSE /\ scguest' = g /\ schist' = h
      /\ UNCHANGED <<scserial, scirq, scwriteq, screadq>>
  BY <1>4 DEF WriteSCFTDR2
<1>10. size = sc.t + 1 /\ size = FifoSize(q) /\ room = scguest.room - 1
  BY <1>3, <1>6
<1> HIDE DEF q, size, char, room
<1>11. /\ h \in ScHists /\ h.hostSent = schist.hostSent /\ h.guestSent = char
       /\ h.hostGot = schist.hostGot /\ h.guestGot = schist.guestGot
       /\ h.lostIn = schist.lostIn /\ h.lostOut = schist.lostOut
  BY <1>1, <1>5 DEF ScHists
<1>12. /\ d \in ScRegs /\ d.tx = q /\ d.t = size /\ d.rx = sc.rx /\ d.r = sc.r /\ d.flags = sc.flags
       /\ d.scr = sc.scr /\ d.rtrg = sc.rtrg /\ d.ttrg = sc.ttrg
  BY <1>1, <1>7 DEF ScRegs
<1>13. g \in ScGuests /\ g.ready = scguest.ready /\ g.cleared = scguest.cleared /\ g.room = room
  BY <1>1, <1>5 DEF ScGuests
<1> HIDE DEF d, h, g
<1>14. InPlace(d, scwriteq, screadq, h)
  BY <1>1, <1>8, <1>11, <1>12 DEF InPlace
<1>15. InUse(d, scirq, g)
  <2>1. Counted(d)
    BY <1>1, <1>10, <1>12 DEF InUse, Counted
  <2>2. TransmitTriggered(d) => TransmitTriggered(sc)
    BY <1>2, <1>10, <1>12 DEF TransmitTriggered
  <2>3. Flagged(d) /\ Asked(d, scirq)
    BY <1>1, <1>12, <2>2 DEF InUse, Flagged, Asked, ReceiveTriggered
  <2>4. g.room <= ScFifo - d.t
    BY <1>2, <1>3, <1>10, <1>12, <1>13
  <2> QED
    BY <1>1, <1>3, <1>12, <1>13, <2>1, <2>3, <2>4 DEF InUse
<1> QED
  BY <1>9, <1>11, <1>12, <1>13, <1>14, <1>15 DEF SerialInv

(* sh4_reset leaves the FIFOs, which the guest is not to trust then. *)
LEMMA ScResetKeeps == ASSUME ~ScLazy, SerialInv, ScCpuReset PROVE SerialInv'
PROOF
<1> DEFINE rtrg == Min(ScRtrg)
           ttrg == Max(ScTtrg)
           flags == {"TDFE", "TEND"}
           d == [sc EXCEPT !.r = 0, !.t = 0, !.flags = flags, !.scr = {}, !.rtrg = rtrg, !.ttrg = ttrg]
           g == [ready |-> FALSE, cleared |-> FALSE, room |-> 0]
<1>1. sc \in ScRegs /\ InPlace(sc, scwriteq, screadq, schist) /\ ScLazy = FALSE
  BY ScAssumption DEF SerialInv
<1>2. rtrg \in ScRtrg /\ ttrg \in ScTtrg /\ 0 \in 0 .. ScFifo /\ flags \in SUBSET ScFlags
  BY TriggersExist, ScAssumption DEF ScFlags
<1>3. sc' = d /\ scguest' = g /\ UNCHANGED <<scserial, scirq, scfatal, scwriteq, screadq, schist>>
  BY <1>1 DEF ScCpuReset
<1> HIDE DEF rtrg, ttrg, flags
<1>4. d \in ScRegs /\ d.rx = sc.rx /\ d.tx = sc.tx
  <2>1. {} \in SUBSET {"RE", "TE", "RIE", "TIE"}
    OBVIOUS
  <2> QED
    BY <1>1, <1>2, <2>1 DEF ScRegs
<1>5. g \in ScGuests /\ ~g.ready
  BY DEF ScGuests
<1> HIDE DEF d, g
<1>6. InPlace(d, scwriteq, screadq, schist)
  BY <1>1, <1>4 DEF InPlace
<1> QED
  BY <1>3, <1>4, <1>5, <1>6 DEF SerialInv

(* The other program sends a character... *)
LEMMA ScDevWrite == ASSUME SerialInv, DevWrite PROVE SerialInv'
PROOF
<1> DEFINE char == schist.hostSent + 1
           q == QueuePut(scwriteq, char)
           h == [schist EXCEPT !.hostSent = char]
<1>1. /\ sc \in ScRegs /\ QueueOK(scwriteq) /\ schist \in ScHists
      /\ Chain(schist.guestGot, FifoContent(sc.rx), QueueContent(scwriteq), schist.hostSent, schist.lostIn)
      /\ Chain(schist.hostGot, QueueContent(screadq), FifoContent(sc.tx), schist.guestSent, schist.lostOut)
  BY DEF SerialInv, InPlace
<1>2. char \in Nat
  BY <1>1, ScFields
<1>3. QueueOK(q) /\ QueueContent(q) = Append(QueueContent(scwriteq), char)
  BY <1>1, <1>2, PutAppends
<1>4. Chain(schist.guestGot, FifoContent(sc.rx), QueueContent(q), char, schist.lostIn)
  <2>1. Chain(schist.guestGot, FifoContent(sc.rx), Append(QueueContent(scwriteq), char), char, schist.lostIn)
    BY <1>1, ChainGrows
  <2> QED
    BY <1>3, <2>1
<1>5. scwriteq' = q /\ schist' = h /\ UNCHANGED <<scserial, sc, scirq, scfatal, screadq, scguest>>
  BY DEF DevWrite
<1> HIDE DEF char, q
<1>6. /\ h \in ScHists /\ h.hostSent = char /\ h.guestSent = schist.guestSent
      /\ h.hostGot = schist.hostGot /\ h.guestGot = schist.guestGot
      /\ h.lostIn = schist.lostIn /\ h.lostOut = schist.lostOut
  BY <1>1, <1>2 DEF ScHists
<1> HIDE DEF h
<1>7. InPlace(sc, q, screadq, h)
  BY <1>1, <1>4, <1>6 DEF InPlace
<1> QED
  BY <1>3, <1>5, <1>6, <1>7 DEF SerialInv

(* ...or takes one. *)
LEMMA ScDevRead == ASSUME SerialInv, DevRead PROVE SerialInv'
PROOF
<1> DEFINE q == QueueRest(screadq)
           char == QueueFirst(screadq)
           got == Append(schist.hostGot, char)
           h == [schist EXCEPT !.hostGot = got]
<1>1. /\ sc \in ScRegs /\ QueueOK(screadq) /\ schist \in ScHists /\ ~QueueEmpty(screadq)
      /\ Chain(schist.guestGot, FifoContent(sc.rx), QueueContent(scwriteq), schist.hostSent, schist.lostIn)
      /\ Chain(schist.hostGot, QueueContent(screadq), FifoContent(sc.tx), schist.guestSent, schist.lostOut)
  BY DEF SerialInv, InPlace, DevRead
<1>2. /\ QueueOK(q) /\ QueueContent(q) = Tail(QueueContent(screadq))
      /\ Len(QueueContent(screadq)) > 0 /\ QueueContent(screadq)[1] = char
  BY <1>1, RestIsTail
<1>3. Chain(got, QueueContent(q), FifoContent(sc.tx), schist.guestSent, schist.lostOut)
  <2>1. Chain(Append(schist.hostGot, QueueContent(screadq)[1]), Tail(QueueContent(screadq)), FifoContent(sc.tx),
              schist.guestSent, schist.lostOut)
    BY <1>1, <1>2, ChainMovesOut
  <2> QED
    BY <1>2, <2>1
<1>4. got \in Seq(Nat)
  BY <1>3, ChainTypes
<1>5. screadq' = q /\ schist' = h /\ UNCHANGED <<scserial, sc, scirq, scfatal, scwriteq, scguest>>
  BY DEF DevRead
<1> HIDE DEF got, q
<1>6. /\ h \in ScHists /\ h.hostSent = schist.hostSent /\ h.guestSent = schist.guestSent
      /\ h.hostGot = got /\ h.guestGot = schist.guestGot
      /\ h.lostIn = schist.lostIn /\ h.lostOut = schist.lostOut
  BY <1>1, <1>4 DEF ScHists
<1> HIDE DEF h
<1>7. InPlace(sc, scwriteq, q, h)
  BY <1>1, <1>3, <1>6 DEF InPlace
<1> QED
  BY <1>2, <1>5, <1>6, <1>7 DEF SerialInv

(* Every step of the serial port keeps its invariant. *)
LEMMA SerialStep == ASSUME ~ScLazy PROVE SerialInv /\ [ScNext]_scvars => SerialInv'
PROOF
<1> SUFFICES ASSUME SerialInv, [ScNext]_scvars PROVE SerialInv'
  OBVIOUS
<1>1. CASE UNCHANGED scvars
  BY <1>1 DEF scvars, SerialInv
<1>2. CASE ScNext
  BY <1>2, ScWriteControl, ScWriteFifo, ScReadStatus, ScWriteStatus, ScReadData, ScWriteData, ScResetKeeps,
     ScDevWrite, ScDevRead DEF ScNext
<1> QED
  BY <1>1, <1>2

(* For FIFOs, blocks and triggers of any size and any number of            *)
(* characters, with a driver that resets the FIFOs before it uses them:    *)
(* no character is lost, doubled or reordered between the two programs,    *)
(* SCFDR2 counts what is in the FIFOs, no CHECK fails, a flag is set       *)
(* whenever its trigger is met and no request is made that is not enabled  *)
(* or whose flag is clear (sh4_scif_run, SCFSR2, queue_putchar).           *)
THEOREM SerialHolds == ASSUME ~ScLazy PROVE ScSpec => []SerialExact
PROOF
<1>1. ScInit => SerialInv
  BY SerialInitInv
<1>2. SerialInv => SerialExact
  <2> SUFFICES ASSUME SerialInv PROVE SerialExact
    OBVIOUS
  <2>1. /\ Chain(schist.guestGot, FifoContent(sc.rx), QueueContent(scwriteq), schist.hostSent, schist.lostIn)
        /\ Chain(schist.hostGot, QueueContent(screadq), FifoContent(sc.tx), schist.guestSent, schist.lostOut)
        /\ scfatal = FALSE
    BY DEF SerialInv, InPlace
  <2>2. /\ Stream(schist.guestGot \o FifoContent(sc.rx) \o QueueContent(scwriteq), schist.hostSent, schist.lostIn)
        /\ Stream(schist.hostGot \o QueueContent(screadq) \o FifoContent(sc.tx), schist.guestSent, schist.lostOut)
    BY <2>1, ChainIsStream
  <2>3. scguest.ready => InUse(sc, scirq, scguest)
    BY DEF SerialInv
  <2> QED
    BY <2>1, <2>2, <2>3 DEF SerialExact, InUse, Counted, Flagged, Asked
<1>3. SerialInv /\ [ScNext]_scvars => SerialInv'
  BY SerialStep
<1> QED
  BY <1>1, <1>2, <1>3, PTL DEF ScSpec

-----------------------------------------------------------------------------
(* Flash memory: the blocks of a partition *)

(* A partition has user blocks behind its header, and behind those a       *)
(* bitmap for each of them.                                                *)
LEMMA BlocksOfPartition ==
  /\ FlBits \in Nat \ {0} /\ FlPhysical \in Nat /\ NumUserBlocks \in Nat \ {0}
  /\ NumUserBlocks < FlPhysical
  /\ \A p \in UserBlocks : AllocBitmap(p) = LookupBitmap(p)
                           /\ LookupBitmap(p) \in NumUserBlocks + 1 .. FlPhysical - 1
PROOF
<1>1. FlBits \in Nat \ {0} /\ FlPhysical \in Nat /\ NumUserBlocks > 0
  BY FlAssumption
<1>2. \A x \in Nat, m \in Nat \ {0} : x = m * (x \div m) + (x % m) /\ x % m \in 0 .. m - 1 /\ x \div m \in Nat
  OBVIOUS
<1> DEFINE b == FlBits
           n == NumBitmapBlocks
           r == (FlPhysical + FlBits - 1) % FlBits
<1>3. FlPhysical + FlBits - 1 = b * n + r /\ r \in 0 .. b - 1 /\ n \in Nat /\ b \in Nat \ {0}
  <2>1. FlPhysical + FlBits - 1 \in Nat
    BY <1>1
  <2> QED
    BY <1>1, <1>2, <2>1 DEF NumBitmapBlocks
<1>4. NumUserBlocks = FlPhysical - n - 1
  BY DEF NumUserBlocks
<1> HIDE DEF b, n, r
<1>5. NumUserBlocks \in Nat \ {0} /\ NumUserBlocks < FlPhysical
  BY <1>1, <1>3, <1>4
<1>6. ASSUME NEW p \in UserBlocks
      PROVE  AllocBitmap(p) = LookupBitmap(p)
             /\ LookupBitmap(p) \in NumUserBlocks + 1 .. FlPhysical - 1
  <2> DEFINE d == (p - 1) \div FlBits
             s == (p - 1) % FlBits
  <2>1. p \in 1 .. NumUserBlocks /\ p - 1 \in Nat /\ p - 1 < FlPhysical
    BY <1>1, <1>5, <1>6 DEF UserBlocks
  <2>2. p - 1 = b * d + s /\ s \in 0 .. b - 1 /\ d \in Nat
    BY <1>1, <1>2, <2>1 DEF b
  <2>3. AllocBitmap(p) = NumUserBlocks + d + 1 /\ LookupBitmap(p) = (1 + NumUserBlocks) + d
    BY DEF AllocBitmap, LookupBitmap
  <2> HIDE DEF d, s
  <2>4. d < n
    <3>1. SUFFICES ASSUME d >= n PROVE FALSE
      BY <1>3, <2>2
    <3>2. \A x, y, z \in Nat : x <= y => z * x <= z * y
      OBVIOUS
    <3>3. b * n <= b * d /\ b * n \in Nat /\ b * d \in Nat
      BY <1>3, <2>2, <3>1, <3>2
    <3> DEFINE bn == b * n
               bd == b * d
    <3>4. /\ bn <= bd /\ bn \in Nat /\ bd \in Nat /\ p - 1 = bd + s
          /\ FlPhysical + b - 1 = bn + r /\ r \in 0 .. b - 1 /\ s \in 0 .. b - 1
      BY <1>3, <2>2, <3>3 DEF b
    <3> HIDE DEF bn, bd
    <3> QED
      BY <1>1, <1>3, <2>1, <3>4
  <2> QED
    BY <1>1, <1>3, <1>4, <1>5, <2>2, <2>3, <2>4
<1> QED
  BY <1>1, <1>5, <1>6

(* No two user blocks share a bit of a bitmap. *)
LEMMA BitsApart ==
  ASSUME NEW p \in UserBlocks, NEW q \in UserBlocks,
         LookupBitmap(p) = LookupBitmap(q), BitIndex(p) = BitIndex(q)
  PROVE  p = q
PROOF
<1>1. FlBits \in Nat \ {0} /\ NumUserBlocks \in Nat \ {0} /\ p - 1 \in Nat /\ q - 1 \in Nat
  BY BlocksOfPartition DEF UserBlocks
<1>2. \A x \in Nat, m \in Nat \ {0} : x = m * (x \div m) + (x % m) /\ x % m \in 0 .. m - 1 /\ x \div m \in Nat
  OBVIOUS
<1>3. /\ p - 1 = FlBits * ((p - 1) \div FlBits) + BitIndex(p) /\ (p - 1) \div FlBits \in Nat
      /\ q - 1 = FlBits * ((q - 1) \div FlBits) + BitIndex(q) /\ (q - 1) \div FlBits \in Nat
  BY <1>1, <1>2 DEF BitIndex
<1>4. (p - 1) \div FlBits = (q - 1) \div FlBits
  BY <1>1, <1>3 DEF LookupBitmap
<1>5. p - 1 = q - 1
  BY <1>3, <1>4
<1> QED
  BY <1>5 DEF UserBlocks

(* The highest and the lowest of some blocks. *)
LEMMA HighestIs ==
  ASSUME NEW m \in Nat, NEW S \in SUBSET (1 .. m), NEW x \in S, \A y \in S : y <= x
  PROVE  Max(S) = x
PROOF
<1>1. \A y \in S : y \in 1 .. m
  OBVIOUS
<1>2. \A y \in S : (\A z \in S : y >= z) => y = x
  BY <1>1
<1>3. x \in S /\ \A y \in S : x >= y
  BY <1>1
<1> QED
  BY <1>2, <1>3 DEF Max

(* The least element of a set, by what makes it the least. *)
LEMMA LowestIs ==
  ASSUME NEW m \in Nat, NEW S \in SUBSET (1 .. m), NEW x \in S, \A y \in S : x <= y
  PROVE  Min(S) = x
PROOF
<1>1. \A y \in S : y \in 1 .. m
  OBVIOUS
<1>2. \A y \in S : (\A z \in S : y =< z) => y = x
  BY <1>1
<1>3. x \in S /\ \A y \in S : x =< y
  BY <1>1
<1> QED
  BY <1>2, <1>3 DEF Min

(* A set of blocks that is not empty has a last one. *)
LEMMA HighestExists ==
  ASSUME NEW m \in Nat, NEW S \in SUBSET (1 .. m), S # {}
  PROVE  /\ Max(S) \in S /\ Max(S) \in 1 .. m
         /\ \A y \in S : y <= Max(S)
PROOF
<1>1. \A y \in S : y \in 1 .. m
  OBVIOUS
<1> DEFINE above == {n \in Nat : \A y \in S : y <= n}
           Less == {ss \in Nat \X Nat : ss[1] < ss[2]}
<1>2. m \in above /\ above \in SUBSET Nat
  BY <1>1
<1>3. IsWellFoundedOn(Less, Nat)
  BY NatLessThanWellFounded DEF OpToRel
<1>4. PICK x \in above : \A n \in above : ~(<<n, x>> \in Less)
  <2> HIDE DEF above, Less
  <2> QED
    BY <1>2, <1>3, WFMin
<1>5. x \in Nat /\ (\A y \in S : y <= x) /\ \A n \in Nat : (\A y \in S : y <= n) => ~(n < x)
  BY <1>4
<1>6. x \in S
  <2>1. SUFFICES ASSUME x \notin S PROVE FALSE
    OBVIOUS
  <2>2. PICK y \in S : TRUE
    OBVIOUS
  <2>3. x - 1 \in Nat /\ x - 1 < x
    BY <1>1, <1>5, <2>2
  <2>4. ASSUME NEW z \in S PROVE z <= x - 1
    <3>1. z \in Nat /\ z <= x /\ z # x
      BY <1>1, <1>5, <2>1
    <3> QED
      BY <1>5, <3>1
  <2> QED
    BY <1>5, <2>3, <2>4
<1> QED
  BY <1>1, <1>5, <1>6, HighestIs

\* Physical block p holds a valid value of logical block id.
Hit(part, p, id) == part[p].k = "user" /\ part[p].id = id /\ part[p].ok
Hits(part, m, id) == {p \in 1 .. m : Hit(part, p, id)}

\* A partition whose first m user blocks are taken; the others are blank.
Laid(part, m) ==
  /\ part = [p \in 0 .. FlPhysical - 1 |-> part[p]]
  /\ ValidateHeader(part)
  /\ m \in 0 .. NumUserBlocks
  /\ \A p \in UserBlocks : IsAllocated(part[LookupBitmap(p)], p) <=> p <= m
  /\ \A p \in UserBlocks : p > m => part[p] = Blank

LaidOut(part) == \E m \in 0 .. NumUserBlocks : Laid(part, m)

(* What a lookup goes by: the valid blocks of an id among those taken.     *)
LEMMA LookupIs ==
  ASSUME NEW part, NEW m, Laid(part, m), NEW id
  PROVE  LookupBlock(part, id) = (IF Hits(part, m, id) = {} THEN 0 ELSE Max(Hits(part, m, id)))
PROOF
<1> DEFINE seen == {p \in UserBlocks : \A q \in 1 .. p : IsAllocated(part[LookupBitmap(q)], q)}
<1>1. NumUserBlocks \in Nat /\ m \in 0 .. NumUserBlocks
  BY BlocksOfPartition DEF Laid
<1>2. \A p \in 1 .. NumUserBlocks : IsAllocated(part[LookupBitmap(p)], p) <=> p <= m
  BY DEF Laid, UserBlocks
<1>3. ASSUME NEW p \in UserBlocks
      PROVE  p \in seen <=> p \in 1 .. m
  <2>1. p \in 1 .. NumUserBlocks /\ \A q \in 1 .. p : q \in 1 .. NumUserBlocks
    BY <1>1 DEF UserBlocks
  <2>2. CASE p <= m
    BY <1>1, <1>2, <2>1, <2>2
  <2>3. CASE ~(p <= m)
    <3>1. p \in 1 .. p /\ ~IsAllocated(part[LookupBitmap(p)], p)
      BY <1>2, <2>1, <2>3
    <3> QED
      BY <1>1, <2>1, <2>3, <3>1
  <2> QED
    BY <2>2, <2>3
<1>4. seen = 1 .. m
  <2>1. \A p \in 1 .. m : p \in UserBlocks
    BY <1>1 DEF UserBlocks
  <2> QED
    BY <1>3, <2>1
<1> DEFINE hits == {p \in seen : part[p].k = "user" /\ part[p].id = id /\ part[p].ok}
<1>5. LookupBlock(part, id) = (IF hits = {} THEN 0 ELSE Max(hits))
  BY DEF LookupBlock
<1>6. hits = Hits(part, m, id)
  BY <1>4 DEF Hits, Hit
<1> QED
  BY <1>5, <1>6

(* The block that a lookup finds is the highest of them. *)
LEMMA LookupFinds ==
  ASSUME NEW part, NEW m, Laid(part, m), NEW id
  PROVE  \/ LookupBlock(part, id) = 0 /\ \A p \in 1 .. m : ~Hit(part, p, id)
         \/ /\ LookupBlock(part, id) \in 1 .. m /\ LookupBlock(part, id) \in UserBlocks
            /\ Hit(part, LookupBlock(part, id), id)
            /\ \A p \in 1 .. m : Hit(part, p, id) => p <= LookupBlock(part, id)
PROOF
<1>1. m \in Nat /\ m \in 0 .. NumUserBlocks /\ NumUserBlocks \in Nat
  BY BlocksOfPartition DEF Laid
<1>2. Hits(part, m, id) \in SUBSET (1 .. m)
  BY DEF Hits
<1>3. CASE Hits(part, m, id) = {}
  BY <1>3, LookupIs DEF Hits
<1>4. CASE Hits(part, m, id) # {}
  <2> DEFINE S == Hits(part, m, id)
  <2>1. LookupBlock(part, id) = Max(S)
    BY <1>4, LookupIs
  <2>2. Max(S) \in S /\ Max(S) \in 1 .. m /\ \A y \in S : y <= Max(S)
    <3> HIDE DEF S
    <3> QED
      BY <1>1, <1>2, <1>4, HighestExists DEF S
  <2>3. Max(S) \in UserBlocks
    BY <1>1, <2>2 DEF UserBlocks
  <2>4. \A p \in 1 .. m : Hit(part, p, id) => p <= Max(S)
    BY <2>2 DEF Hits
  <2>5. Hit(part, Max(S), id)
    <3>1. \A y \in S : Hit(part, y, id)
      BY DEF Hits
    <3> QED
      BY <2>2, <3>1
  <2> QED
    BY <2>1, <2>2, <2>3, <2>4, <2>5
<1> QED
  BY <1>3, <1>4

(* What a block reads as. *)
LEMMA ReadIs ==
  ASSUME NEW part, NEW m, Laid(part, m), NEW id
  PROVE  ReadBlock(part, id) =
           (IF LookupBlock(part, id) = 0 THEN FlNone ELSE part[LookupBlock(part, id)].val)
PROOF
  BY DEF ReadBlock, Laid

\* The same valid blocks of id among those taken, with the same contents.
SameHits(part, m, other, n, id) ==
  /\ \A p \in UserBlocks : (p <= m /\ Hit(part, p, id)) <=> (p <= n /\ Hit(other, p, id))
  /\ \A p \in UserBlocks : Hit(part, p, id) => part[p].val = other[p].val

\* A partition with another block, and with a block taken.
Put(part, p, c) == [part EXCEPT ![p] = c]
Taken(part, p) == [part EXCEPT ![LookupBitmap(p)] = SetAllocated(@, p)]

(* A block reads the same in two partitions that have the same valid       *)
(* blocks of it, with the same contents.                                   *)
LEMMA ReadsTheSame ==
  ASSUME NEW part, NEW m, Laid(part, m), NEW other, NEW n, Laid(other, n), NEW id,
         SameHits(part, m, other, n, id)
  PROVE  LookupBlock(other, id) = LookupBlock(part, id) /\ ReadBlock(other, id) = ReadBlock(part, id)
PROOF
<1>1. /\ m \in 0 .. NumUserBlocks /\ n \in 0 .. NumUserBlocks /\ NumUserBlocks \in Nat
      /\ UserBlocks = 1 .. NumUserBlocks
  BY BlocksOfPartition DEF Laid, UserBlocks
<1>2. Hits(part, m, id) = Hits(other, n, id)
  <2>1. \A p : p \in Hits(part, m, id) <=> p \in UserBlocks /\ p <= m /\ Hit(part, p, id)
    BY <1>1 DEF Hits
  <2>2. \A p : p \in Hits(other, n, id) <=> p \in UserBlocks /\ p <= n /\ Hit(other, p, id)
    BY <1>1 DEF Hits
  <2> QED
    BY <2>1, <2>2 DEF SameHits
<1>3. LookupBlock(other, id) = LookupBlock(part, id)
  BY <1>2, LookupIs
<1>4. LookupBlock(part, id) # 0 => part[LookupBlock(part, id)].val = other[LookupBlock(part, id)].val
  BY LookupFinds DEF SameHits
<1> QED
  BY <1>3, <1>4, ReadIs

(* The first free block follows those taken. *)
LEMMA FirstFree ==
  ASSUME NEW part, NEW m, Laid(part, m),
         NEW free, free = {p \in UserBlocks : ~IsAllocated(part[LookupBitmap(p)], p)}
  PROVE  /\ free = {} <=> m = NumUserBlocks
         /\ free # {} => Min(free) = m + 1 /\ m + 1 \in UserBlocks
         /\ AllocBlock(part) = IF m = NumUserBlocks THEN 0 ELSE m + 1
PROOF
<1>1. m \in 0 .. NumUserBlocks /\ NumUserBlocks \in Nat /\ UserBlocks = 1 .. NumUserBlocks
  BY BlocksOfPartition DEF Laid, UserBlocks
<1>2. \A p \in UserBlocks : p \in free <=> p > m
  BY <1>1 DEF Laid
<1>3. free \in SUBSET (1 .. NumUserBlocks)
  BY <1>1
<1>4. free = {} <=> m = NumUserBlocks
  <2>1. m # NumUserBlocks => m + 1 \in UserBlocks /\ m + 1 > m
    BY <1>1
  <2>2. \A p \in UserBlocks : p > m => m # NumUserBlocks
    BY <1>1
  <2> QED
    BY <1>1, <1>2, <1>3, <2>1, <2>2
<1>5. free # {} => Min(free) = m + 1 /\ m + 1 \in UserBlocks
  <2>1. SUFFICES ASSUME free # {} PROVE Min(free) = m + 1 /\ m + 1 \in UserBlocks
    OBVIOUS
  <2>2. m + 1 \in UserBlocks /\ m + 1 \in free
    BY <1>1, <1>2, <1>4, <2>1
  <2>3. \A y \in free : m + 1 <= y
    <3>1. ASSUME NEW y \in free PROVE m + 1 <= y
      <4>1. y \in UserBlocks /\ y > m
        BY <1>2, <1>3, <1>1
      <4> QED
        BY <1>1, <4>1
    <3> QED
      BY <3>1
  <2> QED
    BY <1>1, <1>3, <2>2, <2>3, LowestIs
<1>6. AllocBlock(part) = IF free = {} THEN 0 ELSE Min(free)
  <2>1. {p \in UserBlocks : ~IsAllocated(part[AllocBitmap(p)], p)} = free
    BY BlocksOfPartition
  <2> QED
    BY <2>1 DEF AllocBlock
<1> QED
  BY <1>4, <1>5, <1>6

(* Taking the first free block adds it to those taken, without contents:   *)
(* every block reads as before.                                            *)
LEMMA BlockTaken ==
  ASSUME NEW part, NEW m, Laid(part, m), NEW p \in UserBlocks, p = m + 1
  PROVE  /\ Laid(Taken(part, p), p) /\ Taken(part, p)[p] = Blank
         /\ \A id : ReadBlock(Taken(part, p), id) = ReadBlock(part, id)
PROOF
<1>1. /\ m \in 0 .. NumUserBlocks /\ NumUserBlocks \in Nat /\ FlPhysical \in Nat /\ NumUserBlocks < FlPhysical
      /\ UserBlocks = 1 .. NumUserBlocks
  BY BlocksOfPartition DEF Laid, UserBlocks
<1>2. \A q \in UserBlocks : LookupBitmap(q) \in NumUserBlocks + 1 .. FlPhysical - 1
  BY BlocksOfPartition
<1> DEFINE b == LookupBitmap(p)
           new == Taken(part, p)
<1>3. /\ \A q \in UserBlocks : q # b /\ q \in 0 .. FlPhysical - 1 /\ LookupBitmap(q) \in 0 .. FlPhysical - 1
      /\ b # 0 /\ 0 \in 0 .. FlPhysical - 1
  <2>1. ASSUME NEW q \in UserBlocks
        PROVE  q # b /\ q \in 0 .. FlPhysical - 1 /\ LookupBitmap(q) \in 0 .. FlPhysical - 1
    BY <1>1, <1>2, <2>1
  <2>2. b # 0 /\ 0 \in 0 .. FlPhysical - 1
    BY <1>1, <1>2
  <2> QED
    BY <2>1, <2>2
<1>4. /\ part = [q \in 0 .. FlPhysical - 1 |-> part[q]] /\ part[0] = Header
      /\ \A q \in UserBlocks : IsAllocated(part[LookupBitmap(q)], q) <=> q <= m
      /\ \A q \in UserBlocks : q > m => part[q] = Blank
  BY DEF Laid, ValidateHeader
<1>5. /\ new = [q \in 0 .. FlPhysical - 1 |-> new[q]]
      /\ new[b] = SetAllocated(part[b], p)
      /\ \A q \in 0 .. FlPhysical - 1 : q # b => new[q] = part[q]
  <2> HIDE DEF b
  <2>1. b \in 0 .. FlPhysical - 1
    BY <1>3 DEF b
  <2>2. new = [part EXCEPT ![b] = SetAllocated(part[b], p)]
    BY DEF b, Taken
  <2> HIDE DEF new
  <2> QED
    BY <1>4, <2>1, <2>2
<1> HIDE DEF new
<1>6. ASSUME NEW q \in UserBlocks
      PROVE  IsAllocated(new[LookupBitmap(q)], q) <=> q <= p
  <2>1. q \in Int /\ p \in Int /\ m \in Int /\ p = m + 1 /\ (q <= p <=> q <= m \/ q = p)
    BY <1>1
  <2>2. CASE LookupBitmap(q) # b
    <3>1. new[LookupBitmap(q)] = part[LookupBitmap(q)] /\ q # p
      BY <1>3, <1>5, <2>2
    <3> QED
      BY <1>4, <2>1, <3>1
  <2>3. CASE LookupBitmap(q) = b
    <3>1. UsedBits(new[b]) = UsedBits(part[b]) \cup {BitIndex(p)}
      <4> DEFINE u == UsedBits(part[b]) \cup {BitIndex(p)}
      <4>1. new[b] = Bitmap(u)
        BY <1>5 DEF SetAllocated
      <4>2. Bitmap(u).k = "bitmap" /\ Bitmap(u).used = u
        BY DEF Bitmap
      <4>3. UsedBits(Bitmap(u)) = u
        <5> HIDE DEF u
        <5> QED
          BY <4>2 DEF UsedBits
      <4> QED
        BY <4>1, <4>3
    <3>2. IsAllocated(new[b], q) <=> IsAllocated(part[b], q) \/ BitIndex(q) = BitIndex(p)
      BY <3>1 DEF IsAllocated
    <3>3. BitIndex(q) = BitIndex(p) <=> q = p
      BY <2>3, BitsApart
    <3>4. IsAllocated(part[b], q) <=> q <= m
      BY <1>4, <2>3
    <3> QED
      BY <2>1, <2>3, <3>2, <3>3, <3>4
  <2> QED
    BY <2>2, <2>3
<1>7. \A q \in UserBlocks : new[q] = part[q]
  BY <1>3, <1>5
<1>8. new[p] = Blank
  <2>1. p > m
    BY <1>1
  <2> QED
    BY <1>4, <1>7, <2>1
<1>9. Laid(new, p)
  <2>1. new[0] = Header
    BY <1>3, <1>4, <1>5
  <2>2. \A q \in UserBlocks : q > p => new[q] = Blank
    <3>1. ASSUME NEW q \in UserBlocks, q > p PROVE q > m
      BY <1>1, <3>1
    <3> QED
      BY <1>4, <1>7, <3>1
  <2>3. p \in 0 .. NumUserBlocks
    BY <1>1
  <2> QED
    BY <1>5, <1>6, <2>1, <2>2, <2>3 DEF Laid, ValidateHeader
<1>10. ASSUME NEW id
       PROVE  ReadBlock(new, id) = ReadBlock(part, id)
  <2>1. ASSUME NEW q \in UserBlocks
        PROVE  (q <= m /\ Hit(part, q, id)) <=> (q <= p /\ Hit(new, q, id))
    <3>1. Hit(part, q, id) <=> Hit(new, q, id)
      BY <1>7 DEF Hit
    <3>2. CASE q = p
      <4>1. ~Hit(new, q, id)
        BY <1>8, <3>2 DEF Hit, Blank
      <4> QED
        BY <3>1, <4>1
    <3>3. CASE q # p
      <4>1. q <= m <=> q <= p
        BY <1>1, <3>3
      <4> QED
        BY <3>1, <4>1
    <3> QED
      BY <3>2, <3>3
  <2>2. SameHits(part, m, new, p, id)
    BY <1>7, <2>1 DEF SameHits
  <2> QED
    BY <1>9, <2>2, ReadsTheSame
<1> QED
  BY <1>8, <1>9, <1>10 DEF new

(* The contents of a block that is taken have no part in which are taken. *)
LEMMA BlockFilled ==
  ASSUME NEW part, NEW m, Laid(part, m), NEW p \in UserBlocks, p \in 1 .. m, NEW c
  PROVE  /\ Laid(Put(part, p, c), m) /\ Put(part, p, c)[p] = c
         /\ \A q \in UserBlocks : q # p => Put(part, p, c)[q] = part[q]
PROOF
<1> DEFINE new == Put(part, p, c)
<1>1. /\ m \in 0 .. NumUserBlocks /\ NumUserBlocks \in Nat /\ FlPhysical \in Nat /\ NumUserBlocks < FlPhysical
      /\ UserBlocks = 1 .. NumUserBlocks
  BY BlocksOfPartition DEF Laid, UserBlocks
<1>2. \A q \in UserBlocks : LookupBitmap(q) \in NumUserBlocks + 1 .. FlPhysical - 1
  BY BlocksOfPartition
<1>3. /\ part = [q \in 0 .. FlPhysical - 1 |-> part[q]] /\ part[0] = Header
      /\ \A q \in UserBlocks : IsAllocated(part[LookupBitmap(q)], q) <=> q <= m
      /\ \A q \in UserBlocks : q > m => part[q] = Blank
  BY DEF Laid, ValidateHeader
<1>4. /\ p \in 0 .. FlPhysical - 1 /\ 0 \in 0 .. FlPhysical - 1 /\ p # 0
      /\ \A q \in UserBlocks : q \in 0 .. FlPhysical - 1 /\ LookupBitmap(q) \in 0 .. FlPhysical - 1 /\ LookupBitmap(q) # p
  <2>1. ASSUME NEW q \in UserBlocks
        PROVE  q \in 0 .. FlPhysical - 1 /\ LookupBitmap(q) \in 0 .. FlPhysical - 1 /\ LookupBitmap(q) # p
    BY <1>1, <1>2, <2>1
  <2>2. p \in 0 .. FlPhysical - 1 /\ 0 \in 0 .. FlPhysical - 1 /\ p # 0
    BY <1>1
  <2> QED
    BY <2>1, <2>2
<1>5. /\ new = [q \in 0 .. FlPhysical - 1 |-> new[q]] /\ new[p] = c
      /\ \A q \in 0 .. FlPhysical - 1 : q # p => new[q] = part[q]
  BY <1>3, <1>4 DEF Put
<1> HIDE DEF new
<1>6. \A q \in UserBlocks : q > m => new[q] = Blank
  <2>1. \A q \in UserBlocks : q > m => q # p
    BY <1>1
  <2> QED
    BY <1>3, <1>4, <1>5, <2>1
<1>7. new[0] = Header /\ \A q \in UserBlocks : new[LookupBitmap(q)] = part[LookupBitmap(q)]
  BY <1>3, <1>4, <1>5
<1>8. \A q \in UserBlocks : IsAllocated(new[LookupBitmap(q)], q) <=> q <= m
  BY <1>3, <1>7
<1> QED
  BY <1>1, <1>4, <1>5, <1>6, <1>7, <1>8 DEF Laid, ValidateHeader, new

(* A value that is written to the last block taken, where nothing valid    *)
(* was, is what its id reads from then on; all others read as before.  So  *)
(* do they all while its crc is missing.                                   *)
LEMMA BlockWritten ==
  ASSUME NEW part, NEW m, Laid(part, m), m \in UserBlocks, \A i : ~Hit(part, m, i),
         NEW c, c.k = "user", c.ok \in BOOLEAN, NEW new, new = Put(part, m, c)
  PROVE  /\ Laid(new, m) /\ new[m] = c
         /\ c.ok => ReadBlock(new, c.id) = c.val
         /\ \A i : i # c.id \/ ~c.ok => ReadBlock(new, i) = ReadBlock(part, i)
PROOF
<1>1. /\ m \in 1 .. NumUserBlocks /\ NumUserBlocks \in Nat /\ UserBlocks = 1 .. NumUserBlocks
  BY BlocksOfPartition DEF UserBlocks
<1>2. /\ Laid(new, m) /\ new[m] = c
      /\ \A q \in UserBlocks : q # m => new[q] = part[q]
  <2>1. m \in 1 .. m
    BY <1>1
  <2> QED
    BY <2>1, BlockFilled
<1>4. \A i : Hit(new, m, i) <=> c.id = i /\ c.ok
  BY <1>2 DEF Hit
<1>5. ASSUME c.ok PROVE ReadBlock(new, c.id) = c.val
  <2>1. m \in Hits(new, m, c.id) /\ Hits(new, m, c.id) \in SUBSET (1 .. m)
    <3>1. Hit(new, m, c.id)
      BY <1>4, <1>5
    <3>2. m \in 1 .. m
      BY <1>1
    <3> QED
      BY <3>1, <3>2 DEF Hits
  <2>2. \A y \in Hits(new, m, c.id) : y <= m
    BY <1>1 DEF Hits
  <2>3. Max(Hits(new, m, c.id)) = m /\ Hits(new, m, c.id) # {}
    <3>1. m \in Nat
      BY <1>1
    <3> QED
      BY <2>1, <2>2, <3>1, HighestIs
  <2>4. LookupBlock(new, c.id) = m
    BY <1>2, <2>3, LookupIs
  <2>5. m # 0
    BY <1>1
  <2> QED
    BY <1>2, <2>4, <2>5, ReadIs
<1>6. ASSUME NEW i, i # c.id \/ ~c.ok PROVE ReadBlock(new, i) = ReadBlock(part, i)
  <2>1. ASSUME NEW q \in UserBlocks
        PROVE  /\ Hit(part, q, i) <=> Hit(new, q, i)
               /\ Hit(part, q, i) => part[q].val = new[q].val
    <3>1. CASE q = m
      BY <1>4, <1>6, <3>1
    <3>2. CASE q # m
      BY <1>2, <3>2 DEF Hit
    <3> QED
      BY <3>1, <3>2
  <2>2. SameHits(part, m, new, m, i)
    BY <2>1 DEF SameHits
  <2> QED
    BY <1>2, <2>2, ReadsTheSame
<1> QED
  BY <1>2, <1>5, <1>6

(* A value that is written over the one found. *)
LEMMA BlockOverwritten ==
  ASSUME NEW part, NEW m, Laid(part, m), NEW id, NEW p \in UserBlocks, p = LookupBlock(part, id),
         NEW c, c.k = "user", c.id = id, c.ok, NEW new, new = Put(part, p, c)
  PROVE  /\ Laid(new, m) /\ ReadBlock(new, id) = c.val
         /\ \A i : i # id => ReadBlock(new, i) = ReadBlock(part, i)
PROOF
<1>1. /\ m \in 0 .. NumUserBlocks /\ NumUserBlocks \in Nat /\ UserBlocks = 1 .. NumUserBlocks
      /\ p \in 1 .. m /\ Hit(part, p, id)
  <2>1. m \in 0 .. NumUserBlocks /\ NumUserBlocks \in Nat /\ UserBlocks = 1 .. NumUserBlocks /\ p # 0
    BY BlocksOfPartition DEF UserBlocks, Laid
  <2>2. p \in 1 .. m /\ Hit(part, p, id)
    BY <2>1, LookupFinds
  <2> QED
    BY <2>1, <2>2
<1>2. c.k = "user" /\ c.id = id /\ c.ok
  OBVIOUS
<1>3. /\ Laid(new, m) /\ new[p] = c
      /\ \A q \in UserBlocks : q # p => new[q] = part[q]
  BY <1>1, BlockFilled
<1>4. ASSUME NEW i, NEW q \in UserBlocks
      PROVE  /\ Hit(part, q, i) <=> Hit(new, q, i)
             /\ i # id /\ Hit(part, q, i) => part[q].val = new[q].val
  <2>1. CASE q = p
    <3>1. Hit(part, q, i) <=> i = id
      BY <1>1, <2>1 DEF Hit
    <3>2. Hit(new, q, i) <=> i = id
      BY <1>2, <1>3, <2>1 DEF Hit
    <3> QED
      BY <3>1, <3>2
  <2>2. CASE q # p
    BY <1>3, <2>2 DEF Hit
  <2> QED
    BY <2>1, <2>2
<1>5. ASSUME NEW i, i # id PROVE ReadBlock(new, i) = ReadBlock(part, i)
  <2>1. SameHits(part, m, new, m, i)
    BY <1>4, <1>5 DEF SameHits
  <2> QED
    BY <1>3, <2>1, ReadsTheSame
<1>6. ReadBlock(new, id) = c.val
  <2>1. Hits(part, m, id) = Hits(new, m, id)
    <3>1. \A q : q \in 1 .. m => q \in UserBlocks
      BY <1>1
    <3> QED
      BY <1>4, <3>1 DEF Hits
  <2>2. LookupBlock(new, id) = p
    BY <1>3, <2>1, LookupIs
  <2>3. p # 0
    BY <1>1
  <2> QED
    BY <1>3, <2>2, <2>3, ReadIs
<1> QED
  BY <1>3, <1>5, <1>6

(* A partition that is erased and gets a header has all its blocks free. *)
LEMMA FreshIsLaid ==
  LET fresh == Put(Erased, 0, Header)
  IN  Laid(fresh, 0) /\ \A id : LookupBlock(fresh, id) = 0 /\ ReadBlock(fresh, id) = FlNone
PROOF
<1> DEFINE fresh == Put(Erased, 0, Header)
<1>1. /\ NumUserBlocks \in Nat /\ FlPhysical \in Nat /\ NumUserBlocks < FlPhysical /\ UserBlocks = 1 .. NumUserBlocks
      /\ 0 \in 0 .. FlPhysical - 1
  BY BlocksOfPartition DEF UserBlocks
<1>2. /\ fresh = [q \in 0 .. FlPhysical - 1 |-> fresh[q]] /\ fresh[0] = Header
      /\ \A q \in 0 .. FlPhysical - 1 : q # 0 => fresh[q] = Blank
  BY <1>1 DEF Put, Erased
<1> HIDE DEF fresh
<1>3. ASSUME NEW q \in UserBlocks
      PROVE  fresh[q] = Blank /\ ~IsAllocated(fresh[LookupBitmap(q)], q)
  <2>1. q \in 0 .. FlPhysical - 1 /\ q # 0
    BY <1>1
  <2>2. LookupBitmap(q) \in NumUserBlocks + 1 .. FlPhysical - 1
    BY BlocksOfPartition
  <2>3. LookupBitmap(q) \in 0 .. FlPhysical - 1 /\ LookupBitmap(q) # 0
    BY <1>1, <2>2
  <2>4. UsedBits(Blank) = {}
    BY DEF UsedBits, Blank
  <2>5. fresh[LookupBitmap(q)] = Blank /\ fresh[q] = Blank
    BY <1>2, <2>1, <2>3
  <2> QED
    BY <2>4, <2>5 DEF IsAllocated
<1>4. Laid(fresh, 0)
  <2>1. \A q \in UserBlocks : ~(q <= 0)
    BY <1>1
  <2>2. 0 \in 0 .. NumUserBlocks
    BY <1>1
  <2> QED
    BY <1>2, <1>3, <2>1, <2>2 DEF Laid, ValidateHeader
<1>5. ASSUME NEW id PROVE LookupBlock(fresh, id) = 0 /\ ReadBlock(fresh, id) = FlNone
  <2>1. LookupBlock(fresh, id) = 0
    BY <1>4, LookupFinds
  <2> QED
    BY <1>4, <2>1, ReadIs
<1> QED
  BY <1>4, <1>5 DEF fresh

\* No block of id to write over and none to take.
NoRoom(part, m, id, w) ==
  w.fatal = "full" /\ w.part = part /\ m = NumUserBlocks /\ LookupBlock(part, id) = 0

(* flash_write_block on a partition with a header: the block reads as      *)
(* written and all others as before, unless there is neither a block with  *)
(* the id nor a free one.                                                  *)
LEMMA WriteIsRead ==
  ASSUME NEW part, NEW m, Laid(part, m), NEW id, NEW val, NEW w, w = WriteBlock(part, id, val)
  PROVE  \/ /\ w.fatal = "" /\ LaidOut(w.part)
            /\ ReadBlock(w.part, id) = val
            /\ \A i : i # id => ReadBlock(w.part, i) = ReadBlock(part, i)
         \/ NoRoom(part, m, id, w)
PROOF
<1> DEFINE found == LookupBlock(part, id)
           p == IF found # 0 THEN found ELSE AllocBlock(part)
           marked == IF found # 0 THEN part ELSE [part EXCEPT ![AllocBitmap(p)] = SetAllocated(@, p)]
           written == [part |-> [marked EXCEPT ![p] = User(id, val, TRUE)], fatal |-> ""]
           full == [part |-> part, fatal |-> "full"]
<1>1. ValidateHeader(part) /\ m \in 0 .. NumUserBlocks /\ NumUserBlocks \in Nat
  BY BlocksOfPartition DEF Laid
<1>2. w = IF p = 0 THEN full ELSE written
  <2> HIDE DEF full, p
  <2>1. p = 0 => w = full
    BY <1>1 DEF WriteBlock, full, p
  <2>2. p # 0 => w = written
    BY <1>1 DEF WriteBlock, p
  <2> QED
    BY <2>1, <2>2
<1> DEFINE c == User(id, val, TRUE)
<1>3. c.k = "user" /\ c.id = id /\ c.val = val /\ c.ok = TRUE
  BY DEF User
<1>4. \A x, y : LET r == [part |-> x, fatal |-> y] IN r.part = x /\ r.fatal = y
  OBVIOUS
<1>5. written = [part |-> Put(marked, p, c), fatal |-> ""]
  BY DEF Put
<1>6. full.part = part /\ full.fatal = "full"
  BY <1>4
<1>7. written.part = Put(marked, p, c) /\ written.fatal = ""
  <2> HIDE DEF written, marked, p, c
  <2> QED
    BY <1>4, <1>5
<1> HIDE DEF full, written, c
<1>8. CASE found # 0
  <2>1. p = found /\ marked = part /\ found \in UserBlocks
    BY <1>8, LookupFinds
  <2>2. p # 0 /\ w = written
    BY <1>2, <1>8, <2>1
  <2> DEFINE new == Put(part, found, c)
  <2>3. written.part = new
    BY <1>7, <2>1
  <2>4. /\ Laid(new, m) /\ ReadBlock(new, id) = c.val
        /\ \A i : i # id => ReadBlock(new, i) = ReadBlock(part, i)
    <3>1. c.k = "user" /\ c.id = id /\ c.ok
      BY <1>3
    <3> HIDE DEF found
    <3> QED
      BY <2>1, <3>1, BlockOverwritten DEF found
  <2> QED
    BY <1>1, <1>3, <1>7, <2>2, <2>3, <2>4 DEF LaidOut
<1>9. CASE found = 0 /\ m = NumUserBlocks
  <2>1. p = 0
    BY <1>9, FirstFree
  <2> QED
    BY <1>2, <1>6, <1>9, <2>1 DEF NoRoom
<1>10. CASE found = 0 /\ m # NumUserBlocks
  <2>1. p = m + 1 /\ m + 1 \in UserBlocks
    BY <1>10, FirstFree
  <2> DEFINE q == m + 1
  <2>2. p # 0 /\ w = written
    BY <1>1, <1>2, <2>1
  <2>3. marked = Taken(part, q)
    BY <1>10, <2>1, BlocksOfPartition DEF Taken
  <2> DEFINE taken == Taken(part, q)
             new == Put(taken, q, c)
  <2>4. written.part = new
    BY <1>7, <2>1, <2>3
  <2>5. q \in UserBlocks /\ q = m + 1
    BY <2>1
  <2>6. q \in 0 .. NumUserBlocks
    BY <1>1, <1>10
  <2> HIDE DEF q
  <2>7. /\ Laid(taken, q) /\ taken[q] = Blank
        /\ \A i : ReadBlock(taken, i) = ReadBlock(part, i)
    BY <2>5, BlockTaken
  <2> HIDE DEF taken
  <2>8. \A i : ~Hit(taken, q, i)
    BY <2>7 DEF Hit, Blank
  <2>9. /\ Laid(new, q) /\ ReadBlock(new, c.id) = c.val
        /\ \A i : i # c.id => ReadBlock(new, i) = ReadBlock(taken, i)
    <3>1. c.k = "user" /\ c.ok \in BOOLEAN
      BY <1>3
    <3>2. c.ok
      BY <1>3
    <3>3. /\ Laid(new, q) /\ (c.ok => ReadBlock(new, c.id) = c.val)
          /\ \A i : i # c.id \/ ~c.ok => ReadBlock(new, i) = ReadBlock(taken, i)
      BY <2>5, <2>7, <2>8, <3>1, BlockWritten
    <3> QED
      BY <3>2, <3>3
  <2> QED
    BY <1>3, <1>7, <2>2, <2>4, <2>6, <2>7, <2>9 DEF LaidOut
<1> QED
  BY <1>8, <1>9, <1>10

\* A block whose crc is missing, and one that is complete.
Torn(id, val) == User(id, val, FALSE)
Whole(id, val) == User(id, val, TRUE)

\* The partition after o of the programs of an update.
Updating(part, p, id, val, o) ==
  /\ IF o = 0 THEN Laid(part, p - 1) ELSE Laid(part, p)
  /\ o = 1 => part[p] = Blank
  /\ o = 2 => part[p] = Torn(id, val)

(* The three programs of an update. *)
LEMMA OpsOfUpdate ==
  ASSUME NEW p, NEW id, NEW val, NEW ops, ops = UpdateOps(p, id, val)
  PROVE  /\ Len(ops) = 3 /\ DOMAIN ops = 1 .. 3
         /\ ops[1].t = "bit" /\ ops[1].p = LookupBitmap(p) /\ ops[1].user = p
         /\ ops[2].t = "data" /\ ops[2].p = p /\ ops[2].id = id /\ ops[2].val = val
         /\ ops[3].t = "crc" /\ ops[3].p = p /\ ops[3].id = id /\ ops[3].val = val
PROOF
<1> DEFINE at(t, b) == [t |-> t, p |-> b, user |-> p, id |-> id, val |-> val]
<1>1. ops = <<at("bit", LookupBitmap(p)), at("data", p), at("crc", p)>>
  BY DEF UpdateOps
<1>2. \A t, b : /\ at(t, b).t = t /\ at(t, b).p = b /\ at(t, b).user = p
                /\ at(t, b).id = id /\ at(t, b).val = val
  OBVIOUS
<1> HIDE DEF at
<1>3. Len(ops) = 3 /\ DOMAIN ops = 1 .. 3
  BY <1>1
<1>4. ops[1] = at("bit", LookupBitmap(p)) /\ ops[2] = at("data", p) /\ ops[3] = at("crc", p)
  BY <1>1
<1> QED
  BY <1>2, <1>3, <1>4

(* flash_program, by the kind of what is programmed. *)
LEMMA ProgramIs ==
  ASSUME NEW part, NEW op
  PROVE  /\ op.t = "bit" /\ op.p = LookupBitmap(op.user) => FlashProgram(part, op) = Taken(part, op.user)
         /\ op.t = "data" /\ part[op.p] = Blank =>
              FlashProgram(part, op) = Put(part, op.p, Torn(op.id, op.val))
         /\ op.t = "crc" /\ part[op.p] = Torn(op.id, op.val) =>
              FlashProgram(part, op) = Put(part, op.p, Whole(op.id, op.val))
         /\ op.t = "header" /\ part[op.p] \in {Blank, Header} => FlashProgram(part, op) = Put(part, op.p, Header)
PROOF
<1> DEFINE old == part[op.p]
           c == CASE op.t = "bit" -> SetAllocated(old, op.user)
                  [] op.t = "data" /\ old = Blank -> User(op.id, op.val, FALSE)
                  [] op.t = "crc" /\ old = User(op.id, op.val, FALSE) -> User(op.id, op.val, TRUE)
                  [] op.t = "header" /\ old \in {Blank, Header} -> Header
                  [] OTHER -> User(op.id, op.val, FALSE)
           new == Put(part, op.p, c)
<1>1. FlashProgram(part, op) = new
  BY DEF FlashProgram, Put
<1> HIDE DEF new
<1>2. op.t = "bit" => c = SetAllocated(old, op.user)
  OBVIOUS
<1>3. op.t = "data" /\ old = Blank => c = User(op.id, op.val, FALSE)
  OBVIOUS
<1>4. op.t = "crc" /\ old = User(op.id, op.val, FALSE) => c = User(op.id, op.val, TRUE)
  OBVIOUS
<1>5. op.t = "header" /\ old \in {Blank, Header} => c = Header
  OBVIOUS
<1>6. op.p = LookupBitmap(op.user) => Put(part, op.p, SetAllocated(old, op.user)) = Taken(part, op.user)
  BY DEF Put, Taken
<1> HIDE DEF c
<1> QED
  BY <1>1, <1>2, <1>3, <1>4, <1>5, <1>6 DEF new, Torn, Whole

(* A program of an update does its part of it, and only the last one       *)
(* changes what is read: the block has its new value.                      *)
LEMMA UpdateStep ==
  ASSUME NEW part, NEW p \in UserBlocks, NEW id, NEW val, NEW o \in 0 .. 2, Updating(part, p, id, val, o),
         NEW op, op = UpdateOps(p, id, val)[o + 1], NEW new, new = FlashProgram(part, op)
  PROVE  /\ Laid(new, p) /\ Updating(new, p, id, val, o + 1)
         /\ \/ op.t # "crc" /\ \A i : ReadBlock(new, i) = ReadBlock(part, i)
            \/ /\ op.t = "crc" /\ op.id = id /\ op.val = val
               /\ ReadBlock(new, id) = val /\ \A i : i # id => ReadBlock(new, i) = ReadBlock(part, i)
PROOF
<1> DEFINE ops == UpdateOps(p, id, val)
<1>1. /\ ops[1].t = "bit" /\ ops[1].p = LookupBitmap(p) /\ ops[1].user = p
      /\ ops[2].t = "data" /\ ops[2].p = p /\ ops[2].id = id /\ ops[2].val = val
      /\ ops[3].t = "crc" /\ ops[3].p = p /\ ops[3].id = id /\ ops[3].val = val
  BY OpsOfUpdate
<1>2. op = ops[o + 1]
  OBVIOUS
<1> HIDE DEF ops
<1> DEFINE c == Torn(id, val)
           d == Whole(id, val)
<1>3. /\ c.k = "user" /\ c.id = id /\ c.val = val /\ c.ok = FALSE
      /\ d.k = "user" /\ d.id = id /\ d.val = val /\ d.ok = TRUE
  BY DEF User, Torn, Whole
<1>4. /\ o = 0 => Laid(part, p - 1)
      /\ o # 0 => Laid(part, p)
      /\ o = 1 => part[p] = Blank
      /\ o = 2 => part[p] = c
  BY DEF Updating
<1>5. p \in 1 .. NumUserBlocks /\ NumUserBlocks \in Nat
  BY BlocksOfPartition DEF UserBlocks
<1>6. CASE o = 0
  <2>1. op.t = "bit" /\ op.p = LookupBitmap(op.user) /\ op.user = p
    BY <1>1, <1>2, <1>6
  <2>2. new = Taken(part, p)
    BY <2>1, ProgramIs
  <2> DEFINE m == p - 1
  <2>3. Laid(part, m) /\ p = m + 1
    BY <1>4, <1>5, <1>6
  <2> HIDE DEF m
  <2>4. /\ Laid(new, p) /\ new[p] = Blank
        /\ \A i : ReadBlock(new, i) = ReadBlock(part, i)
    BY <2>2, <2>3, BlockTaken
  <2> QED
    BY <1>6, <2>1, <2>4 DEF Updating
<1>7. CASE o = 1
  <2>1. op.t = "data" /\ op.p = p /\ op.id = id /\ op.val = val /\ part[p] = Blank
    BY <1>1, <1>2, <1>4, <1>7
  <2>2. new = Put(part, p, c)
    BY <2>1, ProgramIs
  <2>3. \A i : ~Hit(part, p, i)
    BY <2>1 DEF Hit, Blank
  <2>4. /\ Laid(new, p) /\ new[p] = c
        /\ \A i : i # c.id \/ ~c.ok => ReadBlock(new, i) = ReadBlock(part, i)
    <3>1. c.k = "user" /\ c.ok \in BOOLEAN
      BY <1>3
    <3>2. Laid(part, p)
      BY <1>4, <1>7
    <3> HIDE DEF c
    <3> QED
      BY <2>2, <2>3, <3>1, <3>2, BlockWritten
  <2>5. ~c.ok
    BY <1>3
  <2> QED
    BY <1>7, <2>1, <2>4, <2>5 DEF Updating
<1>8. CASE o = 2
  <2>1. op.t = "crc" /\ op.p = p /\ op.id = id /\ op.val = val /\ part[p] = c
    BY <1>1, <1>2, <1>4, <1>8
  <2>2. new = Put(part, p, d)
    BY <2>1, ProgramIs
  <2>3. \A i : ~Hit(part, p, i)
    <3>1. ~c.ok
      BY <1>3
    <3> HIDE DEF c
    <3> QED
      BY <2>1, <3>1 DEF Hit
  <2>4. /\ Laid(new, p) /\ (d.ok => ReadBlock(new, d.id) = d.val)
        /\ \A i : i # d.id \/ ~d.ok => ReadBlock(new, i) = ReadBlock(part, i)
    <3>1. d.k = "user" /\ d.ok \in BOOLEAN
      BY <1>3
    <3>2. Laid(part, p)
      BY <1>4, <1>8
    <3> HIDE DEF d
    <3> QED
      BY <2>2, <2>3, <3>1, <3>2, BlockWritten
  <2>5. d.ok /\ d.id = id /\ d.val = val
    BY <1>3
  <2>6. o + 1 # 0 /\ o + 1 # 1 /\ o + 1 # 2
    BY <1>8
  <2>7. Updating(new, p, id, val, o + 1)
    BY <2>4, <2>6 DEF Updating
  <2> HIDE DEF d
  <2> QED
    BY <2>1, <2>4, <2>5, <2>7
<1> QED
  BY <1>6, <1>7, <1>8

\* What is left of a job of len calls after n of them.
Rest(job, len, n) == [i \in 1 .. len - n |-> job[n + i]]

(* The next call of a job, and what is left after it. *)
LEMMA RestStep ==
  ASSUME NEW job, NEW len \in Nat, NEW n \in Nat, n < len
  PROVE  /\ Rest(job, len, n) # <<>> /\ Head(Rest(job, len, n)) = job[n + 1]
         /\ Tail(Rest(job, len, n)) = Rest(job, len, n + 1)
PROOF
<1> DEFINE S == {job[i] : i \in 1 .. len}
           r == Rest(job, len, n)
           k == len - n
<1>1. k \in Nat \ {0} /\ \A i \in 1 .. k : n + i \in 1 .. len
  OBVIOUS
<1>2. r \in [1 .. k -> S] /\ \A i \in 1 .. k : r[i] = job[n + i]
  BY <1>1 DEF Rest
<1> HIDE DEF r, S
<1>3. r \in Seq(S) /\ Len(r) = k
  BY <1>1, <1>2
<1>4. r # <<>> /\ Head(r) = r[1] /\ Tail(r) = [i \in 1 .. k - 1 |-> r[i + 1]]
  <2>1. r # <<>>
    BY <1>1, <1>3
  <2>2. \A s \in Seq(S) : s # <<>> => Head(s) = s[1] /\ Tail(s) \in Seq(S) /\ Len(Tail(s)) = Len(s) - 1
                                      /\ \A i \in 1 .. Len(s) - 1 : Tail(s)[i] = s[i + 1]
    OBVIOUS
  <2>3. /\ Head(r) = r[1] /\ Tail(r) \in Seq(S) /\ Len(Tail(r)) = k - 1
        /\ \A i \in 1 .. k - 1 : Tail(r)[i] = r[i + 1]
    BY <1>3, <2>1, <2>2
  <2>4. \A s \in Seq(S) : s = [i \in 1 .. Len(s) |-> s[i]]
    OBVIOUS
  <2>5. Tail(r) = [i \in 1 .. k - 1 |-> Tail(r)[i]]
    BY <2>3, <2>4
  <2> QED
    BY <2>1, <2>3, <2>5
<1>5. r[1] = job[n + 1]
  BY <1>1, <1>2
<1>6. [i \in 1 .. k - 1 |-> r[i + 1]] = Rest(job, len, n + 1)
  <2>1. len - (n + 1) = k - 1
    OBVIOUS
  <2>2. \A i \in 1 .. k - 1 : r[i + 1] = job[(n + 1) + i]
    <3>1. ASSUME NEW i \in 1 .. k - 1 PROVE r[i + 1] = job[(n + 1) + i]
      <4>1. i + 1 \in 1 .. k /\ n + (i + 1) = (n + 1) + i
        BY <1>1
      <4> QED
        BY <1>2, <4>1
    <3> QED
      BY <3>1
  <2> QED
    BY <2>1, <2>2 DEF Rest
<1> QED
  BY <1>4, <1>5, <1>6 DEF r

(* Nothing is left of a job that is done, and all of one that is not begun. *)
LEMMA RestEnds ==
  ASSUME NEW job, NEW len \in Nat
  PROVE  /\ Rest(job, len, len) = <<>>
         /\ job = [i \in 1 .. len |-> job[i]] => Rest(job, len, 0) = job
PROOF
<1>1. len - len = 0 /\ len - 0 = len /\ 1 .. 0 = {} /\ \A i \in 1 .. len : 0 + i = i
  OBVIOUS
<1>2. Rest(job, len, len) = [i \in {} |-> job[len + i]]
  BY <1>1 DEF Rest
<1>3. Rest(job, len, 0) = [i \in 1 .. len |-> job[i]]
  BY <1>1 DEF Rest
<1> QED
  BY <1>2, <1>3

(* The calls of an update by the system call and through chip cycles. *)
LEMMA CallsOfUpdate ==
  ASSUME NEW ops, DOMAIN ops = 1 .. 3, Len(ops) = 3
  PROVE  /\ LET job == Programs(ops, "syscall")
            IN  /\ job = [i \in 1 .. 3 |-> job[i]]
                /\ \A i \in 0 .. 2 : job[i + 1].by = "syscall" /\ job[i + 1].c = ops[i + 1]
         /\ LET job == Programs(ops, "chip")
            IN  /\ job = [i \in 1 .. 12 |-> job[i]]
                /\ \A i \in 0 .. 11 : job[i + 1].by = "chip" /\ job[i + 1].c = Cycles(ops[(i \div 4) + 1])[(i % 4) + 1]
PROOF
<1>1. LET job == Programs(ops, "syscall")
      IN  /\ job = [i \in 1 .. 3 |-> job[i]]
          /\ \A i \in 0 .. 2 : job[i + 1].by = "syscall" /\ job[i + 1].c = ops[i + 1]
  <2> DEFINE job == Programs(ops, "syscall")
  <2>1. job = [k \in 1 .. 3 |-> [by |-> "syscall", c |-> ops[k]]]
    BY DEF Programs, Calls
  <2>2. \A i \in 0 .. 2 : i + 1 \in 1 .. 3
    OBVIOUS
  <2> HIDE DEF job
  <2>3. \A i \in 1 .. 3 : job[i].by = "syscall" /\ job[i].c = ops[i]
    BY <2>1
  <2>4. job = [i \in 1 .. 3 |-> job[i]]
    BY <2>1
  <2> QED
    BY <2>2, <2>3, <2>4 DEF job
<1>2. LET job == Programs(ops, "chip")
      IN  /\ job = [i \in 1 .. 12 |-> job[i]]
          /\ \A i \in 0 .. 11 : job[i + 1].by = "chip" /\ job[i + 1].c = Cycles(ops[(i \div 4) + 1])[(i % 4) + 1]
  <2> DEFINE job == Programs(ops, "chip")
             cycle(k) == Cycles(ops[(k \div 4) + 1])[(k % 4) + 1]
             items == [k \in 1 .. 4 * Len(ops) |-> cycle(k - 1)]
  <2>1. job = [k \in DOMAIN items |-> [by |-> "chip", c |-> items[k]]]
    BY DEF Programs, Calls
  <2> HIDE DEF job, cycle
  <2>2. DOMAIN items = 1 .. 12 /\ \A i \in 0 .. 11 : items[i + 1] = cycle(i)
    <3>1. 4 * Len(ops) = 12 /\ \A i \in 0 .. 11 : i + 1 \in 1 .. 12 /\ (i + 1) - 1 = i
      OBVIOUS
    <3>2. items = [k \in 1 .. 12 |-> cycle(k - 1)]
      BY <3>1
    <3> HIDE DEF items
    <3> QED
      BY <3>1, <3>2
  <2> HIDE DEF items
  <2>3. job = [k \in 1 .. 12 |-> [by |-> "chip", c |-> items[k]]]
    BY <2>1, <2>2
  <2>4. \A i \in 0 .. 11 : i + 1 \in 1 .. 12
    OBVIOUS
  <2>5. \A i \in 1 .. 12 : job[i].by = "chip" /\ job[i].c = items[i]
    BY <2>3
  <2>6. job = [i \in 1 .. 12 |-> job[i]]
    BY <2>3
  <2>7. ASSUME NEW i \in 0 .. 11 PROVE job[i + 1].by = "chip" /\ job[i + 1].c = cycle(i)
    BY <2>2, <2>4, <2>5
  <2> QED
    BY <2>6, <2>7 DEF job, cycle
<1> QED
  BY <1>1, <1>2

(* The cycles of a program: three to announce it, then the program. *)
LEMMA CyclesOfProgram ==
  ASSUME NEW op
  PROVE  /\ Cycles(op)[1].t = "unlock1" /\ Cycles(op)[2].t = "unlock2" /\ Cycles(op)[3].t = "PROGRAM"
         /\ Cycles(op)[4] = op
PROOF
<1> DEFINE a == [t |-> "unlock1"]
           b == [t |-> "unlock2"]
           c == [t |-> "PROGRAM"]
<1>1. a.t = "unlock1" /\ b.t = "unlock2" /\ c.t = "PROGRAM"
  OBVIOUS
<1>2. Cycles(op) = <<a, b, c, op>>
  BY DEF Cycles
<1> HIDE DEF a, b, c
<1> QED
  BY <1>1, <1>2

Unlocks == {"unlock1", "unlock2", "PROGRAM", "ERASE"}
Programmed == {"bit", "data", "crc", "header"}

(* The cycles of an erasure and of the header that is programmed then.     *)
LEMMA CallsOfErase ==
  ASSUME NEW c
  PROVE  LET job == EraseJob(c)
         IN  /\ job = [i \in 1 .. 10 |-> job[i]]
             /\ \A i \in 1 .. 10 : /\ job[i].by = "chip"
                                   /\ job[i].c.t \in Unlocks \/ job[i].c = c \/ job[i].c = HeaderOp
PROOF
<1> DEFINE ops == <<HeaderOp>>
           first == Calls(EraseCycles(c), "chip")
           then == Programs(ops, "chip")
           job == EraseJob(c)
           Right(x) == x.by = "chip" /\ (x.c.t \in Unlocks \/ x.c = c \/ x.c = HeaderOp)
           S == {x \in {first[i] : i \in 1 .. 6} \cup {then[i] : i \in 1 .. 4} : Right(x)}
<1>1. /\ first = [i \in 1 .. 6 |-> first[i]]
      /\ \A i \in 1 .. 6 : Right(first[i])
  <2> DEFINE u == [t |-> "unlock1"]
             v == [t |-> "unlock2"]
             w == [t |-> "ERASE"]
             items == EraseCycles(c)
  <2>1. u.t = "unlock1" /\ v.t = "unlock2" /\ w.t = "ERASE"
    OBVIOUS
  <2>2. items = <<u, v, w, u, v, c>>
    BY DEF EraseCycles
  <2> HIDE DEF u, v, w
  <2>3. /\ DOMAIN items = 1 .. 6 /\ items[1] = u /\ items[2] = v /\ items[3] = w
        /\ items[4] = u /\ items[5] = v /\ items[6] = c
    BY <2>2
  <2>4. first = [k \in DOMAIN items |-> [by |-> "chip", c |-> items[k]]]
    BY DEF Calls
  <2> HIDE DEF items, first
  <2>5. first = [i \in 1 .. 6 |-> first[i]] /\ \A i \in 1 .. 6 : first[i].by = "chip" /\ first[i].c = items[i]
    BY <2>3, <2>4
  <2>6. \A i \in 1 .. 6 : items[i].t \in Unlocks \/ items[i] = c
    BY <2>1, <2>3 DEF Unlocks
  <2> QED
    BY <2>5, <2>6
<1>2. /\ then = [i \in 1 .. 4 |-> then[i]]
      /\ \A i \in 1 .. 4 : Right(then[i])
  <2> DEFINE cycle(k) == Cycles(ops[(k \div 4) + 1])[(k % 4) + 1]
             items == [k \in 1 .. 4 * Len(ops) |-> cycle(k - 1)]
  <2>1. then = [k \in DOMAIN items |-> [by |-> "chip", c |-> items[k]]]
    BY DEF Programs, Calls
  <2>2. ops[1] = HeaderOp /\ Len(ops) = 1
    OBVIOUS
  <2> HIDE DEF ops, then
  <2>3. DOMAIN items = 1 .. 4 /\ \A i \in 1 .. 4 : items[i] = cycle(i - 1)
    <3>1. 4 * Len(ops) = 4
      BY <2>2
    <3>2. items = [k \in 1 .. 4 |-> cycle(k - 1)]
      BY <3>1
    <3> HIDE DEF items, cycle
    <3> QED
      BY <3>2
  <2>4. \A i \in 1 .. 4 : cycle(i - 1) = Cycles(HeaderOp)[i]
    <3>1. \A i \in 1 .. 4 : (i - 1) \div 4 = 0 /\ (i - 1) % 4 = i - 1 /\ (i - 1) + 1 = i
      OBVIOUS
    <3> QED
      BY <2>2, <3>1
  <2> HIDE DEF items, cycle
  <2>5. then = [i \in 1 .. 4 |-> then[i]] /\ \A i \in 1 .. 4 : then[i].by = "chip" /\ then[i].c = items[i]
    BY <2>1, <2>3
  <2>6. \A i \in 1 .. 4 : Cycles(HeaderOp)[i].t \in Unlocks \/ Cycles(HeaderOp)[i] = HeaderOp
    BY CyclesOfProgram DEF Unlocks
  <2>7. \A i \in 1 .. 4 : items[i].t \in Unlocks \/ items[i] = HeaderOp
    BY <2>3, <2>4, <2>6
  <2> QED
    BY <2>5, <2>7
<1>3. job = first \o then
  BY DEF EraseJob
<1> HIDE DEF ops, first, then, job, Right
<1>4. first \in Seq(S) /\ then \in Seq(S) /\ Len(first) = 6 /\ Len(then) = 4
  <2>1. \A i \in 1 .. 6 : first[i] \in S
    BY <1>1
  <2>2. \A i \in 1 .. 4 : then[i] \in S
    BY <1>2
  <2>3. first \in [1 .. 6 -> S] /\ then \in [1 .. 4 -> S]
    BY <1>1, <1>2, <2>1, <2>2
  <2>4. \A n \in Nat : \A Elem : \A f \in [1 .. n -> Elem] : f \in Seq(Elem) /\ Len(f) = n
    OBVIOUS
  <2>5. 4 \in Nat /\ 6 \in Nat
    OBVIOUS
  <2> HIDE DEF S
  <2> QED
    BY <2>3, <2>4, <2>5
<1>5. job \in Seq(S) /\ Len(job) = 10
  <2>1. \A Elem : \A f, g \in Seq(Elem) : f \o g \in Seq(Elem) /\ Len(f \o g) = Len(f) + Len(g)
    OBVIOUS
  <2> HIDE DEF S
  <2>2. first \o then \in Seq(S) /\ Len(first \o then) = Len(first) + Len(then)
    BY <1>4, <2>1, Zenon
  <2>3. Len(job) = 6 + 4 /\ job \in Seq(S)
    BY <1>3, <1>4, <2>2, Zenon
  <2> QED
    BY <2>3
<1>6. \A x \in S : Right(x)
  OBVIOUS
<1>7. job = [i \in 1 .. 10 |-> job[i]] /\ \A i \in 1 .. 10 : job[i] \in S
  <2>1. \A Elem : \A f \in Seq(Elem) : f = [i \in 1 .. Len(f) |-> f[i]] /\ \A i \in 1 .. Len(f) : f[i] \in Elem
    OBVIOUS
  <2> HIDE DEF S
  <2> QED
    BY <1>5, <2>1
<1> QED
  BY <1>6, <1>7 DEF job, Right

FlCmdOK == flcmd = [cmd |-> flcmd.cmd, state |-> flcmd.state]

(* A cycle that changes the flash is one the chip has been prepared for;   *)
(* any other has no effect on it, and stops the emulator if it would have. *)
LEMMA CycleEffects ==
  ASSUME FlCmdOK, NEW c, RomWrite(c)
  PROVE  /\ FlCmdOK'
         /\ \/ flchip' = flchip /\ fllast' = fllast /\ flfatal' = "cycle"
            \/ flchip' = flchip /\ fllast' = fllast /\ flfatal' = flfatal /\ c.t \in Unlocks
            \/ CmdProgram(c) /\ flfatal' = flfatal /\ c.t \in Programmed
            \/ EraseChip /\ flfatal' = flfatal /\ c.t = "chip"
            \/ EraseSector(c.s) /\ flfatal' = flfatal /\ c.t = "sector"
PROOF
<1> DEFINE s == flcmd.state
           expected == \/ c.t = "unlock1" /\ (s = 0 \/ (s = 3 /\ flcmd.cmd = "ERASE"))
                       \/ c.t = "unlock2" /\ s \in {1, 4}
<1>1. \A v : [flcmd EXCEPT !.state = v] = [cmd |-> flcmd.cmd, state |-> v]
  BY DEF FlCmdOK
<1>2. \A x, v : flcmd' = [cmd |-> x, state |-> v] => FlCmdOK'
  BY DEF FlCmdOK
<1>3. CASE expected /\ FlAdvance(s + 1)
  BY <1>1, <1>2, <1>3 DEF FlAdvance, Unlocks
<1>4. CASE /\ s = 2 /\ c.t \in {"PROGRAM", "ERASE"}
           /\ flcmd' = [cmd |-> c.t, state |-> 3]
           /\ UNCHANGED <<flchip, fllast, flfatal>>
  BY <1>2, <1>4 DEF Unlocks
<1>5. CASE /\ s = 3 /\ flcmd.cmd = "PROGRAM" /\ c.t \in {"bit", "data", "crc", "header"}
           /\ CmdProgram(c)
           /\ flcmd' = [flcmd EXCEPT !.state = 0]
           /\ UNCHANGED flfatal
  BY <1>1, <1>2, <1>5 DEF Programmed
<1>6. CASE s = 3 /\ flcmd.cmd = "PROGRAM" /\ c.t = "unlock1" /\ FlAdvance(0)
  BY <1>1, <1>2, <1>6 DEF FlAdvance, Unlocks
<1>7. CASE /\ s = 5 /\ c.t \in {"chip", "sector"}
           /\ IF c.t = "chip" THEN EraseChip ELSE EraseSector(c.s)
           /\ flcmd' = [flcmd EXCEPT !.state = 0]
           /\ UNCHANGED flfatal
  <2>1. FlCmdOK'
    BY <1>1, <1>2, <1>7
  <2> QED
    BY <1>7, <2>1
<1>8. CASE Unexpected
  BY <1>8 DEF Unexpected, FlCmdOK
<1> QED
  BY <1>3, <1>4, <1>5, <1>6, <1>7, <1>8 DEF RomWrite

(* The cycles of a program, given in their order, do what they are for. *)
LEMMA CycleExpected ==
  ASSUME FlCmdOK, NEW c, RomWrite(c)
  PROVE  /\ c.t = "unlock1" /\ flcmd.state = 0 =>
              flchip' = flchip /\ fllast' = fllast /\ flfatal' = flfatal /\ flcmd'.state = 1
         /\ c.t = "unlock2" /\ flcmd.state = 1 =>
              flchip' = flchip /\ fllast' = fllast /\ flfatal' = flfatal /\ flcmd'.state = 2
         /\ c.t = "PROGRAM" /\ flcmd.state = 2 =>
              /\ flchip' = flchip /\ fllast' = fllast /\ flfatal' = flfatal
              /\ flcmd'.state = 3 /\ flcmd'.cmd = "PROGRAM"
         /\ c.t \in Programmed /\ flcmd.state = 3 /\ flcmd.cmd = "PROGRAM" =>
              CmdProgram(c) /\ flfatal' = flfatal /\ flcmd'.state = 0
PROOF
<1>1. \A v : [flcmd EXCEPT !.state = v].state = v
  BY DEF FlCmdOK
<1>2. ASSUME c.t = "unlock1" /\ flcmd.state = 0
      PROVE  flchip' = flchip /\ fllast' = fllast /\ flfatal' = flfatal /\ flcmd'.state = 1
  <2>1. FlAdvance(flcmd.state + 1)
    BY <1>2 DEF RomWrite
  <2>2. flcmd.state + 1 = 1
    BY <1>2
  <2>3. FlAdvance(1)
    BY <2>1, <2>2
  <2> QED
    BY <1>1, <2>3 DEF FlAdvance
<1>3. ASSUME c.t = "unlock2" /\ flcmd.state = 1
      PROVE  flchip' = flchip /\ fllast' = fllast /\ flfatal' = flfatal /\ flcmd'.state = 2
  <2>1. FlAdvance(flcmd.state + 1)
    BY <1>3 DEF RomWrite
  <2>2. flcmd.state + 1 = 2
    BY <1>3
  <2>3. FlAdvance(2)
    BY <2>1, <2>2
  <2> QED
    BY <1>1, <2>3 DEF FlAdvance
<1>4. ASSUME c.t = "PROGRAM" /\ flcmd.state = 2
      PROVE  /\ flchip' = flchip /\ fllast' = fllast /\ flfatal' = flfatal
             /\ flcmd'.state = 3 /\ flcmd'.cmd = "PROGRAM"
  BY <1>4 DEF RomWrite, FlAdvance
<1>5. ASSUME c.t \in Programmed /\ flcmd.state = 3 /\ flcmd.cmd = "PROGRAM"
      PROVE  CmdProgram(c) /\ flfatal' = flfatal /\ flcmd'.state = 0
  BY <1>1, <1>5 DEF RomWrite, FlAdvance, Programmed
<1> QED
  BY <1>2, <1>3, <1>4, <1>5

-----------------------------------------------------------------------------
(* Flash memory: the steps *)

\* A partition that reads as last says, or one that is erased and has no header yet.
Held(part, last) ==
  \/ LaidOut(part) /\ \A id \in FlIds : ReadBlock(part, id) = last[id]
  \/ part = Erased /\ last = NothingWritten

\* What the guest's library has left to do, and how far the partition and the
\* chip have got with it; a chip that was left within a command may be anywhere.
BySyscall(todo, part, cmd, abused) ==
  \E p \in UserBlocks, id \in FlIds, val \in FlVals, n \in 0 .. 2 :
    /\ todo = Rest(Programs(UpdateOps(p, id, val), "syscall"), 3, n)
    /\ Updating(part, p, id, val, n)
    /\ abused \/ cmd.state = 0
ByChip(todo, part, cmd, abused) ==
  \E p \in UserBlocks, id \in FlIds, val \in FlVals, n \in 0 .. 11 :
    /\ todo = Rest(Programs(UpdateOps(p, id, val), "chip"), 12, n)
    /\ Updating(part, p, id, val, n \div 4)
    /\ abused \/ (cmd.state = n % 4 /\ (n % 4 = 3 => cmd.cmd = "PROGRAM"))
Erasing(todo, abused) ==
  abused /\ \E c \in EraseOps, n \in 0 .. 9 : todo = Rest(EraseJob(c), 10, n)
Idle(todo, cmd, abused) == todo = <<>> /\ (abused \/ cmd.state = 0)
JobInv(todo, part, cmd, abused) ==
  \/ Idle(todo, cmd, abused)
  \/ BySyscall(todo, part, cmd, abused)
  \/ ByChip(todo, part, cmd, abused)
  \/ Erasing(todo, abused)

FlTypes ==
  /\ flup \in BOOLEAN /\ flabused \in BOOLEAN /\ flfile.ok \in BOOLEAN
  /\ flchip = [factory |-> flchip.factory, part |-> flchip.part] /\ FlCmdOK
  /\ fllast \in [FlIds -> FlVals \cup {FlNone}]

\* Without abuse there are settings to boot with, in the process and in the file.
Bootable ==
  /\ flfatal \in {"", "hangs"}
  /\ flup => fllast[FlSyscfg] # FlNone
  /\ flfile.ok => flfile.last[FlSyscfg] # FlNone

\* The inductive invariant.
FlashInv ==
  /\ FlTypes
  /\ flup => Held(flchip.part, fllast)
  /\ flfile.ok => Held(flfile.chip.part, flfile.last)
                  /\ flfile.last \in [FlIds -> FlVals \cup {FlNone}]
  /\ flup /\ flfatal = "" => JobInv(fltodo, flchip.part, flcmd, flabused)
  /\ ~flup => flfatal = ""
  /\ ~flabused => Bootable

(* Which of the two it is shows in the header. *)
LEMMA HeldIs ==
  ASSUME NEW part, NEW last, Held(part, last)
  PROVE  /\ ValidateHeader(part) =>
              (\E m \in 0 .. NumUserBlocks : Laid(part, m)) /\ \A id \in FlIds : ReadBlock(part, id) = last[id]
         /\ ~ValidateHeader(part) => part = Erased /\ last = NothingWritten
         /\ \A id \in FlIds : ReadBlock(part, id) = last[id]
         /\ part[0] \in {Blank, Header}
PROOF
<1>1. ~ValidateHeader(Erased) /\ Erased[0] = Blank
  <2>1. 0 \in 0 .. FlPhysical - 1
    BY BlocksOfPartition
  <2>2. Erased[0] = Blank
    BY <2>1 DEF Erased
  <2>3. Blank.k # Header.k
    BY DEF Blank, Header
  <2> QED
    BY <2>2, <2>3 DEF ValidateHeader
<1>2. \A m : Laid(part, m) => ValidateHeader(part)
  BY DEF Laid
<1>3. \A id \in FlIds : ReadBlock(Erased, id) = NothingWritten[id]
  BY <1>1 DEF ReadBlock, NothingWritten
<1>4. ValidateHeader(part) => part[0] = Header
  BY DEF ValidateHeader
<1>5. CASE (\E m \in 0 .. NumUserBlocks : Laid(part, m)) /\ \A id \in FlIds : ReadBlock(part, id) = last[id]
  BY <1>2, <1>4, <1>5
<1>6. CASE part = Erased /\ last = NothingWritten
  BY <1>1, <1>3, <1>6
<1> QED
  BY <1>5, <1>6 DEF Held, LaidOut

(* An erased partition is held as one nothing was written to. *)
LEMMA HeldErased == Held(Erased, NothingWritten)
PROOF
  BY DEF Held, LaidOut

(* What a program of an update leaves behind is what fllast says. *)
LEMMA UpdateHeld ==
  ASSUME NEW part, fllast \in [FlIds -> FlVals \cup {FlNone}], Held(part, fllast),
         NEW p \in UserBlocks, NEW id \in FlIds, NEW val \in FlVals, NEW o \in 0 .. 2, Updating(part, p, id, val, o),
         NEW op, op = UpdateOps(p, id, val)[o + 1]
  PROVE  /\ Held(FlashProgram(part, op), Completes(op))
         /\ Updating(FlashProgram(part, op), p, id, val, o + 1)
         /\ Completes(op) \in [FlIds -> FlVals \cup {FlNone}]
         /\ fllast[FlSyscfg] # FlNone => Completes(op)[FlSyscfg] # FlNone
         /\ op.t \in Programmed
PROOF
<1> DEFINE new == FlashProgram(part, op)
           last == Completes(op)
<1>1. /\ Laid(new, p) /\ Updating(new, p, id, val, o + 1)
      /\ \/ op.t # "crc" /\ \A i : ReadBlock(new, i) = ReadBlock(part, i)
         \/ /\ op.t = "crc" /\ op.id = id /\ op.val = val
            /\ ReadBlock(new, id) = val /\ \A i : i # id => ReadBlock(new, i) = ReadBlock(part, i)
  <2> HIDE DEF new
  <2> QED
    BY UpdateStep DEF new
<1>2. \A i \in FlIds : ReadBlock(part, i) = fllast[i]
  BY HeldIs
<1>3. p \in 0 .. NumUserBlocks
  BY BlocksOfPartition DEF UserBlocks
<1>4. op.t \in Programmed
  <2>1. LET ops == UpdateOps(p, id, val) IN ops[1].t = "bit" /\ ops[2].t = "data" /\ ops[3].t = "crc"
    BY OpsOfUpdate
  <2>2. o + 1 \in {1, 2, 3}
    OBVIOUS
  <2> QED
    BY <2>1, <2>2 DEF Programmed
<1> HIDE DEF new
<1>5. CASE op.t # "crc"
  <2>1. last = fllast
    BY <1>5 DEF Completes
  <2>2. Held(new, last)
    BY <1>1, <1>2, <1>3, <1>5, <2>1 DEF Held, LaidOut
  <2> QED
    BY <1>1, <1>4, <2>1, <2>2 DEF new
<1>6. CASE op.t = "crc"
  <2>1. last = [fllast EXCEPT ![id] = val]
    BY <1>1, <1>6 DEF Completes
  <2> HIDE DEF last
  <2>2. last \in [FlIds -> FlVals \cup {FlNone}]
    BY <2>1
  <2>3. last[id] = val /\ \A i \in FlIds : i # id => last[i] = fllast[i]
    BY <2>1
  <2>4. \A i \in FlIds : ReadBlock(new, i) = last[i]
    BY <1>1, <1>2, <1>6, <2>3
  <2>5. Held(new, last)
    BY <1>1, <1>3, <2>4 DEF Held, LaidOut
  <2>6. fllast[FlSyscfg] # FlNone => last[FlSyscfg] # FlNone
    BY <2>3, FlAssumption
  <2> QED
    BY <1>1, <1>4, <2>2, <2>5, <2>6 DEF new, last
<1> QED
  BY <1>5, <1>6

(* What is left to show of a step of the guest. *)
LEMMA StepCloses ==
  ASSUME FlashInv, flup, flfatal = "", flup' = flup, flfile' = flfile, flabused' = flabused,
         flchip' = [factory |-> flchip'.factory, part |-> flchip'.part], FlCmdOK',
         fllast' \in [FlIds -> FlVals \cup {FlNone}], Held(flchip'.part, fllast'),
         ~flabused => fllast'[FlSyscfg] # FlNone,
         \/ flfatal' = "" /\ JobInv(fltodo', flchip'.part, flcmd', flabused)
         \/ flfatal' = "cycle" /\ flabused
  PROVE  FlashInv'
PROOF
<1>1. FlTypes'
  BY DEF FlashInv, FlTypes
<1>2. flfatal' = "" => JobInv(fltodo', flchip'.part, flcmd', flabused')
  BY Zenon
<1>3. ~flabused => flfatal' = ""
  OBVIOUS
<1>4. ~flabused' => Bootable'
  BY <1>3 DEF FlashInv, Bootable
<1> QED
  BY <1>1, <1>2, <1>4 DEF FlashInv

(* The partition and the history after a program of an update. *)
LEMMA ProgramEffect ==
  ASSUME FlashInv, flup, NEW op, CmdProgram(op),
         NEW p \in UserBlocks, NEW id \in FlIds, NEW val \in FlVals, NEW o \in 0 .. 2,
         Updating(flchip.part, p, id, val, o), op = UpdateOps(p, id, val)[o + 1]
  PROVE  /\ flchip' = [factory |-> flchip'.factory, part |-> flchip'.part]
         /\ fllast' \in [FlIds -> FlVals \cup {FlNone}] /\ Held(flchip'.part, fllast')
         /\ Updating(flchip'.part, p, id, val, o + 1)
         /\ ~flabused => fllast'[FlSyscfg] # FlNone
PROOF
<1> DEFINE new == FlashProgram(flchip.part, op)
<1>1. flchip' = [factory |-> flchip.factory, part |-> new]
  <2> HIDE DEF new
  <2>1. flchip' = [flchip EXCEPT !.part = new]
    BY DEF CmdProgram, new
  <2> QED
    BY <2>1 DEF FlashInv, FlTypes
<1>2. flchip'.part = new /\ flchip' = [factory |-> flchip'.factory, part |-> flchip'.part]
  <2> HIDE DEF new
  <2> QED
    BY <1>1
<1>3. fllast' = Completes(op)
  BY DEF CmdProgram
<1>4. fllast \in [FlIds -> FlVals \cup {FlNone}] /\ Held(flchip.part, fllast)
  BY DEF FlashInv, FlTypes
<1>5. /\ Held(new, Completes(op)) /\ Updating(new, p, id, val, o + 1)
      /\ Completes(op) \in [FlIds -> FlVals \cup {FlNone}]
      /\ fllast[FlSyscfg] # FlNone => Completes(op)[FlSyscfg] # FlNone
  BY <1>4, UpdateHeld
<1>6. ~flabused => fllast[FlSyscfg] # FlNone
  BY DEF FlashInv, Bootable
<1> HIDE DEF new
<1> QED
  BY <1>2, <1>3, <1>5, <1>6

(* A program of an update that the guest has the bios do (FLASHROM_PROGRAM). *)
LEMMA SyscallStepKeeps ==
  ASSUME FlashInv, GuestStep, BySyscall(fltodo, flchip.part, flcmd, flabused)
  PROVE  FlashInv'
PROOF
<1>1. /\ flup /\ flfatal = "" /\ flup' = flup /\ flfile' = flfile /\ flabused' = flabused
      /\ fltodo' = Tail(fltodo)
  BY DEF GuestStep, FlRunning
<1>2. PICK p \in UserBlocks, id \in FlIds, val \in FlVals, n \in 0 .. 2 :
        /\ fltodo = Rest(Programs(UpdateOps(p, id, val), "syscall"), 3, n)
        /\ Updating(flchip.part, p, id, val, n)
        /\ flabused \/ flcmd.state = 0
  BY DEF BySyscall
<1> DEFINE ops == UpdateOps(p, id, val)
           job == Programs(ops, "syscall")
           op == ops[n + 1]
<1>3. DOMAIN ops = 1 .. 3 /\ Len(ops) = 3
  BY OpsOfUpdate
<1>4. \A i \in 0 .. 2 : job[i + 1].by = "syscall" /\ job[i + 1].c = ops[i + 1]
  <2> HIDE DEF ops
  <2> QED
    BY <1>3, CallsOfUpdate
<1>5. Head(fltodo) = job[n + 1] /\ Tail(fltodo) = Rest(job, 3, n + 1)
  <2>1. 3 \in Nat /\ n \in Nat /\ n < 3
    OBVIOUS
  <2> HIDE DEF job
  <2> QED
    BY <1>2, <2>1, RestStep DEF job
<1>6. SyscallProgram(op)
  <2>1. job[n + 1].by = "syscall" /\ job[n + 1].c = op
    BY <1>4
  <2> HIDE DEF job, op
  <2> QED
    BY <1>5, <2>1 DEF GuestStep
<1>7. CmdProgram(op) /\ flcmd' = flcmd /\ flfatal' = ""
  BY <1>1, <1>6 DEF SyscallProgram
<1>8. /\ flchip' = [factory |-> flchip'.factory, part |-> flchip'.part]
      /\ fllast' \in [FlIds -> FlVals \cup {FlNone}] /\ Held(flchip'.part, fllast')
      /\ Updating(flchip'.part, p, id, val, n + 1)
      /\ ~flabused => fllast'[FlSyscfg] # FlNone
  BY <1>1, <1>2, <1>7, ProgramEffect
<1>9. JobInv(fltodo', flchip'.part, flcmd', flabused)
  <2>1. fltodo' = Rest(job, 3, n + 1) /\ (flabused \/ flcmd'.state = 0)
    BY <1>1, <1>2, <1>5, <1>7
  <2>2. CASE n = 2
    <3>1. Rest(job, 3, 3) = <<>> /\ n + 1 = 3
      <4> HIDE DEF job
      <4> QED
        BY <2>2, RestEnds
    <3> QED
      BY <2>1, <3>1 DEF JobInv, Idle
  <2>3. CASE n # 2
    <3>1. n + 1 \in 0 .. 2
      BY <2>3
    <3> QED
      BY <1>8, <2>1, <3>1 DEF JobInv, BySyscall
  <2> QED
    BY <2>2, <2>3
<1>10. FlCmdOK'
  BY <1>7 DEF FlashInv, FlTypes, FlCmdOK
<1> QED
  BY <1>1, <1>7, <1>8, <1>9, <1>10, StepCloses

(* A cycle of an update that the guest gives the chip itself: on a chip    *)
(* that was not left within a command it is the one flash_rom_write        *)
(* expects, and the fourth of each program takes effect.                   *)
LEMMA ChipStepKeeps ==
  ASSUME FlashInv, GuestStep, ByChip(fltodo, flchip.part, flcmd, flabused)
  PROVE  FlashInv'
PROOF
<1>1. /\ flup /\ flfatal = "" /\ flup' = flup /\ flfile' = flfile /\ flabused' = flabused
      /\ fltodo' = Tail(fltodo)
  BY DEF GuestStep, FlRunning
<1>2. PICK p \in UserBlocks, id \in FlIds, val \in FlVals, n \in 0 .. 11 :
        /\ fltodo = Rest(Programs(UpdateOps(p, id, val), "chip"), 12, n)
        /\ Updating(flchip.part, p, id, val, n \div 4)
        /\ flabused \/ (flcmd.state = n % 4 /\ (n % 4 = 3 => flcmd.cmd = "PROGRAM"))
  BY DEF ByChip
<1> DEFINE ops == UpdateOps(p, id, val)
           job == Programs(ops, "chip")
           o == n \div 4
           j == n % 4
           op == ops[o + 1]
           c == Cycles(op)[j + 1]
<1>3. DOMAIN ops = 1 .. 3 /\ Len(ops) = 3
  BY OpsOfUpdate
<1>4. \A i \in 0 .. 11 : job[i + 1].by = "chip" /\ job[i + 1].c = Cycles(ops[(i \div 4) + 1])[(i % 4) + 1]
  <2> HIDE DEF ops
  <2> QED
    BY <1>3, CallsOfUpdate
<1>5. Head(fltodo) = job[n + 1] /\ Tail(fltodo) = Rest(job, 12, n + 1)
  <2>1. 12 \in Nat /\ n \in Nat /\ n < 12
    OBVIOUS
  <2> HIDE DEF job
  <2> QED
    BY <1>2, <2>1, RestStep DEF job
<1>6. RomWrite(c)
  <2>1. job[n + 1].by = "chip" /\ job[n + 1].c = c
    BY <1>4
  <2> HIDE DEF job, c
  <2> QED
    BY <1>5, <2>1 DEF GuestStep
<1>7. /\ o \in 0 .. 2 /\ j \in 0 .. 3 /\ n = 4 * o + j
      /\ j # 3 => (n + 1) \div 4 = o /\ (n + 1) % 4 = j + 1 /\ n + 1 \in 0 .. 11
      /\ j = 3 => (n + 1) \div 4 = o + 1 /\ (n + 1) % 4 = 0
  OBVIOUS
<1>8. fltodo' = Rest(job, 12, n + 1)
  BY <1>1, <1>5
<1>9. /\ FlCmdOK /\ fllast \in [FlIds -> FlVals \cup {FlNone}] /\ Held(flchip.part, fllast)
      /\ flchip = [factory |-> flchip.factory, part |-> flchip.part]
      /\ ~flabused => fllast[FlSyscfg] # FlNone
  BY <1>1 DEF FlashInv, FlTypes, Bootable
<1>10. /\ Updating(flchip.part, p, id, val, o)
       /\ flabused \/ (flcmd.state = j /\ (j = 3 => flcmd.cmd = "PROGRAM"))
  BY <1>2
<1>11. op.t \in Programmed
  <2>1. ops[1].t = "bit" /\ ops[2].t = "data" /\ ops[3].t = "crc"
    BY OpsOfUpdate
  <2>2. o + 1 \in {1, 2, 3}
    BY <1>7
  <2> HIDE DEF ops, o
  <2> QED
    BY <2>1, <2>2 DEF Programmed
<1>12. /\ j = 0 => c.t = "unlock1"
       /\ j = 1 => c.t = "unlock2"
       /\ j = 2 => c.t = "PROGRAM"
       /\ j = 3 => c = op
  <2> HIDE DEF op, j
  <2> QED
    BY CyclesOfProgram
<1> HIDE DEF ops, job, o, j, op, c
<1>13. CASE j # 3
  <2>1. c.t \in {"unlock1", "unlock2", "PROGRAM"} /\ c.t \in Unlocks
    BY <1>7, <1>12, <1>13 DEF Unlocks
  <2>2. /\ FlCmdOK' /\ flchip' = flchip /\ fllast' = fllast
        /\ flfatal' = "cycle" \/ flfatal' = ""
    BY <1>1, <1>6, <1>9, <2>1, CycleEffects DEF Programmed
  <2>3. ~flabused => flfatal' = "" /\ flcmd'.state = j + 1 /\ (j = 2 => flcmd'.cmd = "PROGRAM")
    <3>1. SUFFICES ASSUME ~flabused PROVE flfatal' = "" /\ flcmd'.state = j + 1 /\ (j = 2 => flcmd'.cmd = "PROGRAM")
      OBVIOUS
    <3>2. flcmd.state = j
      BY <1>10, <3>1
    <3>3. CASE j = 0
      <4>1. c.t = "unlock1" /\ flcmd.state = 0
        BY <1>12, <3>2, <3>3
      <4>2. flfatal' = flfatal /\ flcmd'.state = 1
        BY <1>6, <1>9, <4>1, CycleExpected
      <4>3. j + 1 = 1 /\ j # 2
        BY <3>3
      <4> QED
        BY <1>1, <4>2, <4>3
    <3>4. CASE j = 1
      <4>1. c.t = "unlock2" /\ flcmd.state = 1
        BY <1>12, <3>2, <3>4
      <4>2. flfatal' = flfatal /\ flcmd'.state = 2
        BY <1>6, <1>9, <4>1, CycleExpected
      <4>3. j + 1 = 2 /\ j # 2
        BY <3>4
      <4> QED
        BY <1>1, <4>2, <4>3
    <3>5. CASE j = 2
      <4>1. c.t = "PROGRAM" /\ flcmd.state = 2
        BY <1>12, <3>2, <3>5
      <4>2. flfatal' = flfatal /\ flcmd'.state = 3 /\ flcmd'.cmd = "PROGRAM"
        BY <1>6, <1>9, <4>1, CycleExpected
      <4>3. j + 1 = 3
        BY <3>5
      <4> QED
        BY <1>1, <4>2, <4>3
    <3>6. j \in {0, 1, 2}
      BY <1>7, <1>13
    <3> QED
      BY <3>3, <3>4, <3>5, <3>6
  <2>4. JobInv(fltodo', flchip'.part, flcmd', flabused)
    <3>1. /\ n + 1 \in 0 .. 11 /\ (n + 1) \div 4 = o /\ (n + 1) % 4 = j + 1
          /\ j + 1 = 3 => j = 2
      BY <1>7, <1>13
    <3>2. flabused \/ (flcmd'.state = (n + 1) % 4 /\ ((n + 1) % 4 = 3 => flcmd'.cmd = "PROGRAM"))
      BY <2>3, <3>1
    <3>3. Updating(flchip'.part, p, id, val, (n + 1) \div 4)
      BY <1>10, <2>2, <3>1
    <3>4. ByChip(fltodo', flchip'.part, flcmd', flabused)
      BY <1>8, <3>1, <3>2, <3>3 DEF ByChip, job, ops
    <3> QED
      BY <3>4 DEF JobInv
  <2> QED
    BY <1>1, <1>9, <2>2, <2>3, <2>4, StepCloses
<1>14. CASE j = 3
  <2>1. c = op
    BY <1>12, <1>14
  <2>2. CASE flfatal' = "cycle" /\ flchip' = flchip /\ fllast' = fllast
    <3>1. flabused
      <4>1. SUFFICES ASSUME ~flabused PROVE FALSE
        OBVIOUS
      <4>2. flcmd.state = 3 /\ flcmd.cmd = "PROGRAM"
        BY <1>10, <1>14, <4>1
      <4>3. flfatal' = flfatal
        BY <1>6, <1>9, <1>11, <2>1, <4>2, CycleExpected
      <4> QED
        BY <1>1, <2>2, <4>3
    <3>2. FlCmdOK'
      BY <1>6, <1>9, CycleEffects
    <3> QED
      BY <1>1, <1>9, <2>2, <3>1, <3>2, StepCloses
  <2>3. CASE CmdProgram(c) /\ flfatal' = ""
    <3>1. /\ flchip' = [factory |-> flchip'.factory, part |-> flchip'.part]
          /\ fllast' \in [FlIds -> FlVals \cup {FlNone}] /\ Held(flchip'.part, fllast')
          /\ Updating(flchip'.part, p, id, val, o + 1)
          /\ ~flabused => fllast'[FlSyscfg] # FlNone
      BY <1>1, <1>7, <1>10, <2>1, <2>3, ProgramEffect DEF op, ops
    <3>2. FlCmdOK'
      BY <1>6, <1>9, CycleEffects
    <3>3. flabused \/ flcmd'.state = 0
      <4>1. SUFFICES ASSUME ~flabused PROVE flcmd'.state = 0
        OBVIOUS
      <4>2. flcmd.state = 3 /\ flcmd.cmd = "PROGRAM"
        BY <1>10, <1>14, <4>1
      <4> QED
        BY <1>6, <1>9, <1>11, <2>1, <4>2, CycleExpected
    <3>4. JobInv(fltodo', flchip'.part, flcmd', flabused)
      <4>1. CASE o = 2
        <5>1. n + 1 = 12 /\ 12 \in Nat
          BY <1>7, <1>14, <4>1
        <5>2. Rest(job, 12, 12) = <<>>
          BY <5>1, RestEnds
        <5> QED
          BY <1>8, <3>3, <5>1, <5>2 DEF JobInv, Idle
      <4>2. CASE o # 2
        <5>1. n + 1 \in 0 .. 11 /\ (n + 1) \div 4 = o + 1 /\ (n + 1) % 4 = 0
          BY <1>7, <1>14, <4>2
        <5>2. flabused \/ (flcmd'.state = (n + 1) % 4 /\ ((n + 1) % 4 = 3 => flcmd'.cmd = "PROGRAM"))
          BY <3>3, <5>1
        <5>3. Updating(flchip'.part, p, id, val, (n + 1) \div 4)
          BY <3>1, <5>1
        <5>4. ByChip(fltodo', flchip'.part, flcmd', flabused)
          BY <1>8, <5>1, <5>2, <5>3 DEF ByChip, job, ops
        <5> QED
          BY <5>4 DEF JobInv
      <4> QED
        BY <4>1, <4>2
    <3> QED
      BY <1>1, <2>3, <3>1, <3>2, <3>4, StepCloses
  <2>4. c.t \notin Unlocks /\ c.t # "chip" /\ c.t # "sector"
    BY <1>11, <2>1 DEF Programmed, Unlocks
  <2> QED
    BY <1>1, <1>6, <1>9, <2>2, <2>3, <2>4, CycleEffects
<1> QED
  BY <1>13, <1>14


(* Programming a header over what the header may be. *)
LEMMA HeaderHeld ==
  ASSUME NEW part, NEW last, Held(part, last)
  PROVE  Held(FlashProgram(part, HeaderOp), last)
PROOF
<1>1. HeaderOp.t = "header" /\ HeaderOp.p = 0
  BY DEF HeaderOp
<1>2. part[0] \in {Blank, Header}
  BY HeldIs
<1> DEFINE new == FlashProgram(part, HeaderOp)
<1>3. new = Put(part, 0, Header)
  BY <1>1, <1>2, ProgramIs
<1> HIDE DEF new
<1>4. CASE ValidateHeader(part)
  <2>1. PICK m \in 0 .. NumUserBlocks : Laid(part, m)
    BY <1>4, HeldIs
  <2>2. part = [p \in 0 .. FlPhysical - 1 |-> part[p]] /\ part[0] = Header
    BY <2>1 DEF Laid, ValidateHeader
  <2>3. new = part
    BY <1>3, <2>2 DEF Put
  <2> QED
    BY <2>3 DEF new
<1>5. CASE ~ValidateHeader(part)
  <2>1. part = Erased /\ last = NothingWritten
    BY <1>5, HeldIs
  <2>2. Laid(new, 0) /\ \A id : ReadBlock(new, id) = FlNone
    BY <1>3, <2>1, FreshIsLaid
  <2>3. 0 \in 0 .. NumUserBlocks
    BY BlocksOfPartition
  <2>4. \A id \in FlIds : last[id] = FlNone
    BY <2>1 DEF NothingWritten
  <2> QED
    BY <2>2, <2>3, <2>4 DEF Held, LaidOut, new
<1> QED
  BY <1>4, <1>5

(* A cycle of an erasure, or of the header after it, on a chip that may be *)
(* anywhere in a command (flash_rom_write).                                *)
LEMMA EraseStepKeeps ==
  ASSUME FlashInv, GuestStep, Erasing(fltodo, flabused)
  PROVE  FlashInv'
PROOF
<1>1. /\ flup /\ flfatal = "" /\ flup' = flup /\ flfile' = flfile /\ flabused' = flabused
      /\ fltodo' = Tail(fltodo)
  BY DEF GuestStep, FlRunning
<1>2. PICK c \in EraseOps, n \in 0 .. 9 : fltodo = Rest(EraseJob(c), 10, n)
  BY DEF Erasing
<1>3. flabused
  BY DEF Erasing
<1> DEFINE job == EraseJob(c)
           d == job[n + 1].c
<1>4. Head(fltodo) = job[n + 1] /\ Tail(fltodo) = Rest(job, 10, n + 1)
  <2>1. 10 \in Nat /\ n \in Nat /\ n < 10
    OBVIOUS
  <2> HIDE DEF job
  <2> QED
    BY <1>2, <2>1, RestStep DEF job
<1>5. job[n + 1].by = "chip" /\ (d.t \in Unlocks \/ d = c \/ d = HeaderOp)
  <2>1. n + 1 \in 1 .. 10
    OBVIOUS
  <2> QED
    BY <2>1, CallsOfErase
<1>6. RomWrite(d)
  <2> HIDE DEF job
  <2> QED
    BY <1>4, <1>5 DEF GuestStep
<1>7. JobInv(fltodo', flchip'.part, flcmd', flabused)
  <2>1. fltodo' = Rest(job, 10, n + 1)
    BY <1>1, <1>4
  <2>2. CASE n = 9
    <3>1. Rest(job, 10, 10) = <<>> /\ n + 1 = 10
      <4> HIDE DEF job
      <4> QED
        BY <2>2, RestEnds
    <3> QED
      BY <1>3, <2>1, <3>1 DEF JobInv, Idle
  <2>3. CASE n # 9
    <3>1. n + 1 \in 0 .. 9
      BY <2>3
    <3> QED
      BY <1>3, <2>1, <3>1 DEF JobInv, Erasing
  <2> QED
    BY <2>2, <2>3
<1>8. /\ FlCmdOK /\ fllast \in [FlIds -> FlVals \cup {FlNone}] /\ Held(flchip.part, fllast)
      /\ flchip = [factory |-> flchip.factory, part |-> flchip.part]
  BY <1>1 DEF FlashInv, FlTypes
<1>9. NothingWritten \in [FlIds -> FlVals \cup {FlNone}]
  BY DEF NothingWritten
<1>10. c.t \in {"chip", "sector"}
  BY DEF EraseOps
<1>11. HeaderOp.t = "header"
  BY DEF HeaderOp
<1> HIDE DEF job, d
<1>12. FlCmdOK'
  BY <1>6, <1>8, CycleEffects
<1>13. CASE flchip' = flchip /\ fllast' = fllast /\ flfatal' \in {"", "cycle"}
  BY <1>1, <1>3, <1>7, <1>8, <1>12, <1>13, StepCloses
<1>14. CASE CmdProgram(d) /\ flfatal' = "" /\ d.t \in Programmed
  <2>1. d = HeaderOp
    BY <1>5, <1>10, <1>14 DEF Unlocks, Programmed
  <2> DEFINE new == FlashProgram(flchip.part, d)
  <2>2. Held(new, fllast)
    BY <1>8, <2>1, HeaderHeld
  <2>3. fllast' = fllast
    BY <1>11, <1>14, <2>1 DEF CmdProgram, Completes
  <2>4. flchip' = [factory |-> flchip.factory, part |-> new]
    <3>1. flchip' = [flchip EXCEPT !.part = new]
      BY <1>14 DEF CmdProgram
    <3> HIDE DEF new
    <3> QED
      BY <1>8, <3>1
  <2> HIDE DEF new
  <2>5. flchip'.part = new /\ flchip' = [factory |-> flchip'.factory, part |-> flchip'.part]
    BY <2>4
  <2> QED
    BY <1>1, <1>3, <1>7, <1>8, <1>12, <1>14, <2>2, <2>3, <2>5, StepCloses
<1>15. CASE EraseChip /\ flfatal' = ""
  <2>1. /\ flchip'.part = Erased /\ flchip' = [factory |-> flchip'.factory, part |-> flchip'.part]
        /\ fllast' = NothingWritten
    BY <1>15 DEF EraseChip
  <2> QED
    BY <1>1, <1>3, <1>7, <1>9, <1>12, <1>15, <2>1, HeldErased, StepCloses
<1>16. CASE EraseSector(d.s) /\ flfatal' = ""
  <2>1. /\ flchip' = [factory |-> flchip'.factory, part |-> flchip'.part]
        /\ \/ flchip'.part = Erased /\ fllast' = NothingWritten
           \/ flchip'.part = flchip.part /\ fllast' = fllast
    <3>1. CASE d.s = "user"
      <4>1. flchip' = [flchip EXCEPT !.part = Erased] /\ fllast' = NothingWritten
        BY <1>16, <3>1 DEF EraseSector
      <4>2. flchip' = [factory |-> flchip.factory, part |-> Erased]
        BY <1>8, <4>1
      <4> QED
        BY <4>1, <4>2
    <3>2. CASE d.s # "user"
      <4>1. flchip' = [flchip EXCEPT !.factory = "blank"] /\ fllast' = fllast
        BY <1>16, <3>2 DEF EraseSector
      <4>2. flchip' = [factory |-> "blank", part |-> flchip.part]
        BY <1>8, <4>1
      <4> QED
        BY <4>1, <4>2
    <3> QED
      BY <3>1, <3>2
  <2>2. Held(flchip'.part, fllast') /\ fllast' \in [FlIds -> FlVals \cup {FlNone}]
    BY <1>8, <1>9, <2>1, HeldErased
  <2> QED
    BY <1>1, <1>3, <1>7, <1>12, <1>16, <2>1, <2>2, StepCloses
<1> QED
  BY <1>1, <1>6, <1>8, <1>13, <1>14, <1>15, <1>16, CycleEffects

(* A call of the guest's library belongs to one of the three jobs. *)
LEMMA GuestStepKeeps ==
  ASSUME FlashInv, GuestStep
  PROVE  FlashInv'
PROOF
<1>1. JobInv(fltodo, flchip.part, flcmd, flabused) /\ fltodo # <<>>
  BY DEF FlashInv, GuestStep, FlRunning
<1> QED
  BY <1>1, SyscallStepKeeps, ChipStepKeeps, EraseStepKeeps DEF JobInv, Idle


(* bios_validate_flash: the partition that was held in the file, or a      *)
(* fresh one.                                                              *)
LEMMA ValidIsLaid ==
  ASSUME FlashInv, NEW loaded, loaded = (IF flfile.ok THEN flfile.chip ELSE ZeroChip),
         NEW part, part = ValidateFlash(loaded).part, NEW kept,
         kept = (IF flfile.ok /\ ValidateHeader(loaded.part) THEN flfile.last ELSE NothingWritten)
  PROVE  /\ \E m \in 0 .. NumUserBlocks :
              /\ Laid(part, m)
              /\ m = NumUserBlocks => kept = flfile.last /\ flfile.ok
         /\ \A id \in FlIds : ReadBlock(part, id) = kept[id]
         /\ kept \in [FlIds -> FlVals \cup {FlNone}]
PROOF
<1>1. part = (IF ValidateHeader(loaded.part) THEN loaded.part ELSE Put(Erased, 0, Header))
  BY DEF ValidateFlash, Put
<1>2. flfile.ok \in BOOLEAN
  BY DEF FlashInv, FlTypes
<1>3. CASE flfile.ok /\ ValidateHeader(loaded.part)
  <2>1. part = flfile.chip.part /\ kept = flfile.last /\ ValidateHeader(part)
    BY <1>1, <1>3
  <2>2. Held(part, kept) /\ kept \in [FlIds -> FlVals \cup {FlNone}]
    BY <1>3, <2>1 DEF FlashInv
  <2> QED
    BY <1>3, <2>1, <2>2, HeldIs
<1>4. CASE ~(flfile.ok /\ ValidateHeader(loaded.part))
  <2>1. ~ValidateHeader(loaded.part)
    <3>1. ~ValidateHeader(ZeroChip.part)
      <4>1. ZeroChip.part[0] = Zero
        BY BlocksOfPartition DEF ZeroChip
      <4>2. Zero.k # Header.k
        BY DEF Zero, Header
      <4> QED
        BY <4>1, <4>2 DEF ValidateHeader
    <3> QED
      BY <1>4, <3>1
  <2>2. part = Put(Erased, 0, Header) /\ kept = NothingWritten
    BY <1>1, <1>4, <2>1
  <2>3. Laid(part, 0) /\ \A id : ReadBlock(part, id) = FlNone
    BY <2>2, FreshIsLaid
  <2>4. 0 \in 0 .. NumUserBlocks /\ 0 # NumUserBlocks
    BY BlocksOfPartition
  <2>5. \A id \in FlIds : kept[id] = FlNone
    BY <2>2 DEF NothingWritten
  <2>6. kept \in [FlIds -> FlVals \cup {FlNone}]
    BY <2>2 DEF NothingWritten
  <2> QED
    BY <2>3, <2>4, <2>5, <2>6
<1> QED
  BY <1>3, <1>4

(* The process starts: the chip is loaded and repaired, and the settings   *)
(* are forced into it.  There is room for them unless a guest took it all  *)
(* and left no settings (bios_override_settings).                          *)
LEMMA FlStartKeeps ==
  ASSUME FlashInv, NEW v \in FlVals, FlStart(v)
  PROVE  FlashInv'
PROOF
<1> DEFINE loaded == IF flfile.ok THEN flfile.chip ELSE ZeroChip
           valid == ValidateFlash(loaded)
           kept == IF flfile.ok /\ ValidateHeader(loaded.part) THEN flfile.last ELSE NothingWritten
           w == WriteBlock(valid.part, FlSyscfg, v)
<1>1. /\ ~flup /\ flup' = TRUE /\ flchip' = [valid EXCEPT !.part = w.part]
      /\ fllast' = IF w.fatal = "" THEN [kept EXCEPT ![FlSyscfg] = v] ELSE kept
      /\ flcmd' = [cmd |-> "", state |-> 0] /\ flfatal' = w.fatal /\ fltodo' = <<>>
      /\ flfile' = flfile /\ flabused' = flabused
  BY DEF FlStart
<1>2. FlSyscfg \in FlIds /\ v # FlNone
  BY FlAssumption
<1>3. PICK m \in 0 .. NumUserBlocks :
        Laid(valid.part, m) /\ (m = NumUserBlocks => kept = flfile.last /\ flfile.ok)
  BY ValidIsLaid
<1>4. /\ \A id \in FlIds : ReadBlock(valid.part, id) = kept[id]
      /\ kept \in [FlIds -> FlVals \cup {FlNone}]
  BY ValidIsLaid
<1>5. flchip' = [factory |-> "set", part |-> w.part]
  <2> DEFINE part == valid.part
  <2>1. valid = [factory |-> "set", part |-> part]
    BY DEF ValidateFlash
  <2> HIDE DEF valid, w, part
  <2> QED
    BY <1>1, <2>1
<1>6. flchip'.part = w.part /\ flchip' = [factory |-> flchip'.factory, part |-> flchip'.part]
  <2> HIDE DEF w
  <2> QED
    BY <1>5
<1>7. FlCmdOK' /\ flcmd'.state = 0
  BY <1>1 DEF FlCmdOK
<1>8. JobInv(fltodo', flchip'.part, flcmd', flabused')
  BY <1>1, <1>7 DEF JobInv, Idle
<1>9. \/ /\ w.fatal = "" /\ LaidOut(w.part)
         /\ ReadBlock(w.part, FlSyscfg) = v
         /\ \A i : i # FlSyscfg => ReadBlock(w.part, i) = ReadBlock(valid.part, i)
      \/ NoRoom(valid.part, m, FlSyscfg, w)
  <2> DEFINE part == valid.part
  <2>1. w = WriteBlock(part, FlSyscfg, v)
    OBVIOUS
  <2>2. Laid(part, m)
    BY <1>3
  <2> HIDE DEF part, w
  <2>3. \/ /\ w.fatal = "" /\ LaidOut(w.part)
           /\ ReadBlock(w.part, FlSyscfg) = v
           /\ \A i : i # FlSyscfg => ReadBlock(w.part, i) = ReadBlock(part, i)
        \/ NoRoom(part, m, FlSyscfg, w)
    BY <2>1, <2>2, WriteIsRead
  <2> QED
    BY <2>3 DEF part
<1> HIDE DEF loaded, valid, kept, w
<1>10. CASE /\ w.fatal = "" /\ LaidOut(w.part)
            /\ ReadBlock(w.part, FlSyscfg) = v
            /\ \A i : i # FlSyscfg => ReadBlock(w.part, i) = ReadBlock(valid.part, i)
  <2>1. fllast' = [kept EXCEPT ![FlSyscfg] = v]
    BY <1>1, <1>10
  <2>2. /\ fllast' \in [FlIds -> FlVals \cup {FlNone}] /\ fllast'[FlSyscfg] = v
        /\ \A i \in FlIds : i # FlSyscfg => fllast'[i] = kept[i]
    BY <1>2, <1>4, <2>1
  <2>3. Held(flchip'.part, fllast')
    BY <1>4, <1>6, <1>10, <2>2 DEF Held, LaidOut
  <2>4. FlTypes'
    BY <1>1, <1>6, <1>7, <2>2 DEF FlashInv, FlTypes
  <2>5. ~flabused' => Bootable'
    BY <1>1, <1>2, <1>10, <2>2 DEF FlashInv, Bootable
  <2> QED
    BY <1>1, <1>8, <2>3, <2>4, <2>5 DEF FlashInv
<1>11. CASE NoRoom(valid.part, m, FlSyscfg, w)
  <2>1. fllast' = kept /\ flfatal' = "full"
    BY <1>1, <1>11 DEF NoRoom
  <2>2. Held(flchip'.part, fllast')
    BY <1>3, <1>4, <1>6, <1>11, <2>1 DEF Held, LaidOut, NoRoom
  <2>3. FlTypes'
    BY <1>1, <1>4, <1>6, <1>7, <2>1 DEF FlashInv, FlTypes
  <2>4. flabused
    <3>1. ReadBlock(valid.part, FlSyscfg) = FlNone
      BY <1>11 DEF ReadBlock, NoRoom
    <3>2. flfile.ok /\ flfile.last[FlSyscfg] = FlNone
      BY <1>2, <1>3, <1>4, <1>11, <3>1 DEF NoRoom
    <3> QED
      BY <3>2 DEF FlashInv, Bootable
  <2> QED
    BY <1>1, <2>1, <2>2, <2>3, <2>4 DEF FlashInv
<1> QED
  BY <1>9, <1>10, <1>11

(* A game is loaded, and finds settings unless a guest erased them or was  *)
(* stopped within a command (bios_boot).                                   *)
LEMMA LoadKeeps ==
  ASSUME FlashInv, FlLoad
  PROVE  FlashInv'
PROOF
<1>1. /\ flup /\ flfatal = "" /\ fltodo' = <<>> /\ flabused' = (flabused \/ flcmd.state # 0)
      /\ flchip' = flchip /\ flcmd' = flcmd /\ flfile' = flfile /\ flup' = flup /\ fllast' = fllast
      /\ flfatal' = IF ReadBlock(flchip.part, FlSyscfg) = FlNone THEN "syscfg" ELSE ""
  BY DEF FlLoad, FlRunning
<1>2. FlTypes'
  BY <1>1 DEF FlashInv, FlTypes, FlCmdOK
<1>3. JobInv(fltodo', flchip'.part, flcmd', flabused')
  BY <1>1 DEF JobInv, Idle
<1>4. ~flabused' => Bootable'
  <2>1. SUFFICES ASSUME ~flabused' PROVE Bootable'
    OBVIOUS
  <2>2. Bootable
    BY <1>1, <2>1 DEF FlashInv
  <2>3. ReadBlock(flchip.part, FlSyscfg) = fllast[FlSyscfg]
    BY <1>1, HeldIs, FlAssumption DEF FlashInv
  <2> QED
    BY <1>1, <2>2, <2>3 DEF Bootable
<1> QED
  BY <1>1, <1>2, <1>3, <1>4 DEF FlashInv

(* The end of the process, with what it leaves in the file. *)
LEMMA EndedKeeps ==
  ASSUME FlashInv, flup, Ended, flabused' = flabused, flfile'.ok \in BOOLEAN,
         flfile'.ok => /\ Held(flfile'.chip.part, flfile'.last)
                       /\ flfile'.last \in [FlIds -> FlVals \cup {FlNone}]
                       /\ ~flabused => flfile'.last[FlSyscfg] # FlNone
  PROVE  FlashInv'
PROOF
<1>1. /\ flup' = FALSE /\ flchip' = ZeroChip /\ flcmd' = [cmd |-> "", state |-> 0]
      /\ fllast' = NothingWritten /\ flfatal' = ""
  BY DEF Ended
<1>2. ZeroChip = [factory |-> ZeroChip.factory, part |-> ZeroChip.part]
  BY DEF ZeroChip
<1>3. FlCmdOK'
  BY <1>1 DEF FlCmdOK
<1>4. FlTypes'
  BY <1>1, <1>2, <1>3 DEF FlashInv, FlTypes, NothingWritten
<1>5. ~flabused' => Bootable'
  BY <1>1 DEF Bootable
<1> QED
  BY <1>1, <1>4, <1>5 DEF FlashInv

(* The process ends and saves the chip, or loses the file (flash_destroy). *)
LEMMA QuitKeeps ==
  ASSUME FlashInv, FlQuit
  PROVE  FlashInv'
PROOF
<1> DEFINE saved == [ok |-> TRUE, chip |-> flchip, last |-> fllast]
<1>1. /\ flup /\ Ended /\ flabused' = flabused /\ flfile' \in {saved, NoFile}
  BY DEF FlQuit, FlRunning
<1>2. NoFile.ok = FALSE
  BY DEF NoFile
<1>3. saved.ok = TRUE /\ saved.chip = flchip /\ saved.last = fllast
  OBVIOUS
<1>4. /\ Held(flchip.part, fllast) /\ fllast \in [FlIds -> FlVals \cup {FlNone}]
      /\ ~flabused => fllast[FlSyscfg] # FlNone
  BY <1>1 DEF FlashInv, FlTypes, Bootable
<1> HIDE DEF saved
<1>5. CASE flfile' = saved
  BY <1>1, <1>3, <1>4, <1>5, EndedKeeps
<1>6. CASE flfile' = NoFile
  BY <1>1, <1>2, <1>6, EndedKeeps
<1> QED
  BY <1>1, <1>5, <1>6

(* The process dies, and leaves the file as it was. *)
LEMMA CrashKeeps ==
  ASSUME FlashInv, FlCrash
  PROVE  FlashInv'
PROOF
<1>1. flup /\ Ended /\ flabused' = flabused /\ flfile' = flfile
  BY DEF FlCrash
<1>2. /\ flfile.ok \in BOOLEAN
      /\ flfile.ok => /\ Held(flfile.chip.part, flfile.last)
                      /\ flfile.last \in [FlIds -> FlVals \cup {FlNone}]
                      /\ ~flabused => flfile.last[FlSyscfg] # FlNone
  BY DEF FlashInv, FlTypes, Bootable
<1> QED
  BY <1>1, <1>2, EndedKeeps


(* Without a job the chip is not within a command, unless it was left there. *)
LEMMA IdleIs ==
  ASSUME NEW todo, todo = <<>>, NEW part, NEW cmd, NEW abused, JobInv(todo, part, cmd, abused)
  PROVE  abused \/ cmd.state = 0
PROOF
<1>1. \A job : (\A n \in 0 .. 2 : Rest(job, 3, n) # <<>>) /\ (\A n \in 0 .. 11 : Rest(job, 12, n) # <<>>)
  <2>1. /\ \A n \in 0 .. 2 : n \in Nat /\ n < 3
        /\ \A n \in 0 .. 11 : n \in Nat /\ n < 12
        /\ 3 \in Nat /\ 12 \in Nat
    OBVIOUS
  <2> QED
    BY <2>1, RestStep
<1>2. ~BySyscall(todo, part, cmd, abused)
  BY <1>1 DEF BySyscall
<1>3. ~ByChip(todo, part, cmd, abused)
  BY <1>1 DEF ByChip
<1> QED
  BY <1>2, <1>3 DEF JobInv, Idle, Erasing

(* What is left to show of a call that leaves the partition alone. *)
LEMMA CallCloses ==
  ASSUME FlashInv, flup, flfatal = "", flup' = flup, flfile' = flfile, flcmd' = flcmd, fllast' = fllast,
         flchip' = [factory |-> flchip'.factory, part |-> flchip.part],
         flabused' \in BOOLEAN, flabused => flabused',
         \/ flfatal' = "" /\ JobInv(fltodo', flchip.part, flcmd, flabused')
         \/ flfatal' = "hangs"
         \/ flfatal' = "cycle" /\ flabused'
  PROVE  FlashInv'
PROOF
<1>1. flchip'.part = flchip.part /\ flchip' = [factory |-> flchip'.factory, part |-> flchip'.part]
  <2> DEFINE f == flchip'.factory
             part == flchip.part
  <2>1. flchip' = [factory |-> f, part |-> part]
    OBVIOUS
  <2> HIDE DEF f, part
  <2>2. flchip'.part = part
    BY <2>1
  <2> QED
    BY <2>2 DEF part
<1>2. FlTypes'
  BY <1>1 DEF FlashInv, FlTypes, FlCmdOK
<1>3. flfatal' = "" => JobInv(fltodo', flchip'.part, flcmd', flabused')
  BY <1>1
<1>4. ~flabused' => Bootable'
  BY DEF FlashInv, Bootable
<1> QED
  BY <1>1, <1>2, <1>3, <1>4 DEF FlashInv

(* A job is begun. *)
LEMMA BeginIs ==
  ASSUME FlashInv, NEW items, FlBegin(items)
  PROVE  /\ flup /\ flfatal = "" /\ flup' = flup /\ flfile' = flfile /\ flcmd' = flcmd /\ fllast' = fllast
         /\ flchip' = [factory |-> flchip'.factory, part |-> flchip.part] /\ flfatal' = ""
         /\ fltodo' = items /\ (flabused \/ flcmd.state = 0)
PROOF
<1>1. /\ flup /\ flfatal = "" /\ flup' = flup /\ flfile' = flfile /\ flcmd' = flcmd /\ fllast' = fllast
      /\ flchip' = flchip /\ flfatal' = flfatal /\ fltodo' = items /\ fltodo = <<>>
  BY DEF FlBegin, FlRunning
<1>2. JobInv(fltodo, flchip.part, flcmd, flabused) /\ flchip = [factory |-> flchip.factory, part |-> flchip.part]
  BY <1>1 DEF FlashInv, FlTypes
<1>3. flchip' = [factory |-> flchip'.factory, part |-> flchip.part]
  BY <1>1, <1>2
<1>4. flabused \/ flcmd.state = 0
  <2>1. fltodo = <<>> /\ JobInv(fltodo, flchip.part, flcmd, flabused)
    BY <1>1, <1>2
  <2> QED
    BY <2>1, IdleIs
<1> QED
  BY <1>1, <1>3, <1>4

(* An update starts at the first free block, behind all that are taken. *)
LEMMA GuestUpdateKeeps ==
  ASSUME FlashInv, NEW id \in FlIds, NEW val \in FlVals, NEW by \in {"syscall", "chip"}, GuestUpdate(id, val, by)
  PROVE  FlashInv'
PROOF
<1> DEFINE free == {p \in UserBlocks : ~IsAllocated(flchip.part[LookupBitmap(p)], p)}
           p == Min(free)
           ops == UpdateOps(p, id, val)
           job == Programs(ops, by)
<1>1. ValidateHeader(flchip.part) /\ free # {} /\ FlBegin(job) /\ flabused' = flabused
  BY DEF GuestUpdate
<1> HIDE DEF free
<1>2. /\ flup /\ flfatal = "" /\ flup' = flup /\ flfile' = flfile /\ flcmd' = flcmd /\ fllast' = fllast
      /\ flchip' = [factory |-> flchip'.factory, part |-> flchip.part] /\ flfatal' = ""
      /\ fltodo' = job /\ (flabused \/ flcmd.state = 0)
  <2> HIDE DEF job
  <2> QED
    BY <1>1, BeginIs
<1>3. PICK m \in 0 .. NumUserBlocks : Laid(flchip.part, m)
  BY <1>1, <1>2, HeldIs DEF FlashInv
<1>4. p = m + 1 /\ p \in UserBlocks
  BY <1>1, <1>3, FirstFree DEF free
<1>5. Updating(flchip.part, p, id, val, 0)
  <2>1. p - 1 = m
    BY <1>4
  <2> HIDE DEF p
  <2> QED
    BY <1>3, <2>1 DEF Updating
<1>6. DOMAIN ops = 1 .. 3 /\ Len(ops) = 3
  BY OpsOfUpdate
<1>7. JobInv(fltodo', flchip.part, flcmd, flabused)
  <2>1. CASE by = "syscall"
    <3>1. job = Rest(job, 3, 0)
      <4>1. job = [i \in 1 .. 3 |-> job[i]]
        <5> HIDE DEF ops
        <5> QED
          BY <1>6, <2>1, CallsOfUpdate
      <4> HIDE DEF job
      <4> QED
        BY <4>1, RestEnds
    <3>2. 0 \in 0 .. 2
      OBVIOUS
    <3> HIDE DEF p
    <3>3. BySyscall(fltodo', flchip.part, flcmd, flabused)
      BY <1>2, <1>4, <1>5, <2>1, <3>1, <3>2 DEF BySyscall
    <3> QED
      BY <3>3 DEF JobInv
  <2>2. CASE by = "chip"
    <3>1. job = Rest(job, 12, 0)
      <4>1. job = [i \in 1 .. 12 |-> job[i]]
        <5> HIDE DEF ops
        <5> QED
          BY <1>6, <2>2, CallsOfUpdate
      <4> HIDE DEF job
      <4> QED
        BY <4>1, RestEnds
    <3>2. 0 \in 0 .. 11 /\ 0 \div 4 = 0 /\ 0 % 4 = 0 /\ 0 # 3
      OBVIOUS
    <3> HIDE DEF p
    <3>3. ByChip(fltodo', flchip.part, flcmd, flabused)
      BY <1>2, <1>4, <1>5, <2>2, <3>1, <3>2 DEF ByChip
    <3> QED
      BY <3>3 DEF JobInv
  <2> QED
    BY <2>1, <2>2
<1> HIDE DEF job
<1>8. flabused \in BOOLEAN
  BY DEF FlashInv, FlTypes
<1> QED
  BY <1>1, <1>2, <1>7, <1>8, CallCloses

(* An erasure starts. *)
LEMMA GuestEraseKeeps ==
  ASSUME FlashInv, NEW c \in EraseOps, GuestErase(c)
  PROVE  FlashInv'
PROOF
<1> DEFINE job == EraseJob(c)
<1>1. FlBegin(job) /\ flabused' = TRUE
  BY DEF GuestErase
<1>2. job = [i \in 1 .. 10 |-> job[i]]
  BY CallsOfErase
<1> HIDE DEF job
<1>3. /\ flup /\ flfatal = "" /\ flup' = flup /\ flfile' = flfile /\ flcmd' = flcmd /\ fllast' = fllast
      /\ flchip' = [factory |-> flchip'.factory, part |-> flchip.part] /\ flfatal' = "" /\ fltodo' = job
  BY <1>1, BeginIs
<1>4. job = Rest(job, 10, 0)
  BY <1>2, RestEnds
<1>5. 0 \in 0 .. 9
  OBVIOUS
<1>6. Erasing(fltodo', TRUE)
  BY <1>3, <1>4, <1>5 DEF Erasing, job
<1>7. JobInv(fltodo', flchip.part, flcmd, flabused')
  BY <1>1, <1>6 DEF JobInv
<1> QED
  BY <1>1, <1>3, <1>7, CallCloses

(* FLASHROM_ERASE erases the factory partition, or hangs. *)
LEMMA SyscallEraseKeeps ==
  ASSUME FlashInv, NEW first \in BOOLEAN, SyscallErase(first)
  PROVE  FlashInv'
PROOF
<1>1. /\ flup /\ flfatal = "" /\ flcmd' = flcmd /\ flfile' = flfile /\ flup' = flup
      /\ fltodo' = fltodo /\ flabused' = flabused
      /\ \/ EraseSector("factory") /\ flfatal' = flfatal
         \/ flfatal' = "hangs" /\ flchip' = flchip /\ fllast' = fllast
  BY DEF SyscallErase, FlRunning
<1>2. /\ JobInv(fltodo, flchip.part, flcmd, flabused) /\ flabused \in BOOLEAN
      /\ flchip = [factory |-> flchip.factory, part |-> flchip.part]
  BY <1>1 DEF FlashInv, FlTypes
<1>3. CASE EraseSector("factory") /\ flfatal' = flfatal
  <2>1. flchip' = [flchip EXCEPT !.factory = "blank"] /\ fllast' = fllast
    BY <1>3 DEF EraseSector
  <2>2. flchip' = [factory |-> "blank", part |-> flchip.part]
    BY <1>2, <2>1
  <2>3. flchip' = [factory |-> flchip'.factory, part |-> flchip.part]
    BY <2>2
  <2> QED
    BY <1>1, <1>2, <1>3, <2>1, <2>3, CallCloses
<1>4. CASE flfatal' = "hangs" /\ flchip' = flchip /\ fllast' = fllast
  <2>1. flchip' = [factory |-> flchip'.factory, part |-> flchip.part]
    BY <1>2, <1>4
  <2> QED
    BY <1>1, <1>2, <1>4, <2>1, CallCloses
<1> QED
  BY <1>1, <1>3, <1>4

(* A read of the chip within a command, which only an abused chip is in. *)
LEMMA GuestReadKeeps ==
  ASSUME FlashInv, GuestRead
  PROVE  FlashInv'
PROOF
<1>1. /\ flup /\ flfatal = "" /\ fltodo = <<>> /\ flcmd.state # 0 /\ flfatal' = "cycle"
      /\ flchip' = flchip /\ flcmd' = flcmd /\ flfile' = flfile /\ flup' = flup /\ fltodo' = fltodo
      /\ fllast' = fllast /\ flabused' = flabused
  BY DEF GuestRead, FlRunning
<1>2. /\ JobInv(fltodo, flchip.part, flcmd, flabused) /\ flabused \in BOOLEAN
      /\ flchip = [factory |-> flchip.factory, part |-> flchip.part]
  BY <1>1 DEF FlashInv, FlTypes
<1>3. flabused
  BY <1>1, <1>2, IdleIs
<1>4. flchip' = [factory |-> flchip'.factory, part |-> flchip.part]
  BY <1>1, <1>2
<1> QED
  BY <1>1, <1>2, <1>3, <1>4, CallCloses

(* The invariant holds before the first start. *)
LEMMA FlashStarts ==
  ASSUME FlInit
  PROVE  FlashInv
PROOF
<1>1. NoFile.ok = FALSE /\ ZeroChip = [factory |-> ZeroChip.factory, part |-> ZeroChip.part]
  BY DEF NoFile, ZeroChip
<1>2. FlCmdOK
  BY DEF FlInit, FlCmdOK
<1>3. flup = FALSE /\ flfatal = "" /\ flabused = FALSE /\ flfile.ok = FALSE
  BY <1>1 DEF FlInit
<1>4. FlTypes
  BY <1>1, <1>2, <1>3 DEF FlInit, FlTypes, NothingWritten
<1>5. Bootable
  BY <1>3 DEF Bootable
<1> QED
  BY <1>3, <1>4, <1>5 DEF FlashInv

(* Every step keeps it. *)
LEMMA FlashStep ==
  ASSUME FlashInv, [FlNext]_flvars
  PROVE  FlashInv'
PROOF
<1>1. CASE UNCHANGED flvars
  <2>1. /\ flchip' = flchip /\ flcmd' = flcmd /\ flfile' = flfile /\ flup' = flup /\ fltodo' = fltodo
        /\ fllast' = fllast /\ flabused' = flabused /\ flfatal' = flfatal
    BY <1>1 DEF flvars
  <2>2. FlTypes' /\ (Bootable => Bootable')
    BY <2>1 DEF FlashInv, FlTypes, FlCmdOK, Bootable
  <2> QED
    BY <2>1, <2>2 DEF FlashInv
<1>2. ASSUME NEW v \in FlVals, FlStart(v) PROVE FlashInv'
  BY <1>2, FlStartKeeps
<1>3. CASE FlLoad
  BY <1>3, LoadKeeps
<1>4. CASE FlQuit
  BY <1>4, QuitKeeps
<1>5. CASE FlCrash
  BY <1>5, CrashKeeps
<1>6. ASSUME NEW id \in FlIds, NEW val \in FlVals, NEW by \in {"syscall", "chip"}, GuestUpdate(id, val, by)
      PROVE  FlashInv'
  BY <1>6, GuestUpdateKeeps
<1>7. ASSUME NEW c \in EraseOps, GuestErase(c) PROVE FlashInv'
  BY <1>7, GuestEraseKeeps
<1>8. ASSUME NEW first \in BOOLEAN, SyscallErase(first) PROVE FlashInv'
  BY <1>8, SyscallEraseKeeps
<1>9. CASE GuestStep
  BY <1>9, GuestStepKeeps
<1>10. CASE GuestRead
  BY <1>10, GuestReadKeeps
<1> QED
  BY <1>1, <1>2, <1>3, <1>4, <1>5, <1>6, <1>7, <1>8, <1>9, <1>10 DEF FlNext

(* Every logical block reads as its last completed update, whatever updates,   *)
(* torn programs, erasures, crashes and restarts lie in between, and the       *)
(* emulator starts and boots from whatever it left in flash.bin unless a guest *)
(* erased the flash or was stopped within a chip command (flash_alloc_block,   *)
(* flash_lookup_block, flash_rom_write, bios_override_settings).               *)
THEOREM FlashHolds == FlSpec => []FlashKept
PROOF
<1>1. FlashInv => FlashKept
  <2>1. ASSUME FlashInv PROVE FlashReadsLast
    BY <2>1, HeldIs DEF FlashInv, FlashReadsLast
  <2>2. ASSUME FlashInv PROVE FlashBoots
    BY <2>2 DEF FlashInv, FlTypes, Bootable, FlashBoots
  <2> QED
    BY <2>1, <2>2 DEF FlashKept
<1> QED
  BY <1>1, FlashStarts, FlashStep, PTL DEF FlSpec

=============================================================================
