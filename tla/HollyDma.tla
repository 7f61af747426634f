------------------------------ MODULE HollyDma ------------------------------
(* Two of Holly's DMA engines (guest/holly/holly.c) and the channel of the *)
(* SH4's DMA controller (guest/sh4/sh4_dmac.c) that one of them uses.      *)
(*                                                                         *)
(* A G2 channel moves a block of memory in chunks, one when it is started  *)
(* and the others from a timer that the scheduler fires later; meanwhile   *)
(* the guest may write all registers of the channel.  A channel 2 transfer *)
(* is over when the write that starts it returns.                          *)
(*                                                                         *)
(* Memory is counted in units of a chunk's fraction; a cell of a channel's *)
(* destination holds the source address it was copied from.                *)
EXTENDS Integers, Sequences

CONSTANTS
  G2Channels,  \* channels 0 to 3
  G2Chunk,     \* chunk_size
  G2Jobs,      \* what the guest programs: [stag, star, len, last]
  G2Cells,     \* addresses of a channel's destination
  G2Pokes,     \* the guest may write SB_ADST while it reads as 1
  C2Counts,    \* values of DMATCR2, and of SB_C2DLEN in the same unit
  C2Differs,   \* the guest starts channel 2 with another count than SB_C2DLEN
  DmMaxStarts  \* bound on the transfers started

ASSUME DmAssumption ==
  /\ G2Chunk \in Nat \ {0} /\ G2Cells \subseteq Int
  /\ G2Jobs \subseteq [stag : Int, star : Int, len : Nat, last : BOOLEAN]
  /\ G2Pokes \in BOOLEAN /\ C2Differs \in BOOLEAN /\ C2Counts \subseteq Nat /\ DmMaxStarts \in Nat

VARIABLES
  g2,         \* registers and struct holly_g2_dma of each channel
  g2timers,   \* how many timers each channel has with the scheduler
  g2mem,      \* destination memory of each channel
  g2job,      \* history: the transfer started last, and how many there were
  c2,         \* SAR2, DMATCR2, CHCR2 and, of Holly, SB_C2DLEN
  c2fifo,     \* what channel 2 has moved
  c2job,      \* history: what Holly was asked to move, and in how many starts
  dmist,      \* SB_ISTNRM and DMTE2
  dmcalls,    \* history: the calls of holly_raise_interrupt and of DMTE2's
  dmacks,     \* history: those before the guest last cleared the interrupt
  dmstarts
dmvars == <<g2, g2timers, g2mem, g2job, c2, c2fifo, c2job, dmist, dmcalls, dmacks, dmstarts>>

G2Int(ch) == <<"g2", ch>>
C2Int == <<"dtde", 2>>
TeInt == <<"dmte", 2>>
DmInts == {G2Int(ch) : ch \in G2Channels} \cup {C2Int, TeInt}

(* holly_raise_interrupt and sh4_raise_interrupt.                          *)
Raise(ints) ==
  /\ dmist' = dmist \cup ints
  /\ dmcalls' = [x \in DmInts |-> dmcalls[x] + (IF x \in ints THEN 1 ELSE 0)]
  /\ UNCHANGED dmacks

----------------------------------------------------------------------------
(* G2                                                                      *)

(* Mutant: the end of a transfer leaves SB_ADST as it is.                  *)
G2EndBusy(d) == [d EXCEPT !.en = d.restart]

(* SB_EN becomes the restart bit of the length, SB_ST 0.                   *)
G2End(d) == [d EXCEPT !.en = d.restart, !.st = FALSE]

(* holly_g2_dma_timer_channel: one chunk, then the interrupt or the timer. *)
(* fired says whether a timer has been used up.                            *)
G2Step(ch, d, fired) ==
  LET n == IF d.rem < G2Chunk THEN d.rem ELSE G2Chunk
      moved == [d EXCEPT !.dst = @ + n, !.src = @ + n, !.rem = @ - n]
      over == moved.rem = 0
  IN  /\ g2mem' = [g2mem EXCEPT ![ch] =
                     [a \in G2Cells |-> IF a \in d.dst .. d.dst + n - 1 THEN d.src + (a - d.dst) ELSE @[a]]]
      /\ g2' = [g2 EXCEPT ![ch] = IF over THEN G2End(moved) ELSE moved]
      /\ g2timers' = [g2timers EXCEPT ![ch] = @ - (IF fired THEN 1 ELSE 0) + (IF over THEN 0 ELSE 1)]
      /\ Raise(IF over THEN {G2Int(ch)} ELSE {})

(* holly_g2_dma latches the registers.                                     *)
G2Latch(d) == [d EXCEPT !.dst = d.stag, !.src = d.star, !.rem = d.len, !.restart = ~d.last]

(* A write of v to SB_ADST: it is or-ed, so that 0 starts a channel that   *)
(* is running already.                                                     *)
WriteADST(ch, v) ==
  LET d == [g2[ch] EXCEPT !.st = @ \/ v]
  IN  /\ G2Pokes \/ (v /\ ~g2[ch].st)
      /\ d.st /\ dmstarts > 0
      /\ dmstarts' = dmstarts - 1
      /\ IF ~d.en
         THEN /\ g2' = [g2 EXCEPT ![ch] = [d EXCEPT !.st = FALSE]]
              /\ UNCHANGED <<g2timers, g2mem, g2job, dmist, dmcalls, dmacks>>
         ELSE /\ G2Step(ch, G2Latch(d), FALSE)
              /\ g2job' = [g2job EXCEPT ![ch] =
                   [stag |-> d.stag, star |-> d.star, len |-> d.len, before |-> g2mem[ch],
                    starts |-> @.starts + 1]]
      /\ UNCHANGED <<c2, c2fifo, c2job>>

G2Timer(ch) ==
  /\ g2timers[ch] > 0
  /\ G2Step(ch, g2[ch], TRUE)
  /\ UNCHANGED <<g2job, c2, c2fifo, c2job, dmstarts>>

(* SB_ADSTAG, SB_ADSTAR, SB_ADLEN and SB_ADEN have no handler: at any time *)
(* the guest may write them.                                               *)
WriteG2(ch, j, en) ==
  /\ g2' = [g2 EXCEPT ![ch] = [@ EXCEPT !.stag = j.stag, !.star = j.star, !.len = j.len, !.last = j.last, !.en = en]]
  /\ UNCHANGED <<g2timers, g2mem, g2job, c2, c2fifo, c2job, dmist, dmcalls, dmacks, dmstarts>>

----------------------------------------------------------------------------
(* Channel 2                                                               *)

(* What channel 2 shares with no G2 channel and no interrupt.              *)
C2Written == UNCHANGED <<g2, g2timers, g2mem, g2job, c2fifo, dmist, dmcalls, dmacks, dmstarts>>

WriteSAR2(a) ==
  /\ c2' = [c2 EXCEPT !.sar = a]
  /\ c2job' = [c2job EXCEPT !.next = a]
  /\ C2Written

(* DMATCR2 and CHCR2, with DDT set, which sh4_dmac_check asks for.         *)
WriteC2(count, ie) ==
  /\ c2' = [c2 EXCEPT !.tcr = count, !.ie = ie]
  /\ UNCHANGED c2job /\ C2Written

(* Holly's own register of the length.                                     *)
WriteC2DLEN(len) ==
  /\ c2' = [c2 EXCEPT !.c2dlen = len]
  /\ UNCHANGED c2job /\ C2Written

(* Mutant: SAR2 stays where it is.                                         *)
DmacDdtStays ==
  /\ c2fifo' = c2fifo \o [i \in 1 .. c2.tcr |-> c2.sar + i - 1]
  /\ c2' = [c2 EXCEPT !.tcr = 0, !.c2dlen = 0]

(* sh4_dmac_ddt in dual address mode, to SB_C2DSTAT, by the count of the   *)
(* SH4; SB_C2DLEN is not looked at.  holly_ch2_dma clears it.              *)
DmacDdt ==
  /\ c2fifo' = c2fifo \o [i \in 1 .. c2.tcr |-> c2.sar + i - 1]
  /\ c2' = [c2 EXCEPT !.sar = @ + c2.tcr, !.tcr = 0, !.c2dlen = 0]

(* holly_ch2_dma: SB_C2DST is 0 again before the write returns.  The guest *)
(* has asked Holly for SB_C2DLEN, from where the last transfer ended or    *)
(* from where it has put SAR2 since.                                       *)
WriteC2DST ==
  /\ C2Differs \/ c2.tcr = c2.c2dlen
  /\ dmstarts > 0
  /\ dmstarts' = dmstarts - 1
  /\ DmacDdt
  /\ c2job' = [next |-> c2job.next + c2.c2dlen,
               asked |-> c2job.asked \o [i \in 1 .. c2.c2dlen |-> c2job.next + i - 1],
               starts |-> c2job.starts + 1,
               signals |-> c2job.signals + (IF c2.ie THEN 1 ELSE 0)]
  /\ Raise({C2Int} \cup {x \in {TeInt} : c2.ie})
  /\ UNCHANGED <<g2, g2timers, g2mem, g2job>>

(* A write to SB_ISTNRM; nothing takes DMTE2 back.                         *)
AckDmas(ints) ==
  /\ ints # {}
  /\ dmist' = dmist \ ints
  /\ dmacks' = [x \in DmInts |-> IF x \in ints THEN dmcalls[x] ELSE dmacks[x]]
  /\ UNCHANGED <<g2, g2timers, g2mem, g2job, c2, c2fifo, c2job, dmcalls, dmstarts>>

DmInit ==
  /\ g2 = [ch \in G2Channels |->
             [stag |-> 0, star |-> 0, len |-> 0, last |-> FALSE, en |-> FALSE, st |-> FALSE,
              dst |-> 0, src |-> 0, rem |-> 0, restart |-> FALSE]]
  /\ g2timers = [ch \in G2Channels |-> 0]
  /\ g2mem = [ch \in G2Channels |-> [a \in G2Cells |-> -1]]
  /\ g2job = [ch \in G2Channels |->
                [stag |-> 0, star |-> 0, len |-> 0, before |-> [a \in G2Cells |-> -1], starts |-> 0]]
  /\ c2 = [sar |-> 0, tcr |-> 0, ie |-> FALSE, c2dlen |-> 0]
  /\ c2fifo = <<>> /\ c2job = [next |-> 0, asked |-> <<>>, starts |-> 0, signals |-> 0]
  /\ dmist = {} /\ dmcalls = [x \in DmInts |-> 0] /\ dmacks = [x \in DmInts |-> 0]
  /\ dmstarts = DmMaxStarts

DmNext ==
  \/ \E ch \in G2Channels :
       \/ \E v \in BOOLEAN : WriteADST(ch, v)
       \/ G2Timer(ch)
       \/ \E j \in G2Jobs, en \in BOOLEAN : WriteG2(ch, j, en)
  \/ WriteSAR2(0)
  \/ \E count \in C2Counts, ie \in BOOLEAN : WriteC2(count, ie)
  \/ \E len \in C2Counts : WriteC2DLEN(len)
  \/ WriteC2DST
  \/ \E ints \in SUBSET (dmist \ {TeInt}) : AckDmas(ints)

DmSpec == DmInit /\ [][DmNext]_dmvars

----------------------------------------------------------------------------
(* The part of the transfer that has been moved, and nothing else.         *)
Moved(ch) ==
  LET j == g2job[ch]
      n == j.len - (IF g2[ch].st THEN g2[ch].rem ELSE 0)
  IN  g2mem[ch] = [a \in G2Cells |-> IF a \in j.stag .. j.stag + n - 1 THEN j.star + (a - j.stag) ELSE j.before[a]]

(* A transfer of a G2 channel moves what its registers said when it was    *)
(* started, whatever the guest writes to them meanwhile, and has one timer *)
(* while it runs and none after.  Channel 2, driven by the count and       *)
(* address of the SH4, moves what Holly was asked for, from where the last *)
(* transfer ended on.  Each transfer raises its interrupt once, when all   *)
(* is moved, and the interrupt is pending until the guest clears it        *)
(* (holly_g2_dma, holly_ch2_dma, sh4_dmac_ddt, holly_raise_interrupt).     *)
DmaExact ==
  /\ \A ch \in G2Channels :
       /\ g2timers[ch] = IF g2[ch].st THEN 1 ELSE 0
       /\ g2job[ch].starts = dmcalls[G2Int(ch)] + IF g2[ch].st THEN 1 ELSE 0
       /\ Moved(ch)
  /\ c2fifo = c2job.asked
  /\ dmcalls[C2Int] = c2job.starts /\ dmcalls[TeInt] = c2job.signals
  /\ \A x \in DmInts : x \in dmist <=> dmcalls[x] > dmacks[x]

=============================================================================
