-------------------------------- MODULE Scif --------------------------------
(* The serial port (guest/sh4/sh4_scif.c, guest/serial/serial.c) and the   *)
(* program on its other side (tools/reload/main.c), which talks to it from *)
(* a thread of its own through two queues.  The emulator itself runs       *)
(* without that program: nothing is received then and nothing drained.     *)
(*                                                                         *)
(* The emulation thread empties and fills the FIFOs only when the guest    *)
(* reads SCFSR2; as the queues are the only thing the two threads share,   *)
(* and each access to them takes dev_mutex, such a read is one step.       *)
(*                                                                         *)
(* The guest's driver is external.  It resets the FIFOs before it uses     *)
(* them, reads SCFRDR2 only while SCFDR2 counts something, and goes by     *)
(* TDFE for SCFTDR2: having cleared the flag and read it as set again, it  *)
(* may write as much as the trigger leaves room for.                       *)
EXTENDS Integers, Sequences, FiniteSetsExt

CONSTANTS
  ScFifo,      \* SCIF_FIFO_SIZE
  ScRtrg,      \* receive_triggers in use
  ScTtrg,      \* transmit_triggers in use
  ScModes,     \* values of SCSCR2: sets of RE, TE, RIE and TIE
  ScLazy,      \* the driver may leave the FIFOs of a reset port alone
  ScBlock,     \* BLOCK_SIZE of the queues
  ScMaxChars   \* bound on the characters sent, both directions together

VARIABLES
  scserial,   \* dc->serial is set
  sc,         \* FIFOs and registers of the port
  scirq,      \* SCIFRXI and SCIFTXI in requested_interrupts
  scfatal,    \* a CHECK has failed
  scwriteq,   \* dev_writeq, to the guest
  screadq,    \* dev_readq, from the guest
  scguest,    \* the driver: FIFOs reset, TDFE cleared, room to write
  schist      \* history: characters sent and received by host and guest
scvars == <<scserial, sc, scirq, scfatal, scwriteq, screadq, scguest, schist>>

ASSUME ScAssumption ==
  /\ ScFifo \in Nat /\ ScBlock \in Nat \ {0} /\ ScMaxChars \in Nat /\ ScLazy \in BOOLEAN
  /\ ScRtrg \subseteq 1 .. ScFifo /\ ScRtrg # {}
  /\ ScTtrg \subseteq 1 .. ScFifo - 1 /\ ScTtrg # {}
  /\ ScModes \subseteq SUBSET {"RE", "TE", "RIE", "TIE"}

----------------------------------------------------------------------------
(* struct sh4_scif_fifo                                                    *)

EmptyFifo == [head |-> 0, tail |-> 0, data |-> [i \in 0 .. ScFifo |-> 0]]

(* Mutant: the wrapped size leaves out the cell that is never filled.      *)
FifoSizeTight(q) ==
  IF q.head < q.tail THEN ScFifo - (q.tail - q.head) ELSE q.head - q.tail

(* fifo_size: the array has one cell more than the FIFO holds.             *)
FifoSize(q) ==
  IF q.head < q.tail THEN ScFifo + 1 - (q.tail - q.head) ELSE q.head - q.tail

FifoFull(q) == FifoSize(q) = ScFifo
FifoNext(i) == (i + 1) % (ScFifo + 1)
Enqueued(q, c) == [q EXCEPT !.data[q.head] = c, !.head = FifoNext(@)]
Dequeued(q) == [q EXCEPT !.tail = FifoNext(@)]

(* data_block lists of queue_putchar and queue_getchar: a block is read    *)
(* and written to its end before the next one is used.                     *)
QueuePut(q, c) ==
  IF q = <<>> \/ Len(q[Len(q)].data) >= ScBlock THEN Append(q, [data |-> <<c>>, read |-> 0])
  ELSE [q EXCEPT ![Len(q)].data = Append(@, c)]

QueueEmpty(q) == q = <<>> \/ Head(q).read >= Len(Head(q).data)

QueueRest(q) ==
  IF Head(q).read + 1 >= ScBlock THEN Tail(q) ELSE [q EXCEPT ![1].read = @ + 1]

QueueFirst(q) == Head(q).data[Head(q).read + 1]

----------------------------------------------------------------------------
(* The port, as a record that a handler changes step by step: FIFOs and    *)
(* registers, requests, a failed CHECK, and the queues.                    *)

Port == [sc |-> sc, irq |-> scirq, fatal |-> scfatal, wq |-> scwriteq, rq |-> screadq]

StorePort(p) ==
  /\ sc' = p.sc /\ scirq' = p.irq /\ scfatal' = p.fatal
  /\ scwriteq' = p.wq /\ screadq' = p.rq

Flag(c, f, on) == [c EXCEPT !.flags = IF on THEN @ \cup {f} ELSE @ \ {f}]
ReceiveTriggered(c) == c.r >= c.rtrg
TransmitTriggered(c) == c.t <= c.ttrg

ReceiveEnqueue(p, char) ==
  LET q == Enqueued(p.sc.rx, char)
      c == [p.sc EXCEPT !.rx = q, !.r = FifoSize(q)]
      d == Flag(c, "RDF", ReceiveTriggered(c))
  IN  IF FifoFull(p.sc.rx) THEN [p EXCEPT !.fatal = TRUE]
      ELSE [p EXCEPT !.sc = d,
                     !.irq = IF "RIE" \in d.scr /\ "RDF" \in d.flags THEN @ \cup {"RXI"} ELSE @]

TransmitDequeue(p) ==
  LET q == Dequeued(p.sc.tx)
      c == [p.sc EXCEPT !.tx = q, !.t = FifoSize(q)]
      d == Flag(Flag(c, "TDFE", TransmitTriggered(c)), "TEND", c.t = 0)
  IN  IF p.sc.tx.head = p.sc.tx.tail THEN [p EXCEPT !.fatal = TRUE]
      ELSE [p EXCEPT !.sc = d,
                     !.irq = IF "TIE" \in d.scr /\ "TDFE" \in d.flags THEN @ \cup {"TXI"} ELSE @,
                     !.rq = QueuePut(@, p.sc.tx.data[p.sc.tx.tail])]

(* The two loops of sh4_scif_run, which end early when a CHECK fails.      *)
ReceiveOne(p) ==
  IF p.fatal \/ p.sc.r >= ScFifo \/ QueueEmpty(p.wq) THEN p
  ELSE ReceiveEnqueue([p EXCEPT !.wq = QueueRest(@)], QueueFirst(p.wq))
ReceiveAll(p) ==
  LET after[n \in 0 .. ScFifo] == IF n = 0 THEN p ELSE ReceiveOne(after[n - 1])
  IN  after[ScFifo]
TransmitOne(p) == IF p.fatal \/ p.sc.t = 0 THEN p ELSE TransmitDequeue(p)
TransmitAll(p) ==
  LET after[n \in 0 .. ScFifo] == IF n = 0 THEN p ELSE TransmitOne(after[n - 1])
  IN  after[ScFifo]
ScifRun(p) ==
  LET received == IF "RE" \in p.sc.scr THEN ReceiveAll(p) ELSE p
  IN  IF ~scserial THEN p
      ELSE IF "TE" \in p.sc.scr THEN TransmitAll(received) ELSE received

ReceiveReset(p) ==
  [p EXCEPT !.sc = Flag([@ EXCEPT !.rx.head = 0, !.rx.tail = 0, !.r = 0], "RDF", FALSE),
            !.irq = @ \ {"RXI"}]

TransmitReset(p) ==
  [p EXCEPT !.sc = Flag(Flag([@ EXCEPT !.tx.head = 0, !.tx.tail = 0, !.t = 0], "TEND", TRUE), "TDFE", TRUE),
            !.irq = @ \ {"TXI"}]

----------------------------------------------------------------------------
(* Register accesses                                                       *)

(* Without RIE and TIE the requests are withdrawn.                         *)
WriteSCSCR2(v) ==
  LET c == [sc EXCEPT !.scr = v]
  IN  /\ ~scfatal
      /\ sc' = IF "TE" \in v THEN c ELSE Flag(c, "TEND", TRUE)
      /\ scirq' = scirq \ ({x \in {"RXI"} : "RIE" \notin v} \cup {x \in {"TXI"} : "TIE" \notin v})
      /\ UNCHANGED <<scserial, scfatal, scwriteq, screadq, scguest, schist>>

(* What the FIFOs held is lost.                                            *)
WriteSCFCR2(rtrg, ttrg) ==
  LET set == [Port EXCEPT !.sc = [@ EXCEPT !.rtrg = rtrg, !.ttrg = ttrg]]
  IN  /\ ~scfatal
      /\ StorePort(TransmitReset(ReceiveReset(set)))
      /\ scguest' = [ready |-> TRUE, cleared |-> TRUE, room |-> 0]
      /\ schist' = [schist EXCEPT !.lostIn = @ + FifoSize(sc.rx), !.lostOut = @ + FifoSize(sc.tx)]
      /\ UNCHANGED scserial

Ready == ~scfatal /\ (scguest.ready \/ ScLazy)

(* The guest gets room for characters if it sees TDFE come back.           *)
ReadSCFSR2 ==
  LET p == ScifRun(Port)
  IN  /\ Ready /\ StorePort(p)
      /\ scguest' = IF "TDFE" \in p.sc.flags /\ scguest.cleared
                    THEN [scguest EXCEPT !.cleared = FALSE, !.room = ScFifo - sc.ttrg]
                    ELSE scguest
      /\ UNCHANGED <<scserial, schist>>

(* The flags are computed anew, whatever the guest has read and whatever   *)
(* it writes.                                                              *)
WriteSCFSR2 ==
  LET c == Flag(Flag(Flag(sc, "RDF", ReceiveTriggered(sc)), "TDFE", TransmitTriggered(sc)), "TEND", sc.t = 0)
  IN  /\ Ready
      /\ sc' = c
      /\ scirq' = scirq \ ({x \in {"RXI"} : "RIE" \in c.scr /\ "RDF" \notin c.flags}
                           \cup {x \in {"TXI"} : "TIE" \in c.scr /\ "TDFE" \notin c.flags})
      /\ scguest' = [scguest EXCEPT !.cleared = TRUE, !.room = 0]
      /\ UNCHANGED <<scserial, scfatal, scwriteq, screadq, schist>>

ReadSCFRDR2 ==
  LET q == Dequeued(sc.rx)
  IN  /\ Ready /\ sc.r > 0 /\ sc.rx.tail # sc.rx.head
      /\ sc' = [sc EXCEPT !.rx = q, !.r = FifoSize(q)]
      /\ schist' = [schist EXCEPT !.guestGot = Append(@, sc.rx.data[sc.rx.tail])]
      /\ UNCHANGED <<scserial, scirq, scfatal, scwriteq, screadq, scguest>>

WriteSCFTDR2 ==
  LET char == schist.guestSent + 1
      q == Enqueued(sc.tx, char)
  IN  /\ Ready /\ scguest.room > 0 /\ schist.hostSent + schist.guestSent < ScMaxChars
      /\ scfatal' = FifoFull(sc.tx)
      /\ sc' = IF FifoFull(sc.tx) THEN sc ELSE [sc EXCEPT !.tx = q, !.t = FifoSize(q)]
      /\ scguest' = [scguest EXCEPT !.room = @ - 1]
      /\ schist' = [schist EXCEPT !.guestSent = char]
      /\ UNCHANGED <<scserial, scirq, scwriteq, screadq>>

(* sh4_reset sets the registers to their defaults and nothing else.        *)
ScCpuReset ==
  /\ ~scfatal
  /\ sc' = [sc EXCEPT !.r = 0, !.t = 0, !.flags = {"TDFE", "TEND"}, !.scr = {},
                      !.rtrg = Min(ScRtrg), !.ttrg = Max(ScTtrg)]
  /\ scguest' = [ready |-> FALSE, cleared |-> ScLazy, room |-> 0]
  /\ UNCHANGED <<scserial, scirq, scfatal, scwriteq, screadq, schist>>

----------------------------------------------------------------------------
(* The thread of reload                                                    *)

DevWrite ==
  LET char == schist.hostSent + 1
  IN  /\ scserial /\ ~scfatal /\ schist.hostSent + schist.guestSent < ScMaxChars
      /\ scwriteq' = QueuePut(scwriteq, char)
      /\ schist' = [schist EXCEPT !.hostSent = char]
      /\ UNCHANGED <<scserial, sc, scirq, scfatal, screadq, scguest>>

DevRead ==
  /\ ~scfatal /\ ~QueueEmpty(screadq)
  /\ screadq' = QueueRest(screadq)
  /\ schist' = [schist EXCEPT !.hostGot = Append(@, QueueFirst(screadq))]
  /\ UNCHANGED <<scserial, sc, scirq, scfatal, scwriteq, scguest>>

ScInit ==
  /\ scserial \in BOOLEAN
  /\ sc = [rx |-> EmptyFifo, tx |-> EmptyFifo, r |-> 0, t |-> 0, flags |-> {"TDFE", "TEND"},
           scr |-> {}, rtrg |-> Min(ScRtrg), ttrg |-> Max(ScTtrg)]
  /\ scirq = {} /\ scfatal = FALSE
  /\ scwriteq = <<>> /\ screadq = <<>>
  /\ scguest = [ready |-> FALSE, cleared |-> ScLazy, room |-> 0]
  /\ schist = [hostSent |-> 0, guestSent |-> 0, hostGot |-> <<>>, guestGot |-> <<>>, lostIn |-> 0, lostOut |-> 0]

ScNext ==
  \/ \E v \in ScModes : WriteSCSCR2(v)
  \/ \E r \in ScRtrg, t \in ScTtrg : WriteSCFCR2(r, t)
  \/ ReadSCFSR2 \/ WriteSCFSR2 \/ ReadSCFRDR2 \/ WriteSCFTDR2 \/ ScCpuReset
  \/ DevWrite \/ DevRead

ScSpec == ScInit /\ [][ScNext]_scvars

----------------------------------------------------------------------------
(* What a FIFO and a queue hold, in order.                                 *)
FifoContent(q) ==
  [i \in 1 .. FifoSize(q) |-> q.data[(q.tail + i - 1) % (ScFifo + 1)]]
QueueRead(q) == IF q = <<>> THEN 0 ELSE Head(q).read
QueueLen(q) ==
  IF q = <<>> THEN 0 ELSE (Len(q) - 1) * ScBlock + Len(q[Len(q)].data) - QueueRead(q)
CharAt(q, k) == q[(k \div ScBlock) + 1].data[(k % ScBlock) + 1]
QueueContent(q) == [i \in 1 .. QueueLen(q) |-> CharAt(q, QueueRead(q) + i - 1)]

(* Characters are numbered as they are sent: of those up to n, all but     *)
(* the lost ones are on their way or received, in order.                   *)
Stream(s, n, lost) ==
  /\ Len(s) + lost = n
  /\ \A i \in DOMAIN s : s[i] \in 1 .. n /\ (i > 1 => s[i - 1] < s[i])

(* With the FIFOs reset once, no character is lost, doubled or reordered   *)
(* between the two programs, SCFDR2 counts what is in the FIFOs, no CHECK  *)
(* fails on a driver that goes by TDFE, with or without somebody on the    *)
(* other side, a flag is set whenever its trigger is met, and no interrupt *)
(* is requested that the guest has not enabled or whose flag is clear      *)
(* (receive_enqueue, transmit_dequeue, SCFSR2).                            *)
SerialExact ==
  /\ ~scfatal
  /\ Stream(schist.guestGot \o FifoContent(sc.rx) \o QueueContent(scwriteq), schist.hostSent, schist.lostIn)
  /\ Stream(schist.hostGot \o QueueContent(screadq) \o FifoContent(sc.tx), schist.guestSent, schist.lostOut)
  /\ scguest.ready =>
       /\ sc.r = FifoSize(sc.rx) /\ sc.t = FifoSize(sc.tx)
       /\ ReceiveTriggered(sc) => "RDF" \in sc.flags
       /\ TransmitTriggered(sc) => "TDFE" \in sc.flags
       /\ "RXI" \in scirq => "RIE" \in sc.scr
       /\ "TXI" \in scirq => "TIE" \in sc.scr /\ "TDFE" \in sc.flags

=============================================================================
