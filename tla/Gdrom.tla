------------------------------- MODULE Gdrom -------------------------------
(***************************************************************************)
(* The GD-ROM drive: the state machine of gdrom.c (gd_transitions), the    *)
(* registers the guest drives it with, and the dma loop of holly.c that    *)
(* fetches its data.                                                       *)
(*                                                                         *)
(* A packet is PacketSize bytes long; what it asks for is chosen when its  *)
(* last word is written.  A byte of a sector is <<sector, offset>>, so that*)
(* a byte that is lost, repeated or out of order can be told.  Replies     *)
(* other than sectors are bytes <<NoSector, offset>>.                      *)
(***************************************************************************)
EXTENDS Integers, Sequences, SequencesExt

CONSTANTS
  PacketSize,   \* GD_SPI_CMD_SIZE, 12
  SectorSize,   \* bytes in a sector
  BufferSectors,\* sectors that fit a buffer, 27
  FirstSectors, \* sectors a CD_READ may start at
  SectorCounts, \* number of sectors it may ask for
  ReplySizes,   \* allocation lengths of the other commands
  DmaLengths,   \* values of SB_GDLEN
  Aborts,       \* does the guest send NOP while a command is under way?
  TrustsIO,     \* does it move the data of SET_MODE the way IO says, not its command?
  EmptyDmas     \* does it ask for a dma of no sectors, and start it?

ASSUME GdromAssumption ==
  /\ PacketSize \in Nat \ {0} /\ PacketSize % 2 = 0
  /\ SectorSize \in Nat \ {0} /\ BufferSectors \in Nat \ {0}
  /\ FirstSectors \subseteq Nat /\ SectorCounts \subseteq Nat
  /\ ReplySizes \subseteq Nat /\ DmaLengths \subseteq Nat \ {0}
  /\ {Aborts, TrustsIO, EmptyDmas} \subseteq BOOLEAN

NoSector == -1

VARIABLES
  gd,       \* struct gdrom
  features, \* GD_FEATURES.dma
  gdIrq,      \* interrupts of the drive and of the dma that are raised
  loop,     \* bytes left to transfer while holly_gdrom_dma runs, or NoLoop
  fatal,    \* has a CHECK failed?
  want,     \* the bytes the last CD_READ asked for
  got       \* the bytes the guest received since

gdromVars == <<gd, features, gdIrq, loop, fatal, want, got>>

NoLoop == -1

Min2(a, b) == IF a < b THEN a ELSE b

States == {"read_ata_cmd", "read_ata_data", "read_spi_data",
           "write_spi_data", "write_dma_data"}

Flags == {"BSY", "DRQ", "DRDY", "CHECK", "IO", "CoD"}

GdromTypeOK ==
  /\ gd.state \in States
  /\ gd.flags \subseteq Flags
  /\ gd.cdr_dma \in BOOLEAN
  /\ gd.cdr_first \in Nat /\ gd.cdr_num \in Nat
  /\ {gd.pio_head, gd.pio_size, gd.dma_head, gd.dma_size} \subseteq Nat
  /\ gd.state = "write_spi_data" => Len(gd.pio_buffer) = gd.pio_size
  /\ Len(gd.dma_buffer) = gd.dma_size
  /\ features \in BOOLEAN /\ fatal \in BOOLEAN
  /\ gdIrq \subseteq {"G1GDINT", "G1DEINT"}
  /\ loop \in {NoLoop} \cup Nat

-----------------------------------------------------------------------------
(* The bytes of num sectors; gdrom_read_sectors. *)
ReadSectors(first, num) ==
  [i \in 1..(num * SectorSize) |->
     <<first + ((i - 1) \div SectorSize), (i - 1) % SectorSize>>]

Reply(size) == [i \in 1..size |-> <<NoSector, i - 1>>]

With(g, set, clear) == [g EXCEPT !.flags = (g.flags \ clear) \cup set]

(* Every handler that ends or pauses a command raises G1GDINT as well. *)
SpiEnd(g) ==
  [With(g, {"IO", "CoD", "DRDY"}, {"BSY", "DRQ"}) EXCEPT !.state = "read_ata_cmd"]

DataIn(g) == With(g, {"IO", "DRQ"}, {"CoD", "BSY"})

(* gdrom_spi_cdread fills the buffer with as many sectors as possible. *)
SpiCdread(g) ==
  LET n == Min2(g.cdr_num, BufferSectors)
      data == ReadSectors(g.cdr_first, n)
      rest == [g EXCEPT !.cdr_first = @ + n, !.cdr_num = @ - n]
  IN  IF g.cdr_dma
      THEN [rest EXCEPT !.dma_buffer = data, !.dma_size = Len(data), !.dma_head = 0,
                        !.state = "write_dma_data"]
      ELSE [DataIn(rest) EXCEPT !.pio_buffer = data, !.pio_size = Len(data),
                                !.pio_head = 0, !.state = "write_spi_data"]

SpiWrite(g, size) ==
  [DataIn(g) EXCEPT !.cdr_num = 0, !.pio_buffer = Reply(size), !.pio_size = size,
                    !.pio_head = 0, !.state = "write_spi_data"]

SpiRead(g, size) ==
  [DataIn(g) EXCEPT !.cdr_num = 0, !.pio_size = size, !.pio_head = 0,
                    !.state = "read_spi_data"]

AtaEnd(g) == [With(g, {"DRDY"}, {"BSY"}) EXCEPT !.state = "read_ata_cmd"]

(* gdrom_set_disc, of the disc that is in the drive. *)
SoftReset(g) == With(g, {"DRDY"}, {"BSY", "DRQ", "CHECK"})

-----------------------------------------------------------------------------
(* The guest.  It follows the status bits: it moves data while DRQ is set, and
   starts a dma while the drive is busy with one.  The data goes in the direction
   of IO, but for SET_MODE: gdrom_spi_read sets IO as if it had data to offer, and
   a guest that is not to fail CHECK(cb) goes by its command there (TrustsIO). *)

Running == ~fatal /\ loop = NoLoop

Has(f) == f \in gd.flags

WriteFeatures(v) ==
  /\ Running
  /\ features' = v
  /\ UNCHANGED <<gd, gdIrq, loop, fatal, want, got>>

(* Reading GD_STATUS takes the drive's interrupt back, a write to SB_ISTNRM the
   one of the dma. *)
ReadStatus ==
  /\ Running
  /\ gdIrq' = gdIrq \ {"G1GDINT"}
  /\ UNCHANGED <<gd, features, loop, fatal, want, got>>

AckDma ==
  /\ Running
  /\ gdIrq' = gdIrq \ {"G1DEINT"}
  /\ UNCHANGED <<gd, features, loop, fatal, want, got>>

RaiseGd == gdIrq' = gdIrq \cup {"G1GDINT"}

(* gdrom_ata_cmd: every state accepts a command. *)
Begin == With(gd, {"BSY"}, {"DRDY", "CHECK"})

Idle == ~Has("BSY") /\ ~Has("DRQ")

(* PACKET does not raise an interrupt. *)
AtaPacket ==
  /\ Running /\ Idle
  /\ gd' = [With(Begin, {"CoD", "DRQ"}, {"IO", "BSY"}) EXCEPT
              !.pio_head = 0, !.state = "read_ata_data"]
  /\ UNCHANGED <<features, gdIrq, loop, fatal, want, got>>

AtaSetFeatures ==
  /\ Running /\ Idle
  /\ gd' = AtaEnd(Begin) /\ RaiseGd
  /\ UNCHANGED <<features, loop, fatal, want, got>>

(* What the guest still wants after a command was cut short. *)
Forget == want' = <<>> /\ got' = <<>>

AtaNop ==
  /\ Running
  /\ Aborts \/ Idle
  /\ gd' = AtaEnd(With(Begin, {"CHECK"}, {})) /\ RaiseGd
  /\ Forget
  /\ UNCHANGED <<features, loop, fatal>>

AtaSoftReset ==
  /\ Running
  /\ gd' = AtaEnd(SoftReset(Begin)) /\ RaiseGd
  /\ Forget
  /\ UNCHANGED <<features, loop, fatal>>

-----------------------------------------------------------------------------
(* gdrom_spi_cmd, for the packet whose last word is written.  Each command is
   one of four flows. *)

(* REQ_STAT, REQ_MODE, REQ_ERR, GET_TOC, REQ_SES, GET_SCD, REQ_SEC *)
SpiCmdReply(g) ==
  /\ \E size \in ReplySizes : gd' = SpiWrite(g, size)
  /\ RaiseGd /\ Forget

(* CD_READ; only pio raises an interrupt.  A dma of no sectors leaves an empty
   buffer, which the CHECK of gdrom_dma_begin does not accept. *)
SpiCmdRead(g) ==
  \E first \in FirstSectors, num \in SectorCounts :
    /\ num = 0 /\ features => EmptyDmas
    /\ gd' = SpiCdread([g EXCEPT !.cdr_dma = features, !.cdr_first = first,
                                 !.cdr_num = num])
    /\ (IF features THEN UNCHANGED gdIrq ELSE RaiseGd)
    /\ want' = ReadSectors(first, num) /\ got' = <<>>

(* SET_MODE; the size is a byte of the packet, as it is *)
SpiCmdMode(g) ==
  /\ \E size \in ReplySizes : gd' = SpiRead(g, size)
  /\ RaiseGd /\ Forget

(* TEST_UNIT, CD_PLAY, CD_SEEK, CD_SCAN, CHK_SEC *)
SpiCmdNoData(g) ==
  /\ gd' = SpiEnd(g)
  /\ RaiseGd /\ Forget

SpiCmd(g) ==
  \/ SpiCmdReply(g) \/ SpiCmdRead(g) \/ SpiCmdMode(g) \/ SpiCmdNoData(g)

(* A write to GD_DATA: EVENT_PIO_WRITE. *)
WriteData ==
  /\ Running /\ Has("DRQ") /\ ~Has("IO")
  /\ LET g == [gd EXCEPT !.pio_head = @ + 2]
     IN  CASE gd.state = "read_ata_data" /\ g.pio_head = PacketSize ->
                SpiCmd(With(g, {"BSY"}, {"DRQ"})) /\ UNCHANGED fatal
           [] gd.state = "read_ata_data" /\ g.pio_head # PacketSize ->
                gd' = g /\ UNCHANGED <<gdIrq, fatal, want, got>>
           [] gd.state # "read_ata_data" ->
                fatal' = TRUE /\ gd' = g /\ UNCHANGED <<gdIrq, want, got>>
  /\ UNCHANGED <<features, loop>>

(* A write to GD_DATA while SET_MODE waits for its data, with IO set.  The guest
   sends the words it announced, at least one.  Only a head that meets the size
   ends the command, which it never does when that is odd or 0. *)
WriteMode ==
  /\ Running /\ Has("DRQ") /\ gd.state = "read_spi_data" /\ ~TrustsIO
  /\ gd.pio_head < gd.pio_size \/ gd.pio_head = 0
  /\ LET g == [gd EXCEPT !.pio_head = @ + 2]
     IN  IF g.pio_head = gd.pio_size THEN gd' = SpiEnd(g) /\ RaiseGd
         ELSE gd' = g /\ UNCHANGED gdIrq
  /\ UNCHANGED <<features, loop, fatal, want, got>>

(* Mutant of ReadData: the next sectors are fetched one word early. *)
ReadDataEarly ==
  /\ Running /\ Has("DRQ") /\ Has("IO")
  /\ gd.state = "read_spi_data" => TrustsIO
  /\ LET word == SubSeq(gd.pio_buffer, gd.pio_head + 1, Min2(gd.pio_head + 2, gd.pio_size))
         g == [gd EXCEPT !.pio_head = @ + 2]
     IN  /\ got' = IF want = <<>> THEN <<>> ELSE got \o word
         /\ fatal' = (gd.state # "write_spi_data")
         /\ IF g.pio_head + 2 >= gd.pio_size
            THEN gd' = (IF g.cdr_num > 0 THEN SpiCdread(g) ELSE SpiEnd(g)) /\ RaiseGd
            ELSE gd' = g /\ UNCHANGED gdIrq
  /\ UNCHANGED <<features, loop, want>>

(* A read of GD_DATA: EVENT_PIO_READ, which SET_MODE has no handler for. *)
ReadData ==
  /\ Running /\ Has("DRQ") /\ Has("IO")
  /\ gd.state = "read_spi_data" => TrustsIO
  /\ LET word == SubSeq(gd.pio_buffer, gd.pio_head + 1, Min2(gd.pio_head + 2, gd.pio_size))
         g == [gd EXCEPT !.pio_head = @ + 2]
     IN  /\ got' = IF want = <<>> THEN <<>> ELSE got \o word
         /\ fatal' = (gd.state # "write_spi_data")
         /\ IF g.pio_head >= gd.pio_size
            THEN gd' = (IF g.cdr_num > 0 THEN SpiCdread(g) ELSE SpiEnd(g)) /\ RaiseGd
            ELSE gd' = g /\ UNCHANGED gdIrq
  /\ UNCHANGED <<features, loop, want>>

-----------------------------------------------------------------------------
(* holly_gdrom_dma: a write of SB_GDST, then one step per turn of its loop.
   The guest does not run until it ends. *)

DmaBegin(len) ==
  /\ Running /\ Has("BSY") /\ ~Has("DRQ")
  /\ fatal' = (gd.dma_size = 0)
  /\ loop' = len
  /\ UNCHANGED <<gd, features, gdIrq, want, got>>

(* Mutant of Refill: a transfer that took everything does not end the command. *)
RefillStuck(g) ==
  IF g.dma_head >= g.dma_size /\ g.cdr_num > 0 THEN SpiCdread(g) ELSE g

(* gdrom_dma_read first reads more if its buffer is exhausted. *)
Refill(g) ==
  CASE g.dma_head < g.dma_size -> g
    [] g.dma_head >= g.dma_size /\ g.cdr_num > 0 -> SpiCdread(g)
    [] g.dma_head >= g.dma_size /\ g.cdr_num = 0 -> SpiEnd(g)

DmaRead ==
  /\ ~fatal /\ loop # NoLoop
  /\ LET g == Refill(gd)
         n == Min2(Min2(loop, SectorSize), g.dma_size - g.dma_head)
     IN  /\ gd' = [g EXCEPT !.dma_head = @ + n]
         /\ got' = got \o SubSeq(g.dma_buffer, g.dma_head + 1, g.dma_head + n)
         /\ loop' = IF n = 0 THEN NoLoop ELSE loop - n
         /\ gdIrq' = gdIrq \cup (IF g.state = "read_ata_cmd" THEN {"G1GDINT"} ELSE {})
                        \cup (IF n = 0 THEN {"G1DEINT"} ELSE {})
  /\ UNCHANGED <<features, fatal, want>>

-----------------------------------------------------------------------------

GdromInit ==
  /\ gd = [state |-> "read_ata_cmd", flags |-> {"DRDY"},
           cdr_dma |-> FALSE, cdr_first |-> 0, cdr_num |-> 0,
           pio_buffer |-> <<>>, pio_head |-> 0, pio_size |-> 0,
           dma_buffer |-> <<>>, dma_head |-> 0, dma_size |-> 0]
  /\ features = FALSE /\ gdIrq = {} /\ loop = NoLoop /\ fatal = FALSE
  /\ want = <<>> /\ got = <<>>

Serve == WriteData \/ WriteMode \/ ReadData \/ (\E len \in DmaLengths : DmaBegin(len))

GdromNext ==
  \/ \E v \in BOOLEAN : WriteFeatures(v)
  \/ ReadStatus \/ AckDma
  \/ AtaPacket \/ AtaSetFeatures \/ AtaNop \/ AtaSoftReset
  \/ WriteData \/ WriteMode \/ ReadData
  \/ \E len \in DmaLengths : DmaBegin(len)
  \/ DmaRead

GdromSpec == GdromInit /\ [][GdromNext]_gdromVars

(* The dma loop runs to its end, and a driver that issued a command goes on to
   move its data. *)
GdromFairness == WF_gdromVars(DmaRead) /\ WF_gdromVars(Serve)

-----------------------------------------------------------------------------
(* Properties. *)

(* The status bits the guest goes by tell the truth: the drive asks for data
   only in a state that moves data, and it is never busy at the same time. *)
DrqTruthful ==
  Has("DRQ") => /\ ~Has("BSY")
                /\ gd.state \in {"read_ata_data", "read_spi_data", "write_spi_data"}

(* No CHECK fails for such a guest: gd_transitions has a handler for everything
   it does, a dma finds data, and DRQ tells the truth. *)
NoFatal == GdromTypeOK /\ ~fatal /\ DrqTruthful

(* A CD_READ delivers its sectors in order, none lost and none twice, over as
   many refills of the buffer and as many dma transfers as it takes, and does
   not end before all it was asked for is delivered. *)
DataInOrder ==
  /\ IsPrefix(got, want)
  /\ gd.state = "read_ata_cmd" => got = want

(* A guest that moves data while DRQ says so, in the direction of its command, and
   starts no dma of no sectors makes no CHECK fail and gets the sectors it asked
   for, in order (gdrom_event, gdrom_dma_read). *)
DriveSound == NoFatal /\ DataInOrder

(* SET_MODE with an odd number of bytes, or none: gdrom_pio_write compares the head
   with the size for equality, and the head moves by 2. *)
Unending == gd.state = "read_spi_data" /\ (gd.pio_size % 2 = 1 \/ gd.pio_size = 0)

(* Every command but a SET_MODE of an odd size comes to its end, or is replaced by
   the next one (gdrom_pio_read, gdrom_pio_write, gdrom_dma_read). *)
CommandEnds == gd.state # "read_ata_cmd" ~> gd.state = "read_ata_cmd" \/ Unending

=============================================================================
