------------------------------- MODULE Flash -------------------------------
(* The flash rom and the settings the bios keeps in it.                    *)
(*                                                                         *)
(* guest/rom/flash.c is the chip: 128 kb loaded from flash.bin when the    *)
(* process starts, saved when it ends, read, erased and programmed through *)
(* JEDEC command cycles.  guest/bios/flash.c lays logical blocks over it:  *)
(* a partition is a header, user blocks and, behind them, the bitmaps that *)
(* say which user blocks are taken.  guest/bios/bios.c repairs the chip at *)
(* every start and forces the system settings into it.                     *)
(*                                                                         *)
(* The guest's own library is external: it appends a new physical block    *)
(* for every update of a logical one, in three programs (bitmap, contents, *)
(* crc), by syscall or by chip cycles, and a load of another game may stop *)
(* it between any two of them.  One block-allocated partition is modelled, *)
(* with the factory partition beside it; the partition is one sector, as   *)
(* FLASH_PT_USER is.                                                       *)
EXTENDS Integers, Sequences, FiniteSetsExt

CONSTANTS
  FlBits,      \* FLASH_BITMAP_BLOCKS: physical blocks a bitmap records (512)
  FlPhysical,  \* physical blocks of the partition (256, 512 or 1024)
  FlSyscfg,    \* FLASH_USER_SYSCFG, the logical block of the settings
  FlIds,       \* the logical blocks, FlSyscfg among them
  FlVals,      \* contents of a block
  FlMaxWork    \* bound on the jobs the guest's library begins

VARIABLES
  flchip,   \* struct flash rom: [factory, part], part one block per index
  flcmd,    \* struct flash cmd and cmd_state
  flfile,   \* flash.bin, with the history that belongs to it
  flup,     \* the process runs
  fltodo,   \* what is left of the guest library's job
  fllast,   \* history: the last value written to each logical block
  flabused, \* history: the guest erased flash or was stopped in a command
  flfatal,  \* the CHECK that ended the process, "" if none
  flwork    \* jobs left
flvars == <<flchip, flcmd, flfile, flup, fltodo, fllast, flabused, flfatal, flwork>>

FlNone == "none"
NothingWritten == [id \in FlIds |-> FlNone]

----------------------------------------------------------------------------
(* Layout of a partition                                                   *)

NumBitmapBlocks == (FlPhysical + FlBits - 1) \div FlBits
NumUserBlocks == FlPhysical - NumBitmapBlocks - 1

ASSUME FlAssumption ==
  /\ FlBits \in Nat /\ FlBits > 1 /\ FlPhysical \in Nat /\ NumUserBlocks > 0
  /\ FlSyscfg \in FlIds /\ FlNone \notin FlVals /\ FlMaxWork \in Nat

(* What a block of 64 bytes holds; all ones and all zeros are contents too. *)
Blank == [k |-> "blank"]
Zero == [k |-> "zero"]
Header == [k |-> "header"]
User(id, val, ok) == [k |-> "user", id |-> id, val |-> val, ok |-> ok]
Bitmap(used) == [k |-> "bitmap", used |-> used]

(* The clear bits of a block read as a bitmap.                             *)
UsedBits(block) ==
  CASE block.k = "bitmap" -> block.used
    [] block.k = "zero" -> 0 .. FlBits - 1
    [] OTHER -> {}
BitIndex(phys) == (phys - 1) % FlBits
IsAllocated(block, phys) == BitIndex(phys) \in UsedBits(block)
SetAllocated(block, phys) == Bitmap(UsedBits(block) \cup {BitIndex(phys)})

(* The bitmap block in hand at phys: the allocation increments bitmap_id   *)
(* before it reads, starting from the last user block; the lookup reads    *)
(* and then increments, starting one further on.                           *)

(* Mutant: the next bitmap is read one block too early.                    *)
AllocBitmapEarly(phys) == NumUserBlocks + 1 + phys \div FlBits

AllocBitmap(phys) == NumUserBlocks + (phys - 1) \div FlBits + 1
LookupBitmap(phys) == (1 + NumUserBlocks) + (phys - 1) \div FlBits

UserBlocks == 1 .. NumUserBlocks
ValidateHeader(part) == part[0] = Header

(* flash_alloc_block: the first block that is free, 0 for a failed CHECK.  *)
AllocBlock(part) ==
  LET free == {p \in UserBlocks : ~IsAllocated(part[AllocBitmap(p)], p)}
  IN  IF free = {} THEN 0 ELSE Min(free)

(* flash_lookup_block: the last valid block with the id, among those in    *)
(* front of the first one that is not allocated.                           *)
LookupBlock(part, id) ==
  LET seen == {p \in UserBlocks : \A q \in 1 .. p : IsAllocated(part[LookupBitmap(q)], q)}
      hits == {p \in seen : part[p].k = "user" /\ part[p].id = id /\ part[p].ok}
  IN  IF hits = {} THEN 0 ELSE Max(hits)

ReadBlock(part, id) ==
  LET p == LookupBlock(part, id)
  IN  IF ~ValidateHeader(part) \/ p = 0 THEN FlNone ELSE part[p].val

(* flash_write_block: in place where the block exists.  fatal says which   *)
(* CHECK of it or of its caller fails.                                     *)
WriteBlock(part, id, val) ==
  LET found == LookupBlock(part, id)
      p == IF found # 0 THEN found ELSE AllocBlock(part)
      marked == IF found # 0 THEN part ELSE [part EXCEPT ![AllocBitmap(p)] = SetAllocated(@, p)]
  IN  CASE ~ValidateHeader(part) -> [part |-> part, fatal |-> "refused"]
        [] ValidateHeader(part) /\ p = 0 -> [part |-> part, fatal |-> "full"]
        [] OTHER -> [part |-> [marked EXCEPT ![p] = User(id, val, TRUE)], fatal |-> ""]

----------------------------------------------------------------------------
(* The chip                                                                *)

Erased == [p \in 0 .. FlPhysical - 1 |-> Blank]
ZeroChip == [factory |-> "zero", part |-> [p \in 0 .. FlPhysical - 1 |-> Zero]]

(* flash_program clears bits: contents come out right on a blank block     *)
(* only, anything else no longer fits its crc.                             *)
FlashProgram(part, op) ==
  LET old == part[op.p]
  IN  [part EXCEPT ![op.p] =
         CASE op.t = "bit" -> SetAllocated(old, op.user)
           [] op.t = "data" /\ old = Blank -> User(op.id, op.val, FALSE)
           [] op.t = "crc" /\ old = User(op.id, op.val, FALSE) -> User(op.id, op.val, TRUE)
           [] op.t = "header" /\ old \in {Blank, Header} -> Header
           [] OTHER -> User(op.id, op.val, FALSE)]

(* The logical block whose new value is complete with this program.        *)
Completes(op) == IF op.t = "crc" THEN [fllast EXCEPT ![op.id] = op.val] ELSE fllast

CmdProgram(op) ==
  /\ flchip' = [flchip EXCEPT !.part = FlashProgram(@, op)]
  /\ fllast' = Completes(op)

EraseChip ==
  /\ flchip' = [factory |-> "blank", part |-> Erased]
  /\ fllast' = NothingWritten
EraseSector(s) ==
  /\ flchip' = IF s = "user" THEN [flchip EXCEPT !.part = Erased] ELSE [flchip EXCEPT !.factory = "blank"]
  /\ fllast' = IF s = "user" THEN NothingWritten ELSE fllast

FlAdvance(s) == /\ flcmd' = [flcmd EXCEPT !.state = s]
              /\ UNCHANGED <<flchip, fllast, flfatal>>
Unexpected == /\ flfatal' = "cycle"
              /\ UNCHANGED <<flchip, flcmd, fllast>>

(* flash_rom_write: one cycle of a command.  A stray first unlock cycle    *)
(* in place of the data of a program lands at 0x5555, another partition.   *)
RomWrite(c) ==
  LET s == flcmd.state
      expected == \/ c.t = "unlock1" /\ (s = 0 \/ (s = 3 /\ flcmd.cmd = "ERASE"))
                  \/ c.t = "unlock2" /\ s \in {1, 4}
  IN  \/ expected /\ FlAdvance(s + 1)
      \/ /\ s = 2 /\ c.t \in {"PROGRAM", "ERASE"}
         /\ flcmd' = [cmd |-> c.t, state |-> 3]
         /\ UNCHANGED <<flchip, fllast, flfatal>>
      \/ /\ s = 3 /\ flcmd.cmd = "PROGRAM" /\ c.t \in {"bit", "data", "crc", "header"}
         /\ CmdProgram(c)
         /\ flcmd' = [flcmd EXCEPT !.state = 0]
         /\ UNCHANGED flfatal
      \/ s = 3 /\ flcmd.cmd = "PROGRAM" /\ c.t = "unlock1" /\ FlAdvance(0)
      \/ /\ s = 5 /\ c.t \in {"chip", "sector"}
         /\ IF c.t = "chip" THEN EraseChip ELSE EraseSector(c.s)
         /\ flcmd' = [flcmd EXCEPT !.state = 0]
         /\ UNCHANGED flfatal
      \/ /\ ~expected
         /\ ~(s = 2 /\ c.t \in {"PROGRAM", "ERASE"})
         /\ ~(s = 3 /\ flcmd.cmd = "PROGRAM" /\ c.t \in {"bit", "data", "crc", "header", "unlock1"})
         /\ ~(s = 5 /\ c.t \in {"chip", "sector"})
         /\ Unexpected

----------------------------------------------------------------------------
(* The bios at the start of the process and of a game                      *)

(* bios_validate_flash                                                     *)
ValidateFlash(chip) ==
  [factory |-> "set",
   part |-> IF ValidateHeader(chip.part) THEN chip.part ELSE [Erased EXCEPT ![0] = Header]]

(* flash_init, then bios_post_init: bios_validate_flash and                *)
(* bios_override_settings with the options of this start.                  *)
FlStart(v) ==
  LET loaded == IF flfile.ok THEN flfile.chip ELSE ZeroChip
      valid == ValidateFlash(loaded)
      kept == IF flfile.ok /\ ValidateHeader(loaded.part) THEN flfile.last ELSE NothingWritten
      w == WriteBlock(valid.part, FlSyscfg, v)
  IN  /\ ~flup
      /\ flchip' = [valid EXCEPT !.part = w.part]
      /\ fllast' = IF w.fatal = "" THEN [kept EXCEPT ![FlSyscfg] = v] ELSE kept
      /\ flcmd' = [cmd |-> "", state |-> 0]
      /\ flup' = TRUE
      /\ flfatal' = w.fatal
      /\ fltodo' = <<>>
      /\ UNCHANGED <<flfile, flabused, flwork>>

FlRunning == flup /\ flfatal = ""

(* Loading a game: dc_load resets the machine but not the flash rom, the   *)
(* guest's job is forgotten and bios_boot reads the settings.              *)
FlLoad ==
  /\ FlRunning
  /\ flabused' = (flabused \/ flcmd.state # 0)
  /\ fltodo' = <<>>
  /\ flfatal' = IF ReadBlock(flchip.part, FlSyscfg) = FlNone THEN "syscfg" ELSE ""
  /\ UNCHANGED <<flchip, flcmd, flfile, flup, fllast, flwork>>

(* The memory of the process is gone with it.                              *)
NoFile == [ok |-> FALSE, chip |-> ZeroChip, last |-> NothingWritten]
Ended == /\ flup' = FALSE
         /\ flchip' = ZeroChip
         /\ flcmd' = [cmd |-> "", state |-> 0]
         /\ fllast' = NothingWritten
         /\ flfatal' = ""
         /\ fltodo' = <<>>

(* flash_destroy saves the rom over the old file, which a crash leaves     *)
(* with the wrong size.                                                    *)
FlQuit ==
  /\ FlRunning
  /\ flfile' \in {[ok |-> TRUE, chip |-> flchip, last |-> fllast], NoFile}
  /\ Ended
  /\ UNCHANGED <<flabused, flwork>>

(* The process dies without flash_destroy, as it does after a failed CHECK. *)
FlCrash ==
  /\ flup
  /\ Ended
  /\ UNCHANGED <<flfile, flabused, flwork>>

----------------------------------------------------------------------------
(* The guest                                                               *)

Cycles(op) == << [t |-> "unlock1"], [t |-> "unlock2"], [t |-> "PROGRAM"], op >>
EraseCycles(op) == << [t |-> "unlock1"], [t |-> "unlock2"], [t |-> "ERASE"], [t |-> "unlock1"], [t |-> "unlock2"], op >>
Calls(items, by) == [k \in DOMAIN items |-> [by |-> by, c |-> items[k]]]
Programs(ops, by) ==
  LET cycle(k) == Cycles(ops[(k \div 4) + 1])[(k % 4) + 1]
  IN  Calls(IF by = "syscall" THEN ops ELSE [k \in 1 .. 4 * Len(ops) |-> cycle(k - 1)], by)

(* An update appends a block, taking the first free one as the library    *)
(* finds it in the bitmaps; a partition that is full is erased first and   *)
(* gets its header back.                                                   *)
FlBegin(items) == /\ FlRunning /\ fltodo = <<>> /\ flwork > 0
                /\ fltodo' = items
                /\ flwork' = flwork - 1
                /\ UNCHANGED <<flchip, flcmd, flfile, flup, fllast, flfatal>>

UpdateOps(p, id, val) ==
  LET at(t, b) == [t |-> t, p |-> b, user |-> p, id |-> id, val |-> val]
  IN  <<at("bit", LookupBitmap(p)), at("data", p), at("crc", p)>>
GuestUpdate(id, val, by) ==
  LET free == {p \in UserBlocks : ~IsAllocated(flchip.part[LookupBitmap(p)], p)}
  IN  /\ ValidateHeader(flchip.part) /\ free # {}
      /\ FlBegin(Programs(UpdateOps(Min(free), id, val), by))
      /\ UNCHANGED flabused

EraseOps == {[t |-> "chip"], [t |-> "sector", s |-> "user"], [t |-> "sector", s |-> "factory"]}
HeaderOp == [t |-> "header", p |-> 0, user |-> 0, id |-> FlSyscfg, val |-> FlNone]
EraseJob(c) == Calls(EraseCycles(c), "chip") \o Programs(<<HeaderOp>>, "chip")
GuestErase(c) ==
  /\ FlBegin(EraseJob(c))
  /\ flabused' = TRUE

(* FLASHROM_PROGRAM                                                        *)
SyscallProgram(op) ==
  /\ CmdProgram(op)
  /\ UNCHANGED <<flcmd, flfatal>>

(* FLASHROM_ERASE: the loop over the partitions does not advance, so that  *)
(* only the first one, the factory settings, is ever found.                *)
SyscallErase(first) ==
  /\ FlRunning /\ fltodo = <<>> /\ flwork > 0
  /\ flwork' = flwork - 1
  /\ \/ first /\ EraseSector("factory") /\ UNCHANGED flfatal
     \/ ~first /\ flfatal' = "hangs" /\ UNCHANGED <<flchip, fllast>>
  /\ UNCHANGED <<flcmd, flfile, flup, fltodo, flabused>>

GuestStep ==
  /\ FlRunning /\ fltodo # <<>>
  /\ LET i == Head(fltodo)
     IN  IF i.by = "syscall" THEN SyscallProgram(i.c) ELSE RomWrite(i.c)
  /\ fltodo' = Tail(fltodo)
  /\ UNCHANGED <<flfile, flup, flabused, flwork>>

(* A read of the chip by its address, which flash_rom_read refuses while a *)
(* command is under way.                                                   *)
GuestRead ==
  /\ FlRunning /\ fltodo = <<>>
  /\ flcmd.state # 0
  /\ flfatal' = "cycle"
  /\ UNCHANGED <<flchip, flcmd, flfile, flup, fltodo, fllast, flabused, flwork>>

FlInit ==
  /\ flchip = ZeroChip
  /\ flcmd = [cmd |-> "", state |-> 0]
  /\ flfile = NoFile
  /\ flup = FALSE
  /\ fltodo = <<>>
  /\ fllast = NothingWritten
  /\ flabused = FALSE
  /\ flfatal = ""
  /\ flwork = FlMaxWork

FlNext ==
  \/ \E v \in FlVals : FlStart(v)
  \/ FlLoad \/ FlQuit \/ FlCrash
  \/ \E id \in FlIds, val \in FlVals, by \in {"syscall", "chip"} : GuestUpdate(id, val, by)
  \/ \E c \in EraseOps : GuestErase(c)
  \/ \E first \in BOOLEAN : SyscallErase(first)
  \/ GuestStep
  \/ GuestRead

FlSpec == FlInit /\ [][FlNext]_flvars

----------------------------------------------------------------------------
(* Every logical block reads as its last completed update, however many    *)
(* blocks, bitmaps, torn updates, crashes and restarts lie in between      *)
(* (flash_lookup_block against flash_alloc_block).                         *)
FlashReadsLast == flup => \A id \in FlIds : ReadBlock(flchip.part, id) = fllast[id]

(* Whatever is in flash.bin, the emulator starts and boots unless a guest  *)
(* erased the flash or was stopped within a chip command (the CHECKs of    *)
(* bios_override_settings, bios_boot, flash_alloc_block and                *)
(* flash_rom_write).                                                       *)
FlashBoots == flfatal \notin {"", "hangs"} => flabused

(* The settings survive: what was written is read back, and a flash.bin    *)
(* that redream itself left behind always lets the next game boot.         *)
FlashKept == FlashReadsLast /\ FlashBoots

=============================================================================
