-------------------------------- MODULE Intc --------------------------------
(***************************************************************************)
(* From a device's interrupt to the sh4 taking it: the status and mask     *)
(* registers of holly.c, which drive the level encoded lines; the          *)
(* controller of sh4_intc.c, which keeps requests as bits of sort ids and  *)
(* caches which of them are pending; and the status register, SLEEP,       *)
(* exceptions and sh4_check_interrupts of sh4.c.                           *)
(*                                                                         *)
(* A bit mask is a set of sort ids, 1 for the lowest bit.  INTEVT is a     *)
(* sequence, empty after a reset.                                          *)
(***************************************************************************)
EXTENDS Integers, FiniteSets

CONSTANTS
  Lines,       \* the IRL interrupts holly drives, by number
  Peripherals, \* interrupts of the sh4's own devices, by number
  MaxLevel,    \* 15
  LineLevel,   \* the priority of a line
  Sources,     \* bits of SB_ISTNRM, SB_ISTEXT and SB_ISTERR
  External,    \* the ones of SB_ISTEXT
  VblankOut,   \* PCVOINT
  MapleEnd,    \* MDEINT
  Masks,       \* values written to SB_IML*
  SleepBlocked \* may the guest execute SLEEP with BL set?

Ints == Lines \cup Peripherals

Levels == 0..MaxLevel

ASSUME IntcAssumption ==
  /\ Ints \subseteq Nat /\ IsFiniteSet(Ints) /\ Lines \cap Peripherals = {}
  /\ \A l \in Lines, p \in Peripherals : l < p
  /\ MaxLevel \in Nat \ {0}
  /\ LineLevel \in [Lines -> Levels]
  /\ External \subseteq Sources /\ VblankOut \in Sources /\ MapleEnd \in Sources
  /\ VblankOut # MapleEnd
  /\ Masks \subseteq SUBSET Sources
  /\ SleepBlocked \in BOOLEAN

VARIABLES
  ist,        \* SB_IST*: sources that are raised
  iml,        \* SB_IML*: the sources each line listens to
  mdtsel,     \* SB_MDTSEL and SB_MDEN: does the vblank start a maple dma?
  mden,
  ipr,        \* IPRA..C: the priority of each peripheral
  sort_id,    \* sorted ids and the masks derived from them
  priority_mask,
  requested,  \* requested_interrupts
  pending,    \* ctx.pending_interrupts
  sr,         \* BL and IMASK
  sleep_mode,
  intevt

hollyVars == <<ist, iml, mdtsel, mden>>
sortVars == <<ipr, sort_id, priority_mask>>
cpuVars == <<sr, sleep_mode, intevt>>
intcVars == <<hollyVars, sortVars, requested, pending, cpuVars>>

Ids == 1..Cardinality(Ints)

Registers == [bl : BOOLEAN, imask : Levels]

IntcTypeOK ==
  /\ ist \subseteq Sources
  /\ iml \in [Lines -> SUBSET Sources]
  /\ mdtsel \in BOOLEAN /\ mden \in BOOLEAN
  /\ ipr \in [Peripherals -> Levels]
  /\ sort_id \in [Ints -> Ids]
  /\ priority_mask \in [Levels -> SUBSET Ids]
  /\ requested \subseteq Ids /\ pending \subseteq Ids
  /\ sr \in Registers
  /\ sleep_mode \in BOOLEAN
  /\ intevt \in {<<>>} \cup {<<i>> : i \in Ints}

-----------------------------------------------------------------------------
(* sh4_intc.c *)

Priority(p, i) == IF i \in Lines THEN LineLevel[i] ELSE p[i]

(* Levels are visited upwards, and the interrupts of a level backwards. *)
SortsBelow(p, i, j) ==
  \/ Priority(p, i) < Priority(p, j)
  \/ Priority(p, i) = Priority(p, j) /\ i > j

(* sort_id, and sorted_interrupts, which is its inverse. *)
SortIds(p) == [i \in Ints |-> 1 + Cardinality({j \in Ints : SortsBelow(p, j, i)})]

(* For each level, all sort ids up to that priority. *)
PriorityMasks(p) ==
  [l \in Levels |-> 1..Cardinality({i \in Ints : Priority(p, i) <= l})]

(* Mutant of Rerequest: the bits are kept as they are. *)
RerequestVerbatim(ids) == requested

(* Each request moves to the interrupt's new sort id. *)
Rerequest(ids) == {ids[i] : i \in {j \in Ints : sort_id[j] \in requested}}

(* sh4_intc_update_pending: BL is ignored while the cpu sleeps. *)
UpdatePending(req, masks, reg, asleep) ==
  IF reg.bl /\ ~asleep THEN {} ELSE req \ masks[reg.imask]

(* sh4_intc_reprioritize, for a status register that may just have changed. *)
Reprioritize(p, reg, asleep) ==
  LET ids == SortIds(p)
      masks == PriorityMasks(p)
      req == Rerequest(ids)
  IN  /\ ipr' = p /\ sort_id' = ids /\ priority_mask' = masks
      /\ requested' = req
      /\ pending' = UpdatePending(req, masks, reg, asleep)

(* sh4_raise_interrupt and sh4_clear_interrupt, for several at a time. *)
Request(raise, clear) ==
  /\ requested' = (requested \ {sort_id[i] : i \in clear})
                    \cup {sort_id[i] : i \in raise}
  /\ pending' = UpdatePending(requested', priority_mask, sr, sleep_mode)
  /\ UNCHANGED <<sortVars, cpuVars>>

-----------------------------------------------------------------------------
(* holly.c *)

(* holly_update_interrupts, once the registers have their new values. *)
UpdateInterrupts ==
  LET up == {l \in Lines : ist' \cap iml'[l] # {}}
  IN  Request(up, Lines \ up)

(* holly_raise_interrupt.  Vblank out may start a maple dma, which runs at once
   and raises an interrupt of its own. *)
RaiseInterrupt(s) ==
  /\ ist' = ist \cup {s}
              \cup IF s = VblankOut /\ mdtsel /\ mden THEN {MapleEnd} ELSE {}
  /\ UNCHANGED <<iml, mdtsel, mden>>
  /\ UpdateInterrupts

Awake == ~sleep_mode

(* holly_clear_interrupt: reading the status of an external device. *)
ClearExternal(s) ==
  /\ Awake
  /\ ist' = ist \ {s}
  /\ UNCHANGED <<iml, mdtsel, mden>>
  /\ UpdateInterrupts

(* Writes to SB_ISTNRM and SB_ISTERR clear; SB_ISTEXT ignores them. *)
WriteIST(v) ==
  /\ Awake
  /\ ist' = ist \ (v \ External)
  /\ UNCHANGED <<iml, mdtsel, mden>>
  /\ UpdateInterrupts

WriteIML(l, v) ==
  /\ Awake
  /\ iml' = [iml EXCEPT ![l] = v]
  /\ UNCHANGED <<ist, mdtsel, mden>>
  /\ UpdateInterrupts

WriteMaple(sel, en) ==
  /\ Awake
  /\ mdtsel' = sel /\ mden' = en
  /\ UNCHANGED <<ist, iml, sortVars, requested, pending, cpuVars>>

(* A write of 1 to SB_MDST; with SB_MDEN clear the dma does not run. *)
WriteMDST ==
  /\ Awake /\ mden
  /\ RaiseInterrupt(MapleEnd)

-----------------------------------------------------------------------------
(* The sh4's own devices: an underflow, a full fifo, the end of a dma. *)

RaisePeripheral(i) == Request({i}, {}) /\ UNCHANGED hollyVars

ClearPeripheral(i) == Awake /\ Request({}, {i}) /\ UNCHANGED hollyVars

WriteIPR(i, level) ==
  /\ Awake
  /\ Reprioritize([ipr EXCEPT ![i] = level], sr, sleep_mode)
  /\ UNCHANGED <<hollyVars, cpuVars>>

-----------------------------------------------------------------------------
(* sh4.c *)

(* Mutant of SrUpdated: only a change of BL is looked at. *)
SrUpdatedBlockOnly(old, new, asleep) ==
  pending' = IF new.bl # old.bl
             THEN UpdatePending(requested, priority_mask, new, asleep)
             ELSE pending

(* sh4_sr_updated looks again only when IMASK or BL changed. *)
SrUpdated(old, new, asleep) ==
  pending' = IF new # old
             THEN UpdatePending(requested, priority_mask, new, asleep)
             ELSE pending

(* LDC to SR, and RTE. *)
StoreSR(new) ==
  /\ Awake
  /\ sr' = new
  /\ SrUpdated(sr, new, sleep_mode)
  /\ UNCHANGED <<hollyVars, sortVars, requested, sleep_mode, intevt>>

(* sh4_exception *)
Exception ==
  /\ Awake
  /\ sr' = [sr EXCEPT !.bl = TRUE]
  /\ SrUpdated(sr, sr', sleep_mode)
  /\ UNCHANGED <<hollyVars, sortVars, requested, sleep_mode, intevt>>

(* sh4_sleep does not look at the interrupts again. *)
Sleep ==
  /\ Awake
  /\ SleepBlocked \/ ~sr.bl
  /\ sleep_mode' = TRUE
  /\ UNCHANGED <<hollyVars, sortVars, requested, pending, sr, intevt>>

(* The highest pending sort id and the interrupt it stands for. *)
HighestPending == CHOOSE i \in Ints : /\ sort_id[i] \in pending
                                      /\ \A n \in pending : n <= sort_id[i]

(* Mutant of CheckInterrupts: the cpu sleeps on. *)
CheckInterruptsAsleep ==
  /\ pending # {}
  /\ intevt' = <<HighestPending>>
  /\ sr' = [sr EXCEPT !.bl = TRUE]
  /\ SrUpdated(sr, sr', FALSE)
  /\ UNCHANGED <<hollyVars, sortVars, requested, sleep_mode>>

(* sh4_check_interrupts *)
CheckInterrupts ==
  /\ pending # {}
  /\ intevt' = <<HighestPending>>
  /\ sr' = [sr EXCEPT !.bl = TRUE]
  /\ sleep_mode' = FALSE
  /\ SrUpdated(sr, sr', FALSE)
  /\ UNCHANGED <<hollyVars, sortVars, requested>>

ResetSR == [bl |-> TRUE, imask |-> MaxLevel]

(* sh4_reset, for another game: the requests stay. *)
IntcReset ==
  /\ sr' = ResetSR
  /\ sleep_mode' = FALSE
  /\ intevt' = <<>>
  /\ Reprioritize([i \in Peripherals |-> 0], ResetSR, FALSE)
  /\ UNCHANGED hollyVars

(* holly_create and the first sh4_reset. *)
IntcInit ==
  LET p == [i \in Peripherals |-> 0]
  IN  /\ ist = {} /\ iml = [l \in Lines |-> {}]
      /\ mdtsel = FALSE /\ mden = FALSE
      /\ ipr = p /\ sort_id = SortIds(p) /\ priority_mask = PriorityMasks(p)
      /\ requested = {} /\ pending = {}
      /\ sr = ResetSR /\ sleep_mode = FALSE /\ intevt = <<>>

IntcNext ==
  \/ \E s \in Sources : RaiseInterrupt(s)
  \/ \E s \in External : ClearExternal(s)
  \/ \E v \in SUBSET Sources : WriteIST(v)
  \/ \E l \in Lines, v \in Masks : WriteIML(l, v)
  \/ \E sel, en \in BOOLEAN : WriteMaple(sel, en)
  \/ WriteMDST
  \/ \E i \in Peripherals : RaisePeripheral(i) \/ ClearPeripheral(i)
  \/ \E i \in Peripherals, l \in Levels : WriteIPR(i, l)
  \/ \E new \in Registers : StoreSR(new)
  \/ Exception \/ Sleep \/ CheckInterrupts \/ IntcReset

IntcSpec == IntcInit /\ [][IntcNext]_intcVars

(* Translated code looks at pending_interrupts in the prologue of every block,
   and the video timing raises vblank out once per frame for ever. *)
IntcFairness == WF_intcVars(CheckInterrupts) /\ WF_intcVars(RaiseInterrupt(VblankOut))

-----------------------------------------------------------------------------
(* Properties. *)

Asked == {i \in Ints : sort_id[i] \in requested}

(* The bookkeeping with sort ids is invisible: whatever is taken was asked for,
   above the mask, and first in line, and changing a priority neither loses nor
   invents a request. *)
Irq == INSTANCE IrqSpec WITH
  asked <- Asked, priority <- [i \in Ints |-> Priority(ipr, i)],
  sleeping <- sleep_mode, taken <- intevt

TakesTheRightOne == Irq!Spec

(* A line is requested exactly while a source it listens to is raised, across
   every write, maple dma, change of priorities and cpu reset. *)
LinesFollowSources ==
  \A l \in Lines : l \in Asked <=> ist \cap iml[l] # {}

(* The two caches between a device and the cpu are never stale: the lines are
   what their sources make them, and pending_interrupts is what it would be if
   it were computed now, although sh4_sr_updated and sh4_sleep skip the
   computation. *)
PendingFresh ==
  /\ IntcTypeOK /\ LinesFollowSources
  /\ pending = UpdatePending(requested, priority_mask, sr, sleep_mode)

(* "do nothing but spin on the current pc until an interrupt is raised"
   (sh4_sleep): a sleeping cpu wakes up for every interrupt its mask lets
   through, also one requested before it went to sleep. *)
Wanted == \E i \in Asked : Priority(ipr, i) > sr.imask

SleepEnds == sleep_mode /\ Wanted ~> ~sleep_mode

=============================================================================
