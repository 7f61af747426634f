----------------------------- MODULE IntcProofs -----------------------------
(***************************************************************************)
(* The interrupt controller for any lines, peripherals, priorities and     *)
(* sources.                                                                *)
(*                                                                         *)
(* Everything rests on what sh4_intc_reprioritize computes: sort ids are   *)
(* injective, follow the priorities, and a mask holds exactly the ids of   *)
(* the interrupts up to its level.  With that a set of sort ids says the   *)
(* same as a set of interrupts, which is the refinement mapping.           *)
(***************************************************************************)
EXTENDS Intc, FiniteSetTheorems, WellFoundedInduction, TLAPS

(* The interrupts visited before i when the ids are handed out. *)
Before(p, i) == {j \in Ints : SortsBelow(p, j, i)}

UpTo(p, l) == {i \in Ints : Priority(p, i) <= l}

Priorities == [Peripherals -> Levels]

(* Every interrupt has a level, whatever the IPR registers hold. *)
LEMMA PriorityType ==
  ASSUME NEW p \in Priorities, NEW i \in Ints
  PROVE  Priority(p, i) \in Levels /\ Priority(p, i) \in Nat
BY IntcAssumption DEF Priorities, Ints, Levels, Priority

(* sort_interrupts visits the interrupts in a strict total order. *)
LEMMA SortOrder ==
  ASSUME NEW p \in Priorities, NEW i \in Ints, NEW j \in Ints
  PROVE  /\ ~ SortsBelow(p, i, i)
         /\ i # j => SortsBelow(p, i, j) \/ SortsBelow(p, j, i)
         /\ \A k \in Ints : SortsBelow(p, i, j) /\ SortsBelow(p, j, k)
                              => SortsBelow(p, i, k)
<1> Ints \subseteq Nat
  BY IntcAssumption
<1> \A k \in Ints : Priority(p, k) \in Nat
  BY PriorityType
<1> QED
  BY DEF SortsBelow

(* The sets that are counted are finite. *)
LEMMA Counted ==
  ASSUME NEW S \in SUBSET Ints
  PROVE  IsFiniteSet(S) /\ Cardinality(S) \in Nat /\ Cardinality(S) <= Cardinality(Ints)
<1>1. IsFiniteSet(Ints)
  BY IntcAssumption
<1>2. IsFiniteSet(S) /\ Cardinality(S) <= Cardinality(Ints)
  BY <1>1, FS_Subset
<1> QED
  BY <1>2, FS_CardinalityType

(* Counting one element more. *)
LEMMA CountsMore ==
  ASSUME NEW T \in SUBSET Ints, NEW S \in SUBSET T, NEW x \in T \ S
  PROVE  Cardinality(S) < Cardinality(T)
<1>1. IsFiniteSet(T) /\ Cardinality(S) \in Nat /\ Cardinality(T) \in Nat
  BY Counted
<1>2. Cardinality(S) <= Cardinality(T) /\ (Cardinality(T) = Cardinality(S) => T = S)
  BY <1>1, FS_Subset
<1> QED
  BY <1>1, <1>2

(* A sort id is a position among the interrupts: no bit of the masks is
   outside their width. *)
LEMMA SortIdType ==
  ASSUME NEW p \in Priorities
  PROVE  SortIds(p) \in [Ints -> Ids]
<1> SUFFICES ASSUME NEW i \in Ints
             PROVE  1 + Cardinality(Before(p, i)) \in Ids
  BY DEF SortIds, Before
<1>1. Before(p, i) \in SUBSET Ints /\ i \notin Before(p, i)
  BY SortOrder DEF Before
<1>2. Cardinality(Before(p, i)) < Cardinality(Ints)
  BY <1>1, CountsMore
<1>3. Cardinality(Before(p, i)) \in Nat /\ Cardinality(Ints) \in Nat
  BY <1>1, Counted
<1> QED
  BY <1>2, <1>3 DEF Ids

(* Sort ids follow the order in which interrupts are to be taken. *)
LEMMA SortIdsMonotone ==
  ASSUME NEW p \in Priorities, NEW i \in Ints, NEW j \in Ints, SortsBelow(p, i, j)
  PROVE  SortIds(p)[i] < SortIds(p)[j]
<1>1. Before(p, j) \in SUBSET Ints /\ Before(p, i) \in SUBSET Before(p, j)
  BY SortOrder DEF Before
<1>2. i \in Before(p, j) \ Before(p, i)
  BY SortOrder DEF Before
<1>3. Cardinality(Before(p, i)) < Cardinality(Before(p, j))
  BY <1>1, <1>2, CountsMore
<1>4. Cardinality(Before(p, i)) \in Nat /\ Cardinality(Before(p, j)) \in Nat
  BY <1>1, Counted
<1>5. /\ SortIds(p)[i] = 1 + Cardinality(Before(p, i))
      /\ SortIds(p)[j] = 1 + Cardinality(Before(p, j))
  BY DEF SortIds, Before
<1> QED
  BY <1>3, <1>4, <1>5

(* Two interrupts never share a bit. *)
LEMMA SortIdsInjective ==
  ASSUME NEW p \in Priorities, NEW i \in Ints, NEW j \in Ints,
         SortIds(p)[i] = SortIds(p)[j]
  PROVE  i = j
<1>1. SortIds(p)[i] \in Int /\ SortIds(p)[j] \in Int
  BY SortIdType DEF Ids
<1> QED
  BY <1>1, SortOrder, SortIdsMonotone

(* The mask of a level holds the ids of the interrupts up to that level and of
   no others. *)
LEMMA MaskExact ==
  ASSUME NEW p \in Priorities, NEW i \in Ints, NEW l \in Levels
  PROVE  SortIds(p)[i] \in PriorityMasks(p)[l] <=> Priority(p, i) <= l
<1> DEFINE B == Before(p, i)
           U == UpTo(p, l)
<1>1. /\ SortIds(p)[i] = 1 + Cardinality(B)
      /\ PriorityMasks(p)[l] = 1..Cardinality(U)
  BY DEF SortIds, PriorityMasks, Before, UpTo
<1>2. B \in SUBSET Ints /\ U \in SUBSET Ints /\ i \notin B
  BY SortOrder DEF Before, UpTo
<1>3. Cardinality(B) \in Nat /\ Cardinality(U) \in Nat
  BY <1>2, Counted
<1>4. l \in Nat /\ \A j \in Ints : Priority(p, j) \in Nat
  BY PriorityType DEF Levels
<1>5. CASE Priority(p, i) <= l
  <2>1. B \in SUBSET U /\ i \in U \ B
    BY <1>2, <1>4, <1>5 DEF Before, UpTo, SortsBelow
  <2>2. Cardinality(B) < Cardinality(U)
    BY <1>2, <2>1, CountsMore
  <2> QED
    BY <1>1, <1>3, <1>5, <2>2
<1>6. CASE ~ (Priority(p, i) <= l)
  <2>1. U \in SUBSET B
    BY <1>4, <1>6 DEF Before, UpTo, SortsBelow
  <2>2. IsFiniteSet(B)
    BY <1>2, Counted
  <2>3. Cardinality(U) <= Cardinality(B)
    BY <2>1, <2>2, FS_Subset
  <2> QED
    BY <1>1, <1>3, <1>6, <2>3
<1> QED
  BY <1>5, <1>6

(* The masks are sets of ids. *)
LEMMA MaskType ==
  ASSUME NEW p \in Priorities
  PROVE  PriorityMasks(p) \in [Levels -> SUBSET Ids]
<1> SUFFICES ASSUME NEW l \in Levels
             PROVE  1..Cardinality(UpTo(p, l)) \subseteq Ids
  BY DEF PriorityMasks, UpTo
<1>1. UpTo(p, l) \in SUBSET Ints
  BY DEF UpTo
<1>2. /\ Cardinality(UpTo(p, l)) \in Nat /\ Cardinality(Ints) \in Nat
      /\ Cardinality(UpTo(p, l)) <= Cardinality(Ints)
  BY <1>1, Counted
<1> QED
  BY <1>2 DEF Ids

-----------------------------------------------------------------------------
(* The inductive invariant: the tables are the ones of the priorities in force,
   every request is some interrupt's bit, and the lines follow their sources;
   a sleeping cpu does not block interrupts, and pending_interrupts is fresh. *)

SortInv ==
  /\ IntcTypeOK
  /\ sort_id = SortIds(ipr) /\ priority_mask = PriorityMasks(ipr)
  /\ pending \subseteq requested /\ requested \subseteq {sort_id[i] : i \in Ints}
  /\ LinesFollowSources

FreshInv ==
  /\ sleep_mode => ~sr.bl
  /\ pending = UpdatePending(requested, priority_mask, sr, sleep_mode)

(* sh4_raise_interrupt and sh4_clear_interrupt change the requests they are
   called for and no others. *)
LEMMA RequestExact ==
  ASSUME SortInv, NEW raise \in SUBSET Ints, NEW clear \in SUBSET Ints,
         Request(raise, clear)
  PROVE  /\ Asked' = (Asked \ clear) \cup raise
         /\ requested' \subseteq {sort_id[i] : i \in Ints}
         /\ requested' \subseteq Ids /\ pending' \subseteq requested'
<1>1. /\ sort_id \in [Ints -> Ids] /\ requested \subseteq Ids
      /\ requested \subseteq {sort_id[i] : i \in Ints}
  BY DEF SortInv, IntcTypeOK
<1>2. \A i, j \in Ints : sort_id[i] = sort_id[j] => i = j
  BY SortIdsInjective DEF SortInv, IntcTypeOK, Priorities
<1>3. /\ requested' = (requested \ {sort_id[i] : i \in clear}) \cup {sort_id[i] : i \in raise}
      /\ sort_id' = sort_id
      /\ pending' = UpdatePending(requested', priority_mask, sr, sleep_mode)
  BY DEF Request, sortVars
<1>4. Asked' = (Asked \ clear) \cup raise
  BY <1>1, <1>2, <1>3 DEF Asked
<1>5. requested' \subseteq {sort_id[i] : i \in Ints} /\ requested' \subseteq Ids
  BY <1>1, <1>3
<1>6. pending' \subseteq requested'
  BY <1>3 DEF UpdatePending
<1> QED
  BY <1>4, <1>5, <1>6

(* sh4_intc_reprioritize moves every request to its interrupt's new bit. *)
LEMMA ReprioritizeExact ==
  ASSUME SortInv, NEW p \in Priorities, NEW reg, NEW asleep, Reprioritize(p, reg, asleep)
  PROVE  /\ Asked' = Asked
         /\ sort_id' = SortIds(ipr') /\ priority_mask' = PriorityMasks(ipr')
         /\ ipr' \in Priorities
         /\ sort_id' \in [Ints -> Ids] /\ priority_mask' \in [Levels -> SUBSET Ids]
         /\ requested' \subseteq {sort_id'[i] : i \in Ints}
         /\ requested' \subseteq Ids /\ pending' \subseteq requested'
         /\ pending' = UpdatePending(requested', priority_mask', reg, asleep)
<1>1. /\ ipr' = p /\ sort_id' = SortIds(p) /\ priority_mask' = PriorityMasks(p)
      /\ requested' = Rerequest(SortIds(p))
      /\ pending' = UpdatePending(requested', priority_mask', reg, asleep)
  BY DEF Reprioritize
<1>2. sort_id' \in [Ints -> Ids] /\ priority_mask' \in [Levels -> SUBSET Ids]
  BY <1>1, SortIdType, MaskType
<1>3. \A i, j \in Ints : sort_id'[i] = sort_id'[j] => i = j
  BY <1>1, SortIdsInjective
<1>4. requested' = {sort_id'[i] : i \in Asked}
  BY <1>1 DEF Rerequest, Asked
<1>5. Asked' = Asked
  BY <1>3, <1>4 DEF Asked
<1>6. requested' \subseteq {sort_id'[i] : i \in Ints} /\ requested' \subseteq Ids
  BY <1>2, <1>4 DEF Asked
<1>7. pending' \subseteq requested'
  BY <1>1 DEF UpdatePending
<1> QED
  BY <1>1, <1>2, <1>5, <1>6, <1>7

(* holly_update_interrupts: the lines are what the new registers make them. *)
LEMMA UpdateInterruptsExact ==
  ASSUME SortInv, UpdateInterrupts, ist' \subseteq Sources,
         iml' \in [Lines -> SUBSET Sources], mdtsel' \in BOOLEAN, mden' \in BOOLEAN
  PROVE  SortInv' /\ Asked' \subseteq Ints
<1> DEFINE up == {l \in Lines : ist' \cap iml'[l] # {}}
<1>1. Request(up, Lines \ up)
  BY DEF UpdateInterrupts
<1>2. up \in SUBSET Ints /\ Lines \ up \in SUBSET Ints
  BY DEF Ints
<1>3. /\ Asked' = (Asked \ (Lines \ up)) \cup up
      /\ requested' \subseteq {sort_id[i] : i \in Ints}
      /\ requested' \subseteq Ids /\ pending' \subseteq requested'
  BY <1>1, <1>2, RequestExact
<1>4. LinesFollowSources'
  BY <1>3 DEF LinesFollowSources
<1>5. UNCHANGED <<ipr, sort_id, priority_mask, sr, sleep_mode, intevt>>
  BY <1>1 DEF Request, sortVars, cpuVars
<1>6. IntcTypeOK'
  BY <1>3, <1>5 DEF SortInv, IntcTypeOK
<1>7. Asked' \subseteq Ints
  BY DEF Asked
<1> QED
  BY <1>3, <1>4, <1>5, <1>6, <1>7 DEF SortInv

(* A set of sort ids that is not empty has a highest one. *)
LEMMA HasGreatest ==
  ASSUME NEW n \in Nat, NEW S \in SUBSET (1..n), S # {}
  PROVE  \E x \in S : \A y \in S : y <= x
<1> DEFINE T == {n - x : x \in S}
<1>1. T \subseteq Nat /\ T # {}
  <2>1. PICK x \in S : TRUE
    OBVIOUS
  <2>2. n - x \in T
    OBVIOUS
  <2>3. ASSUME NEW y \in S PROVE n - y \in Nat
    OBVIOUS
  <2> QED
    BY <2>2, <2>3
<1> DEFINE R == {ss \in Nat \X Nat : ss[1] < ss[2]}
<1> HIDE DEF T
<1>a. IsWellFoundedOn(R, Nat)
  BY NatLessThanWellFounded DEF OpToRel
<1>2. PICK t \in T : \A u \in T : ~ (<<u, t>> \in R)
  <2> HIDE DEF R
  <2> QED
    BY <1>1, <1>a, WFMin
<1>3. \A u \in T : ~ (u < t)
  BY <1>1, <1>2
<1> USE DEF T
<1>4. PICK x \in S : t = n - x
  OBVIOUS
<1>5. ASSUME NEW y \in S PROVE y <= x
  <2>1. ~ (n - y < n - x)
    BY <1>3, <1>4
  <2> QED
    BY <2>1
<1> QED
  BY <1>5

(* The interrupt sh4_check_interrupts looks up exists. *)
LEMMA HighestExists ==
  ASSUME SortInv, pending # {}
  PROVE  /\ HighestPending \in Ints
         /\ sort_id[HighestPending] \in pending
         /\ \A n \in pending : n <= sort_id[HighestPending]
<1>1. pending \in SUBSET (1..Cardinality(Ints)) /\ Cardinality(Ints) \in Nat
  BY Counted DEF SortInv, IntcTypeOK, Ids
<1>2. PICK x \in pending : \A n \in pending : n <= x
  BY <1>1, HasGreatest
<1>3. PICK i \in Ints : sort_id[i] = x
  BY DEF SortInv
<1> QED
  BY <1>2, <1>3 DEF HighestPending

(* The tables, the requests and the lines are right in every step, whatever the
   guest does. *)
LEMMA SortStep ==
  ASSUME SortInv, [IntcNext]_intcVars
  PROVE  SortInv'
<1> USE IntcAssumption
<1>1. ASSUME NEW s \in Sources, RaiseInterrupt(s) PROVE SortInv'
  <2>1. /\ ist' \subseteq Sources /\ iml' \in [Lines -> SUBSET Sources]
        /\ mdtsel' \in BOOLEAN /\ mden' \in BOOLEAN
    BY <1>1 DEF RaiseInterrupt, SortInv, IntcTypeOK
  <2> QED
    BY <1>1, <2>1, UpdateInterruptsExact DEF RaiseInterrupt
<1>2. ASSUME NEW s \in External, ClearExternal(s) PROVE SortInv'
  <2>1. /\ ist' \subseteq Sources /\ iml' \in [Lines -> SUBSET Sources]
        /\ mdtsel' \in BOOLEAN /\ mden' \in BOOLEAN
    BY <1>2 DEF ClearExternal, SortInv, IntcTypeOK
  <2> QED
    BY <1>2, <2>1, UpdateInterruptsExact DEF ClearExternal
<1>3. ASSUME NEW v \in SUBSET Sources, WriteIST(v) PROVE SortInv'
  <2>1. /\ ist' \subseteq Sources /\ iml' \in [Lines -> SUBSET Sources]
        /\ mdtsel' \in BOOLEAN /\ mden' \in BOOLEAN
    BY <1>3 DEF WriteIST, SortInv, IntcTypeOK
  <2> QED
    BY <1>3, <2>1, UpdateInterruptsExact DEF WriteIST
<1>4. ASSUME NEW l \in Lines, NEW v \in Masks, WriteIML(l, v) PROVE SortInv'
  <2>1. /\ ist' \subseteq Sources /\ iml' \in [Lines -> SUBSET Sources]
        /\ mdtsel' \in BOOLEAN /\ mden' \in BOOLEAN
    BY <1>4 DEF WriteIML, SortInv, IntcTypeOK
  <2> QED
    BY <1>4, <2>1, UpdateInterruptsExact DEF WriteIML
<1>5. ASSUME NEW sel \in BOOLEAN, NEW en \in BOOLEAN, WriteMaple(sel, en) PROVE SortInv'
  BY <1>5 DEF WriteMaple, SortInv, IntcTypeOK, LinesFollowSources, Asked, sortVars, cpuVars
<1>6. CASE WriteMDST
  BY <1>1, <1>6 DEF WriteMDST
<1>7. ASSUME NEW i \in Peripherals, RaisePeripheral(i) \/ ClearPeripheral(i) PROVE SortInv'
  <2>1. PICK raise \in SUBSET Peripherals, clear \in SUBSET Peripherals :
          Request(raise, clear) /\ UNCHANGED hollyVars
    BY <1>7 DEF RaisePeripheral, ClearPeripheral
  <2>2. raise \in SUBSET Ints /\ clear \in SUBSET Ints
    BY DEF Ints
  <2>3. /\ Asked' = (Asked \ clear) \cup raise
        /\ requested' \subseteq {sort_id[j] : j \in Ints}
        /\ requested' \subseteq Ids /\ pending' \subseteq requested'
    BY <2>1, <2>2, RequestExact
  <2>4. UNCHANGED <<ist, iml, mdtsel, mden, ipr, sort_id, priority_mask, sr, sleep_mode, intevt>>
    BY <2>1 DEF Request, hollyVars, sortVars, cpuVars
  <2>5. LinesFollowSources'
    BY <2>3, <2>4 DEF SortInv, LinesFollowSources
  <2> QED
    BY <2>3, <2>4, <2>5 DEF SortInv, IntcTypeOK
<1>8. ASSUME NEW i \in Peripherals, NEW l \in Levels, WriteIPR(i, l) PROVE SortInv'
  <2>1. [ipr EXCEPT ![i] = l] \in Priorities
    BY DEF SortInv, IntcTypeOK, Priorities
  <2>2. /\ Reprioritize([ipr EXCEPT ![i] = l], sr, sleep_mode)
        /\ UNCHANGED <<ist, iml, mdtsel, mden, sr, sleep_mode, intevt>>
    BY <1>8 DEF WriteIPR, hollyVars, cpuVars
  <2> QED
    BY <2>1, <2>2, ReprioritizeExact DEF SortInv, IntcTypeOK, LinesFollowSources, Priorities
<1>9. ASSUME NEW new \in Registers, StoreSR(new) PROVE SortInv'
  BY <1>9 DEF StoreSR, SortInv, IntcTypeOK, LinesFollowSources, Asked, hollyVars, sortVars,
              SrUpdated, UpdatePending
<1>10. CASE Exception
  <2>1. sr' \in Registers
    BY <1>10 DEF Exception, SortInv, IntcTypeOK, Registers
  <2>2. pending' \subseteq requested
    BY <1>10 DEF Exception, SortInv, SrUpdated, UpdatePending
  <2> QED
    BY <1>10, <2>1, <2>2 DEF Exception, SortInv, IntcTypeOK, LinesFollowSources, Asked,
                             hollyVars, sortVars
<1>11. CASE Sleep
  BY <1>11 DEF Sleep, SortInv, IntcTypeOK, LinesFollowSources, Asked, hollyVars, sortVars
<1>12. CASE CheckInterrupts
  <2>1. HighestPending \in Ints
    BY <1>12, HighestExists DEF CheckInterrupts
  <2>2. sr' \in Registers
    BY <1>12 DEF CheckInterrupts, SortInv, IntcTypeOK, Registers
  <2>3. pending' \subseteq requested
    BY <1>12 DEF CheckInterrupts, SortInv, SrUpdated, UpdatePending
  <2> QED
    BY <1>12, <2>1, <2>2, <2>3 DEF CheckInterrupts, SortInv, IntcTypeOK, LinesFollowSources,
                                   Asked, hollyVars, sortVars
<1>13. CASE IntcReset
  <2>1. [i \in Peripherals |-> 0] \in Priorities
    BY DEF Priorities, Levels
  <2>2. /\ Reprioritize([i \in Peripherals |-> 0], ResetSR, FALSE)
        /\ UNCHANGED <<ist, iml, mdtsel, mden>>
        /\ sr' = ResetSR /\ sleep_mode' = FALSE /\ intevt' = <<>>
    BY <1>13 DEF IntcReset, hollyVars
  <2>3. ResetSR \in Registers
    BY DEF ResetSR, Registers, Levels
  <2> QED
    BY <2>1, <2>2, <2>3, ReprioritizeExact DEF SortInv, IntcTypeOK, LinesFollowSources, Priorities
<1>14. CASE UNCHANGED intcVars
  BY <1>14 DEF intcVars, hollyVars, sortVars, cpuVars, SortInv, IntcTypeOK,
               LinesFollowSources, Asked
<1> QED
  BY <1>1, <1>2, <1>3, <1>4, <1>5, <1>6, <1>7, <1>8, <1>9, <1>10, <1>11,
     <1>12, <1>13, <1>14 DEF IntcNext

(* Without SLEEP under BL, no step leaves a stale pending_interrupts behind:
   the steps that do not compute it again are the ones that need not. *)
LEMMA FreshStep ==
  ASSUME ~SleepBlocked, SortInv, FreshInv, [IntcNext]_intcVars
  PROVE  FreshInv'
<1>1. ASSUME NEW raise, NEW clear, Request(raise, clear) PROVE FreshInv'
  BY <1>1 DEF Request, FreshInv, sortVars, cpuVars
<1>2. ASSUME UpdateInterrupts PROVE FreshInv'
  BY <1>1, <1>2 DEF UpdateInterrupts
<1>3. ASSUME NEW s \in Sources, RaiseInterrupt(s) PROVE FreshInv'
  BY <1>2, <1>3 DEF RaiseInterrupt
<1>4. ASSUME NEW s \in External, ClearExternal(s) PROVE FreshInv'
  BY <1>2, <1>4 DEF ClearExternal
<1>5. ASSUME NEW v \in SUBSET Sources, WriteIST(v) PROVE FreshInv'
  BY <1>2, <1>5 DEF WriteIST
<1>6. ASSUME NEW l \in Lines, NEW v \in Masks, WriteIML(l, v) PROVE FreshInv'
  BY <1>2, <1>6 DEF WriteIML
<1>7. ASSUME NEW sel \in BOOLEAN, NEW en \in BOOLEAN, WriteMaple(sel, en) PROVE FreshInv'
  BY <1>7 DEF WriteMaple, FreshInv, sortVars, cpuVars
<1>8. CASE WriteMDST
  BY <1>3, <1>8, IntcAssumption DEF WriteMDST
<1>9. ASSUME NEW i \in Peripherals, RaisePeripheral(i) \/ ClearPeripheral(i) PROVE FreshInv'
  BY <1>1, <1>9 DEF RaisePeripheral, ClearPeripheral
<1>10. ASSUME NEW i \in Peripherals, NEW l \in Levels, WriteIPR(i, l) PROVE FreshInv'
  BY <1>10 DEF WriteIPR, Reprioritize, FreshInv, cpuVars
<1>11. ASSUME NEW new \in Registers, StoreSR(new) PROVE FreshInv'
  BY <1>11 DEF StoreSR, Awake, SrUpdated, FreshInv, sortVars
<1>12. CASE Exception
  BY <1>12 DEF Exception, Awake, SrUpdated, FreshInv, sortVars
<1>13. CASE Sleep
  BY <1>13 DEF Sleep, Awake, FreshInv, UpdatePending, sortVars
<1>14. CASE CheckInterrupts
  <2>1. ~sr.bl
    BY <1>14 DEF CheckInterrupts, FreshInv, UpdatePending
  <2>2. sr'.bl /\ sr' # sr
    BY <1>14, <2>1 DEF CheckInterrupts, SortInv, IntcTypeOK, Registers
  <2> QED
    BY <1>14, <2>2 DEF CheckInterrupts, SrUpdated, FreshInv, sortVars
<1>15. CASE IntcReset
  BY <1>15 DEF IntcReset, Reprioritize, FreshInv
<1>16. CASE UNCHANGED intcVars
  BY <1>16 DEF intcVars, sortVars, cpuVars, FreshInv
<1> QED
  BY <1>3, <1>4, <1>5, <1>6, <1>7, <1>8, <1>9, <1>10, <1>11, <1>12, <1>13, <1>14, <1>15,
     <1>16 DEF IntcNext

(* holly_create and sh4_reset establish the invariants. *)
LEMMA IntcInitInv == IntcInit => SortInv /\ FreshInv
<1> SUFFICES ASSUME IntcInit PROVE SortInv /\ FreshInv
  OBVIOUS
<1> DEFINE p == [i \in Peripherals |-> 0]
<1>1. p \in Priorities
  BY IntcAssumption DEF Priorities, Levels
<1>2. SortIds(p) \in [Ints -> Ids] /\ PriorityMasks(p) \in [Levels -> SUBSET Ids]
  BY <1>1, SortIdType, MaskType
<1>3. ResetSR \in Registers /\ ResetSR.bl
  BY IntcAssumption DEF ResetSR, Registers, Levels
<1>4. IntcTypeOK
  BY <1>1, <1>2, <1>3 DEF IntcInit, IntcTypeOK, Priorities
<1>5. LinesFollowSources
  BY DEF IntcInit, LinesFollowSources, Asked
<1>6. SortInv
  BY <1>4, <1>5 DEF IntcInit, SortInv
<1>7. FreshInv
  BY <1>3 DEF IntcInit, FreshInv, UpdatePending
<1> QED
  BY <1>6, <1>7

(* Whatever the guest does, the sh4's lines are requested exactly while a source
   they listen to is raised, and the tables and requests have their types:
   holly_update_interrupts and sh4_intc_reprioritize lose and invent nothing. *)
THEOREM LinesFollow == IntcSpec => [](IntcTypeOK /\ LinesFollowSources)
<1>1. SortInv /\ [IntcNext]_intcVars => SortInv'
  BY SortStep
<1>2. SortInv => IntcTypeOK /\ LinesFollowSources
  BY DEF SortInv
<1> QED
  BY <1>1, <1>2, IntcInitInv, PTL DEF IntcSpec

(* pending_interrupts is never stale, as long as the guest does not execute
   SLEEP with BL set. *)
THEOREM PendingIsFresh ==
  ASSUME ~SleepBlocked
  PROVE  IntcSpec => []PendingFresh
<1>1. (SortInv /\ FreshInv) /\ [IntcNext]_intcVars => (SortInv /\ FreshInv)'
  BY SortStep, FreshStep
<1>2. SortInv /\ FreshInv => PendingFresh
  BY DEF SortInv, FreshInv, PendingFresh
<1> QED
  BY <1>1, <1>2, IntcInitInv, PTL DEF IntcSpec

-----------------------------------------------------------------------------
(* The refinement: sort ids, masks and the cached result are an implementation
   of IrqSpec, where interrupts and their priorities are all there is. *)

(* An interrupt is pending exactly if it is asked for, above the mask and not
   held back by BL. *)
LEMMA PendingMeans ==
  ASSUME SortInv, FreshInv, NEW i \in Ints
  PROVE  sort_id[i] \in pending <=>
           /\ i \in Asked /\ Priority(ipr, i) > sr.imask
           /\ sleep_mode \/ ~sr.bl
<1>1. ipr \in Priorities /\ sr.imask \in Levels /\ sr.imask \in Nat
  BY IntcAssumption DEF SortInv, IntcTypeOK, Priorities, Registers, Levels
<1>2. sort_id[i] \in priority_mask[sr.imask] <=> Priority(ipr, i) <= sr.imask
  BY <1>1, MaskExact DEF SortInv
<1>3. Priority(ipr, i) \in Nat
  BY <1>1, PriorityType
<1>4. sort_id[i] \in pending <=>
        (sleep_mode \/ ~sr.bl) /\ sort_id[i] \in requested \ priority_mask[sr.imask]
  BY DEF FreshInv, UpdatePending
<1>5. Priority(ipr, i) > sr.imask <=> ~ (Priority(ipr, i) <= sr.imask)
  BY <1>1, <1>3
<1>6. i \in Asked <=> sort_id[i] \in requested
  BY DEF Asked
<1> QED
  BY <1>2, <1>4, <1>5, <1>6

(* The interrupt sh4_check_interrupts takes is the one IrqSpec allows. *)
LEMMA TakesHighest ==
  ASSUME SortInv, FreshInv, CheckInterrupts
  PROVE  \E i \in Ints : Irq!Take(i)
<1> DEFINE h == HighestPending
<1>1. h \in Ints /\ sort_id[h] \in pending /\ \A n \in pending : n <= sort_id[h]
  BY HighestExists DEF CheckInterrupts
<1> HIDE DEF h
<1>2. /\ h \in Asked /\ Priority(ipr, h) > sr.imask
      /\ sleep_mode \/ ~sr.bl
  BY <1>1, PendingMeans
<1>3. ipr \in Priorities /\ sr.imask \in Nat
  BY IntcAssumption DEF SortInv, IntcTypeOK, Priorities, Registers, Levels
<1>4. Ints \subseteq Nat /\ \A j \in Ints : Priority(ipr, j) \in Nat
  BY <1>3, IntcAssumption, PriorityType
<1>5. ASSUME NEW j \in Asked
      PROVE  \/ Priority(ipr, h) > Priority(ipr, j)
             \/ Priority(ipr, h) = Priority(ipr, j) /\ h <= j
  <2>1. j \in Ints /\ sort_id[j] \in Int /\ sort_id[h] \in Int
    BY <1>1 DEF Asked, SortInv, IntcTypeOK, Ids
  <2>2. CASE Priority(ipr, j) <= sr.imask
    BY <1>1, <1>2, <1>3, <1>4, <2>1, <2>2
  <2>3. CASE Priority(ipr, j) > sr.imask
    <3>1. sort_id[j] \in pending
      BY <1>2, <1>5, <2>1, <2>3, PendingMeans
    <3>2. ~ (sort_id[h] < sort_id[j])
      BY <1>1, <2>1, <3>1
    <3>3. ~ SortsBelow(ipr, h, j)
      BY <1>1, <1>3, <2>1, <3>2, SortIdsMonotone DEF SortInv
    <3> QED
      BY <1>1, <1>4, <2>1, <3>3 DEF SortsBelow
  <2> QED
    BY <1>3, <1>4, <2>1, <2>2, <2>3
<1>6. UNCHANGED <<Asked, ipr>>
  BY DEF CheckInterrupts, sortVars, Asked
<1>7. Irq!Take(h)
  BY <1>1, <1>2, <1>4, <1>5, <1>6 DEF CheckInterrupts, Irq!Take, Irq!GoesFirst, h, Asked
<1> QED
  BY <1>1, <1>7

(* Every step of the controller is a step of IrqSpec, or changes nothing there. *)
LEMMA RefinesStep ==
  ASSUME SortInv, FreshInv, SortInv', [IntcNext]_intcVars
  PROVE  [Irq!Next]_Irq!vars
<1> USE DEF Irq!Levels, Irq!Registers
<1>1. Asked' \in SUBSET Ints
  BY DEF Asked
<1>2. [i \in Ints |-> Priority(ipr', i)] \in [Ints -> Levels]
  BY PriorityType DEF SortInv, IntcTypeOK, Priorities
<1>3. ASSUME NEW raise, NEW clear, Request(raise, clear) PROVE Irq!SetRequests
  BY <1>1, <1>3 DEF Request, sortVars, cpuVars, Irq!SetRequests
<1>4. ASSUME UpdateInterrupts PROVE Irq!SetRequests
  BY <1>3, <1>4 DEF UpdateInterrupts
<1>5. ASSUME NEW s \in Sources, RaiseInterrupt(s) PROVE Irq!SetRequests
  BY <1>4, <1>5 DEF RaiseInterrupt
<1>6. ASSUME NEW s \in External, ClearExternal(s) PROVE Irq!SetRequests
  BY <1>4, <1>6 DEF ClearExternal
<1>7. ASSUME NEW v \in SUBSET Sources, WriteIST(v) PROVE Irq!SetRequests
  BY <1>4, <1>7 DEF WriteIST
<1>8. ASSUME NEW l \in Lines, NEW v \in Masks, WriteIML(l, v) PROVE Irq!SetRequests
  BY <1>4, <1>8 DEF WriteIML
<1>9. ASSUME NEW sel \in BOOLEAN, NEW en \in BOOLEAN, WriteMaple(sel, en)
      PROVE  UNCHANGED Irq!vars
  BY <1>9 DEF WriteMaple, sortVars, cpuVars, Asked, Irq!vars
<1>10. CASE WriteMDST
  BY <1>5, <1>10, IntcAssumption DEF WriteMDST, Irq!Next
<1>11. ASSUME NEW i \in Peripherals, RaisePeripheral(i) \/ ClearPeripheral(i)
       PROVE  Irq!SetRequests
  BY <1>3, <1>11 DEF RaisePeripheral, ClearPeripheral
<1>12. ASSUME NEW i \in Peripherals, NEW l \in Levels, WriteIPR(i, l) PROVE Irq!SetPriority
  <2>1. [ipr EXCEPT ![i] = l] \in Priorities
    BY DEF SortInv, IntcTypeOK, Priorities
  <2>2. Asked' = Asked
    BY <1>12, <2>1, ReprioritizeExact DEF WriteIPR
  <2> QED
    BY <1>2, <1>12, <2>2 DEF WriteIPR, cpuVars, Irq!SetPriority, Levels
<1>13. ASSUME NEW new \in Registers, StoreSR(new) PROVE Irq!WriteSR
  BY <1>13 DEF StoreSR, Awake, sortVars, Asked, Irq!WriteSR, Registers, Levels
<1>14. ASSUME Exception PROVE Irq!WriteSR
  <2>1. sr' \in Registers
    BY DEF SortInv, IntcTypeOK
  <2> QED
    BY <1>14, <2>1 DEF Exception, Awake, sortVars, Asked, Irq!WriteSR, Registers, Levels
<1>15. ASSUME Sleep PROVE Irq!Sleep
  BY <1>15 DEF Sleep, Awake, sortVars, Asked, Irq!Sleep
<1>16. ASSUME CheckInterrupts PROVE \E i \in Ints : Irq!Take(i)
  BY <1>16, TakesHighest
<1>17. ASSUME IntcReset PROVE Irq!Reset
  <2>1. [i \in Peripherals |-> 0] \in Priorities
    BY IntcAssumption DEF Priorities, Levels
  <2>2. Asked' = Asked
    BY <1>17, <2>1, ReprioritizeExact DEF IntcReset
  <2> QED
    BY <1>2, <1>17, <2>2 DEF IntcReset, ResetSR, Irq!Reset, Levels
<1>18. CASE UNCHANGED intcVars
  BY <1>18 DEF intcVars, sortVars, cpuVars, Asked, Irq!vars
<1> QED
  BY <1>5, <1>6, <1>7, <1>8, <1>9, <1>10, <1>11, <1>12, <1>13, <1>14, <1>15, <1>16, <1>17,
     <1>18 DEF IntcNext, Irq!Next

(* What the cpu takes is what IrqSpec lets it take, as long as the guest does
   not execute SLEEP with BL set: sort ids, masks and the cached result of
   sh4_intc.c cannot be told from a set of interrupts and their priorities. *)
THEOREM ControllerRefines ==
  ASSUME ~SleepBlocked
  PROVE  IntcSpec => TakesTheRightOne
<1>1. (SortInv /\ FreshInv) /\ [IntcNext]_intcVars => (SortInv /\ FreshInv)'
  BY SortStep, FreshStep
<1>2. SortInv /\ FreshInv /\ SortInv' /\ [IntcNext]_intcVars => [Irq!Next]_Irq!vars
  BY RefinesStep
<1>3. IntcInit => Irq!Init
  <2> SUFFICES ASSUME IntcInit PROVE Irq!Init
    OBVIOUS
  <2>1. [i \in Ints |-> Priority(ipr, i)] \in [Ints -> Levels]
    BY IntcInitInv, PriorityType DEF SortInv, IntcTypeOK, Priorities
  <2> QED
    BY <2>1 DEF IntcInit, ResetSR, Asked, Irq!Init, Irq!Levels, Levels
<1> QED
  BY <1>1, <1>2, <1>3, IntcInitInv, PTL DEF IntcSpec, TakesTheRightOne, Irq!Spec

=============================================================================
