------------------------------ MODULE IrqSpec ------------------------------
(***************************************************************************)
(* What an interrupt controller promises the cpu, without sort ids, masks  *)
(* or cached results: the interrupt that is taken is asked for, is above   *)
(* the mask, comes before every other one that is asked for, and is not    *)
(* taken while interrupts are blocked, unless the cpu sleeps.              *)
(***************************************************************************)
EXTENDS Naturals

CONSTANTS
  Ints,       \* interrupts, by number: a lower one goes first at one level
  MaxLevel

Levels == 0..MaxLevel

Registers == [bl : BOOLEAN, imask : Levels]

VARIABLES
  asked,     \* interrupts that are requested
  priority,  \* the level of each
  sr,        \* BL and IMASK of the status register
  sleeping,
  taken      \* INTEVT: the interrupts that were taken last, <<>> at first

vars == <<asked, priority, sr, sleeping, taken>>

GoesFirst(i, j) ==
  \/ priority[i] > priority[j]
  \/ priority[i] = priority[j] /\ i <= j

Init ==
  /\ asked = {}
  /\ priority \in [Ints -> Levels]
  /\ sr = [bl |-> TRUE, imask |-> MaxLevel]
  /\ sleeping = FALSE
  /\ taken = <<>>

(* Devices ask and withdraw; nothing else moves. *)
SetRequests ==
  /\ asked' \in SUBSET Ints
  /\ UNCHANGED <<priority, sr, sleeping, taken>>

(* A change of the priorities neither loses nor invents a request. *)
SetPriority ==
  /\ priority' \in [Ints -> Levels]
  /\ UNCHANGED <<asked, sr, sleeping, taken>>

WriteSR ==
  /\ ~sleeping
  /\ sr' \in Registers
  /\ UNCHANGED <<asked, priority, sleeping, taken>>

Sleep ==
  /\ ~sleeping /\ sleeping' = TRUE
  /\ UNCHANGED <<asked, priority, sr, taken>>

Take(i) ==
  /\ i \in asked
  /\ priority[i] > sr.imask
  /\ sleeping \/ ~sr.bl
  /\ \A j \in asked : GoesFirst(i, j)
  /\ taken' = <<i>>
  /\ sr' = [sr EXCEPT !.bl = TRUE]
  /\ sleeping' = FALSE
  /\ UNCHANGED <<asked, priority>>

(* A reset forgets the priorities and what was taken. *)
Reset ==
  /\ priority' \in [Ints -> Levels]
  /\ sr' = [bl |-> TRUE, imask |-> MaxLevel]
  /\ sleeping' = FALSE
  /\ taken' = <<>>
  /\ UNCHANGED asked

Next ==
  \/ SetRequests \/ SetPriority \/ WriteSR \/ Sleep \/ Reset
  \/ \E i \in Ints : Take(i)

Spec == Init /\ [][Next]_vars

=============================================================================
