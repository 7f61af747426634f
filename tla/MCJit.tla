------------------------------- MODULE MCJit -------------------------------
(* Jit with guest code that branches to the next address, or from the last
   one back to the first. *)
EXTENDS Jit

\* "lo" branches to the lowest address, "hi" to the highest.
MCTarget == [c \in Contents |->
  CHOOSE a \in Addrs : \A b \in Addrs : IF c = "hi" THEN b <= a ELSE a <= b]

\* Code that is written over keeps its extent, or does not.
SameSize == [c \in Contents |-> 2]
OwnSize == [c \in Contents |-> IF c = "hi" THEN 1 ELSE 2]

\* One entry per block begin.
OwnSlot == [a \in Addrs |-> a]

\* cache_mask drops the upper bits: 1 and 3 share an entry.
SharedSlot == [a \in Addrs |-> a % 2]

=============================================================================
