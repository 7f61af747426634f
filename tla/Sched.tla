------------------------------- MODULE Sched -------------------------------
(***************************************************************************)
(* The timers of scheduler.c as a value: a record of the two lists and of  *)
(* the expiry of each timer, with sched_start_timer and sched_cancel_timer *)
(* as operators on it.  Clock.tla gives it a state and runs it.            *)
(*                                                                         *)
(* Times are relative to base_time: where the code stores expire and moves *)
(* base_time forward, the model stores expire - base_time, which is what   *)
(* sched_remaining_time returns, and moves every expiry closer.            *)
(***************************************************************************)
EXTENDS Integers, Sequences, FiniteSets, SequencesExt

CONSTANTS
  Timers,    \* the entries of the timers array
  NoTimer    \* the null handle

(* The callback of an entry that is free. *)
NoCallback == <<"none">>

ASSUME SchedAssumption == IsFiniteSet(Timers) /\ NoTimer \notin Timers

(* sched_create: every timer is free, in the order of the array.  The entries
   have no names of their own, so any order of Timers stands for it. *)
NewScheds ==
  {[live |-> <<>>, free |-> f,
    remaining |-> [t \in Timers |-> 0], cb |-> [t \in Timers |-> NoCallback]] :
     f \in {g \in [1..Cardinality(Timers) -> Timers] : IsInjective(g)}}

Active(s, t) == t \in ToSet(s.live)

(* Where a timer is on the live list, which is where list_remove unlinks it. *)
Position(s, t) == CHOOSE i \in 1..Len(s.live) : s.live[i] = t

(* What a free entry was last used for is forgotten: nobody looks at it again
   before sched_start_timer overwrites it. *)
CancelTimer(s, t) ==
  IF ~Active(s, t) THEN s
  ELSE [live |-> RemoveAt(s.live, Position(s, t)), free |-> Append(s.free, t),
        remaining |-> [s.remaining EXCEPT ![t] = 0],
        cb |-> [s.cb EXCEPT ![t] = NoCallback]]

(* The handle sched_start_timer is going to return. *)
NextTimer(s) == Head(s.free)

(* Where a timer goes in the live list: before the first that expires later,
   so that timers that expire together do so in the order they were started. *)
InsertPos(s, ns) ==
  LET later == {i \in 1..Len(s.live) : s.remaining[s.live[i]] > ns}
  IN  IF later = {} THEN Len(s.live) + 1
      ELSE CHOOSE i \in later : \A j \in later : i <= j

StartTimer(s, cb, ns) ==
  LET t == NextTimer(s)
  IN  [live |-> InsertAt(s.live, InsertPos(s, ns), t),
       free |-> Tail(s.free),
       remaining |-> [s.remaining EXCEPT ![t] = ns],
       cb |-> [s.cb EXCEPT ![t] = cb]]

(* base_time moves forward by slice. *)
Advance(s, slice) ==
  [s EXCEPT !.remaining = [t \in Timers |-> IF Active(s, t) THEN @[t] - slice ELSE 0]]

-----------------------------------------------------------------------------

(* Every timer is on exactly one of the two lists, once. *)
ListsPartition(s) ==
  /\ IsInjective(s.live \o s.free)
  /\ ToSet(s.live \o s.free) = Timers

(* The live list is sorted by expiry and nothing on it is overdue: base_time
   never moves past a timer that has not fired. *)
QueueOrdered(s) ==
  /\ \A i, j \in 1..Len(s.live) :
       i < j => s.remaining[s.live[i]] <= s.remaining[s.live[j]]
  /\ \A t \in ToSet(s.live) : s.remaining[t] >= 0

=============================================================================
