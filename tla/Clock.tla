------------------------------- MODULE Clock -------------------------------
(***************************************************************************)
(* sched_tick and the three ways the machine uses its timers:              *)
(*   - the TMU channels of sh4_tmu.c keep a handle, cancel, restart and    *)
(*     query their timer whenever the guest writes a register;             *)
(*   - the scanline timer of pvr.c keeps a handle and restarts itself;     *)
(*   - the end of a render (ta.c) is fired and forgotten.                  *)
(*                                                                         *)
(* A timer's entry goes to the end of the free list when it fires or is    *)
(* cancelled and is handed out again later, so a handle kept too long      *)
(* would cancel, or read, somebody else's timer.                           *)
(***************************************************************************)
EXTENDS Sched

CONSTANTS
  Channels,    \* the TMU channels, of 0..2
  Counts,      \* values written to TCNT
  Resets,      \* values written to TCOR
  CountRange,  \* TCNT is a number below this, 2^32
  Dividers,    \* nanoseconds in a count, from the prescaler in TCR
  LinePeriods, \* nanoseconds in a scanline
  RenderTime,  \* 10 ms
  MaxRenders,  \* bound on the renders in flight
  TickTime,    \* MACHINE_STEP
  CpuResets    \* is a game loaded while another one runs?

ASSUME ClockAssumption ==
  /\ Channels \subseteq 0..2
  /\ CountRange \in Nat \ {0}
  /\ Counts \subseteq 0..(CountRange - 1) /\ Resets \subseteq 0..(CountRange - 1)
  /\ \E c \in Resets : \A e \in Resets : e <= c
  /\ \E d \in Dividers : \A e \in Dividers : d <= e
  /\ Dividers \subseteq Nat \ {0} /\ LinePeriods \subseteq Nat \ {0}
  /\ {RenderTime, MaxRenders, TickTime} \subseteq Nat \ {0}
  /\ CpuResets \in BOOLEAN
  /\ Cardinality(Timers) > Cardinality(Channels) + MaxRenders

Callbacks == ({"tmu"} \X Channels) \cup {<<"line">>, <<"render">>, NoCallback}

Controls == [unf : BOOLEAN, unie : BOOLEAN, div : Dividers]

VARIABLES
  sched,      \* the timers
  phase,      \* where sched_tick is
  budget,     \* target_time - base_time
  running,    \* dc->running
  tmu,        \* TSTR, TCNT, TCOR, TCR and tmu_timers
  tmuIrq,        \* channels whose underflow interrupt is requested
  line,       \* pvr->line_timer
  period,     \* nanoseconds per line, as last configured
  renders     \* renders in flight

clockVars == <<sched, phase, budget, running, tmu, tmuIrq, line, period, renders>>

TmuStates ==
  [tstr : SUBSET Channels, tcnt : [Channels -> 0..(CountRange - 1)],
   tcor : [Channels -> 0..(CountRange - 1)],
   tcr : [Channels -> Controls], handle : [Channels -> Timers \cup {NoTimer}]]

ClockTypeOK ==
  /\ sched \in [live : Seq(Timers), free : Seq(Timers),
                remaining : [Timers -> Int], cb : [Timers -> Callbacks]]
  /\ phase \in {"idle", "loop", "devices", "expire"}
  /\ budget \in Nat
  /\ running \in BOOLEAN
  /\ tmu \in TmuStates
  /\ tmuIrq \subseteq Channels
  /\ line \in Timers
  /\ period \in LinePeriods
  /\ renders \in 0..MaxRenders

-----------------------------------------------------------------------------
(* The TMU. A handler works on the pair of the timers and the TMU. *)

Now == [sched |-> sched, tmu |-> tmu]

Store(m) == sched' = m.sched /\ tmu' = m.tmu

(* sh4_tmu_tcnt: a running channel is read from its timer, rounded down and
   cut off to the width of the register. *)
TmuTcnt(m, n) ==
  LET h == m.tmu.handle[n]
  IN  IF h = NoTimer THEN m.tmu.tcnt[n]
      ELSE (m.sched.remaining[h] \div m.tmu.tcr[n].div) % CountRange

TmuReschedule(m, n, tcnt) ==
  LET h == m.tmu.handle[n]
      s == IF h = NoTimer THEN m.sched ELSE CancelTimer(m.sched, h)
  IN  [sched |-> StartTimer(s, <<"tmu", n>>, tcnt * m.tmu.tcr[n].div),
       tmu |-> [m.tmu EXCEPT !.handle[n] = NextTimer(s)]]

(* sh4_tmu_update_tstr, a channel that is stopped: save off progress. *)
TmuStop(m, n) ==
  LET h == m.tmu.handle[n]
  IN  [sched |-> CancelTimer(m.sched, h),
       tmu |-> [m.tmu EXCEPT !.tcnt[n] = TmuTcnt(m, n), !.handle[n] = NoTimer]]

TmuUpdateChannel(m, n) ==
  CASE n \in m.tmu.tstr /\ m.tmu.handle[n] = NoTimer ->
         TmuReschedule(m, n, m.tmu.tcnt[n])
    [] n \notin m.tmu.tstr /\ m.tmu.handle[n] # NoTimer -> TmuStop(m, n)
    [] OTHER -> m

(* sh4_tmu_update_tstr: channels 0, 1 and 2, in this order. *)
TmuUpdateTstr(m) ==
  LET update(x, n) == IF n \in Channels THEN TmuUpdateChannel(x, n) ELSE x
  IN  update(update(update(m, 0), 1), 2)

(* The underflow of channel n: it flags, raises and starts over from TCOR. *)
TmuExpire(m, n) ==
  LET cleared == [m.tmu EXCEPT !.tcr[n].unf = TRUE, !.tcnt[n] = m.tmu.tcor[n],
                               !.handle[n] = NoTimer]
  IN  TmuReschedule([m EXCEPT !.tmu = cleared], n, m.tmu.tcor[n])

-----------------------------------------------------------------------------
(* sched_create and pvr_init, and the registers after sh4_reset. *)

ResetTmu(handle) ==
  LET d == CHOOSE d \in Dividers : \A e \in Dividers : d <= e
      top == CHOOSE c \in Resets : \A e \in Resets : e <= c
  IN  [tstr |-> {}, tcnt |-> [n \in Channels |-> top],
       tcor |-> [n \in Channels |-> top],
       tcr |-> [n \in Channels |-> [unf |-> FALSE, unie |-> FALSE, div |-> d]],
       handle |-> handle]

ClockInit ==
  /\ period \in LinePeriods
  /\ \E s \in NewScheds : /\ sched = StartTimer(s, <<"line">>, period)
                          /\ line = NextTimer(s)
  /\ phase = "idle" /\ budget = 0 /\ running = TRUE
  /\ tmu = ResetTmu([n \in Channels |-> NoTimer])
  /\ tmuIrq = {} /\ renders = 0

(* What the guest does while the devices run. *)

Guest == phase = "devices"

WriteTSTR(v) ==
  /\ Guest
  /\ Store(TmuUpdateTstr([Now EXCEPT !.tmu.tstr = v]))
  /\ UNCHANGED <<phase, budget, running, tmuIrq, line, period, renders>>

(* A running channel carries on from its current count at the new rate; the
   count is read at the new rate too.  An interrupt nobody waits for any more
   is taken back. *)
WriteTCR(n, v) ==
  /\ Guest
  /\ LET m == [Now EXCEPT !.tmu.tcr[n] = v]
     IN  Store(IF n \in tmu.tstr THEN TmuReschedule(m, n, TmuTcnt(m, n)) ELSE m)
  /\ tmuIrq' = IF v.unie /\ v.unf THEN tmuIrq ELSE tmuIrq \ {n}
  /\ UNCHANGED <<phase, budget, running, line, period, renders>>

WriteTCNT(n, v) ==
  /\ Guest
  /\ LET m == [Now EXCEPT !.tmu.tcnt[n] = v]
     IN  Store(IF n \in tmu.tstr THEN TmuReschedule(m, n, v) ELSE m)
  /\ UNCHANGED <<phase, budget, running, tmuIrq, line, period, renders>>

WriteTCOR(n, v) ==
  /\ Guest
  /\ tmu' = [tmu EXCEPT !.tcor[n] = v]
  /\ UNCHANGED <<sched, phase, budget, running, tmuIrq, line, period, renders>>

(* A write to SPG_LOAD or FB_R_CTRL: pvr_reconfigure_spg. *)
ReconfigureSpg(p) ==
  /\ Guest
  /\ LET s == CancelTimer(sched, line)
     IN  /\ line' = NextTimer(s)
         /\ sched' = StartTimer(s, <<"line">>, p)
  /\ period' = p
  /\ UNCHANGED <<phase, budget, running, tmu, tmuIrq, renders>>

(* ta_render_context starts a timer and keeps no handle. *)
StartRender ==
  /\ Guest
  /\ renders < MaxRenders
  /\ sched' = StartTimer(sched, <<"render">>, RenderTime)
  /\ renders' = renders + 1
  /\ UNCHANGED <<phase, budget, running, tmu, tmuIrq, line, period>>

(* The debugger stops the machine. *)
Suspend ==
  /\ Guest
  /\ running' = FALSE
  /\ UNCHANGED <<sched, phase, budget, tmu, tmuIrq, line, period, renders>>

-----------------------------------------------------------------------------
(* Between two ticks: sh4_reset, for a game that is loaded, puts the registers
   back to their defaults and leaves the timers alone. *)
CpuReset ==
  /\ CpuResets
  /\ phase = "idle"
  /\ tmu' = ResetTmu(tmu.handle)
  /\ running' = TRUE
  /\ UNCHANGED <<sched, phase, budget, tmuIrq, line, period, renders>>

Resume ==
  /\ phase = "idle" /\ ~running
  /\ running' = TRUE
  /\ UNCHANGED <<sched, phase, budget, tmu, tmuIrq, line, period, renders>>

-----------------------------------------------------------------------------
(* sched_tick *)

TickBegin ==
  /\ phase = "idle" /\ running
  /\ budget' = TickTime
  /\ phase' = "loop"
  /\ UNCHANGED <<sched, running, tmu, tmuIrq, line, period, renders>>

TickEnd ==
  /\ phase = "loop"
  /\ ~running \/ budget = 0
  /\ budget' = 0
  /\ phase' = "idle"
  /\ UNCHANGED <<sched, running, tmu, tmuIrq, line, period, renders>>

Head0 == sched.remaining[Head(sched.live)]

(* Run devices up to the next timer; base_time is moved forward first. *)
Slice ==
  /\ phase = "loop" /\ running /\ budget > 0
  /\ LET slice == IF sched.live # <<>> /\ Head0 < budget THEN Head0 ELSE budget
     IN  sched' = Advance(sched, slice) /\ budget' = budget - slice
  /\ phase' = "devices"
  /\ UNCHANGED <<running, tmu, tmuIrq, line, period, renders>>

DevicesDone ==
  /\ phase = "devices"
  /\ phase' = "expire"
  /\ UNCHANGED <<sched, budget, running, tmu, tmuIrq, line, period, renders>>

(* The timer at the head of the list is due: it is cancelled, then its callback
   is run. *)
Due == phase = "expire" /\ sched.live # <<>> /\ Head0 <= 0

Fired == CancelTimer(sched, Head(sched.live))

DueCallback == sched.cb[Head(sched.live)]

(* Mutant of FireTmu: an expired channel keeps its handle while it restarts. *)
FireTmuStale(n) ==
  /\ Due /\ DueCallback = <<"tmu", n>>
  /\ Store([sched |-> StartTimer(Fired, <<"tmu", n>>, tmu.tcor[n] * tmu.tcr[n].div),
            tmu |-> [tmu EXCEPT !.tcr[n].unf = TRUE, !.tcnt[n] = tmu.tcor[n]]])
  /\ tmuIrq' = IF tmu.tcr[n].unie THEN tmuIrq \cup {n} ELSE tmuIrq
  /\ UNCHANGED <<phase, budget, running, line, period, renders>>

FireTmu(n) ==
  /\ Due /\ DueCallback = <<"tmu", n>>
  /\ Store(TmuExpire([Now EXCEPT !.sched = Fired], n))
  /\ tmuIrq' = IF tmu.tcr[n].unie THEN tmuIrq \cup {n} ELSE tmuIrq
  /\ UNCHANGED <<phase, budget, running, line, period, renders>>

(* Mutant of FireLine: the next line is due at once. *)
FireLineStuck ==
  /\ Due /\ DueCallback = <<"line">>
  /\ line' = NextTimer(Fired)
  /\ sched' = StartTimer(Fired, <<"line">>, 0)
  /\ UNCHANGED <<phase, budget, running, tmu, tmuIrq, period, renders>>

(* pvr_next_scanline ends by restarting its timer. *)
FireLine ==
  /\ Due /\ DueCallback = <<"line">>
  /\ line' = NextTimer(Fired)
  /\ sched' = StartTimer(Fired, <<"line">>, period)
  /\ UNCHANGED <<phase, budget, running, tmu, tmuIrq, period, renders>>

FireRender ==
  /\ Due /\ DueCallback = <<"render">>
  /\ sched' = Fired
  /\ renders' = renders - 1
  /\ UNCHANGED <<phase, budget, running, tmu, tmuIrq, line, period>>

ExpireDone ==
  /\ phase = "expire" /\ ~Due
  /\ phase' = "loop"
  /\ UNCHANGED <<sched, budget, running, tmu, tmuIrq, line, period, renders>>

Tick ==
  \/ TickEnd \/ Slice \/ DevicesDone \/ ExpireDone
  \/ FireLine \/ FireRender
  \/ \E n \in Channels : FireTmu(n)

GuestStep ==
  \/ \E v \in SUBSET Channels : WriteTSTR(v)
  \/ \E n \in Channels, v \in Controls : WriteTCR(n, v)
  \/ \E n \in Channels, v \in Counts : WriteTCNT(n, v)
  \/ \E n \in Channels, v \in Resets : WriteTCOR(n, v)
  \/ \E p \in LinePeriods : ReconfigureSpg(p)
  \/ StartRender \/ Suspend

ClockNext == Tick \/ GuestStep \/ TickBegin \/ CpuReset \/ Resume

ClockSpec == ClockInit /\ [][ClockNext]_clockVars

(* sched_tick runs on one thread, and the devices return after their slice. *)
ClockFairness == WF_clockVars(Tick)

-----------------------------------------------------------------------------
(* Properties. *)

(* sched_start_timer and sched_cancel_timer never lose or duplicate an entry
   of the timers array, however handles are passed around. *)
TimersPartition == ListsPartition(sched)

(* sched_tick stops at every timer: no timer is overdue, even one a device
   starts or a callback restarts within the slice, and the list is sorted. *)
NothingOverdue == QueueOrdered(sched)

(* A handle is never stale: tmu_timers[n] and line_timer are the live timers
   started for them, so that cancelling or reading one is never applied to an
   entry that was handed out to somebody else. *)
HandlesValid ==
  /\ \A n \in Channels : tmu.handle[n] # NoTimer =>
       Active(sched, tmu.handle[n]) /\ sched.cb[tmu.handle[n]] = <<"tmu", n>>
  /\ Active(sched, line) /\ sched.cb[line] = <<"line">>

(* Nothing is started twice: the live timers are exactly the ones somebody
   holds a handle to, and the renders in flight, so the pool of MAX_TIMERS
   entries is not eaten up over time. *)
NoTimerLeak ==
  Len(sched.live) =
    Cardinality({n \in Channels : tmu.handle[n] # NoTimer}) + 1 + renders

(* A channel that TSTR starts is counting, from whatever register write on,
   also when the cpu was reset while its old timer was running. *)
StartedCounts == \A n \in tmu.tstr : tmu.handle[n] # NoTimer

(* Each entry of the timers array has one owner: it is free, or it is the timer
   of the channel or the scanline that holds a handle to it, or a render's, and
   whatever TSTR runs has one.  A cpu reset under running timers, and callbacks
   that restart their own timer, do not upset this. *)
TimersOwned == TimersPartition /\ HandlesValid /\ NoTimerLeak /\ StartedCounts

(* The scheduler's two lists and everybody's handles into them agree, and no
   timer is fired late. *)
TimersSound == ClockTypeOK /\ TimersOwned /\ NothingOverdue

(* A channel has expired whose period is zero: it is due again as soon as it
   is restarted. *)
ZeroPeriod ==
  /\ phase = "expire"
  /\ \E n \in Channels :
       /\ tmu.handle[n] # NoTimer /\ sched.remaining[tmu.handle[n]] <= 0
       /\ tmu.tcor[n] = 0

(* Every tick comes to an end: the loop over expired timers does not run for
   ever, although a callback restarts its own timer, unless a channel expires
   with a TCOR of zero; then, and only then, sched_tick never returns. *)
TickEnds ==
  /\ phase # "idle" ~> phase = "idle" \/ ZeroPeriod
  /\ [](ZeroPeriod => [](phase # "idle"))

=============================================================================
