----------------------------- MODULE MCMachine -----------------------------
(* The scheduler with its timers, the interrupt controllers, the GD-ROM drive,
   the sound processor and the audio path, each on a small instance of its own.
   A behaviour is a behaviour of one unit; the others stay where they begin. *)
EXTENDS Clock, Intc, Gdrom, Audio, Aica

CONSTANT Units  \* the units of a run

(* Two lines, at levels 2 and 1 of 0..2, and the numbering of sh4_int.inc,
   where the lines come first. *)
MCLineLevel == [l \in Lines |-> 3 - l]

(* Loops and ends at other places, every format, pitches up, even and down. *)
MCSound == <<7, 2, 12, 5, 15, 0>>
Voice(fmt, lp, lsa, lea, fns, oct) ==
  [fmt |-> fmt, loop |-> lp, lsa |-> lsa, lea |-> lea, fns |-> fns, oct |-> oct]
MCVoices ==
  {Voice("ADPCM", l, 1, 5, 0, o) : l \in BOOLEAN, o \in {0, 1}}
    \cup {Voice("PCMS8", TRUE, 0, 3, 512, 15), Voice("STREAM", TRUE, 0, 2, 0, 1)}

VARIABLE unit

vars == <<unit, clockVars, intcVars, gdromVars, audioVars, aivars, avvars>>

(* The entries of the timers array are interchangeable: one order of the free
   list stands for all. *)
FirstSched == CHOOSE s \in NewScheds : TRUE

(* Audio on its way to the first frame, for the behaviours of other units. *)
AudioParked ==
  /\ dev = FALSE /\ playing = FALSE /\ ring = 0
  /\ read = 0 /\ write = 0 /\ data = [c \in Cells |-> Blank]
  /\ guestRuns = FALSE /\ work = 0
  /\ pc = [main |-> "frame", emu |-> "idle", callback |-> "idle"]
  /\ my = [t \in Threads |-> NoLocals]

Init ==
  /\ unit \in Units
  /\ ClockInit /\ IntcInit /\ GdromInit /\ AiInit /\ AvInit
  /\ sched = StartTimer(FirstSched, <<"line">>, period)
  /\ IF unit = "audio" THEN AudioInit ELSE AudioParked
  /\ unit # "voice" => \E c \in {CHOOSE c \in AvConfigs : TRUE} : \A n \in AvChannels : avch[n].cfg = c

Next ==
  /\ UNCHANGED unit
  /\ \/ unit = "clock" /\ ClockNext /\ UNCHANGED <<intcVars, gdromVars, audioVars, aivars, avvars>>
     \/ unit = "intc" /\ IntcNext /\ UNCHANGED <<clockVars, gdromVars, audioVars, aivars, avvars>>
     \/ unit = "gdrom" /\ GdromNext /\ UNCHANGED <<clockVars, intcVars, audioVars, aivars, avvars>>
     \/ unit = "audio" /\ AudioNext /\ UNCHANGED <<clockVars, intcVars, gdromVars, aivars, avvars>>
     \/ unit = "aica" /\ AiNext /\ UNCHANGED <<clockVars, intcVars, gdromVars, audioVars, avvars>>
     \/ unit = "voice" /\ AvNext /\ UNCHANGED <<clockVars, intcVars, gdromVars, audioVars, aivars>>

(* The fairness of each unit, for its own behaviours. *)
FairSpec ==
  /\ Init /\ [][Next]_vars
  /\ WF_clockVars(unit = "clock" /\ Tick)
  /\ WF_intcVars(unit = "intc" /\ CheckInterrupts)
  /\ WF_intcVars(unit = "intc" /\ RaiseInterrupt(VblankOut))
  /\ WF_gdromVars(unit = "gdrom" /\ DmaRead) /\ WF_gdromVars(unit = "gdrom" /\ Serve)
  /\ WF_audioVars(unit = "audio" /\ MainStep) /\ WF_audioVars(unit = "audio" /\ EmuStep)
  /\ WF_audioVars(unit = "audio" /\ CallbackStep)

=============================================================================
