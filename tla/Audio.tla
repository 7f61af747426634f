-------------------------------- MODULE Audio --------------------------------
(***************************************************************************)
(* The audio path of the SDL host: the emulation thread pushes batches of  *)
(* frames into a ring buffer (core/ringbuf.cc), SDL's audio thread drains  *)
(* it, and the main loop paces the whole emulator by how full the buffer   *)
(* is (host/sdl_host.c).  While no game runs the main thread pushes        *)
(* silence itself.                                                         *)
(*                                                                         *)
(* A frame of audio is one cell of the ring.  The two offsets are atomic   *)
(* and only ever grow; they are int64_t in the code and count modulo Wrap  *)
(* here.  Each load of an offset and each cell of a memcpy is a step.  A   *)
(* cell holds the offset its frame was pushed for, which tells all frames  *)
(* of the buffer apart.                                                    *)
(***************************************************************************)
EXTENDS Integers

CONSTANTS
  Size,     \* cells of the ring
  Wrap,     \* offsets count modulo Wrap, a stand-in for 2^64
  Batch,    \* AICA_BATCH_SIZE
  Silence,  \* frames of silence of a host frame, AICA_SAMPLE_FREQ / 60
  Chunk,    \* frames SDL asks for in a callback
  LowMark,  \* low_water_mark
  Elapsed,  \* most frames the host clock says were played since the callback
  Work,     \* batches pushed during one guest video frame
  Trailing,     \* batches that may be left of it when the main thread goes on
  RestartsRace, \* may the user toggle the sync option in the tail of a frame?
  Debugger  \* is a debugger attached?

ASSUME AudioAssumption ==
  /\ Size \in Nat \ {0} /\ Wrap \in Nat /\ Wrap % Size = 0 /\ Wrap > 2 * Size
  /\ Batch \in Nat \ {0} /\ Silence \in Nat \ {0} /\ Chunk \in Nat \ {0}
  /\ LowMark \in Nat \ {0} /\ Elapsed \in Nat
  /\ Work \in Nat \ {0} /\ Trailing \in 0..Work
  /\ RestartsRace \in BOOLEAN /\ Debugger \in BOOLEAN

Threads == {"main", "emu", "callback"}
Producers == {"main", "emu"}

VARIABLES
  dev,      \* is an audio device open?
  playing,  \* has its playback been started?
  ring,     \* generation of the ring buffer host->audio.frames points to
  read,     \* read_offset
  write,    \* write_offset
  data,     \* the cells
  guestRuns,  \* dc->guestRuns
  work,     \* batches the guest still pushes for the current video frame
  pc,       \* what each thread is doing
  my        \* the local variables of each thread

audioVars == <<dev, playing, ring, read, write, data, guestRuns, work, pc, my>>

Offsets == 0..Wrap - 1
Cells == 0..Size - 1

\* No frame was written here yet.
Blank == -1

Larger(a, b) == IF a > b THEN a ELSE b

\* The largest buffer anyone hands to the ring.
Most == Larger(Batch, Larger(Silence, Chunk))

\* Locals: the ring in use, a loaded read_offset, the offset the memcpy starts
\* at, the frames it copies, those it has copied, and those still wanted.
Locals == [ring : 0..1, seen : Offsets, base : Offsets,
           n : -Size..Size, i : 0..Size, want : 0..Most]

NoLocals == [ring |-> 0, seen |-> 0, base |-> 0, n |-> 0, i |-> 0, want |-> 0]

(* Every piece of state has its type. *)
AudioTypeOK ==
  /\ dev \in BOOLEAN /\ playing \in BOOLEAN /\ guestRuns \in BOOLEAN
  /\ ring \in 0..1 /\ read \in Offsets /\ write \in Offsets
  /\ data \in [Cells -> Offsets \cup {Blank}]
  /\ work \in 0..Work
  /\ pc["main"] \in {"poll", "low", "frame", "wait", "ui", "load", "copy", "play"}
  /\ pc["emu"] \in {"idle", "load", "copy", "play"}
  /\ pc["callback"] \in {"idle", "load", "batch", "copy"}
  /\ my \in [Threads -> Locals]

AudioInit ==
  /\ dev = TRUE /\ playing = FALSE /\ ring = 0
  /\ read = 0 /\ write = 0 /\ data = [c \in Cells |-> Blank]
  /\ guestRuns \in BOOLEAN /\ work = 0
  /\ pc = [main |-> "poll", emu |-> "idle", callback |-> "idle"]
  /\ my = [t \in Threads |-> NoLocals]

-----------------------------------------------------------------------------
(* ringbuf.cc *)

Least(a, b) == IF a < b THEN a ELSE b

\* The difference of two offsets, as the int ringbuf_available returns.
Distance(r, w) ==
  LET d == (w - r) % Wrap IN IF d <= Wrap \div 2 THEN d ELSE d - Wrap

\* The value of ringbuf_available once thread t, having loaded read_offset,
\* loads write_offset.
Available(t) == Distance(my[t].seen, write)

\* ringbuf_remaining.
Remaining(t) == Size - Available(t)

Cell(offset) == offset % Size

\* ringbuf_advance_write_ptr and ringbuf_advance_read_ptr.
Advanced(offset, n) == (offset + n) % Wrap

Go(t, label) == pc' = [pc EXCEPT ![t] = label]

\* The first load of ringbuf_available, by which t starts to use the ring.
LoadRead(t) == my' = [my EXCEPT ![t].seen = read, ![t].ring = ring]

-----------------------------------------------------------------------------
(* audio_push, by either producer *)

\* Where a producer goes on when its push is done.
PushResume(t) == IF t = "main" THEN "ui" ELSE "idle"

\* The entry of audio_push: without a device the frames are dropped.
PushBegin(t, n) ==
  IF dev THEN /\ my' = [my EXCEPT ![t].seen = read, ![t].ring = ring, ![t].want = n]
              /\ Go(t, "load")
         ELSE Go(t, PushResume(t)) /\ UNCHANGED my

\* audio_write_frames: what does not fit is dropped.
PushRoom(t) ==
  /\ pc[t] = "load"
  /\ my' = [my EXCEPT ![t].n = Least(Remaining(t), my[t].want), ![t].base = write,
                      ![t].i = 0]
  /\ Go(t, "copy")
  /\ UNCHANGED <<dev, playing, ring, read, write, data, guestRuns, work>>

PushCopy(t) ==
  /\ pc[t] = "copy" /\ my[t].i < my[t].n
  /\ data' = [data EXCEPT ![Cell(my[t].base + my[t].i)] =
                Advanced(my[t].base, my[t].i)]
  /\ my' = [my EXCEPT ![t].i = @ + 1]
  /\ UNCHANGED <<dev, playing, ring, read, write, guestRuns, work, pc>>

\* An advance that overtakes the last frame of the memcpy.
PushAdvanceEarly(t) ==
  /\ pc[t] = "copy" /\ my[t].i \in {my[t].n, my[t].n - 1}
  /\ write' = Advanced(write, my[t].n)
  /\ Go(t, "play")
  /\ UNCHANGED <<dev, playing, ring, read, data, guestRuns, work, my>>

\* Nothing comes after a memcpy of a negative size.
PushAdvance(t) ==
  /\ pc[t] = "copy" /\ my[t].i = my[t].n
  /\ write' = Advanced(write, my[t].n)
  /\ Go(t, "play")
  /\ UNCHANGED <<dev, playing, ring, read, data, guestRuns, work, my>>

\* A push that leaves the device paused.
PushPlayPaused(t) ==
  /\ pc[t] = "play"
  /\ Go(t, PushResume(t))
  /\ my' = [my EXCEPT ![t] = NoLocals]
  /\ UNCHANGED <<dev, playing, ring, read, write, data, guestRuns, work>>

\* Playback starts once some audio is queued.
PushPlay(t) ==
  /\ pc[t] = "play"
  /\ playing' = TRUE
  /\ Go(t, PushResume(t))
  /\ my' = [my EXCEPT ![t] = NoLocals]
  /\ UNCHANGED <<dev, ring, read, write, data, guestRuns, work>>

\* aica_generate_frames on the emulation thread.
EmuPush ==
  /\ pc["emu"] = "idle" /\ guestRuns /\ work > 0
  /\ work' = work - 1
  /\ PushBegin("emu", Batch)
  /\ UNCHANGED <<dev, playing, ring, read, write, data, guestRuns>>

-----------------------------------------------------------------------------
(* audio_write_cb, on SDL's thread *)

\* SDL calls back whenever an open device that plays needs data.
CallbackBegin ==
  /\ pc["callback"] = "idle" /\ dev /\ playing
  /\ LoadRead("callback")
  /\ Go("callback", "load")
  /\ UNCHANGED <<dev, playing, ring, read, write, data, guestRuns, work>>

CallbackWant ==
  /\ pc["callback"] = "load"
  /\ my' = [my EXCEPT !["callback"].want = Least(Available("callback"), Chunk)]
  /\ Go("callback", "batch")
  /\ UNCHANGED <<dev, playing, ring, read, write, data, guestRuns, work>>

\* audio_read_frames looks at what is available once more.
CallbackBatch ==
  /\ pc["callback"] = "batch" /\ my["callback"].want > 0
  /\ my' = [my EXCEPT !["callback"].n = Least(Distance(read, write), my["callback"].want),
                      !["callback"].base = read, !["callback"].i = 0]
  /\ Go("callback", "copy")
  /\ UNCHANGED <<dev, playing, ring, read, write, data, guestRuns, work>>

CallbackCopy ==
  /\ pc["callback"] = "copy" /\ my["callback"].i < my["callback"].n
  /\ my' = [my EXCEPT !["callback"].i = @ + 1]
  /\ UNCHANGED <<dev, playing, ring, read, write, data, guestRuns, work, pc>>

CallbackAdvance ==
  /\ pc["callback"] = "copy" /\ my["callback"].i = my["callback"].n
  /\ read' = Advanced(read, my["callback"].n)
  /\ my' = [my EXCEPT !["callback"].want = @ - my["callback"].n]
  /\ Go("callback", "batch")
  /\ UNCHANGED <<dev, playing, ring, write, data, guestRuns, work>>

CallbackEnd ==
  /\ pc["callback"] = "batch" /\ my["callback"].want = 0
  /\ Go("callback", "idle")
  /\ my' = [my EXCEPT !["callback"] = NoLocals]
  /\ UNCHANGED <<dev, playing, ring, read, write, data, guestRuns, work>>

-----------------------------------------------------------------------------
(* The main loop *)

\* Batches of the guest that are not in the ring yet.
Unpushed == work + (IF pc["emu"] = "idle" THEN 0 ELSE 1)

\* Is nothing left to push of the last frame, if the user waits for that?
Quiet == RestartsRace \/ Unpushed = 0

(* audio_restart, when host_poll_events finds the sync option changed.  Closing
   the device waits for its callback; the ring is freed, the new one is empty,
   and whether there is one depends on the option. *)
Restart ==
  /\ Quiet /\ pc["main"] = "poll" /\ pc["callback"] = "idle"
  /\ dev' \in BOOLEAN /\ playing' = FALSE
  /\ ring' = 1 - ring /\ read' = 0 /\ write' = 0
  /\ data' = [c \in Cells |-> Blank]
  /\ UNCHANGED <<guestRuns, work, pc, my>>

\* audio_buffer_low starts with the buffered frames; without a device it lies.
PollLow ==
  /\ pc["main"] = "poll"
  /\ IF dev THEN LoadRead("main") /\ Go("main", "low")
            ELSE Go("main", "frame") /\ UNCHANGED my
  /\ UNCHANGED <<dev, playing, ring, read, write, data, guestRuns, work>>

(* The rest of audio_buffer_low: the host clock lowers the count by up to
   Elapsed, and the loop starts over unless it is below the mark. *)
CheckLow(played) ==
  /\ pc["main"] = "low"
  /\ Go("main", IF Available("main") - played < LowMark THEN "frame" ELSE "poll")
  /\ my' = [my EXCEPT !["main"] = NoLocals]
  /\ UNCHANGED <<dev, playing, ring, read, write, data, guestRuns, work>>

\* emu_render_frame asks the emulation thread, once it has ended the last
\* frame, for a new one ...
Frame ==
  /\ pc["main"] = "frame" /\ guestRuns /\ work = 0 /\ pc["emu"] = "idle"
  /\ work' = Work
  /\ Go("main", "wait")
  /\ UNCHANGED <<dev, playing, ring, read, write, data, guestRuns, my>>

\* ... and waits for its picture.
FrameDrawn ==
  /\ pc["main"] = "wait" /\ Unpushed <= Trailing
  /\ Go("main", "ui")
  /\ UNCHANGED <<dev, playing, ring, read, write, data, guestRuns, work, my>>

\* While the guest is not guestRuns emu_render_frame only pushes silence.
SilentFrame ==
  /\ pc["main"] = "frame" /\ ~guestRuns
  /\ PushBegin("main", Silence)
  /\ UNCHANGED <<dev, playing, ring, read, write, data, guestRuns, work>>

\* ui_build_menus; the user may load a game.
Ui(load) ==
  /\ pc["main"] = "ui"
  /\ guestRuns' = (guestRuns \/ load)
  /\ Go("main", "poll")
  /\ UNCHANGED <<dev, playing, ring, read, write, data, work, my>>

(* gdb stops or continues the guest, between two ticks of a video frame that
   has not ended. *)
DebuggerTick ==
  /\ Debugger /\ pc["emu"] = "idle" /\ work > 0
  /\ guestRuns' = ~guestRuns
  /\ UNCHANGED <<dev, playing, ring, read, write, data, work, pc, my>>

EmuStep == EmuPush \/ PushRoom("emu") \/ PushCopy("emu") \/ PushAdvance("emu")
           \/ PushPlay("emu")

CallbackStep ==
  CallbackBegin \/ CallbackWant \/ CallbackBatch \/ CallbackCopy
  \/ CallbackAdvance \/ CallbackEnd

MainStep ==
  \/ PollLow \/ Frame \/ FrameDrawn \/ SilentFrame
  \/ \E played \in 0..Elapsed : CheckLow(played)
  \/ \E load \in BOOLEAN : Ui(load)
  \/ PushRoom("main") \/ PushCopy("main") \/ PushAdvance("main") \/ PushPlay("main")

AudioNext == MainStep \/ EmuStep \/ CallbackStep \/ Restart \/ DebuggerTick

AudioSpec == AudioInit /\ [][AudioNext]_audioVars

\* Each thread runs; SDL keeps calling back while the device plays.
AudioFairness ==
  WF_audioVars(MainStep) /\ WF_audioVars(EmuStep) /\ WF_audioVars(CallbackStep)

-----------------------------------------------------------------------------
(* The two ends agree: a thread in the middle of a push or a callback uses the
   buffer host->audio.frames points to, not one that was freed, and finds
   between 0 and Size frames in it, as the DCHECK of ringbuf_available says. *)
EndsAgree ==
  /\ Distance(read, write) \in 0..Size
  /\ \A t \in Threads : pc[t] \in {"load", "batch", "copy"} => my[t].ring = ring
  /\ \A t \in Producers \cup {"callback"} :
       pc[t] = "load" => Available(t) \in 0..Size

(* Whoever calls ringbuf_available finds between 0 and Size frames, the main
   loop as well. *)
AvailableInRange == EndsAgree /\ (pc["main"] = "low" => Available("main") \in 0..Size)

(* What the callback has still to copy is what was pushed for these offsets:
   no producer writes over frames that are being read, none is read before it
   is written, and the two ends agree on how many there are. *)
FramesIntact ==
  /\ AudioTypeOK /\ EndsAgree
  /\ pc["callback"] = "copy" =>
       \A k \in my["callback"].i..my["callback"].n - 1 :
         data[Cell(my["callback"].base + k)] = Advanced(my["callback"].base, k)

(* The main loop, which spins while the buffer is not low, always comes to
   render another frame. *)
FramesKeepComing == (pc["main"] = "poll") ~> (pc["main"] = "frame")

=============================================================================
