----------------------------- MODULE FrameSync -----------------------------
(***************************************************************************)
(* What the two threads of emulator.c promise each other, without mutexes, *)
(* condition variables, render contexts or textures: the client (the main  *)
(* thread) asks for one frame at a time, the machine (the emulation        *)
(* thread) runs exactly one frame per request, and the client draws after  *)
(* the vblank_in of the frame it asked for and never before it.            *)
(*                                                                         *)
(* The comment "an overview of each frames lifecycle" in emu_render_frame  *)
(* is the informal version of this module; Emu.tla is shown to implement   *)
(* it.                                                                     *)
(***************************************************************************)

VARIABLES
  client,   \* "idle" | "waiting" | "drawing" | "closing" | "closed"
  machine   \* "waiting" | "frame" (up to vblank_in) | "tail" (after it) | "off"

vars == <<client, machine>>

TypeOK ==
  /\ client \in {"idle", "waiting", "drawing", "closing", "closed"}
  /\ machine \in {"waiting", "frame", "tail", "off"}

Init == client = "idle" /\ machine = "waiting"

(* The client asks for a frame; the machine owes it one from now on. *)
Request ==
  /\ client = "idle" /\ machine = "waiting"
  /\ client' = "waiting" /\ machine' = "frame"

(* The frame reaches vblank_in: its picture may be drawn. *)
VblankIn ==
  /\ machine = "frame"
  /\ machine' = "tail"
  /\ UNCHANGED client

(* The client draws concurrently with the rest of the frame. *)
Draw ==
  /\ client = "waiting" /\ machine # "frame"
  /\ client' = "drawing"
  /\ UNCHANGED machine

Present ==
  /\ client = "drawing"
  /\ client' = "idle"
  /\ UNCHANGED machine

(* The machine is done with the frame and waits for the next request. *)
Finish ==
  /\ machine = "tail"
  /\ machine' = "waiting"
  /\ UNCHANGED client

(* The client stops the machine between two frames, and waits for it. *)
Close ==
  /\ client = "idle" /\ machine = "waiting"
  /\ client' = "closing" /\ machine' = "off"

Closed ==
  /\ client = "closing"
  /\ client' = "closed"
  /\ UNCHANGED machine

Next == Request \/ VblankIn \/ Draw \/ Present \/ Finish \/ Close \/ Closed

(* One frame per request, drawn after its vblank_in. *)
Safety == Init /\ [][Next]_vars

(* Once asked for, a frame is run, drawn and finished; a close completes. *)
Spec ==
  /\ Safety
  /\ WF_vars(VblankIn)
  /\ WF_vars(Draw)
  /\ WF_vars(Present)
  /\ WF_vars(Finish)
  /\ WF_vars(Closed)


=============================================================================
