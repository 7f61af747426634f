-------------------------------- MODULE Emu --------------------------------
(***************************************************************************)
(* The client of the dreamcast machine, emulator.c: the main thread        *)
(* requests frames, converts the render context the guest submitted and    *)
(* draws; the emulation thread runs the guest up to the end of the frame.  *)
(* They share the frame state, the pending context and the texture cache.  *)
(*                                                                         *)
(* An action is the code between two synchronisation points of its thread. *)
(* A section of the code that takes a mutex, works and releases it without *)
(* waiting is one action guarded by the mutex being free; a mutex held     *)
(* across actions is a variable with an owner.  cond_wait releases the     *)
(* mutex and puts the thread in asleep; a signal, or a spurious wakeup,    *)
(* takes it out, and the thread evaluates its condition again.             *)
(*                                                                         *)
(* What the guest does to the machine (writing texture memory, building a  *)
(* display list, writing STARTRENDER) is an input: any of it may happen    *)
(* whenever the emulation thread runs the machine.                         *)
(***************************************************************************)
EXTENDS Naturals, Sequences

CONSTANTS
  Ctx,              \* the ta contexts of the guest
  Tex,              \* the texture keys (tsp, tcw) the guest uses
  NoCtx, NoTex,     \* the null context and texture
  MaxRenders,       \* bound on the renders in flight
  OverlapRenders,   \* may the guest write STARTRENDER before the last render ended?
  NaughtyWrites,    \* may it write a texture of a context being rendered?
  StandardVideo,    \* is the video mode a standard one? (see PvrVblankIn)
  VideoRestarts,    \* may the window be resized while a game runs?
  LoadWhileRunning  \* may the user load a game while another one runs?

ASSUME EmuAssumption ==
  /\ NoCtx \notin Ctx
  /\ NoTex \notin Tex
  /\ MaxRenders \in Nat \ {0}
  /\ {OverlapRenders, NaughtyWrites, StandardVideo, VideoRestarts,
      LoadWhileRunning} \subseteq BOOLEAN

(* A cached texture is read from its texels and from its palette, each under
   a write watch of its own. *)
Sources == {"texture", "palette"}

States == {"SHUTDOWN", "WAITING", "RUNFRAME", "DRAWFRAME", "ENDFRAME"}

VARIABLES
  (* struct emu: the frame state and the latest video submitted *)
  state, pending, vidSource, vidDisabled,
  vidTex,     \* the textures vid_rc refers to by host handle
  running,    \* dc->running
  (* threads and locks *)
  mainPc, emuPc, asleep, reqMutex, resMutex,
  (* tr_convert_context, while the main thread is in it *)
  todo,       \* textures of the context still to convert
  reading,    \* the texture being decoded, or NoTex
  torn,       \* did the guest write to it meanwhile?
  (* the ta's contexts and the pvr's video state *)
  refs,       \* the textures the display list of a context refers to
  rendering,  \* contexts with the rendering flag set
  starting,   \* the context emu_start_render is working on
  inflight,   \* renders whose end timer is running, oldest first
  aged,       \* how many of them have seen a vblank_in
  gotStart, vsync,
  (* the texture cache *)
  live, dirty, modified,
  armed,      \* the write watches a cached texture has
  host        \* what the host texture holds, relative to guest memory

frameVars == <<state, pending, vidSource, vidDisabled, vidTex, running>>
threadVars == <<mainPc, emuPc, asleep, reqMutex, resMutex>>
convertVars == <<todo, reading, torn>>
guestVars == <<refs, rendering, starting, inflight, aged, gotStart, vsync>>
cacheVars == <<live, dirty, modified, armed, host>>
vars == <<frameVars, threadVars, convertVars, guestVars, cacheVars>>

MainPcs == {"idle", "load", "process", "convert", "vblank", "draw", "join", "done",
            "aborted"}
EmuPcs == {"top", "run", "submit", "push", "vblank_in", "exit"}

TypeOK ==
  /\ state \in States
  /\ pending \in Ctx \cup {NoCtx}
  /\ vidSource \in {"none", "ctx", "pxl"}
  /\ vidDisabled \in BOOLEAN
  /\ vidTex \subseteq Tex
  /\ running \in BOOLEAN
  /\ mainPc \in MainPcs
  /\ emuPc \in EmuPcs
  /\ asleep \subseteq {"main", "emu"}
  /\ reqMutex \in {"none", "emu"}
  /\ resMutex \in {"none", "main"}
  /\ todo \subseteq Tex
  /\ reading \in Tex \cup {NoTex}
  /\ torn \in BOOLEAN
  /\ refs \in [Ctx -> SUBSET Tex]
  /\ rendering \subseteq Ctx
  /\ starting \in Ctx \cup {NoCtx}
  /\ inflight \in Seq(Ctx)
  /\ aged \in 0..Len(inflight)
  /\ gotStart \in BOOLEAN
  /\ vsync \in BOOLEAN
  /\ live \subseteq Tex
  /\ dirty \subseteq Tex
  /\ modified \subseteq Tex
  /\ armed \in [Tex -> SUBSET Sources]
  /\ host \in [Tex -> {"none", "current", "stale"}]

(* emu_create: the emulation thread is started waiting for a request. *)
Init ==
  /\ state = "WAITING" /\ pending = NoCtx /\ vidSource = "none"
  /\ vidDisabled = FALSE /\ vidTex = {} /\ running = FALSE
  /\ mainPc = "idle" /\ emuPc = "top" /\ asleep = {}
  /\ reqMutex = "none" /\ resMutex = "none"
  /\ todo = {} /\ reading = NoTex /\ torn = FALSE
  /\ refs = [c \in Ctx |-> {}] /\ rendering = {} /\ starting = NoCtx
  /\ inflight = <<>> /\ aged = 0 /\ gotStart = FALSE /\ vsync = FALSE
  /\ live = {} /\ dirty = {} /\ modified = {}
  /\ armed = [t \in Tex |-> {}] /\ host = [t \in Tex |-> "none"]

Signal(thread) == asleep' = asleep \ {thread}

-----------------------------------------------------------------------------
(* The main thread: the host's loop, emu_render_frame and emu_destroy. *)

(* The ui loads a game, between two calls of emu_render_frame. *)
LoadBegin ==
  /\ mainPc = "idle"
  /\ running => LoadWhileRunning
  /\ mainPc' = "load"
  /\ UNCHANGED <<frameVars, emuPc, asleep, reqMutex, resMutex, convertVars,
                 guestVars, cacheVars>>

(* dc_load ends with the cpu reset and the machine running. *)
LoadEnd ==
  /\ mainPc = "load"
  /\ mainPc' = "idle"
  /\ running' = TRUE
  /\ UNCHANGED <<state, pending, vidSource, vidDisabled, vidTex, emuPc, asleep,
                 reqMutex, resMutex, convertVars, guestVars, cacheVars>>

(* emu_render_frame, first critical section: request a frame to be ran.  The
   CHECK_EQ at its head is the invariant FrameRequestable. *)
RequestFrame ==
  /\ mainPc = "idle" /\ running
  /\ reqMutex = "none"
  /\ state' = "RUNFRAME"
  /\ Signal("emu")
  /\ mainPc' = "process"
  /\ UNCHANGED <<pending, vidSource, vidDisabled, vidTex, running, emuPc,
                 reqMutex, resMutex, convertVars, guestVars, cacheVars>>

(* Second critical section: wait for a context or for vblank_in. *)
ProcessWait ==
  /\ mainPc = "process" /\ "main" \notin asleep
  /\ resMutex = "none"
  /\ state = "RUNFRAME" /\ pending = NoCtx
  /\ asleep' = asleep \cup {"main"}
  /\ UNCHANGED <<frameVars, mainPc, emuPc, reqMutex, resMutex, convertVars,
                 guestVars, cacheVars>>

(* vblank_in came first: there is nothing to convert. *)
ProcessNothing ==
  /\ mainPc = "process" /\ "main" \notin asleep
  /\ resMutex = "none"
  /\ state # "RUNFRAME" /\ pending = NoCtx
  /\ mainPc' = "vblank"
  /\ UNCHANGED <<frameVars, emuPc, asleep, reqMutex, resMutex, convertVars,
                 guestVars, cacheVars>>

(* A context is pending: keep res_mutex and convert it. *)
ConvertBegin ==
  /\ mainPc = "process" /\ "main" \notin asleep
  /\ resMutex = "none"
  /\ pending # NoCtx
  /\ resMutex' = "main"
  /\ mainPc' = "convert"
  /\ todo' = refs[pending]
  /\ UNCHANGED <<frameVars, emuPc, asleep, reqMutex, reading, torn,
                 guestVars, cacheVars>>

(* tr_convert_texture finds a host texture that is not dirty. *)
ConvertCached(t) ==
  /\ mainPc = "convert" /\ reading = NoTex
  /\ t \in todo \cap live
  /\ host[t] # "none" /\ t \notin dirty
  /\ todo' = todo \ {t}
  /\ UNCHANGED <<frameVars, threadVars, reading, torn, guestVars, cacheVars>>

(* Otherwise the host texture is destroyed, if there is one, and the guest's
   texture memory is read. *)
ConvertRead(t) ==
  /\ mainPc = "convert" /\ reading = NoTex
  /\ t \in todo \cap live
  /\ host[t] = "none" \/ t \in dirty
  /\ reading' = t
  /\ torn' = FALSE
  /\ host' = [host EXCEPT ![t] = "none"]
  /\ UNCHANGED <<frameVars, threadVars, todo, guestVars, live, dirty, modified,
                 armed>>

(* The decoded texels are uploaded and the entry is no longer dirty. *)
ConvertUpload ==
  /\ mainPc = "convert" /\ reading # NoTex
  /\ host' = [host EXCEPT ![reading] = IF torn THEN "stale" ELSE "current"]
  /\ dirty' = dirty \ {reading}
  /\ todo' = todo \ {reading}
  /\ reading' = NoTex
  /\ torn' = FALSE
  /\ UNCHANGED <<frameVars, threadVars, guestVars, live, modified, armed>>

(* The texture is not in the cache: CHECK_NOTNULL ends the process. *)
ConvertAbort(t) ==
  /\ mainPc = "convert" /\ reading = NoTex
  /\ t \in todo \ live
  /\ mainPc' = "aborted" /\ emuPc' = "exit"
  /\ UNCHANGED <<frameVars, asleep, reqMutex, resMutex, convertVars, guestVars,
                 cacheVars>>

ConvertEnd ==
  /\ mainPc = "convert" /\ reading = NoTex /\ todo = {}
  /\ pending' = NoCtx
  /\ vidSource' = "ctx"
  /\ vidTex' = refs[pending]
  /\ resMutex' = "none"
  /\ mainPc' = "vblank"
  /\ UNCHANGED <<state, vidDisabled, running, emuPc, asleep, reqMutex,
                 convertVars, guestVars, cacheVars>>

(* Third critical section: wait for vblank_in. *)
VblankWait ==
  /\ mainPc = "vblank" /\ "main" \notin asleep
  /\ resMutex = "none"
  /\ state = "RUNFRAME"
  /\ asleep' = asleep \cup {"main"}
  /\ UNCHANGED <<frameVars, mainPc, emuPc, reqMutex, resMutex, convertVars,
                 guestVars, cacheVars>>

(* Mutant of VblankSeen: the frame is drawn without waiting for vblank_in *)
VblankSeenEarly ==
  /\ mainPc = "vblank" /\ "main" \notin asleep
  /\ resMutex = "none"
  /\ mainPc' = "draw"
  /\ UNCHANGED <<frameVars, emuPc, asleep, reqMutex, resMutex, convertVars,
                 guestVars, cacheVars>>

VblankSeen ==
  /\ mainPc = "vblank" /\ "main" \notin asleep
  /\ resMutex = "none"
  /\ state # "RUNFRAME"
  /\ mainPc' = "draw"
  /\ UNCHANGED <<frameVars, emuPc, asleep, reqMutex, resMutex, convertVars,
                 guestVars, cacheVars>>

(* The latest video source is drawn, with no lock held: while mainPc is "draw"
   the thread reads vid_disabled, vid_source, vid_fb and vid_rc. *)
Draw ==
  /\ mainPc = "draw"
  /\ mainPc' = "idle"
  /\ UNCHANGED <<frameVars, emuPc, asleep, reqMutex, resMutex, convertVars,
                 guestVars, cacheVars>>

(* Mutant of DirtyTextures: the host textures are destroyed at once *)
DirtyTexturesDestroys ==
  /\ mainPc = "idle"
  /\ reqMutex = "none"
  /\ dirty' = dirty \cup live
  /\ host' = [t \in Tex |-> "none"]
  /\ UNCHANGED <<frameVars, threadVars, convertVars, guestVars, live, modified,
                 armed>>

(* emu_debug_menu, "clear texture cache" and the start of a trace: every live
   texture is marked dirty.  req_mutex is taken and released to let a frame
   end; its CHECK_EQ is FrameRequestable again. *)
DirtyTextures ==
  /\ mainPc = "idle"
  /\ reqMutex = "none"
  /\ dirty' = dirty \cup live
  /\ UNCHANGED <<frameVars, threadVars, convertVars, guestVars, live, modified,
                 armed, host>>

(* A resize of the window destroys the render backend and makes another one:
   emu_vid_destroyed frees the cached textures, emu_vid_created follows. *)
VideoRestart ==
  /\ VideoRestarts
  /\ mainPc = "idle"
  /\ live' = {}
  /\ host' = [t \in Tex |-> "none"]
  /\ UNCHANGED <<frameVars, threadVars, convertVars, guestVars, dirty, modified,
                 armed>>

(* emu_destroy *)
Shutdown ==
  /\ mainPc = "idle"
  /\ reqMutex = "none"
  /\ state' = "SHUTDOWN"
  /\ Signal("emu")
  /\ mainPc' = "join"
  /\ UNCHANGED <<pending, vidSource, vidDisabled, vidTex, running, emuPc,
                 reqMutex, resMutex, convertVars, guestVars, cacheVars>>

Join ==
  /\ mainPc = "join" /\ emuPc = "exit"
  /\ mainPc' = "done"
  /\ UNCHANGED <<frameVars, emuPc, asleep, reqMutex, resMutex, convertVars,
                 guestVars, cacheVars>>

-----------------------------------------------------------------------------
(* The emulation thread: emu_run_thread. *)

RequestWait ==
  /\ emuPc = "top" /\ "emu" \notin asleep
  /\ reqMutex = "none"
  /\ state = "WAITING"
  /\ asleep' = asleep \cup {"emu"}
  /\ UNCHANGED <<frameVars, mainPc, emuPc, reqMutex, resMutex, convertVars,
                 guestVars, cacheVars>>

RequestShutdown ==
  /\ emuPc = "top" /\ "emu" \notin asleep
  /\ reqMutex = "none"
  /\ state = "SHUTDOWN"
  /\ emuPc' = "exit"
  /\ UNCHANGED <<frameVars, mainPc, asleep, reqMutex, resMutex, convertVars,
                 guestVars, cacheVars>>

(* emu_run_until_vblank is entered with req_mutex held. *)
RequestSeen ==
  /\ emuPc = "top" /\ "emu" \notin asleep
  /\ reqMutex = "none"
  /\ state \notin {"WAITING", "SHUTDOWN"}
  /\ reqMutex' = "emu"
  /\ state' = "RUNFRAME"
  /\ emuPc' = "run"
  /\ UNCHANGED <<pending, vidSource, vidDisabled, vidTex, running, mainPc,
                 asleep, resMutex, convertVars, guestVars, cacheVars>>

(* Mutant of EndFrame: the frame ends without going back to EMU_WAITING *)
EndFrameKeepsState ==
  /\ emuPc = "run"
  /\ state \notin {"RUNFRAME", "DRAWFRAME"}
  /\ state' = state
  /\ reqMutex' = "none"
  /\ emuPc' = "top"
  /\ UNCHANGED <<pending, vidSource, vidDisabled, vidTex, running, mainPc,
                 asleep, resMutex, convertVars, guestVars, cacheVars>>

(* The loop of emu_run_until_vblank tests the state after each tick of 1 ms,
   however much the guest did in the tick. *)
EndFrame ==
  /\ emuPc = "run"
  /\ state \notin {"RUNFRAME", "DRAWFRAME"}
  /\ state' = "WAITING"
  /\ reqMutex' = "none"
  /\ emuPc' = "top"
  /\ UNCHANGED <<pending, vidSource, vidDisabled, vidTex, running, mainPc,
                 asleep, resMutex, convertVars, guestVars, cacheVars>>

-----------------------------------------------------------------------------
(* The machine, on the emulation thread. *)

(* The guest writes to the texels or the palette of t.  An armed watch faults,
   is gone, and has the entry join the modified list. *)
GuestWrite(t, s) ==
  /\ emuPc = "run"
  /\ NaughtyWrites \/ \A c \in rendering : t \notin refs[c]
  /\ armed' = [armed EXCEPT ![t] = @ \ {s}]
  /\ modified' = IF s \in armed[t] THEN modified \cup {t} ELSE modified
  /\ host' = [host EXCEPT ![t] = IF @ = "none" THEN "none" ELSE "stale"]
  /\ torn' = (torn \/ reading = t)
  /\ UNCHANGED <<frameVars, threadVars, todo, reading, guestVars, live, dirty>>

(* TA_LIST_INIT and the parameters of a new display list. ta_init_context
   checks that the context is not being rendered. *)
ListInit(c, ts) ==
  /\ emuPc = "run"
  /\ c \notin rendering
  /\ refs' = [refs EXCEPT ![c] = ts]
  /\ UNCHANGED <<frameVars, threadVars, convertVars, rendering, starting,
                 inflight, aged, gotStart, vsync, cacheVars>>

(* Mutant of StartRender: the textures of the context are not registered *)
StartRenderUnregistered(c) ==
  /\ emuPc = "run"
  /\ inflight # <<>> => OverlapRenders
  /\ Len(inflight) < MaxRenders
  /\ rendering' = rendering \cup {c}
  /\ gotStart' = TRUE
  /\ starting' = c
  /\ dirty' = dirty \cup modified \cup (refs[c] \ live)
  /\ modified' = {}
  /\ live' = live
  /\ armed' = [t \in Tex |-> IF t \in refs[c] THEN Sources ELSE armed[t]]
  /\ emuPc' = "submit"
  /\ UNCHANGED <<frameVars, mainPc, asleep, reqMutex, resMutex, convertVars,
                 refs, inflight, aged, vsync, host>>

(* Mutant of StartRender: the modified list is cleared, its textures are not marked *)
StartRenderForgets(c) ==
  /\ emuPc = "run"
  /\ inflight # <<>> => OverlapRenders
  /\ Len(inflight) < MaxRenders
  /\ rendering' = rendering \cup {c}
  /\ gotStart' = TRUE
  /\ starting' = c
  /\ dirty' = dirty \cup (refs[c] \ live)
  /\ modified' = {}
  /\ live' = live \cup refs[c]
  /\ armed' = [t \in Tex |-> IF t \in refs[c] THEN Sources ELSE armed[t]]
  /\ emuPc' = "submit"
  /\ UNCHANGED <<frameVars, mainPc, asleep, reqMutex, resMutex, convertVars,
                 refs, inflight, aged, vsync, host>>

(* STARTRENDER, up to the lock in emu_start_render: the textures on the
   modified list become dirty, and each texture of the context is registered,
   which allocates an entry for it and arms the watches it lacks. *)
StartRender(c) ==
  /\ emuPc = "run"
  /\ inflight # <<>> => OverlapRenders
  /\ Len(inflight) < MaxRenders
  /\ rendering' = rendering \cup {c}
  /\ gotStart' = TRUE
  /\ starting' = c
  /\ dirty' = dirty \cup modified \cup (refs[c] \ live)
  /\ modified' = {}
  /\ live' = live \cup refs[c]
  /\ armed' = [t \in Tex |-> IF t \in refs[c] THEN Sources ELSE armed[t]]
  /\ emuPc' = "submit"
  /\ UNCHANGED <<frameVars, mainPc, asleep, reqMutex, resMutex, convertVars,
                 refs, inflight, aged, vsync, host>>

(* The rest of it: hand the context over, and start the 10 ms end timer. *)
SubmitRender ==
  /\ emuPc = "submit"
  /\ resMutex = "none"
  /\ pending' = starting
  /\ Signal("main")
  /\ inflight' = Append(inflight, starting)
  /\ starting' = NoCtx
  /\ emuPc' = "run"
  /\ UNCHANGED <<state, vidSource, vidDisabled, vidTex, running, mainPc,
                 reqMutex, resMutex, convertVars, refs, rendering, aged,
                 gotStart, vsync, cacheVars>>

(* Mutant of FinishRender: the end of render does not wait for the conversion *)
FinishRenderUnlocked ==
  /\ emuPc = "run" /\ inflight # <<>>
  /\ pending' = IF mainPc = "convert" THEN pending ELSE NoCtx
  /\ Signal("main")
  /\ rendering' = rendering \ {Head(inflight)}
  /\ inflight' = Tail(inflight)
  /\ aged' = IF aged = 0 THEN 0 ELSE aged - 1
  /\ UNCHANGED <<state, vidSource, vidDisabled, vidTex, running, mainPc, emuPc,
                 reqMutex, resMutex, convertVars, refs, starting, gotStart,
                 vsync, cacheVars>>

(* ta_render_context_end: the oldest timer fires.  emu_finish_render waits for
   a conversion to end, and drops the context if none has begun. *)
FinishRender ==
  /\ emuPc = "run" /\ inflight # <<>>
  /\ resMutex = "none"
  /\ pending' = NoCtx
  /\ Signal("main")
  /\ rendering' = rendering \ {Head(inflight)}
  /\ inflight' = Tail(inflight)
  /\ aged' = IF aged = 0 THEN 0 ELSE aged - 1
  /\ UNCHANGED <<state, vidSource, vidDisabled, vidTex, running, mainPc, emuPc,
                 reqMutex, resMutex, convertVars, refs, starting, gotStart,
                 vsync, cacheVars>>

(* A scanline enters the vertical blank.  The framebuffer is pushed when it was
   written to and no render was started since the last vblank.  In a standard
   video mode 16 ms or more pass between two of these: more than the 10 ms a
   render takes, and more than the 1 ms tick vblank_out came in. *)
PvrVblankIn ==
  /\ emuPc = "run" /\ ~vsync
  /\ StandardVideo => aged = 0 /\ state # "ENDFRAME"
  /\ vsync' = TRUE
  /\ gotStart' = FALSE
  /\ emuPc' \in IF gotStart THEN {"vblank_in"} ELSE {"push", "vblank_in"}
  /\ UNCHANGED <<frameVars, mainPc, asleep, reqMutex, resMutex, convertVars,
                 refs, rendering, starting, inflight, aged, cacheVars>>

(* emu_push_pixels, with no lock held: while emuPc is "push" the thread writes
   vid_fb and vid_source. *)
PushPixels ==
  /\ emuPc = "push"
  /\ vidSource' = "pxl"
  /\ emuPc' = "vblank_in"
  /\ UNCHANGED <<state, pending, vidDisabled, vidTex, running, mainPc, asleep,
                 reqMutex, resMutex, convertVars, guestVars, cacheVars>>

(* Mutant of VblankIn: the waiting thread is not signalled *)
VblankInSilent ==
  /\ emuPc = "vblank_in"
  /\ resMutex = "none"
  /\ state' = "DRAWFRAME"
  /\ vidDisabled' \in BOOLEAN
  /\ aged' = Len(inflight)
  /\ emuPc' = "run"
  /\ UNCHANGED <<pending, vidSource, vidTex, running, mainPc, asleep, reqMutex, resMutex,
                 convertVars, refs, rendering, starting, inflight, gotStart,
                 vsync, cacheVars>>

VblankIn ==
  /\ emuPc = "vblank_in"
  /\ resMutex = "none"
  /\ state' = "DRAWFRAME"
  /\ vidDisabled' \in BOOLEAN
  /\ Signal("main")
  /\ aged' = Len(inflight)
  /\ emuPc' = "run"
  /\ UNCHANGED <<pending, vidSource, vidTex, running, mainPc, reqMutex, resMutex,
                 convertVars, refs, rendering, starting, inflight, gotStart,
                 vsync, cacheVars>>

VblankOut ==
  /\ emuPc = "run" /\ vsync
  /\ vsync' = FALSE
  /\ state' = "ENDFRAME"
  /\ UNCHANGED <<pending, vidSource, vidDisabled, vidTex, running, threadVars,
                 convertVars, refs, rendering, starting, inflight, aged,
                 gotStart, cacheVars>>

(* A condition variable may wake its waiter for no reason. *)
SpuriousWakeup(thread) ==
  /\ thread \in asleep
  /\ Signal(thread)
  /\ UNCHANGED <<frameVars, mainPc, emuPc, reqMutex, resMutex, convertVars,
                 guestVars, cacheVars>>

Terminated == mainPc \in {"done", "aborted"} /\ UNCHANGED vars

-----------------------------------------------------------------------------

Main ==
  \/ LoadBegin \/ LoadEnd \/ RequestFrame
  \/ ProcessWait \/ ProcessNothing
  \/ ConvertBegin \/ ConvertUpload \/ ConvertEnd
  \/ \E t \in Tex : ConvertCached(t) \/ ConvertRead(t) \/ ConvertAbort(t)
  \/ VblankWait \/ VblankSeen \/ Draw
  \/ DirtyTextures \/ VideoRestart
  \/ Shutdown \/ Join

Guest ==
  \/ \E t \in Tex, s \in Sources : GuestWrite(t, s)
  \/ \E c \in Ctx, ts \in SUBSET Tex : ListInit(c, ts)
  \/ \E c \in Ctx : StartRender(c)

Machine ==
  \/ SubmitRender \/ FinishRender
  \/ PvrVblankIn \/ PushPixels \/ VblankIn \/ VblankOut

RunThread == RequestWait \/ RequestShutdown \/ RequestSeen \/ EndFrame

Next ==
  \/ Main \/ Guest \/ Machine \/ RunThread
  \/ \E thread \in {"main", "emu"} : SpuriousWakeup(thread)
  \/ Terminated

(* Both threads are scheduled, and the time of the guest goes by while its
   thread runs it, so that a timer that is due is not put off for ever by what
   the guest does in between (strong fairness: the guest may enter and leave
   the "run" point infinitely often).  Nothing makes the user request a frame,
   load or quit, and nothing makes the guest render. *)
Fairness ==
  /\ WF_vars(LoadEnd)
  /\ WF_vars(ProcessWait \/ ProcessNothing \/ ConvertBegin)
  /\ WF_vars(ConvertUpload \/ ConvertEnd
             \/ \E t \in Tex : ConvertCached(t) \/ ConvertRead(t))
  /\ WF_vars(VblankWait \/ VblankSeen)
  /\ WF_vars(Draw)
  /\ WF_vars(Join)
  /\ WF_vars(RunThread)
  /\ WF_vars(SubmitRender)
  /\ WF_vars(PushPixels)
  /\ WF_vars(VblankIn)
  /\ SF_vars(FinishRender)
  /\ SF_vars(PvrVblankIn)
  /\ SF_vars(VblankOut)
  /\ SF_vars(EndFrame)

Spec == Init /\ [][Next]_vars

FairSpec == Spec /\ Fairness

-----------------------------------------------------------------------------
(* Properties. *)

(* The CHECK_EQ(state, EMU_WAITING) of emu_render_frame and emu_debug_menu
   never fails: when the main thread gets req_mutex between two frames, the
   emulation thread has ended the previous frame, its tail included. *)
FrameRequestable ==
  mainPc = "idle" /\ reqMutex = "none" => state = "WAITING"

(* A thread never sleeps on a condition that has become false: every write to
   state and pending_ctx that ends a wait is followed by a signal, although
   emu_vblank_out and the end of emu_run_thread write state without one. *)
NoLostWakeup ==
  /\ "main" \in asleep => /\ state = "RUNFRAME"
                         /\ mainPc \in {"process", "vblank"}
                         /\ (mainPc = "process" => pending = NoCtx)
  /\ "emu" \in asleep => state = "WAITING"

(* emu_finish_render pauses the emulation thread until a conversion is done:
   the context the main thread is reading is still marked as being rendered,
   so that ta_init_context and ta_cont_context refuse to touch it. *)
ConvertingIsRendering ==
  mainPc = "convert" => pending \in rendering

(* The CHECK_NOTNULL(entry) of tr_convert_texture never fails: each texture of
   the context being converted was registered by emu_start_render. *)
TexturesFound ==
  mainPc = "convert" => todo \subseteq live

(* vid_rc, kept from frame to frame, is drawn with host textures that exist:
   tr_convert_texture destroys handles only to build the next vid_rc. *)
HandlesLive ==
  mainPc = "draw" /\ vidSource = "ctx" => \A t \in vidTex : host[t] # "none"

(* An invalidation is never lost: a host texture that differs from guest memory
   is dirty or waits on the modified list, so its next use uploads it again. *)
StaleIsKnown ==
  \A t \in live : host[t] = "stale" => t \in dirty \cup modified

(* A guest that leaves the textures of a render alone until the end of render
   interrupt never has a half written texture uploaded. *)
NeverTorn == ~torn

(* emu_push_pixels writes vid_fb and vid_source without a lock, yet never while
   the main thread draws from them or is about to set vid_source itself. *)
PixelsExclusive ==
  emuPc = "push" => mainPc \notin {"convert", "draw"}

(* emu_start_render marks textures dirty and registers them only when "the
   video thread is sure to not be accessing the texture data". *)
DirtyUnshared ==
  [][starting' # starting /\ starting' # NoCtx => mainPc # "convert"]_vars

(* A game is loaded, which frees the translated code, only when no guest code
   is running. *)
LoadWhenQuiet == mainPc = "load" => reqMutex # "emu"

(* Emu implements the frame protocol of FrameSync. *)
Abs == INSTANCE FrameSync WITH
  client <- CASE mainPc \in {"idle", "load"} -> "idle"
              [] mainPc \in {"process", "convert", "vblank", "aborted"} -> "waiting"
              [] mainPc = "draw" -> "drawing"
              [] mainPc = "join" -> "closing"
              [] mainPc = "done" -> "closed",
  machine <- CASE state = "WAITING" -> "waiting"
               [] state = "RUNFRAME" -> "frame"
               [] state \in {"DRAWFRAME", "ENDFRAME"} -> "tail"
               [] state = "SHUTDOWN" -> "off"

(* The implementation, with the liveness FrameSync asks for. *)
FrameProtocol == Abs!Spec

=============================================================================
