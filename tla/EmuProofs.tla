----------------------------- MODULE EmuProofs -----------------------------
(***************************************************************************)
(* The safety properties of Emu for any number of contexts and textures.   *)
(*                                                                         *)
(* The inductive invariant is the conjunction of six parts, each about one *)
(* aspect of the protocol; a part needs the ones before it.                *)
(***************************************************************************)
EXTENDS Emu, TLAPS

Executing == {"run", "submit", "push", "vblank_in"}

(* Who holds which mutex, and what the frame state says about the threads. *)
ThreadInv ==
  /\ resMutex = "main" <=> mainPc \in {"convert", "aborted"}
  /\ emuPc \in Executing => reqMutex = "emu"
  /\ emuPc = "top" => reqMutex = "none" /\ state \in {"WAITING", "RUNFRAME", "SHUTDOWN"}
  /\ emuPc \in Executing => state \in {"RUNFRAME", "DRAWFRAME", "ENDFRAME"}
  /\ emuPc = "exit" => mainPc \in {"join", "done", "aborted"}
  /\ mainPc = "aborted" => emuPc = "exit"
  /\ mainPc \in {"join", "done"} => state = "SHUTDOWN" /\ emuPc \in {"top", "exit"}
  /\ state = "SHUTDOWN" => mainPc \in {"join", "done"}
  /\ mainPc \in {"idle", "load", "draw"} => state # "RUNFRAME"

(* The vertical blank and the frame state. *)
VblankInv ==
  /\ emuPc = "top" => ~vsync
  /\ emuPc \in {"push", "vblank_in"} => vsync
  /\ emuPc \in {"run", "submit"} => (vsync <=> state = "DRAWFRAME")
  /\ emuPc \in {"push", "vblank_in"} /\ StandardVideo => state = "RUNFRAME"

(* A sleeping thread waits for something that is still to come. *)
SleepInv ==
  /\ "main" \in asleep => /\ state = "RUNFRAME"
                          /\ mainPc \in {"process", "vblank"}
                          /\ (mainPc = "process" => pending = NoCtx)
  /\ "emu" \in asleep => state = "WAITING" /\ emuPc \in {"top", "exit"}

(* A context that is pending or being submitted is marked as rendering, and a
   marked context has its end timer running. *)
RenderInv ==
  /\ pending # NoCtx => pending \in rendering
  /\ mainPc = "convert" => pending # NoCtx
  /\ emuPc \in Executing => (emuPc = "submit" <=> starting # NoCtx)
  /\ starting # NoCtx => starting \in rendering
  /\ emuPc = "top" => starting = NoCtx
  /\ \A c \in rendering : c = starting \/ \E i \in 1..Len(inflight) : inflight[i] = c
  /\ emuPc = "submit" => gotStart
  /\ emuPc \in {"top", "run", "submit"} /\ ~gotStart => aged = Len(inflight)
  /\ emuPc = "push" /\ StandardVideo => inflight = <<>>

(* What the conversion has left to do is registered. *)
ConvertInv ==
  /\ reading # NoTex => mainPc = "convert" /\ reading \in todo
  /\ torn => reading # NoTex
  /\ mainPc = "convert" => todo \subseteq refs[pending]
  /\ ~VideoRestarts => /\ pending # NoCtx => refs[pending] \subseteq live
                       /\ starting # NoCtx => refs[starting] \subseteq live

(* The write watches cover every texture whose modification would go unseen. *)
WatchInv ==
  /\ ~OverlapRenders /\ starting # NoCtx => inflight = <<>>
  /\ ~OverlapRenders =>
       /\ \A t \in Tex : host[t] # "none" \/ reading = t =>
                           armed[t] = Sources \/ t \in dirty \cup modified
       /\ \A t \in Tex : host[t] = "stale" => t \in dirty \cup modified
       /\ pending # NoCtx =>
            \A t \in refs[pending] : armed[t] = Sources \/ t \in modified
       /\ starting # NoCtx =>
            \A t \in refs[starting] : armed[t] = Sources \/ t \in modified
       /\ torn => reading \in modified

IInv ==
  TypeOK /\ ThreadInv /\ VblankInv /\ SleepInv /\ RenderInv /\ ConvertInv /\ WatchInv

(* Every step keeps the types. *)
LEMMA TypeStep ==
  ASSUME TypeOK, RenderInv, [Next]_vars
  PROVE  TypeOK'
<1> USE EmuAssumption DEF TypeOK, States, MainPcs, EmuPcs, Sources, vars, frameVars, threadVars, convertVars, guestVars, cacheVars
<1>1. CASE LoadBegin
  BY <1>1 DEF LoadBegin
<1>2. CASE LoadEnd
  BY <1>2 DEF LoadEnd
<1>3. CASE RequestFrame
  BY <1>3 DEF RequestFrame, Signal
<1>4. CASE ProcessWait
  BY <1>4 DEF ProcessWait
<1>5. CASE ProcessNothing
  BY <1>5 DEF ProcessNothing
<1>6. CASE ConvertBegin
  BY <1>6 DEF ConvertBegin
<1>7. CASE ConvertUpload
  <2>1. host' \in [Tex -> {"none", "current", "stale"}]
    BY <1>7 DEF ConvertUpload
  <2>2. dirty' \subseteq Tex /\ todo' \subseteq Tex /\ reading' \in Tex \cup {NoTex}
    BY <1>7 DEF ConvertUpload
  <2>3. torn' \in BOOLEAN
    BY <1>7 DEF ConvertUpload
  <2> QED BY <1>7, <2>1, <2>2, <2>3 DEF ConvertUpload
<1>8. CASE ConvertEnd
  <2>1. pending \in Ctx
    BY <1>8 DEF ConvertEnd, RenderInv
  <2> QED BY <1>8, <2>1 DEF ConvertEnd
<1>9. CASE VblankWait
  BY <1>9 DEF VblankWait
<1>10. CASE VblankSeen
  BY <1>10 DEF VblankSeen
<1>11. CASE Draw
  BY <1>11 DEF Draw
<1>12. CASE DirtyTextures
  BY <1>12 DEF DirtyTextures
<1>13. CASE VideoRestart
  BY <1>13 DEF VideoRestart
<1>14. CASE Shutdown
  BY <1>14 DEF Shutdown, Signal
<1>15. CASE Join
  BY <1>15 DEF Join
<1>16. CASE SubmitRender
  <2>1. starting \in Ctx
    BY <1>16 DEF SubmitRender, RenderInv, Executing
  <2>2. inflight' \in Seq(Ctx) /\ Len(inflight') = Len(inflight) + 1
    BY <1>16, <2>1 DEF SubmitRender
  <2>3. aged' \in 0..Len(inflight')
    BY <1>16, <2>2 DEF SubmitRender
  <2> QED BY <1>16, <2>1, <2>2, <2>3 DEF SubmitRender, Signal
<1>17. CASE FinishRender
  BY <1>17 DEF FinishRender, Signal
<1>18. CASE PvrVblankIn
  <2>1. emuPc' \in EmuPcs
    BY <1>18 DEF PvrVblankIn
  <2>2. vsync' \in BOOLEAN /\ gotStart' \in BOOLEAN
    BY <1>18 DEF PvrVblankIn
  <2> QED BY <1>18, <2>1, <2>2 DEF PvrVblankIn
<1>19. CASE PushPixels
  BY <1>19 DEF PushPixels
<1>20. CASE VblankIn
  BY <1>20 DEF VblankIn, Signal
<1>21. CASE VblankOut
  <2>1. state' \in States /\ vsync' \in BOOLEAN
    BY <1>21 DEF VblankOut
  <2> QED BY <1>21, <2>1 DEF VblankOut
<1>22. CASE RequestWait
  BY <1>22 DEF RequestWait
<1>23. CASE RequestShutdown
  BY <1>23 DEF RequestShutdown
<1>24. CASE RequestSeen
  BY <1>24 DEF RequestSeen
<1>25. CASE EndFrame
  BY <1>25 DEF EndFrame
<1>26. CASE Terminated
  BY <1>26 DEF Terminated
<1>27. ASSUME NEW t \in Tex, ConvertCached(t) PROVE TypeOK'
  BY <1>27 DEF ConvertCached
<1>28. ASSUME NEW t \in Tex, ConvertRead(t) PROVE TypeOK'
  <2>1. host' \in [Tex -> {"none", "current", "stale"}]
    BY <1>28 DEF ConvertRead
  <2>2. torn' \in BOOLEAN
    BY <1>28 DEF ConvertRead
  <2> QED BY <1>28, <2>1, <2>2 DEF ConvertRead
<1>29. ASSUME NEW t \in Tex, ConvertAbort(t) PROVE TypeOK'
  BY <1>29 DEF ConvertAbort
<1>30. ASSUME NEW t \in Tex, NEW src \in Sources, GuestWrite(t, src) PROVE TypeOK'
  BY <1>30 DEF GuestWrite
<1>31. ASSUME NEW c \in Ctx, NEW ts \in SUBSET Tex, ListInit(c, ts) PROVE TypeOK'
  BY <1>31 DEF ListInit
<1>32. ASSUME NEW c \in Ctx, StartRender(c) PROVE TypeOK'
  BY <1>32 DEF StartRender
<1>33. ASSUME NEW thread \in {"main", "emu"}, SpuriousWakeup(thread) PROVE TypeOK'
  BY <1>33 DEF SpuriousWakeup, Signal
<1>34. CASE UNCHANGED vars
  BY <1>34
<1>35. QED
  BY <1>1, <1>2, <1>3, <1>4, <1>5, <1>6, <1>7, <1>8, <1>9, <1>10, <1>11,
     <1>12, <1>13, <1>14, <1>15, <1>16, <1>17, <1>18, <1>19, <1>20, <1>21,
     <1>22, <1>23, <1>24, <1>25, <1>26, <1>27, <1>28, <1>29, <1>30, <1>31,
     <1>32, <1>33, <1>34
     DEF Next, Main, Guest, Machine, RunThread

(* Every step keeps ThreadInv. *)
LEMMA ThreadStep ==
  ASSUME TypeOK, ThreadInv, [Next]_vars
  PROVE  ThreadInv'
<1> USE EmuAssumption DEF ThreadInv, Executing, MainPcs, EmuPcs, TypeOK, States, vars, frameVars, threadVars, convertVars, guestVars, cacheVars
<1>1. CASE LoadBegin
  BY <1>1 DEF LoadBegin
<1>2. CASE LoadEnd
  BY <1>2 DEF LoadEnd
<1>3. CASE RequestFrame
  BY <1>3 DEF RequestFrame, Signal
<1>4. CASE ProcessWait
  BY <1>4 DEF ProcessWait
<1>5. CASE ProcessNothing
  BY <1>5 DEF ProcessNothing
<1>6. CASE ConvertBegin
  BY <1>6 DEF ConvertBegin
<1>7. CASE ConvertUpload
  BY <1>7 DEF ConvertUpload
<1>8. CASE ConvertEnd
  BY <1>8 DEF ConvertEnd
<1>9. CASE VblankWait
  BY <1>9 DEF VblankWait
<1>10. CASE VblankSeen
  BY <1>10 DEF VblankSeen
<1>11. CASE Draw
  BY <1>11 DEF Draw
<1>12. CASE DirtyTextures
  BY <1>12 DEF DirtyTextures
<1>13. CASE VideoRestart
  BY <1>13 DEF VideoRestart
<1>14. CASE Shutdown
  BY <1>14 DEF Shutdown, Signal
<1>15. CASE Join
  BY <1>15 DEF Join
<1>16. CASE SubmitRender
  BY <1>16 DEF SubmitRender, Signal
<1>17. CASE FinishRender
  BY <1>17 DEF FinishRender, Signal
<1>18. CASE PvrVblankIn
  BY <1>18 DEF PvrVblankIn
<1>19. CASE PushPixels
  BY <1>19 DEF PushPixels
<1>20. CASE VblankIn
  BY <1>20 DEF VblankIn, Signal
<1>21. CASE VblankOut
  BY <1>21 DEF VblankOut
<1>22. CASE RequestWait
  BY <1>22 DEF RequestWait
<1>23. CASE RequestShutdown
  BY <1>23 DEF RequestShutdown
<1>24. CASE RequestSeen
  BY <1>24 DEF RequestSeen
<1>25. CASE EndFrame
  BY <1>25 DEF EndFrame
<1>26. CASE Terminated
  BY <1>26 DEF Terminated
<1>27. ASSUME NEW t \in Tex, ConvertCached(t) PROVE ThreadInv'
  BY <1>27 DEF ConvertCached
<1>28. ASSUME NEW t \in Tex, ConvertRead(t) PROVE ThreadInv'
  BY <1>28 DEF ConvertRead
<1>29. ASSUME NEW t \in Tex, ConvertAbort(t) PROVE ThreadInv'
  BY <1>29 DEF ConvertAbort
<1>30. ASSUME NEW t \in Tex, NEW src \in Sources, GuestWrite(t, src) PROVE ThreadInv'
  BY <1>30 DEF GuestWrite
<1>31. ASSUME NEW c \in Ctx, NEW ts \in SUBSET Tex, ListInit(c, ts) PROVE ThreadInv'
  BY <1>31 DEF ListInit
<1>32. ASSUME NEW c \in Ctx, StartRender(c) PROVE ThreadInv'
  BY <1>32 DEF StartRender
<1>33. ASSUME NEW thread \in {"main", "emu"}, SpuriousWakeup(thread) PROVE ThreadInv'
  BY <1>33 DEF SpuriousWakeup, Signal
<1>34. CASE UNCHANGED vars
  BY <1>34
<1>35. QED
  BY <1>1, <1>2, <1>3, <1>4, <1>5, <1>6, <1>7, <1>8, <1>9, <1>10, <1>11,
     <1>12, <1>13, <1>14, <1>15, <1>16, <1>17, <1>18, <1>19, <1>20, <1>21,
     <1>22, <1>23, <1>24, <1>25, <1>26, <1>27, <1>28, <1>29, <1>30, <1>31,
     <1>32, <1>33, <1>34
     DEF Next, Main, Guest, Machine, RunThread

(* Every step keeps VblankInv. *)
LEMMA VblankStep ==
  ASSUME TypeOK, ThreadInv, VblankInv, [Next]_vars
  PROVE  VblankInv'
<1> USE EmuAssumption DEF ThreadInv, VblankInv, Executing, TypeOK, EmuPcs, MainPcs, vars, frameVars, threadVars, convertVars, guestVars, cacheVars
<1>1. CASE LoadBegin
  BY <1>1 DEF LoadBegin
<1>2. CASE LoadEnd
  BY <1>2 DEF LoadEnd
<1>3. CASE RequestFrame
  BY <1>3 DEF RequestFrame, Signal
<1>4. CASE ProcessWait
  BY <1>4 DEF ProcessWait
<1>5. CASE ProcessNothing
  BY <1>5 DEF ProcessNothing
<1>6. CASE ConvertBegin
  BY <1>6 DEF ConvertBegin
<1>7. CASE ConvertUpload
  BY <1>7 DEF ConvertUpload
<1>8. CASE ConvertEnd
  BY <1>8 DEF ConvertEnd
<1>9. CASE VblankWait
  BY <1>9 DEF VblankWait
<1>10. CASE VblankSeen
  BY <1>10 DEF VblankSeen
<1>11. CASE Draw
  BY <1>11 DEF Draw
<1>12. CASE DirtyTextures
  BY <1>12 DEF DirtyTextures
<1>13. CASE VideoRestart
  BY <1>13 DEF VideoRestart
<1>14. CASE Shutdown
  BY <1>14 DEF Shutdown, Signal
<1>15. CASE Join
  BY <1>15 DEF Join
<1>16. CASE SubmitRender
  BY <1>16 DEF SubmitRender, Signal
<1>17. CASE FinishRender
  BY <1>17 DEF FinishRender, Signal
<1>18. CASE PvrVblankIn
  BY <1>18 DEF PvrVblankIn
<1>19. CASE PushPixels
  BY <1>19 DEF PushPixels
<1>20. CASE VblankIn
  BY <1>20 DEF VblankIn, Signal
<1>21. CASE VblankOut
  BY <1>21 DEF VblankOut
<1>22. CASE RequestWait
  BY <1>22 DEF RequestWait
<1>23. CASE RequestShutdown
  BY <1>23 DEF RequestShutdown
<1>24. CASE RequestSeen
  BY <1>24 DEF RequestSeen
<1>25. CASE EndFrame
  BY <1>25 DEF EndFrame
<1>26. CASE Terminated
  BY <1>26 DEF Terminated
<1>27. ASSUME NEW t \in Tex, ConvertCached(t) PROVE VblankInv'
  BY <1>27 DEF ConvertCached
<1>28. ASSUME NEW t \in Tex, ConvertRead(t) PROVE VblankInv'
  BY <1>28 DEF ConvertRead
<1>29. ASSUME NEW t \in Tex, ConvertAbort(t) PROVE VblankInv'
  BY <1>29 DEF ConvertAbort
<1>30. ASSUME NEW t \in Tex, NEW src \in Sources, GuestWrite(t, src) PROVE VblankInv'
  BY <1>30 DEF GuestWrite
<1>31. ASSUME NEW c \in Ctx, NEW ts \in SUBSET Tex, ListInit(c, ts) PROVE VblankInv'
  BY <1>31 DEF ListInit
<1>32. ASSUME NEW c \in Ctx, StartRender(c) PROVE VblankInv'
  BY <1>32 DEF StartRender
<1>33. ASSUME NEW thread \in {"main", "emu"}, SpuriousWakeup(thread) PROVE VblankInv'
  BY <1>33 DEF SpuriousWakeup, Signal
<1>34. CASE UNCHANGED vars
  BY <1>34
<1>35. QED
  BY <1>1, <1>2, <1>3, <1>4, <1>5, <1>6, <1>7, <1>8, <1>9, <1>10, <1>11,
     <1>12, <1>13, <1>14, <1>15, <1>16, <1>17, <1>18, <1>19, <1>20, <1>21,
     <1>22, <1>23, <1>24, <1>25, <1>26, <1>27, <1>28, <1>29, <1>30, <1>31,
     <1>32, <1>33, <1>34
     DEF Next, Main, Guest, Machine, RunThread

(* Every step keeps SleepInv. *)
LEMMA SleepStep ==
  ASSUME TypeOK, ThreadInv, VblankInv, SleepInv, [Next]_vars
  PROVE  SleepInv'
<1> USE EmuAssumption DEF ThreadInv, VblankInv, SleepInv, Executing, TypeOK, EmuPcs, MainPcs, vars, frameVars, threadVars, convertVars, guestVars, cacheVars
<1>1. CASE LoadBegin
  BY <1>1 DEF LoadBegin
<1>2. CASE LoadEnd
  BY <1>2 DEF LoadEnd
<1>3. CASE RequestFrame
  BY <1>3 DEF RequestFrame, Signal
<1>4. CASE ProcessWait
  BY <1>4 DEF ProcessWait
<1>5. CASE ProcessNothing
  BY <1>5 DEF ProcessNothing
<1>6. CASE ConvertBegin
  BY <1>6 DEF ConvertBegin
<1>7. CASE ConvertUpload
  BY <1>7 DEF ConvertUpload
<1>8. CASE ConvertEnd
  BY <1>8 DEF ConvertEnd
<1>9. CASE VblankWait
  BY <1>9 DEF VblankWait
<1>10. CASE VblankSeen
  BY <1>10 DEF VblankSeen
<1>11. CASE Draw
  BY <1>11 DEF Draw
<1>12. CASE DirtyTextures
  BY <1>12 DEF DirtyTextures
<1>13. CASE VideoRestart
  BY <1>13 DEF VideoRestart
<1>14. CASE Shutdown
  BY <1>14 DEF Shutdown, Signal
<1>15. CASE Join
  BY <1>15 DEF Join
<1>16. CASE SubmitRender
  BY <1>16 DEF SubmitRender, Signal
<1>17. CASE FinishRender
  BY <1>17 DEF FinishRender, Signal
<1>18. CASE PvrVblankIn
  BY <1>18 DEF PvrVblankIn
<1>19. CASE PushPixels
  BY <1>19 DEF PushPixels
<1>20. CASE VblankIn
  BY <1>20 DEF VblankIn, Signal
<1>21. CASE VblankOut
  BY <1>21 DEF VblankOut
<1>22. CASE RequestWait
  BY <1>22 DEF RequestWait
<1>23. CASE RequestShutdown
  BY <1>23 DEF RequestShutdown
<1>24. CASE RequestSeen
  BY <1>24 DEF RequestSeen
<1>25. CASE EndFrame
  BY <1>25 DEF EndFrame
<1>26. CASE Terminated
  BY <1>26 DEF Terminated
<1>27. ASSUME NEW t \in Tex, ConvertCached(t) PROVE SleepInv'
  BY <1>27 DEF ConvertCached
<1>28. ASSUME NEW t \in Tex, ConvertRead(t) PROVE SleepInv'
  BY <1>28 DEF ConvertRead
<1>29. ASSUME NEW t \in Tex, ConvertAbort(t) PROVE SleepInv'
  BY <1>29 DEF ConvertAbort
<1>30. ASSUME NEW t \in Tex, NEW src \in Sources, GuestWrite(t, src) PROVE SleepInv'
  BY <1>30 DEF GuestWrite
<1>31. ASSUME NEW c \in Ctx, NEW ts \in SUBSET Tex, ListInit(c, ts) PROVE SleepInv'
  BY <1>31 DEF ListInit
<1>32. ASSUME NEW c \in Ctx, StartRender(c) PROVE SleepInv'
  BY <1>32 DEF StartRender
<1>33. ASSUME NEW thread \in {"main", "emu"}, SpuriousWakeup(thread) PROVE SleepInv'
  BY <1>33 DEF SpuriousWakeup, Signal
<1>34. CASE UNCHANGED vars
  BY <1>34
<1>35. QED
  BY <1>1, <1>2, <1>3, <1>4, <1>5, <1>6, <1>7, <1>8, <1>9, <1>10, <1>11,
     <1>12, <1>13, <1>14, <1>15, <1>16, <1>17, <1>18, <1>19, <1>20, <1>21,
     <1>22, <1>23, <1>24, <1>25, <1>26, <1>27, <1>28, <1>29, <1>30, <1>31,
     <1>32, <1>33, <1>34
     DEF Next, Main, Guest, Machine, RunThread

(* Every step keeps RenderInv. *)
LEMMA RenderStep ==
  ASSUME TypeOK, ThreadInv, VblankInv, RenderInv, [Next]_vars
  PROVE  RenderInv'
<1> USE EmuAssumption DEF ThreadInv, VblankInv, RenderInv, Executing, TypeOK, EmuPcs, MainPcs, vars, frameVars, threadVars, convertVars, guestVars, cacheVars
<1>1. CASE LoadBegin
  BY <1>1 DEF LoadBegin
<1>2. CASE LoadEnd
  BY <1>2 DEF LoadEnd
<1>3. CASE RequestFrame
  BY <1>3 DEF RequestFrame, Signal
<1>4. CASE ProcessWait
  BY <1>4 DEF ProcessWait
<1>5. CASE ProcessNothing
  BY <1>5 DEF ProcessNothing
<1>6. CASE ConvertBegin
  BY <1>6 DEF ConvertBegin
<1>7. CASE ConvertUpload
  BY <1>7 DEF ConvertUpload
<1>8. CASE ConvertEnd
  BY <1>8 DEF ConvertEnd
<1>9. CASE VblankWait
  BY <1>9 DEF VblankWait
<1>10. CASE VblankSeen
  BY <1>10 DEF VblankSeen
<1>11. CASE Draw
  BY <1>11 DEF Draw
<1>12. CASE DirtyTextures
  BY <1>12 DEF DirtyTextures
<1>13. CASE VideoRestart
  BY <1>13 DEF VideoRestart
<1>14. CASE Shutdown
  BY <1>14 DEF Shutdown, Signal
<1>15. CASE Join
  BY <1>15 DEF Join
<1>16. CASE SubmitRender
  BY <1>16 DEF SubmitRender, Signal
<1>17. CASE FinishRender
  <2>1. /\ Len(inflight') = Len(inflight) - 1
        /\ \A i \in 1..Len(inflight') : inflight'[i] = inflight[i + 1]
        /\ Len(inflight) \in Nat \ {0} /\ Head(inflight) = inflight[1]
    BY <1>17 DEF FinishRender
  <2>2. ASSUME NEW c \in rendering'
        PROVE  c = starting' \/ \E i \in 1..Len(inflight') : inflight'[i] = c
    <3>1. c = starting \/ \E i \in 1..Len(inflight) : inflight[i] = c /\ i # 1
      BY <1>17, <2>1, <2>2 DEF FinishRender
    <3>2. CASE c = starting
      BY <1>17, <3>2 DEF FinishRender
    <3>3. ASSUME NEW i \in 1..Len(inflight), inflight[i] = c, i # 1
          PROVE  \E j \in 1..Len(inflight') : inflight'[j] = c
      <4>1. i - 1 \in 1..Len(inflight')
        BY <2>1, <3>3
      <4>2. inflight'[i - 1] = c
        BY <2>1, <3>3, <4>1
      <4> QED BY <4>1, <4>2
    <3> QED BY <3>1, <3>2, <3>3
  <2>3. ~gotStart => aged' = Len(inflight')
    BY <1>17, <2>1 DEF FinishRender
  <2> QED BY <1>17, <2>2, <2>3 DEF FinishRender
<1>18. CASE PvrVblankIn
  BY <1>18 DEF PvrVblankIn
<1>19. CASE PushPixels
  BY <1>19 DEF PushPixels
<1>20. CASE VblankIn
  BY <1>20 DEF VblankIn, Signal
<1>21. CASE VblankOut
  BY <1>21 DEF VblankOut
<1>22. CASE RequestWait
  BY <1>22 DEF RequestWait
<1>23. CASE RequestShutdown
  BY <1>23 DEF RequestShutdown
<1>24. CASE RequestSeen
  BY <1>24 DEF RequestSeen
<1>25. CASE EndFrame
  BY <1>25 DEF EndFrame
<1>26. CASE Terminated
  BY <1>26 DEF Terminated
<1>27. ASSUME NEW t \in Tex, ConvertCached(t) PROVE RenderInv'
  BY <1>27 DEF ConvertCached
<1>28. ASSUME NEW t \in Tex, ConvertRead(t) PROVE RenderInv'
  BY <1>28 DEF ConvertRead
<1>29. ASSUME NEW t \in Tex, ConvertAbort(t) PROVE RenderInv'
  BY <1>29 DEF ConvertAbort
<1>30. ASSUME NEW t \in Tex, NEW src \in Sources, GuestWrite(t, src) PROVE RenderInv'
  BY <1>30 DEF GuestWrite
<1>31. ASSUME NEW c \in Ctx, NEW ts \in SUBSET Tex, ListInit(c, ts) PROVE RenderInv'
  BY <1>31 DEF ListInit
<1>32. ASSUME NEW c \in Ctx, StartRender(c) PROVE RenderInv'
  BY <1>32 DEF StartRender
<1>33. ASSUME NEW thread \in {"main", "emu"}, SpuriousWakeup(thread) PROVE RenderInv'
  BY <1>33 DEF SpuriousWakeup, Signal
<1>34. CASE UNCHANGED vars
  BY <1>34
<1>35. QED
  BY <1>1, <1>2, <1>3, <1>4, <1>5, <1>6, <1>7, <1>8, <1>9, <1>10, <1>11,
     <1>12, <1>13, <1>14, <1>15, <1>16, <1>17, <1>18, <1>19, <1>20, <1>21,
     <1>22, <1>23, <1>24, <1>25, <1>26, <1>27, <1>28, <1>29, <1>30, <1>31,
     <1>32, <1>33, <1>34
     DEF Next, Main, Guest, Machine, RunThread

(* Every step keeps ConvertInv. *)
LEMMA ConvertStep ==
  ASSUME TypeOK, ThreadInv, RenderInv, ConvertInv, [Next]_vars
  PROVE  ConvertInv'
<1> USE EmuAssumption DEF ThreadInv, RenderInv, ConvertInv, Executing, TypeOK, EmuPcs, MainPcs, vars, frameVars, threadVars, convertVars, guestVars, cacheVars
<1>1. CASE LoadBegin
  BY <1>1 DEF LoadBegin
<1>2. CASE LoadEnd
  BY <1>2 DEF LoadEnd
<1>3. CASE RequestFrame
  BY <1>3 DEF RequestFrame, Signal
<1>4. CASE ProcessWait
  BY <1>4 DEF ProcessWait
<1>5. CASE ProcessNothing
  BY <1>5 DEF ProcessNothing
<1>6. CASE ConvertBegin
  BY <1>6 DEF ConvertBegin
<1>7. CASE ConvertUpload
  BY <1>7 DEF ConvertUpload
<1>8. CASE ConvertEnd
  BY <1>8 DEF ConvertEnd
<1>9. CASE VblankWait
  BY <1>9 DEF VblankWait
<1>10. CASE VblankSeen
  BY <1>10 DEF VblankSeen
<1>11. CASE Draw
  BY <1>11 DEF Draw
<1>12. CASE DirtyTextures
  BY <1>12 DEF DirtyTextures
<1>13. CASE VideoRestart
  BY <1>13 DEF VideoRestart
<1>14. CASE Shutdown
  BY <1>14 DEF Shutdown, Signal
<1>15. CASE Join
  BY <1>15 DEF Join
<1>16. CASE SubmitRender
  BY <1>16 DEF SubmitRender, Signal
<1>17. CASE FinishRender
  BY <1>17 DEF FinishRender, Signal
<1>18. CASE PvrVblankIn
  BY <1>18 DEF PvrVblankIn
<1>19. CASE PushPixels
  BY <1>19 DEF PushPixels
<1>20. CASE VblankIn
  BY <1>20 DEF VblankIn, Signal
<1>21. CASE VblankOut
  BY <1>21 DEF VblankOut
<1>22. CASE RequestWait
  BY <1>22 DEF RequestWait
<1>23. CASE RequestShutdown
  BY <1>23 DEF RequestShutdown
<1>24. CASE RequestSeen
  BY <1>24 DEF RequestSeen
<1>25. CASE EndFrame
  BY <1>25 DEF EndFrame
<1>26. CASE Terminated
  BY <1>26 DEF Terminated
<1>27. ASSUME NEW t \in Tex, ConvertCached(t) PROVE ConvertInv'
  BY <1>27 DEF ConvertCached
<1>28. ASSUME NEW t \in Tex, ConvertRead(t) PROVE ConvertInv'
  BY <1>28 DEF ConvertRead
<1>29. ASSUME NEW t \in Tex, ConvertAbort(t) PROVE ConvertInv'
  BY <1>29 DEF ConvertAbort
<1>30. ASSUME NEW t \in Tex, NEW src \in Sources, GuestWrite(t, src) PROVE ConvertInv'
  BY <1>30 DEF GuestWrite
<1>31. ASSUME NEW c \in Ctx, NEW ts \in SUBSET Tex, ListInit(c, ts) PROVE ConvertInv'
  BY <1>31 DEF ListInit
<1>32. ASSUME NEW c \in Ctx, StartRender(c) PROVE ConvertInv'
  BY <1>32 DEF StartRender
<1>33. ASSUME NEW thread \in {"main", "emu"}, SpuriousWakeup(thread) PROVE ConvertInv'
  BY <1>33 DEF SpuriousWakeup, Signal
<1>34. CASE UNCHANGED vars
  BY <1>34
<1>35. QED
  BY <1>1, <1>2, <1>3, <1>4, <1>5, <1>6, <1>7, <1>8, <1>9, <1>10, <1>11,
     <1>12, <1>13, <1>14, <1>15, <1>16, <1>17, <1>18, <1>19, <1>20, <1>21,
     <1>22, <1>23, <1>24, <1>25, <1>26, <1>27, <1>28, <1>29, <1>30, <1>31,
     <1>32, <1>33, <1>34
     DEF Next, Main, Guest, Machine, RunThread

(* Every step keeps WatchInv. *)
LEMMA WatchStep ==
  ASSUME TypeOK, ThreadInv, RenderInv, ConvertInv, WatchInv, [Next]_vars
  PROVE  WatchInv'
<1> USE EmuAssumption DEF ThreadInv, RenderInv, ConvertInv, WatchInv, Executing, TypeOK, EmuPcs, MainPcs, vars, frameVars, threadVars, convertVars, guestVars, cacheVars
<1>1. CASE LoadBegin
  BY <1>1 DEF LoadBegin
<1>2. CASE LoadEnd
  BY <1>2 DEF LoadEnd
<1>3. CASE RequestFrame
  BY <1>3 DEF RequestFrame, Signal
<1>4. CASE ProcessWait
  BY <1>4 DEF ProcessWait
<1>5. CASE ProcessNothing
  BY <1>5 DEF ProcessNothing
<1>6. CASE ConvertBegin
  BY <1>6 DEF ConvertBegin
<1>7. CASE ConvertUpload
  BY <1>7 DEF ConvertUpload
<1>8. CASE ConvertEnd
  BY <1>8 DEF ConvertEnd
<1>9. CASE VblankWait
  BY <1>9 DEF VblankWait
<1>10. CASE VblankSeen
  BY <1>10 DEF VblankSeen
<1>11. CASE Draw
  BY <1>11 DEF Draw
<1>12. CASE DirtyTextures
  BY <1>12 DEF DirtyTextures
<1>13. CASE VideoRestart
  BY <1>13 DEF VideoRestart
<1>14. CASE Shutdown
  BY <1>14 DEF Shutdown, Signal
<1>15. CASE Join
  BY <1>15 DEF Join
<1>16. CASE SubmitRender
  BY <1>16 DEF SubmitRender, Signal
<1>17. CASE FinishRender
  BY <1>17 DEF FinishRender, Signal
<1>18. CASE PvrVblankIn
  BY <1>18 DEF PvrVblankIn
<1>19. CASE PushPixels
  BY <1>19 DEF PushPixels
<1>20. CASE VblankIn
  BY <1>20 DEF VblankIn, Signal
<1>21. CASE VblankOut
  BY <1>21 DEF VblankOut
<1>22. CASE RequestWait
  BY <1>22 DEF RequestWait
<1>23. CASE RequestShutdown
  BY <1>23 DEF RequestShutdown
<1>24. CASE RequestSeen
  BY <1>24 DEF RequestSeen
<1>25. CASE EndFrame
  BY <1>25 DEF EndFrame
<1>26. CASE Terminated
  BY <1>26 DEF Terminated
<1>27. ASSUME NEW t \in Tex, ConvertCached(t) PROVE WatchInv'
  BY <1>27 DEF ConvertCached
<1>28. ASSUME NEW t \in Tex, ConvertRead(t) PROVE WatchInv'
  BY <1>28 DEF ConvertRead
<1>29. ASSUME NEW t \in Tex, ConvertAbort(t) PROVE WatchInv'
  BY <1>29 DEF ConvertAbort
<1>30. ASSUME NEW t \in Tex, NEW src \in Sources, GuestWrite(t, src) PROVE WatchInv'
  BY <1>30 DEF GuestWrite
<1>31. ASSUME NEW c \in Ctx, NEW ts \in SUBSET Tex, ListInit(c, ts) PROVE WatchInv'
  BY <1>31 DEF ListInit
<1>32. ASSUME NEW c \in Ctx, StartRender(c) PROVE WatchInv'
  BY <1>32 DEF StartRender
<1>33. ASSUME NEW thread \in {"main", "emu"}, SpuriousWakeup(thread) PROVE WatchInv'
  BY <1>33 DEF SpuriousWakeup, Signal
<1>34. CASE UNCHANGED vars
  BY <1>34
<1>35. QED
  BY <1>1, <1>2, <1>3, <1>4, <1>5, <1>6, <1>7, <1>8, <1>9, <1>10, <1>11,
     <1>12, <1>13, <1>14, <1>15, <1>16, <1>17, <1>18, <1>19, <1>20, <1>21,
     <1>22, <1>23, <1>24, <1>25, <1>26, <1>27, <1>28, <1>29, <1>30, <1>31,
     <1>32, <1>33, <1>34
     DEF Next, Main, Guest, Machine, RunThread

(* The invariant holds initially. *)
LEMMA InitIInv == Init => IInv
<1> SUFFICES ASSUME Init PROVE IInv
  OBVIOUS
<1> USE EmuAssumption DEF Init
<1>1. TypeOK
  <2>1. inflight \in Seq(Ctx) /\ aged \in 0..Len(inflight)
    OBVIOUS
  <2>2. /\ refs \in [Ctx -> SUBSET Tex] /\ armed \in [Tex -> SUBSET Sources]
        /\ host \in [Tex -> {"none", "current", "stale"}]
    OBVIOUS
  <2>3. {vidDisabled, running, torn, gotStart, vsync} \subseteq BOOLEAN
    OBVIOUS
  <2> QED
    BY <2>1, <2>2, <2>3 DEF TypeOK, States, MainPcs, EmuPcs
<1>2. ThreadInv /\ VblankInv /\ SleepInv
  BY DEF ThreadInv, VblankInv, SleepInv, Executing
<1>3. RenderInv /\ ConvertInv
  BY DEF RenderInv, ConvertInv, Executing
<1>4. WatchInv
  BY DEF WatchInv
<1> QED
  BY <1>1, <1>2, <1>3, <1>4 DEF IInv

(* The invariant is inductive. *)
LEMMA NextIInv == IInv /\ [Next]_vars => IInv'
<1> SUFFICES ASSUME IInv, [Next]_vars PROVE IInv'
  OBVIOUS
<1> USE DEF IInv
<1>1. TypeOK'
  BY TypeStep
<1>2. ThreadInv'
  BY ThreadStep
<1>3. VblankInv'
  BY VblankStep
<1>4. SleepInv'
  BY SleepStep
<1>5. RenderInv'
  BY RenderStep
<1>6. ConvertInv'
  BY ConvertStep
<1>7. WatchInv'
  BY WatchStep
<1> QED
  BY <1>1, <1>2, <1>3, <1>4, <1>5, <1>6, <1>7

(* The invariant holds in every state of every behaviour. *)
THEOREM Invariance == Spec => []IInv
BY InitIInv, NextIInv, PTL DEF Spec

(* Type correctness of struct emu, its threads and its texture cache. *)
THEOREM TypeCorrect == Spec => []TypeOK
<1>1. IInv => TypeOK
  BY DEF IInv
<1> QED
  BY <1>1, Invariance, PTL

(* The CHECK_EQ on EMU_WAITING never fails, whatever the guest and the user do. *)
THEOREM FramesRequestable == Spec => []FrameRequestable
<1>1. IInv => FrameRequestable
  BY DEF IInv, TypeOK, States, EmuPcs, MainPcs, ThreadInv, Executing, FrameRequestable
<1> QED
  BY <1>1, Invariance, PTL

(* No wakeup is lost, whatever the guest and the user do. *)
THEOREM WakeupsSeen == Spec => []NoLostWakeup
<1>1. IInv => NoLostWakeup
  BY DEF IInv, SleepInv, NoLostWakeup
<1> QED
  BY <1>1, Invariance, PTL

(* The context being converted is marked as being rendered, even when renders
   overlap. *)
THEOREM ConversionProtected == Spec => []ConvertingIsRendering
<1>1. IInv => ConvertingIsRendering
  BY DEF IInv, RenderInv, ConvertingIsRendering
<1> QED
  BY <1>1, Invariance, PTL

(* Without a resize of the window, tr_convert_texture finds each texture. *)
THEOREM ConversionFindsTextures ==
  ASSUME ~VideoRestarts PROVE Spec => []TexturesFound
<1>1. IInv => TexturesFound
  BY DEF IInv, ThreadInv, RenderInv, ConvertInv, TexturesFound
<1> QED
  BY <1>1, Invariance, PTL

(* When the guest waits for the end of a render before it starts another, no
   invalidation of a texture is lost, however it writes to texture memory. *)
THEOREM InvalidationsKept ==
  ASSUME ~OverlapRenders PROVE Spec => []StaleIsKnown
<1>1. IInv => StaleIsKnown
  BY DEF IInv, TypeOK, WatchInv, StaleIsKnown
<1> QED
  BY <1>1, Invariance, PTL

(* In a standard video mode the unlocked writes of emu_push_pixels race with
   neither the drawing nor the conversion. *)
THEOREM PixelsUnshared ==
  ASSUME StandardVideo PROVE Spec => []PixelsExclusive
<1>1. IInv => PixelsExclusive
  <2> SUFFICES ASSUME IInv, emuPc = "push"
               PROVE  mainPc \notin {"convert", "draw"}
    BY DEF PixelsExclusive
  <2>1. mainPc # "draw"
    BY DEF IInv, ThreadInv, VblankInv
  <2>2. rendering = {}
    <3>1. inflight = <<>> /\ starting = NoCtx
      BY DEF IInv, RenderInv, Executing
    <3> QED
      BY <3>1, EmuAssumption DEF IInv, RenderInv, TypeOK
  <2>3. mainPc # "convert"
    BY <2>2 DEF IInv, RenderInv
  <2> QED
    BY <2>1, <2>3
<1> QED
  BY <1>1, Invariance, PTL

(* When renders do not overlap, emu_start_render never dirties or registers a
   texture while the main thread converts a context and uses the same cache.  A
   resize, where emu_vid_destroyed frees the textures, is not spoken of. *)
THEOREM DirtyingUnshared ==
  ASSUME ~OverlapRenders PROVE Spec => DirtyUnshared
<1>1. IInv /\ [Next]_vars =>
        [starting' # starting /\ starting' # NoCtx => mainPc # "convert"]_vars
  <2> SUFFICES ASSUME IInv, Next,
                      starting' # starting, starting' # NoCtx
               PROVE  mainPc # "convert"
    BY DEF vars
  <2>1. PICK c \in Ctx : StartRender(c)
    BY DEF Next, Main, Guest, Machine, RunThread, vars, frameVars, threadVars,
           convertVars, guestVars, cacheVars, LoadBegin, LoadEnd, RequestFrame,
           ProcessWait, ProcessNothing, ConvertBegin, ConvertCached,
           ConvertRead, ConvertUpload, ConvertAbort, ConvertEnd, VblankWait,
           VblankSeen, Draw, DirtyTextures, VideoRestart, Shutdown, Join,
           GuestWrite, ListInit, SubmitRender, FinishRender, PvrVblankIn,
           PushPixels, VblankIn, VblankOut, RequestWait, RequestShutdown,
           RequestSeen, EndFrame, SpuriousWakeup, Terminated
  <2>2. inflight = <<>> /\ starting = NoCtx
    BY <2>1 DEF StartRender, IInv, RenderInv, Executing
  <2>3. rendering = {}
    BY <2>2, EmuAssumption DEF IInv, RenderInv, TypeOK
  <2> QED
    BY <2>3 DEF IInv, RenderInv
<1> QED
  BY <1>1, Invariance, PTL DEF Spec, DirtyUnshared

-----------------------------------------------------------------------------
(* The host handles of vid_rc: it is complete except while it is built, and what
   of it is built stays. *)
HandleInv ==
  /\ mainPc \notin {"convert", "aborted"} /\ vidSource = "ctx" =>
       \A t \in vidTex : host[t] # "none"
  /\ mainPc = "convert" => \A t \in refs[pending] \ todo : host[t] # "none"

(* Every step of a run without a resize of the window keeps HandleInv. *)
LEMMA HandleStep ==
  ASSUME ~VideoRestarts, IInv, HandleInv, [Next]_vars
  PROVE  HandleInv'
<1> USE DEF HandleInv, frameVars, threadVars, convertVars, guestVars, cacheVars
<1>1. CASE \/ LoadBegin \/ LoadEnd \/ RequestFrame \/ ProcessWait \/ ProcessNothing
           \/ VblankWait \/ VblankSeen \/ Draw \/ DirtyTextures \/ Shutdown \/ Join
  BY <1>1 DEF LoadBegin, LoadEnd, RequestFrame, ProcessWait, ProcessNothing, VblankWait,
              VblankSeen, Draw, DirtyTextures, Shutdown, Join, Signal
<1>2. CASE ConvertBegin
  BY <1>2 DEF ConvertBegin
<1>3. CASE ConvertUpload
  BY <1>3, EmuAssumption DEF ConvertUpload, IInv, TypeOK, ConvertInv
<1>4. CASE ConvertEnd
  BY <1>4 DEF ConvertEnd
<1>5. ASSUME NEW t \in Tex, ConvertCached(t) PROVE HandleInv'
  BY <1>5 DEF ConvertCached
<1>6. ASSUME NEW t \in Tex, ConvertRead(t) PROVE HandleInv'
  BY <1>6 DEF ConvertRead, IInv, TypeOK
<1>7. ASSUME NEW t \in Tex, ConvertAbort(t) PROVE HandleInv'
  BY <1>7 DEF ConvertAbort
<1>8. CASE VideoRestart
  BY <1>8 DEF VideoRestart
<1>9. ASSUME NEW t \in Tex, NEW src \in Sources, GuestWrite(t, src) PROVE HandleInv'
  BY <1>9 DEF GuestWrite, IInv, TypeOK
<1>10. ASSUME NEW c \in Ctx, NEW ts \in SUBSET Tex, ListInit(c, ts) PROVE HandleInv'
  BY <1>10 DEF ListInit, IInv, TypeOK, RenderInv
<1>11. ASSUME NEW c \in Ctx, StartRender(c) PROVE HandleInv'
  BY <1>11 DEF StartRender
<1>12. CASE SubmitRender \/ FinishRender
  BY <1>12 DEF SubmitRender, FinishRender, Signal, IInv, ThreadInv
<1>13. CASE PvrVblankIn \/ PushPixels \/ VblankIn \/ VblankOut
  BY <1>13 DEF PvrVblankIn, PushPixels, VblankIn, VblankOut, Signal
<1>14. CASE RunThread
  BY <1>14 DEF RunThread, RequestWait, RequestShutdown, RequestSeen, EndFrame
<1>15. ASSUME NEW thread \in {"main", "emu"}, SpuriousWakeup(thread) PROVE HandleInv'
  BY <1>15 DEF SpuriousWakeup
<1>16. CASE UNCHANGED vars
  BY <1>16 DEF vars
<1> QED
  BY <1>1, <1>2, <1>3, <1>4, <1>5, <1>6, <1>7, <1>8, <1>9, <1>10, <1>11, <1>12, <1>13,
     <1>14, <1>15, <1>16 DEF Next, Main, Guest, Machine, Terminated

(* Without a resize of the window, what emu_render_frame draws from vid_rc
   refers to host textures that exist, also when the frame is drawn again and
   while its textures are written to. *)
THEOREM DrawnHandlesLive ==
  ASSUME ~VideoRestarts PROVE Spec => []HandlesLive
<1>1. Init => HandleInv
  BY DEF Init, HandleInv
<1>2. IInv /\ HandleInv /\ [Next]_vars => HandleInv'
  BY HandleStep
<1>3. HandleInv => HandlesLive
  BY DEF HandleInv, HandlesLive
<1> QED
  BY <1>1, <1>2, <1>3, Invariance, PTL DEF Spec

(* A guest that leaves the textures of a render alone never has a half written
   one uploaded, even when its renders overlap and the window is resized. *)
THEOREM UploadsWhole ==
  ASSUME ~NaughtyWrites PROVE Spec => []NeverTorn
<1>1. Init => NeverTorn
  BY DEF Init, NeverTorn
<1>2. ASSUME IInv, NeverTorn, [Next]_vars PROVE NeverTorn'
  <2> USE DEF NeverTorn, frameVars, threadVars, convertVars, guestVars, cacheVars
  <2>1. ASSUME NEW t \in Tex, NEW src \in Sources, GuestWrite(t, src) PROVE ~torn'
    <3>1. CASE reading = t
      <4>1. pending \in rendering /\ t \in refs[pending]
        BY <1>2, <3>1, EmuAssumption DEF IInv, TypeOK, ConvertInv, RenderInv
      <4> QED
        BY <2>1, <4>1 DEF GuestWrite
    <3>2. CASE reading # t
      BY <1>2, <2>1, <3>2 DEF GuestWrite
    <3> QED
      BY <3>1, <3>2
  <2>2. CASE ConvertUpload \/ \E t \in Tex : ConvertRead(t)
    BY <2>2 DEF ConvertUpload, ConvertRead
  <2>3. CASE UNCHANGED torn
    BY <1>2, <2>3
  <2> QED
    BY <1>2, <2>1, <2>2, <2>3
       DEF Next, Main, Guest, Machine, RunThread, vars, LoadBegin, LoadEnd, RequestFrame,
           ProcessWait, ProcessNothing, ConvertBegin, ConvertCached,
           ConvertAbort, ConvertEnd, VblankWait, VblankSeen, Draw, DirtyTextures,
           VideoRestart, Shutdown, Join, ListInit, StartRender, SubmitRender, FinishRender,
           PvrVblankIn, PushPixels, VblankIn, VblankOut, RequestWait, RequestShutdown,
           RequestSeen, EndFrame, SpuriousWakeup, Terminated
<1> QED
  BY <1>1, <1>2, Invariance, PTL DEF Spec

-----------------------------------------------------------------------------
(* The refinement of FrameSync: locks, wakeups, contexts and textures only
   decide when a step of the frame protocol is taken. *)

(* Every step of the two threads is a step of FrameSync or changes nothing there. *)
LEMMA AbsStep ==
  ASSUME IInv, [Next]_vars
  PROVE  [Abs!Next]_Abs!vars
<1> USE DEF frameVars, threadVars, Abs!Next, Abs!vars
<1>1. /\ mainPc \in MainPcs /\ state \in States
      /\ mainPc = "idle" /\ reqMutex = "none" => state = "WAITING"
  BY DEF IInv, TypeOK, States, EmuPcs, MainPcs, ThreadInv, Executing
<1>2. CASE RequestFrame
  BY <1>1, <1>2 DEF RequestFrame, Abs!Request
<1>3. CASE VblankSeen
  BY <1>1, <1>3 DEF VblankSeen, States, Abs!Draw
<1>4. CASE Draw
  BY <1>4 DEF Draw, Abs!Present
<1>5. CASE Shutdown
  BY <1>1, <1>5 DEF Shutdown, Abs!Close
<1>6. CASE Join
  BY <1>6 DEF Join, Abs!Closed
<1>7. CASE VblankIn
  BY <1>1, <1>7 DEF VblankIn, IInv, ThreadInv, Executing, Abs!VblankIn
<1>8. CASE VblankOut
  BY <1>8 DEF VblankOut, IInv, VblankInv
<1>9. CASE EndFrame
  BY <1>9 DEF EndFrame, IInv, ThreadInv, Executing, Abs!Finish
<1>10. CASE RequestSeen
  BY <1>10 DEF RequestSeen, IInv, ThreadInv
<1>11. CASE LoadBegin \/ LoadEnd
  BY <1>11 DEF LoadBegin, LoadEnd
<1>12. CASE ProcessNothing \/ ConvertBegin \/ ConvertEnd \/ \E t \in Tex : ConvertAbort(t)
  BY <1>12 DEF ProcessNothing, ConvertBegin, ConvertEnd, ConvertAbort
<1>13. CASE UNCHANGED <<mainPc, state>>
  BY <1>13
<1> QED
  BY <1>2, <1>3, <1>4, <1>5, <1>6, <1>7, <1>8, <1>9, <1>10, <1>11, <1>12, <1>13
     DEF Next, Main, Guest, Machine, RunThread, vars, ProcessWait, ConvertCached, ConvertRead,
         ConvertUpload, VblankWait, DirtyTextures, VideoRestart, GuestWrite, ListInit,
         StartRender, SubmitRender, FinishRender, PvrVblankIn, PushPixels, RequestWait,
         RequestShutdown, SpuriousWakeup, Terminated

(* The safety part of FrameProtocol, whatever the guest and the user do: one
   frame is run per request of emu_render_frame, the client draws only after
   the vblank_in of that frame, and emu_destroy stops the machine between two
   frames. *)
THEOREM FramesInStep == Spec => Abs!Safety
<1>1. Init => Abs!Init
  BY DEF Init, Abs!Init
<1>2. IInv /\ [Next]_vars => [Abs!Next]_Abs!vars
  BY AbsStep
<1> QED
  BY <1>1, <1>2, Invariance, PTL DEF Spec, Abs!Safety

=============================================================================
