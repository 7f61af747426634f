-------------------------------- MODULE Aica --------------------------------
(* The sound processor (guest/aica/aica.c), in two machines.               *)
(*                                                                         *)
(* The first is its interrupts: sources that set bits of SCIPD for the     *)
(* ARM7 and of MCIPD for the SH4, the code in L that one FIQ handler at a  *)
(* time works on, and the line to Holly.  Timers only set bits; the next   *)
(* sample batch passes them on.  The sound driver on the ARM7 is external: *)
(* it gives every source it enables a level, and writes M to start with    *)
(* and at the end of each interrupt.                                       *)
(*                                                                         *)
(* The second is the channels: key events, decoding, loops.                *)
EXTENDS Integers, Sequences, FiniteSets

CONSTANTS
  AiSources,   \* interrupt sources in use, by number
  AiTimers,    \* those of the three timers
  AiSample,    \* AICA_INT_SAMPLE
  AiData,      \* AICA_INT_DATA, which both processors may raise
  AiMasks,     \* values written to SCIEB, SCIRE, MCIEB and MCIRE
  AiMaxRaise,  \* bound on timer expirations, timer writes and resets
  AvChannels,  \* channels
  AvSound,     \* the nibbles of the sound, which every channel plays
  AvConfigs,   \* [fmt, loop, lsa, lea, fns, oct] of a channel
  AvMaxKeys    \* bound on the key events

VARIABLES
  aiarm,     \* common_data of the ARM7: SCIEB, SCIPD, L
  aish,      \* common_data of the SH4: MCIEB, MCIPD
  aifiq,     \* FIQ in arm7's requested_interrupts
  ailine,    \* HOLLY_INT_G2AICINT
  aidriver,  \* "reset", "starting", "idle" or "handler"
  aifar,     \* timers whose period has wrapped around
  aiunseen,  \* history: sources raised by a timer since the last sample batch
  airaises,
  avch,      \* struct aica_channel and the registers of each channel
  avasked,   \* history: KYONB was written since the channel last ended
  avkeys
aivars == <<aiarm, aish, aifiq, ailine, aidriver, aifar, aiunseen, airaises>>
avvars == <<avch, avasked, avkeys>>

ASSUME AiAssumption == AiSources \subseteq 0 .. 10 /\ AiTimers \subseteq AiSources /\ AiSample \in AiSources /\ AiData \in AiSources
  /\ AvSound \in Seq(Nat)
  /\ AvConfigs \subseteq [fmt : {"PCMS16", "PCMS8", "ADPCM", "STREAM"}, loop : BOOLEAN, lsa : Nat, lea : Nat, fns : 0 .. 1023, oct : 0 .. 15]
  /\ \A c \in AvConfigs : c.lsa < c.lea /\ c.lea <= Len(AvSound)

----------------------------------------------------------------------------
(* Interrupts                                                              *)

AiMin(S) == CHOOSE x \in S : \A y \in S : x <= y

(* aica_encode_arm_irq_l: sources past 7 share a bit; the driver has set   *)
(* its level to the number, which is not 0.                                *)
EncodeL(i) == (IF i > 7 THEN 7 ELSE i) % 8

(* aica_update_arm, over the new register values.                          *)
UpdateArm(c) ==
  LET pending == c.scipd \cap c.scieb
      l == IF c.l = 0 /\ pending # {} THEN EncodeL(AiMin(pending)) ELSE c.l
  IN  /\ aiarm' = [c EXCEPT !.l = l]
      /\ aifiq' = (aifiq \/ (c.l = 0 /\ l # 0))

(* aica_update_sh                                                          *)
UpdateSh(c) ==
  /\ aish' = c
  /\ ailine' = (c.mcipd \cap c.mcieb # {})

(* aica_timer_expire raises and does not update.                           *)
TimerExpire(n) ==
  /\ airaises > 0 /\ n \notin aifar
  /\ airaises' = airaises - 1
  /\ aiarm' = [aiarm EXCEPT !.scipd = @ \cup {n}]
  /\ aish' = [aish EXCEPT !.mcipd = @ \cup {n}]
  /\ aiunseen' = aiunseen \cup {n}
  /\ UNCHANGED <<aifiq, ailine, aidriver, aifar>>

(* A write of TIMA: the period is counted from the whole of the word, so   *)
(* that one with TACTL in it lies beyond AICA_TIMER_PERIOD and wraps.      *)
WriteTimer(n, tactl) ==
  /\ airaises > 0
  /\ airaises' = airaises - 1
  /\ aifar' = IF tactl THEN aifar \cup {n} ELSE aifar \ {n}
  /\ UNCHANGED <<aiarm, aish, aifiq, ailine, aidriver, aiunseen>>

(* aica_next_sample                                                        *)
NextSample ==
  /\ UpdateArm([aiarm EXCEPT !.scipd = @ \cup {AiSample}])
  /\ UpdateSh([aish EXCEPT !.mcipd = @ \cup {AiSample}])
  /\ aiunseen' = {}
  /\ UNCHANGED <<aidriver, aifar, airaises>>

(* The SH4: MCIEB, MCIPD (AICA_INT_DATA only), MCIRE.                      *)
WriteMcieb(e) == UpdateSh([aish EXCEPT !.mcieb = e]) /\ UNCHANGED <<aiarm, aifiq, aidriver, aifar, aiunseen, airaises>>
WriteMcipd == UpdateSh([aish EXCEPT !.mcipd = @ \cup {AiData}]) /\ UNCHANGED <<aiarm, aifiq, aidriver, aifar, aiunseen, airaises>>
WriteMcire(r) == UpdateSh([aish EXCEPT !.mcipd = @ \ r]) /\ UNCHANGED <<aiarm, aifiq, aidriver, aifar, aiunseen, airaises>>

(* SCIPD (AICA_INT_DATA only) by either processor.                         *)
WriteScipd ==
  /\ UpdateArm([aiarm EXCEPT !.scipd = @ \cup {AiData}])
  /\ UNCHANGED <<aish, ailine, aidriver, aifar, aiunseen, airaises>>

(* ARMRST: the ARM7 stops, and starts afresh when it is released.  The     *)
(* requested FIQ and L stay.                                               *)
WriteArmrst(hold) ==
  /\ IF hold THEN aidriver # "reset" /\ airaises > 0 ELSE aidriver = "reset"
  /\ aidriver' = IF hold THEN "reset" ELSE "starting"
  /\ airaises' = IF hold THEN airaises - 1 ELSE airaises
  /\ UNCHANGED <<aiarm, aish, aifiq, ailine, aifar, aiunseen>>

(* The driver: SCIEB and SCIRE, and M when it starts and when an interrupt *)
(* is done.                                                                *)

(* Mutant: the end of an interrupt does not look for the next one.         *)
WriteMOnly ==
  /\ aidriver \in {"starting", "handler"}
  /\ aiarm' = [aiarm EXCEPT !.l = 0]
  /\ aidriver' = "idle"
  /\ UNCHANGED <<aish, aifiq, ailine, aifar, aiunseen, airaises>>

WriteM ==
  /\ aidriver \in {"starting", "handler"}
  /\ UpdateArm([aiarm EXCEPT !.l = 0])
  /\ aidriver' = "idle"
  /\ UNCHANGED <<aish, ailine, aifar, aiunseen, airaises>>

WriteScieb(e) ==
  /\ aidriver # "reset"
  /\ UpdateArm([aiarm EXCEPT !.scieb = e])
  /\ UNCHANGED <<aish, ailine, aidriver, aifar, aiunseen, airaises>>
WriteScire(r) ==
  /\ aidriver # "reset"
  /\ UpdateArm([aiarm EXCEPT !.scipd = @ \ r])
  /\ UNCHANGED <<aish, ailine, aidriver, aifar, aiunseen, airaises>>

(* The ARM7 takes the FIQ unless it is in its handler, which masks it.     *)
TakeFiq ==
  /\ aidriver = "idle" /\ aifiq
  /\ aifiq' = FALSE
  /\ aidriver' = "handler"
  /\ UNCHANGED <<aiarm, aish, ailine, aifar, aiunseen, airaises>>

AiInit ==
  /\ aiarm = [scieb |-> {}, scipd |-> {}, l |-> 0]
  /\ aish = [mcieb |-> {}, mcipd |-> {}]
  /\ aifiq = FALSE /\ ailine = FALSE
  /\ aidriver = "reset"
  /\ aifar = {} /\ aiunseen = {}
  /\ airaises = AiMaxRaise

AiNext ==
  \/ \E n \in AiTimers : TimerExpire(n) \/ \E t \in BOOLEAN : WriteTimer(n, t)
  \/ NextSample
  \/ \E e \in AiMasks : WriteMcieb(e) \/ WriteMcire(e) \/ WriteScieb(e) \/ WriteScire(e)
  \/ WriteMcipd \/ WriteScipd
  \/ \E hold \in BOOLEAN : WriteArmrst(hold)
  \/ WriteM \/ TakeFiq

AiSpec == AiInit /\ [][AiNext]_aivars

(* No enabled interrupt is left behind: while L is clear nothing is        *)
(* pending but what a timer raised since the last sample batch, while it   *)
(* is set its FIQ is on its way, in its handler, or wiped out by a reset   *)
(* whose driver has yet to write M; and Holly's line is up exactly while   *)
(* something is pending, up to the same batch (aica_update_arm,            *)
(* aica_update_sh, aica_timer_expire).                                     *)
AicaSignals ==
  /\ aiarm.l = 0 => aiarm.scipd \cap aiarm.scieb \subseteq aiunseen
  /\ aiarm.l # 0 => aifiq \/ aidriver # "idle"
  /\ ailine => aish.mcipd \cap aish.mcieb # {}
  /\ ~ailine => aish.mcipd \cap aish.mcieb \subseteq aiunseen

----------------------------------------------------------------------------
(* Channels                                                                *)

PhaseBase == 262144
QuantMin == 127
QuantMax == 24576
Clamp(x, lo, hi) == IF x < lo THEN lo ELSE IF x > hi THEN hi ELSE x

(* aica_decode_adpcm.  A right shift rounds towards minus infinity, as     *)
(* division does here; the magnitude is shifted before the sign is given.  *)
AdpcmScale == <<1, 3, 5, 7, 9, 11, 13, 15>>
AdpcmRate == <<230, 230, 230, 230, 307, 409, 512, 614>>
DecodeAdpcm(data, prev, quant) ==
  LET l4 == data \div 8
      l321 == data % 8
  IN  [sample |-> Clamp((1 - 2 * l4) * ((AdpcmScale[l321 + 1] * quant) \div 8) + prev, -32768, 32767),
       quant |-> Clamp((quant * AdpcmRate[l321 + 1]) \div 256, QuantMin, QuantMax)]

(* aica_channel_phaseinc: OCT is a shift by -8 to 7.                       *)
Octave == <<1, 2, 4, 8, 16, 32, 64, 128, 256>>
PhaseInc(fns, oct) ==
  LET base == PhaseBase + fns * 256
  IN  IF oct >= 8 THEN base \div Octave[17 - oct] ELSE base * Octave[oct + 1]

(* What the format makes of the sound at a phase.                          *)
Decode(c, state) ==
  LET data == AvSound[(c.phase % Len(AvSound)) + 1]
  IN  CASE c.cfg.fmt = "PCMS16" -> [sample |-> data, quant |-> state.quant]
        [] c.cfg.fmt = "PCMS8" -> [sample |-> data * 256, quant |-> state.quant]
        [] OTHER -> DecodeAdpcm(data, state.sample, state.quant)

Fresh == [sample |-> 0, quant |-> QuantMin]

KeyOff(c) == IF ~c.active THEN c ELSE [c EXCEPT !.active = FALSE, !.kyonb = FALSE]
KeyOn(c) ==
  IF c.active THEN c
  ELSE [c EXCEPT !.active = TRUE, !.phase = 0, !.frc = 0, !.inc = PhaseInc(c.cfg.fns, c.cfg.oct),
                 !.looped = FALSE, !.prev = Fresh, !.next = Fresh, !.loop = Fresh]

(* aica_channel_step_one                                                   *)

StepOne(c) ==
  LET next == Decode(c, c.prev)
      loop == IF c.phase = c.cfg.lsa THEN c.prev ELSE c.loop
      d == [c EXCEPT !.next = next, !.prev = next, !.loop = loop, !.frc = @ - PhaseBase, !.phase = @ + 1]
  IN  CASE d.phase < d.cfg.lea -> d
        [] d.phase >= d.cfg.lea /\ ~d.cfg.loop -> KeyOff([d EXCEPT !.looped = TRUE])
        [] OTHER -> [d EXCEPT !.looped = TRUE, !.phase = d.cfg.lsa, !.prev = IF d.cfg.fmt = "STREAM" THEN @ ELSE loop]

(* aica_channel_step: as many samples as the phase has moved over, even if *)
(* the first of them ends the channel.                                     *)
ChannelStep(c) ==
  LET moved == [c EXCEPT !.frc = @ + c.inc]
      steps == moved.frc \div PhaseBase
      stepped[k \in 0 .. steps] == IF k = 0 THEN moved ELSE StepOne(stepped[k - 1])
  IN  IF ~c.active THEN c ELSE stepped[steps]

(* One frame of aica_generate_frames.                                      *)
GenerateFrame ==
  LET after == [n \in AvChannels |-> ChannelStep(avch[n])]
  IN  /\ avch' = after
      /\ avasked' = {n \in avasked : ~(avch[n].active /\ ~after[n].active)}
      /\ UNCHANGED avkeys

(* aica_channel_reg_write of KYONB and KYONEX: the key bits of all         *)
(* channels take effect together.                                          *)
WriteKey(n, on, execute) ==
  LET written == [avch EXCEPT ![n].kyonb = on]
  IN  /\ avkeys > 0
      /\ avkeys' = avkeys - 1
      /\ avch' = IF ~execute THEN written
                 ELSE [k \in AvChannels |-> IF written[k].kyonb THEN KeyOn(written[k]) ELSE KeyOff(written[k])]
      /\ avasked' = IF on THEN avasked \cup {n} ELSE avasked \ (IF execute \/ ~avch[n].active THEN {n} ELSE {})

(* FNS and OCT may change while the channel plays.                         *)
WritePitch(n, c) ==
  /\ avkeys > 0 /\ avch[n].cfg # c
  /\ avkeys' = avkeys - 1
  /\ avch' = [avch EXCEPT ![n].cfg.fns = c.fns, ![n].cfg.oct = c.oct, ![n].inc = PhaseInc(c.fns, c.oct)]
  /\ UNCHANGED avasked

(* Reading LP clears it.                                                   *)
ReadLp(n) ==
  /\ avch[n].looped
  /\ avch' = [avch EXCEPT ![n].looped = FALSE]
  /\ UNCHANGED <<avasked, avkeys>>

AvInit ==
  /\ avch \in [AvChannels -> {[cfg |-> c, kyonb |-> FALSE, active |-> FALSE, phase |-> 0, frc |-> 0, inc |-> 0,
                               looped |-> FALSE, prev |-> Fresh, next |-> Fresh, loop |-> Fresh] : c \in AvConfigs}]
  /\ avasked = {}
  /\ avkeys = AvMaxKeys

AvNext ==
  \/ GenerateFrame
  \/ \E n \in AvChannels, on \in BOOLEAN, execute \in BOOLEAN : WriteKey(n, on, execute)
  \/ \E n \in AvChannels, c \in AvConfigs : WritePitch(n, c)
  \/ \E n \in AvChannels : ReadLp(n)

(* The whole: the two machines take turns.                                 *)
AicaSpec ==
  /\ AiInit /\ AvInit
  /\ [][(AiNext /\ UNCHANGED avvars) \/ (AvNext /\ UNCHANGED aivars)]_<<aivars, avvars>>

(* The reference: the decoder run over the sound from its start.           *)
DecodedUpTo(fmt) ==
  LET f[p \in 0 .. Len(AvSound)] ==
        IF p = 0 THEN Fresh ELSE Decode([cfg |-> [fmt |-> fmt], phase |-> p - 1], f[p - 1])
  IN  f
Decoded == [fmt \in {"PCMS16", "PCMS8", "ADPCM"} |-> DecodedUpTo(fmt)]

(* However often a channel has looped and its pitch has changed, it stands *)
(* within its sound and its decoder is in the state that a decoding from   *)
(* the start has there; and only a key event starts a channel, one that    *)
(* has ended is not started again by the key event of another              *)
(* (aica_channel_step_one, aica_channel_key_on_execute).                   *)
VoiceExact ==
  \A n \in AvChannels :
    avch[n].active =>
      /\ avch[n].phase < avch[n].cfg.lea
      /\ avch[n].cfg.fmt # "STREAM" => avch[n].prev = Decoded[avch[n].cfg.fmt][avch[n].phase]
      /\ n \in avasked

(* The sound processor loses no interrupt and plays what it is given.      *)
AicaExact == AicaSignals /\ VoiceExact

=============================================================================
