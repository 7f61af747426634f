------------------------------- MODULE Maple -------------------------------
(* The maple bus (guest/maple/, holly_maple_dma of guest/holly/holly.c): a *)
(* controller in each port and a memory card in the controller.            *)
(*                                                                         *)
(* The emulation thread works through the list of frames of a DMA, while   *)
(* the main thread changes the state of the controllers; no lock orders    *)
(* the two, so that a copy of struct maple_cond may be half old, half new. *)
(* The process may end at any time: a card is a file that outlives it.     *)
EXTENDS Integers, Sequences, FiniteSetsExt

CONSTANTS
  MpPorts,     \* MAPLE_NUM_PORTS, ports in use
  MpByte,      \* how many values a byte of a parameter has
  MpBlocks,    \* number of blocks of a card
  MpWords,     \* words of a quarter of a block
  MpFrames,    \* frames of the guest: [port, dst, cmd, fn, block, phase]
  MpButtons,   \* buttons up to CONT_DPAD2_RIGHT
  MpValues,    \* what the host reports of a stick
  MpMaxFrames, \* bound on the frames and on the frames of a list
  MpMaxInputs  \* bound on the events of the host

VARIABLES
  mpcnd,    \* struct maple_cond of each controller
  mpfile,   \* vmu%d.bin: a word for every address
  mplist,   \* frames of the running DMA that are still to be handled
  mpcopy,   \* the copy of maple_cond that is being made, or <<>>
  mpres,    \* the responses in guest memory, one per frame handled
  mpfatal,  \* a CHECK has failed
  mpsent,   \* history: the frames that mpres answers
  mpcard,   \* history: who wrote each quarter of each block last
  mpheld,   \* history: the last event of each control, and of each stick
  mpcount   \* frames and events so far
mpvars == <<mpcnd, mpfile, mplist, mpcopy, mpres, mpfatal, mpsent, mpcard, mpheld, mpcount>>

MpMain == 5

ASSUME MpAssumption ==
  /\ MpByte \in Nat \ {0} /\ MpBlocks \in Nat \ {0} /\ MpWords \in Nat \ {0}
  /\ MpMaxFrames \in Nat /\ MpMaxInputs \in Nat
  /\ \A v \in MpValues : v \in Int /\ -32768 <= v /\ v <= 32767

(* A frame names a unit of a port, by itself or with the main device, and  *)
(* is one that the CHECKs of vmu_frame allow: a whole block is read, and   *)
(* only a memory card is asked for its blocks.                             *)
ASSUME MpFramesAssumption ==
  \A f \in MpFrames :
    /\ f.port \in MpPorts /\ f.block \in 0 .. MpBlocks - 1 /\ f.phase \in 0 .. 3
    /\ \E u \in 0 .. MpMain : f.dst \in {{u}, {u, MpMain}}
    /\ f.cmd \in {"GETMEMINFO", "BLKREAD"} => f.fn = "MEMCARD"
    /\ f.cmd = "BLKREAD" => f.phase = 0

MpNone == [cmd |-> "NONE", src |-> {}, data |-> <<>>]

----------------------------------------------------------------------------
(* The card                                                                *)

(* Mutant: a phase counts for a whole block.                               *)
BlkOffsetWhole(block, phase) == block * 4 * MpWords + phase * 4 * MpWords

(* BLK_OFFSET, in words.                                                   *)
BlkOffset(block, phase) == block * 4 * MpWords + phase * MpWords
MpFileSize == MpBlocks * 4 * MpWords

(* The bytes of a block parameter, the lowest first, and what              *)
(* vmu_parse_block_param makes of them.                                    *)
BlockParam(block, phase) == <<0, phase, block \div MpByte, block % MpByte>>
ParseBlockParam(b) == [partition |-> b[1], phase |-> b[2], block |-> b[3] * MpByte + b[4]]

(* The file with one quarter of a block set.                               *)
QuarterAt(file, off, v) ==
  [a \in 0 .. MpFileSize - 1 |-> IF a \in off .. off + MpWords - 1 THEN v ELSE file[a]]

(* vmu_frame: the answer, the file and whether a CHECK fails.  Words are   *)
(* written from params[2] on; a frame that writes has MpWords of them, of  *)
(* which each is the number of the frame here.                             *)
VmuFrame(f, file, stamp) ==
  LET at == ParseBlockParam(BlockParam(f.block, f.phase))
      off == BlkOffset(at.block, at.phase)
      Reply(cmd, data) ==
        [cmd |-> cmd, data |-> data, file |-> file, fatal |-> FALSE]
      Failed == [Reply("BADCMD", <<>>) EXCEPT !.fatal = TRUE]
  IN  CASE f.cmd = "DEVINFO" -> Reply("DEVINFO", <<"vmu">>)
        [] f.cmd = "GETMEMINFO" -> IF f.fn # "MEMCARD" THEN Failed ELSE Reply("TRANSFER", <<"meminfo">>)
        [] f.cmd = "BLKREAD" ->
             IF f.fn # "MEMCARD" \/ at.partition # 0 \/ at.phase # 0 \/ off + 4 * MpWords > MpFileSize THEN Failed
             ELSE Reply("TRANSFER", [i \in 1 .. 4 * MpWords |-> file[off + i - 1]])
        [] f.cmd = "BLKWRITE" /\ f.fn = "MEMCARD" ->
             IF at.partition # 0 THEN Failed
             ELSE [Reply("ACK", <<>>) EXCEPT !.file = QuarterAt(@, off, stamp)]
        [] f.cmd = "BLKWRITE" /\ f.fn # "MEMCARD" -> Reply(IF f.fn = "LCD" THEN "ACK" ELSE "BADFUNC", <<>>)
        [] f.cmd = "BLKSYNC" -> Reply("ACK", <<>>)
        [] f.cmd = "SETCOND" -> Reply(IF f.fn = "CLOCK" THEN "ACK" ELSE "BADFUNC", <<>>)
        [] OTHER -> Reply("BADCMD", <<>>)

----------------------------------------------------------------------------
(* The bus                                                                 *)

(* maple_decode_addr: the highest bit that is set, unit 0 if none is.      *)
DecodeUnit(dst) == Max(dst \cup {0})

(* A controller in unit 5 and a card in unit 0 of every port.              *)
Connected == {0, MpMain}

DefaultCond == [buttons |-> [b \in MpButtons |-> 1], trig |-> 0, joy |-> 128]

(* One more frame of the list has been answered with r.                    *)
Answered(r) ==
  /\ mpres' = Append(mpres, r)
  /\ mpsent' = Append(mpsent, Head(mplist))
  /\ mplist' = Tail(mplist)

(* A write to SB_MDST or the end of a vertical blank, with SB_MDEN set; it *)
(* returns when the list is done, and so finds none running.               *)
StartMapleDma(list) ==
  /\ ~mpfatal /\ mplist = <<>> /\ mpcount.frames + Len(list) <= MpMaxFrames
  /\ mplist' = list /\ mpres' = <<>> /\ mpsent' = <<>>
  /\ mpcount' = [mpcount EXCEPT !.frames = @ + Len(list)]
  /\ UNCHANGED <<mpcnd, mpfile, mpcopy, mpfatal, mpcard, mpheld>>

(* A frame for a unit that is not there is answered by 0xffffffff.         *)
NoDevice ==
  /\ mplist # <<>> /\ ~mpfatal /\ DecodeUnit(Head(mplist).dst) \notin Connected
  /\ Answered(MpNone)
  /\ UNCHANGED <<mpcnd, mpfile, mpcopy, mpfatal, mpcard, mpheld, mpcount>>

(* The controller hands the frame on to the card of the port it names.     *)
CardFrame ==
  LET f == Head(mplist)
      stamp == mpcount.frames - Len(mplist) + 1
      r == VmuFrame(f, mpfile[f.port], stamp)
  IN  /\ mplist # <<>> /\ ~mpfatal /\ DecodeUnit(f.dst) = 0
      /\ mpfatal' = r.fatal
      /\ mpfile' = [mpfile EXCEPT ![f.port] = r.file]
      /\ Answered([cmd |-> r.cmd, src |-> f.dst, data |-> r.data])
      /\ mpcard' = IF f.cmd = "BLKWRITE" /\ f.fn = "MEMCARD"
                   THEN [mpcard EXCEPT ![f.port][f.block][f.phase] = stamp] ELSE mpcard
      /\ UNCHANGED <<mpcnd, mpcopy, mpheld, mpcount>>

(* What controller_frame adds to the address: the units connected to it.   *)
Identified(dst) == dst \cup (Connected \ {MpMain})

ControllerFrame ==
  LET f == Head(mplist)
  IN  /\ mplist # <<>> /\ ~mpfatal /\ DecodeUnit(f.dst) = MpMain /\ f.cmd # "GETCOND"
      /\ Answered([cmd |-> IF f.cmd = "DEVINFO" THEN "DEVINFO" ELSE "BADCMD", src |-> Identified(f.dst),
                   data |-> IF f.cmd = "DEVINFO" THEN <<"controller">> ELSE <<>>])
      /\ UNCHANGED <<mpcnd, mpfile, mpcopy, mpfatal, mpcard, mpheld, mpcount>>

(* MAPLE_REQ_GETCOND: buttons and triggers are copied first, then sticks.  *)
GetCondBegin ==
  LET f == Head(mplist)
  IN  /\ mplist # <<>> /\ ~mpfatal /\ DecodeUnit(f.dst) = MpMain /\ f.cmd = "GETCOND" /\ mpcopy = <<>>
      /\ mpcopy' = <<mpcnd[f.port].buttons, mpcnd[f.port].trig>>
      /\ UNCHANGED <<mpcnd, mpfile, mplist, mpres, mpfatal, mpsent, mpcard, mpheld, mpcount>>

GetCondEnd ==
  LET f == Head(mplist)
  IN  /\ mplist # <<>> /\ mpcopy # <<>>
      /\ Answered([cmd |-> "TRANSFER", src |-> Identified(f.dst), data |-> Append(mpcopy, mpcnd[f.port].joy)])
      /\ mpcopy' = <<>>
      /\ UNCHANGED <<mpcnd, mpfile, mpfatal, mpcard, mpheld, mpcount>>

----------------------------------------------------------------------------
(* The main thread: controller_input for a button, a trigger and a stick   *)

ScaleJoy(v) == ((v + 32768) \div 256) % 256
ScaleTrig(v) == (v \div 128) % 256

MpControl(port, cnd, held) ==
  /\ ~mpfatal /\ mpcount.inputs < MpMaxInputs
  /\ mpcnd' = [mpcnd EXCEPT ![port] = cnd]
  /\ mpheld' = [mpheld EXCEPT ![port] = held]
  /\ mpcount' = [mpcount EXCEPT !.inputs = @ + 1]
  /\ UNCHANGED <<mpfile, mplist, mpcopy, mpres, mpfatal, mpsent, mpcard>>

PressButton(port, b) ==
  MpControl(port, [mpcnd[port] EXCEPT !.buttons[b] = 0], [mpheld[port] EXCEPT !.down = @ \cup {b}])
ReleaseButton(port, b) ==
  MpControl(port, [mpcnd[port] EXCEPT !.buttons[b] = 1], [mpheld[port] EXCEPT !.down = @ \ {b}])
MoveJoy(port, v) ==
  MpControl(port, [mpcnd[port] EXCEPT !.joy = ScaleJoy(v)], [mpheld[port] EXCEPT !.joy = v])
MoveTrig(port, v) ==
  MpControl(port, [mpcnd[port] EXCEPT !.trig = ScaleTrig(v)], [mpheld[port] EXCEPT !.trig = v])

(* The process ends and another begins: maple_create finds the files.      *)
MapleRestart ==
  /\ mpcnd' = [p \in MpPorts |-> DefaultCond]
  /\ mpheld' = [p \in MpPorts |-> [down |-> {}, joy |-> 0, trig |-> 0]]
  /\ mplist' = <<>> /\ mpcopy' = <<>> /\ mpres' = <<>> /\ mpsent' = <<>>
  /\ UNCHANGED <<mpfile, mpfatal, mpcard, mpcount>>

(* vmu_create writes the default image if there is no file.                *)
MpInit ==
  /\ mpcnd = [p \in MpPorts |-> DefaultCond]
  /\ mpfile = [p \in MpPorts |-> [a \in 0 .. MpFileSize - 1 |-> 0]]
  /\ mplist = <<>> /\ mpcopy = <<>> /\ mpres = <<>> /\ mpfatal = FALSE
  /\ mpsent = <<>>
  /\ mpcard = [p \in MpPorts |-> [b \in 0 .. MpBlocks - 1 |-> [q \in 0 .. 3 |-> 0]]]
  /\ mpheld = [p \in MpPorts |-> [down |-> {}, joy |-> 0, trig |-> 0]]
  /\ mpcount = [frames |-> 0, inputs |-> 0]

MpNext ==
  \/ \E f \in MpFrames : StartMapleDma(<<f>>) \/ \E g \in MpFrames : StartMapleDma(<<f, g>>)
  \/ NoDevice \/ CardFrame \/ ControllerFrame \/ GetCondBegin \/ GetCondEnd
  \/ \E p \in MpPorts :
       \/ \E b \in MpButtons : PressButton(p, b) \/ ReleaseButton(p, b)
       \/ \E v \in MpValues : MoveJoy(p, v) \/ (v >= 0 /\ MoveTrig(p, v))
  \/ MapleRestart

MpSpec == MpInit /\ [][MpNext]_mpvars

----------------------------------------------------------------------------
(* The last response is what the device named by the frame has to say: the *)
(* block of a card as its quarters were last written, in this process or   *)
(* an earlier one.                                                         *)
RightAnswer(f, r, card) ==
  LET quarters == [i \in 1 .. 4 * MpWords |-> card[f.port][f.block][(i - 1) \div MpWords]]
  IN  /\ (r = MpNone) <=> (f.dst \cap Connected = {})
      /\ f.dst = {0} => r.src = f.dst
      /\ f.dst = {MpMain} => r.src = {0, MpMain}
      /\ f.dst = {0} /\ f.cmd = "BLKREAD" => r.data = quarters
      /\ f.dst = {0} /\ f.cmd = "BLKWRITE" /\ f.fn = "MEMCARD" => r.cmd = "ACK"
LastAnswer == RightAnswer(mpsent[Len(mpsent)], mpres[Len(mpres)], mpcard)

(* What the guest is told of a stick and a trigger spans a byte, its ends  *)
(* for theirs, and is on the same side of the middle as the stick; a       *)
(* button reads 0 exactly while it is held.                                *)
SpansByte(byte, v, least) ==
  /\ byte \in 0 .. 255
  /\ v = least => byte = 0
  /\ v = 32767 => byte = 255
PadsExact ==
  \A p \in MpPorts :
    /\ \A b \in MpButtons : mpcnd[p].buttons[b] = IF b \in mpheld[p].down THEN 0 ELSE 1
    /\ SpansByte(mpcnd[p].joy, mpheld[p].joy, -32768)
    /\ mpcnd[p].joy < 128 <=> mpheld[p].joy < 0
    /\ SpansByte(mpcnd[p].trig, mpheld[p].trig, 0)

(* Every quarter of every card is in the file at its place, over restarts  *)
(* between any two frames of a list, and in no other; no card writes over  *)
(* another's; each frame gets the answer of the device it names; no CHECK  *)
(* fails; the controllers follow the host (vmu_frame, controller_frame,    *)
(* controller_input).                                                      *)
MapleExact ==
  /\ ~mpfatal
  /\ \A p \in MpPorts, b \in 0 .. MpBlocks - 1, q \in 0 .. 3, w \in 0 .. MpWords - 1 :
       mpfile[p][(b * 4 + q) * MpWords + w] = mpcard[p][b][q]
  /\ mpres # <<>> => LastAnswer
  /\ PadsExact

=============================================================================
