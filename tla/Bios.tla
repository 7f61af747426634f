-------------------------------- MODULE Bios --------------------------------
(* The bios without a boot rom (guest/bios): the bootstrap that loads the   *)
(* first program of a disc, and the GD-ROM syscalls, by which a guest       *)
(* queues one request at a time, has GDROM_MAINLOOP carry it out, from its  *)
(* main program or from an interrupt handler, and polls it by its id.       *)
(*                                                                          *)
(* A syscall is a trap and atomic; the guest orders them as it likes,       *)
(* reuses its parameter block as soon as a request is sent, and is replaced *)
(* by another game at any time, which does not reset struct bios.  It calls *)
(* GDROM_INIT before anything else, as the syscall's comment asks.  Memory  *)
(* is counted in sectors.                                                   *)
EXTENDS Integers, Sequences, FiniteSets, SequencesExt

CONSTANTS
  BIdMod,      \* request ids are counted modulo this (2^32)
  BMem,        \* sectors of guest memory
  BDisc,       \* the frame addresses of the disc that hold data
  BGaps,       \* frames behind a track that its file has bytes for
  BGdrom,      \* the disc has a high density area
  BParams,     \* parameter blocks the guest uses, four words each
  BMaxReqs,    \* bound on the requests of a behaviour
  BSlice,      \* MIN_CHUNK_SIZE (32)
  BMaxChunk,   \* MAX_CHUNK_SIZE (2 mb)
  BSizes       \* sizes of the boot file

VARIABLES
  bios,     \* struct bios
  bpar,     \* the guest's parameter block
  bmem,     \* guest memory, by sector
  bmode,    \* struct gd_hw_info of the drive
  bdrive,   \* gd->disc: there is a disc in the drive
  binit,    \* this game has called GDROM_INIT
  breqs,    \* history: the requests accepted
  breply,   \* the last answer of GDROM_CHECK_COMMAND
  bimage,   \* the boot file in memory, by byte of the file, until it runs
  bfatal    \* LOG_FATAL or a failed CHECK
bvars == <<bios, bpar, bmem, bmode, bdrive, binit, breqs, breply, bimage, bfatal>>

BAddrs == 0 .. BMem - 1
NoResult == <<0, 0, 0, 0>>
NoReply == [k |-> 0, status |-> "", result |-> NoResult]
FreeMemory == [a \in BAddrs |-> <<"free", 0>>]

(* The largest size of a chunk, and halves of it down to one slice.        *)
ChunkSizes == {c \in 1 .. BMaxChunk : \E k \in 0 .. 21 : c * 2 ^ k = BMaxChunk /\ c >= BSlice}

ASSUME BAssumption ==
  /\ BIdMod \in Nat /\ BIdMod > 2 /\ BMem \in Nat /\ BDisc \subseteq Nat /\ BGaps \subseteq Nat
  /\ BSlice \in Nat \ {0} /\ BMaxChunk \in Nat /\ BSizes \subseteq Nat
  /\ BParams \subseteq [1 .. 4 -> Nat] /\ \A c \in ChunkSizes : c % BSlice = 0

----------------------------------------------------------------------------
(* Loading the first program                                               *)

ScrambleNext(seed, i) ==
  LET s == (seed * 2109 + 9273) % 32768
  IN  [seed |-> s, x |-> (i * ((s + 49152) % 65536)) \div 65536]

(* One chunk: the slices are dealt out by a table that is shuffled from    *)
(* its end.  off is the place of the chunk in source and destination, and  *)
(* the slice that follows in the source is number k.                       *)
DealSlice(st, n, k, c) ==
  LET i == n - k
      r == ScrambleNext(c.seed, i)
      t == [c.table EXCEPT ![i] = c.table[r.x], ![r.x] = c.table[i]]
      here(j) == j >= st.off /\ (j - st.off) \div BSlice = t[i]
  IN  [seed |-> r.seed, table |-> t,
       out |-> [j \in DOMAIN c.out |->
                  IF here(j) THEN st.off + (k - 1) * BSlice + ((j - st.off) % BSlice) ELSE c.out[j]]]
Undealt(st, n) == [seed |-> st.seed, table |-> [i \in 0 .. n - 1 |-> i], out |-> st.out]
DescrambleChunk(st, size) ==
  LET n == size \div BSlice
      dealt[k \in 0 .. n] == IF k = 0 THEN Undealt(st, n) ELSE DealSlice(st, n, k, dealt[k - 1])
  IN  [seed |-> dealt[n].seed, off |-> st.off + size, out |-> dealt[n].out]

(* A chunk is of the largest size that fits in what is left.               *)
NextChunk(st, size) ==
  LET fits == {c \in ChunkSizes : st.off + c <= size}
  IN  IF fits = {} THEN st ELSE DescrambleChunk(st, Max(fits))

(* From the start of the file, chunk by chunk; what is left of less than a *)
(* slice is copied as it is.                                               *)
Unread(size) == [seed |-> size % 65536, off |-> 0, out |-> [j \in 0 .. size - 1 |-> -1]]
Descramble(size) ==
  LET chunks[k \in 0 .. size \div BSlice] == IF k = 0 THEN Unread(size) ELSE NextChunk(chunks[k - 1], size)
      end == chunks[size \div BSlice]
  IN  [j \in 0 .. size - 1 |-> IF j >= end.off THEN j ELSE end.out[j]]

Descrambled == [size \in BSizes |-> Descramble(size)]

(* LOG_FATAL and a failed CHECK end the process, and with it all there is. *)
PowerOn == [status |-> "INACTIVE", id |-> 0, code |-> "", params |-> NoResult, result |-> NoResult]
BAbort ==
  /\ bfatal' = TRUE
  /\ bios' = PowerOn /\ bmem' = FreeMemory /\ bmode' = 0 /\ bdrive' = FALSE /\ binit' = FALSE
  /\ breqs' = <<>> /\ breply' = NoReply /\ bimage' = <<>>
  /\ UNCHANGED bpar

(* History: what a request finds when it is carried out, and before.       *)
NotYet == [mem |-> FreeMemory, disc |-> FALSE]
AsFound == [mem |-> bmem, disc |-> bdrive]

(* Another game takes the place of the one that runs.                      *)
NewGame ==
  /\ ~bfatal
  /\ bmem' = FreeMemory
  /\ binit' = FALSE
  /\ breqs' = [k \in DOMAIN breqs |-> [breqs[k] EXCEPT !.old = TRUE, !.before = NotYet]]
  /\ breply' = NoReply
  /\ UNCHANGED <<bios, bpar, bmode, bfatal>>

(* bios_boot, from a trap at address 0 or by SYSTEM_BOOT, with the disc    *)
(* that is in the drive or the one dc_load_disc puts there.                *)
BBoot(size, xa) ==
  /\ NewGame
  /\ bimage' = IF xa THEN Descrambled[size] ELSE [j \in 0 .. size - 1 |-> j]
  /\ bdrive' = TRUE

(* dc_load_bin: a program from a file runs at once, and the drive is left  *)
(* as it is, empty or not.                                                 *)
LoadBin ==
  /\ NewGame
  /\ bimage' = <<>>
  /\ UNCHANGED bdrive

(* No disc, or one whose boot sectors or boot file cannot be read; and     *)
(* syscalls that are not there (MISC_INIT, GDROM_REQ_DMA, GDROM_RESET...). *)
BootFails == ~bfatal /\ BAbort
Unsupported == ~bfatal /\ binit /\ BAbort

----------------------------------------------------------------------------
(* Requests                                                                *)

(* The guest fills its parameter block.                                    *)
SetParams(p) ==
  /\ ~bfatal /\ bpar # p
  /\ bpar' = p
  /\ UNCHANGED <<bios, bmem, bmode, bdrive, binit, breqs, breply, bimage, bfatal>>

(* GDROM_INIT.  The boot file is a running program from here on.           *)
GdInit ==
  /\ ~bfatal
  /\ bios' = [bios EXCEPT !.status = "INACTIVE"]
  /\ binit' = TRUE
  /\ bimage' = <<>>
  /\ UNCHANGED <<bpar, bmem, bmode, bdrive, breqs, breply, bfatal>>

(* bios_gdrom_send_cmd: refused while another request is in place.         *)
SendCommand(code, null) ==
  LET next == (bios.id + 1) % BIdMod
      id == IF next = 0 THEN 1 ELSE next
      params == IF null THEN NoResult ELSE bpar
  IN  /\ ~bfatal /\ binit
      /\ bios.status = "INACTIVE"
      /\ Len(breqs) < BMaxReqs
      /\ bios' = [status |-> "ACTIVE", id |-> id, code |-> code, params |-> params, result |-> NoResult]
      /\ breqs' = Append(breqs, [id |-> id, code |-> code, params |-> params, done |-> 0, told |-> 0,
                                 before |-> NotYet, old |-> FALSE, late |-> FALSE])
      /\ UNCHANGED <<bpar, bmem, bmode, bdrive, binit, breply, bimage, bfatal>>

(* Copies to guest memory: a sequence of contents from dst on, for the     *)
(* addresses the guest has.                                                *)
CopyToGuest(mem, dst, seq) ==
  [a \in BAddrs |-> IF a >= dst /\ a < dst + Len(seq) THEN seq[a - dst + 1] ELSE mem[a]]

(* A frame's bytes come from the file of the track it is in or behind.     *)
(* Data tracks only: a sector of an audio track is longer.                 *)
Readable(f) == f \in BDisc \cup BGaps
SectorAt(f) == IF f \in BDisc THEN <<"sector", f>> ELSE <<"gap", f>>
FramesOf(fad, n) == [i \in 1 .. n |-> SectorAt(fad + i - 1)]

(* Mutant: the sector after the last one is read too.                      *)
SectorsReadPast(fad, n) == IF bdrive THEN FramesOf(fad, n + 1) ELSE <<>>

(* gdrom_read_sectors, one frame at a time: nothing without a disc.        *)
SectorsRead(fad, n) == IF bdrive THEN FramesOf(fad, n) ELSE <<>>

Outcome(status, mem, mode, result) == [status |-> status, mem |-> mem, mode |-> mode, result |-> result]

(* GDC_PIOREAD and GDC_DMAREAD; the size still to be read is counted down  *)
(* from 0.                                                                 *)
DoRead(p) ==
  LET s == SectorsRead(p[1], p[2])
  IN  Outcome("COMPLETE", CopyToGuest(bmem, p[3], s), bmode, <<0, 0, Len(s), -Len(s)>>)

(* GDC_GETTOC2: neither result nor error for an area the disc lacks.       *)
DoGetToc2(p) ==
  IF p[1] = 1 /\ ~BGdrom THEN Outcome("INACTIVE", bmem, bmode, NoResult)
  ELSE Outcome("COMPLETE", CopyToGuest(bmem, p[2], << <<"toc", p[1]>> >>), bmode, NoResult)

DoReqMode(p) == Outcome("COMPLETE", CopyToGuest(bmem, p[1], << <<"mode", bmode>> >>), bmode, <<0, 0, 10, 0>>)
DoSetMode(p) == Outcome("COMPLETE", bmem, p[1], <<0, 0, 10, 0>>)

(* GDC_REQ_STAT writes its four words through four pointers in turn.       *)
StatWords(p) == FoldLeft(LAMBDA mem, k : CopyToGuest(mem, p[k], << <<"stat", k>> >>), bmem, <<1, 2, 3, 4>>)
DoReqStat(p) == Outcome("COMPLETE", StatWords(p), bmode, <<0, 0, 10, 0>>)
DoGetScd(p) == Outcome("COMPLETE", CopyToGuest(bmem, p[3], << <<"scd", p[1]>> >>), bmode, <<0, 0, p[2], 0>>)
DoGetVer(p) == Outcome("COMPLETE", CopyToGuest(bmem, p[1], << <<"ver", 2>> >>), bmode, NoResult)
(* GDC_PLAY, GDC_PAUSE, GDC_SEEK and others are logged and succeed.        *)
DoNothing == Outcome("COMPLETE", bmem, bmode, NoResult)

BCodes == {"READ", "GETTOC2", "REQ_MODE", "SET_MODE", "REQ_STAT", "GET_SCD", "GET_VER", "PLAY"}
Refused == {"GETTOC", "STOP", "REQ_SES"}
Do(code, p) ==
  CASE code = "READ" -> DoRead(p)
    [] code = "GETTOC2" -> DoGetToc2(p)
    [] code = "REQ_MODE" -> DoReqMode(p)
    [] code = "SET_MODE" -> DoSetMode(p)
    [] code = "REQ_STAT" -> DoReqStat(p)
    [] code = "GET_SCD" -> DoGetScd(p)
    [] code = "GET_VER" -> DoGetVer(p)
    [] OTHER -> DoNothing

(* data[3] of gdrom_get_subcode.                                           *)
ScdSize(format) == CASE format = 0 -> 100 [] format = 1 -> 14 [] OTHER -> 0

(* The CHECKs of the commands: the track of each frame that is read and    *)
(* its bytes in the file, the disc, and the size of a subcode.             *)
NeedDisc == {"GETTOC2", "REQ_STAT", "GET_SCD"}
Checked(code, p) ==
  /\ code \notin Refused
  /\ code = "READ" => p[4] = 0
  /\ code = "READ" /\ bdrive => \A f \in p[1] .. p[1] + p[2] - 1 : Readable(f)
  /\ code \in NeedDisc => bdrive
  /\ code = "GET_SCD" => p[2] = ScdSize(p[1])

(* History: a request is carried out in what there is.                     *)
CarriedOut(r, found) == [r EXCEPT !.done = @ + 1, !.before = found, !.late = r.old]

(* bios_gdrom_mainloop.                                                    *)
Mainloop ==
  LET o == Do(bios.code, bios.params)
  IN  /\ ~bfatal /\ binit
      /\ bios.status = "ACTIVE"
      /\ \/ ~Checked(bios.code, bios.params) /\ BAbort
         \/ /\ Checked(bios.code, bios.params)
            /\ bios' = [bios EXCEPT !.status = o.status, !.result = o.result]
            /\ bmem' = o.mem /\ bmode' = o.mode
            /\ breqs' = [breqs EXCEPT ![Len(breqs)] = CarriedOut(@, AsFound)]
            /\ UNCHANGED <<bpar, bdrive, binit, breply, bimage, bfatal>>

(* GDROM_CHECK_COMMAND for request k: only the latest one is known, and    *)
(* whatever its status was is cleared with its result.                     *)
CheckCommand(k) ==
  LET mine == breqs[k].id = bios.id
      status == IF mine THEN bios.status ELSE "ERROR"
  IN  /\ ~bfatal /\ binit
      /\ breply' = [k |-> k, status |-> status, result |-> IF mine THEN bios.result ELSE <<5, 0, 0, 0>>]
      /\ bios' = IF mine THEN [bios EXCEPT !.status = "INACTIVE", !.result = NoResult] ELSE bios
      /\ breqs' = [breqs EXCEPT ![k].told = IF status = "COMPLETE" THEN @ + 1 ELSE @]
      /\ UNCHANGED <<bpar, bmem, bmode, bdrive, binit, bimage, bfatal>>

(* GDROM_ABORT_COMMAND always fails and leaves the request where it is.    *)
AbortCommand ==
  /\ ~bfatal /\ binit /\ bios.status = "ACTIVE"
  /\ breply' = NoReply
  /\ UNCHANGED <<bios, bpar, bmem, bmode, bdrive, binit, breqs, bimage, bfatal>>

BInit ==
  /\ bios = PowerOn
  /\ bpar \in BParams
  /\ bmem = FreeMemory
  /\ bmode = 0
  /\ bdrive = FALSE
  /\ binit = FALSE
  /\ breqs = <<>>
  /\ breply = NoReply
  /\ bimage = <<>>
  /\ bfatal = FALSE

BNext ==
  \/ \E size \in BSizes, xa \in BOOLEAN : BBoot(size, xa)
  \/ LoadBin \/ BootFails \/ Unsupported \/ AbortCommand
  \/ \E p \in BParams : SetParams(p)
  \/ GdInit
  \/ \E code \in BCodes \cup {"STOP"}, null \in BOOLEAN : SendCommand(code, null)
  \/ Mainloop
  \/ \E k \in {j \in DOMAIN breqs : j > Len(breqs) - 2} : CheckCommand(k)

BSpec == BInit /\ [][BNext]_bvars

----------------------------------------------------------------------------
(* What a finished request leaves behind, by its parameters at the time it *)
(* was sent: the reference for GDC_PIOREAD.  Without a disc that is        *)
(* nothing.                                                                *)
ReadWhole(r) ==
  LET n == IF r.before.disc THEN r.params[2] ELSE 0
  IN  /\ breply.result = <<0, 0, n, -n>>
      /\ \A i \in 0 .. n - 1 :
           r.params[3] + i \in BAddrs /\ r.params[1] + i \in BDisc
             => bmem[r.params[3] + i] = <<"sector", r.params[1] + i>>
      /\ \A a \in BAddrs :
           a < r.params[3] \/ a >= r.params[3] + n => bmem[a] = r.before.mem[a]

\* A complete request was carried out once, with the parameters it was sent
\* with, and is reported once; id 0 means refused.
RequestsExact ==
  \A k \in DOMAIN breqs :
    /\ breqs[k].id # 0 /\ breqs[k].done <= 1 /\ breqs[k].told <= breqs[k].done /\ ~breqs[k].late
    /\ breply.k = k /\ k = Len(breqs) /\ breply.status = "COMPLETE" /\ breqs[k].code = "READ"
         => ReadWhole(breqs[k])

\* Every byte of the boot file is in the image, and so no byte is there twice.
BootImageWhole == \A j \in DOMAIN bimage : \E i \in DOMAIN bimage : bimage[i] = j

(* A request that GDROM_CHECK_COMMAND reports as complete was carried out  *)
(* exactly once, with the parameters it was sent with, in the memory of    *)
(* the game that sent it, and is reported once; a read that is reported    *)
(* has left each frame of its range at its place and nothing else (with a  *)
(* frame that cannot be read a CHECK fails instead); no request has id 0,  *)
(* which means refused (bios_gdrom_send_cmd, bios_gdrom_mainloop).  The boot *)
(* file that starts the game reaches memory with no byte lost or doubled,  *)
(* scrambled or not, whatever its size (descramble).                       *)
BiosExact == RequestsExact /\ BootImageWhole

=============================================================================
