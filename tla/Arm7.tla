--------------------------------- MODULE Arm7 ---------------------------------
(***************************************************************************)
(* The sound processor: the ARMv3 instructions as armv3_fallback.c         *)
(* executes them (the translator emits nothing but calls of these), and    *)
(* the register banks and the interrupt of guest/arm7/arm7.c.              *)
(*                                                                         *)
(* A register is a word; a status register is one too, with the mode in    *)
(* its low bits, then F, and the flags V, C, Z and N at its top.  (I is    *)
(* left out: the code sets and saves it and never asks for it.)  The modes *)
(* keep the order of their encodings.  Only the registers of ARegs exist.  *)
(***************************************************************************)
EXTENDS Words, Sequences, SequencesExt

CONSTANTS ARegs,      \* the registers, a subset of 0 .. 15 with 13, 14 and 15
          ABase       \* the address of the first instruction of a program

ASSUME ARegsAssumption == {13, 14, 15} \subseteq ARegs /\ ARegs \subseteq 0 .. 15

USR == 0
FIQ == 1
IRQ == 2
SVC == 3
ABT == 4
UND == 5
SYS == 6
AModes == USR .. SYS

FMask == 8
VBitA == 2 ^ (WordBits - 4)
CBitA == 2 ^ (WordBits - 3)
ZBitA == 2 ^ (WordBits - 2)
NBitA == 2 ^ (WordBits - 1)
Mode(sr) == sr % 8
WithMode(sr, m) == sr - Mode(sr) + m
PsrBit(sr, b) == (sr \div b) % 2
MakeCpsr(sr, n, z, c, v) == (sr % VBitA) + n * NBitA + z * ZBitA + c * CBitA + v * VBitA

(* Which registers a mode has for itself, and whether it has an SPSR.      *)
Banked(m) == ARegs \cap (CASE m \in {USR, SYS} -> {} [] m = FIQ -> 8 .. 14 [] OTHER -> {13, 14})
HasSpsr(m) == m \notin {USR, SYS}

----------------------------------------------------------------------------
(* Modes and the interrupt (arm7.c).                                       *)

(* Mutant: the user's registers are not saved in the new mode's bank.      *)
SwapRegistersUnsaved(c, old, new) ==
  IF old = new THEN c
  ELSE [c EXCEPT !.r = [n \in ARegs |-> c.bank[old][n]], !.bank[old] = c.r,
                 !.spsr = IF HasSpsr(new) THEN c.bspsr[new] ELSE @]

(* What was saved for the user when the old mode was entered becomes       *)
(* active and is saved in the new mode's bank.                             *)
SwapRegisters(c, old, new) ==
  LET user(n) == IF n \in Banked(old) THEN c.bank[old][n] ELSE c.r[n]
      saved == IF HasSpsr(old) THEN [c.bspsr EXCEPT ![old] = c.spsr] ELSE c.bspsr
  IN  IF old = new THEN c
      ELSE [c EXCEPT !.bspsr = saved,
                     !.r = [n \in ARegs |-> user(n)],
                     !.bank = [m \in AModes |-> [n \in ARegs |->
                                 CASE m = new /\ n \in Banked(new) -> user(n)
                                   [] m = old /\ n \in Banked(old) -> c.r[n]
                                   [] OTHER -> @[m][n]]],
                     !.spsr = IF HasSpsr(new) THEN saved[new] ELSE @]

UpdatePending(c) == [c EXCEPT !.pending = c.requested /\ PsrBit(c.cpsr, FMask) = 0]

SwitchMode(c, sr) ==
  LET s == SwapRegisters(c, Mode(c.cpsr), Mode(sr))
  IN  UpdatePending([s EXCEPT !.spsr = c.cpsr, !.cpsr = sr])

RestoreMode(c) ==
  LET s == SwapRegisters(c, Mode(c.cpsr), Mode(c.spsr))
  IN  UpdatePending([s EXCEPT !.cpsr = s.spsr])

CheckInterrupts(c) ==
  IF ~c.pending THEN c
  ELSE LET sr == WithMode(c.cpsr, FIQ) | FMask
           s == SwitchMode([c EXCEPT !.requested = FALSE], sr)
       IN  [s EXCEPT !.r[14] = Wrap(s.r[15] + 4), !.r[15] = 28]

RaiseInterrupt(c) == UpdatePending([c EXCEPT !.requested = TRUE])

(* arm7_reset clears the context, but not the request.                     *)
ResetContext(c) ==
  LET stack(m) == CASE m = IRQ -> 122 [] m = SVC -> 126 [] OTHER -> 0
  IN  [c EXCEPT !.r = [n \in ARegs |-> IF n = 13 THEN 112 ELSE 0],
                !.bank = [m \in AModes |-> [n \in ARegs |-> IF n = 13 THEN stack(m) ELSE 0]],
                !.spsr = 0, !.bspsr = [m \in AModes |-> 0], !.pending = FALSE, !.cpsr = SYS + FMask]

----------------------------------------------------------------------------
(* Operands.                                                               *)

ACond(sr, cond) ==
  LET n == PsrBit(sr, NBitA)
      z == PsrBit(sr, ZBitA)
      c == PsrBit(sr, CBitA)
      v == PsrBit(sr, VBitA)
  IN  CASE cond = "EQ" -> z = 1 [] cond = "NE" -> z = 0
        [] cond = "CS" -> c = 1 [] cond = "CC" -> c = 0
        [] cond = "MI" -> n = 1 [] cond = "PL" -> n = 0
        [] cond = "VS" -> v = 1 [] cond = "VC" -> v = 0
        [] cond = "HI" -> c = 1 /\ z = 0 [] cond = "LS" -> c = 0 \/ z = 1
        [] cond = "GE" -> n = v [] cond = "LT" -> n # v
        [] cond = "GT" -> z = 0 /\ n = v [] cond = "LE" -> z = 1 \/ n # v
        [] cond = "AL" -> TRUE
        [] cond = "NV" -> FALSE

(* The shifts work on words of twice the width, and the host takes a count *)
(* modulo that width.                                                      *)
ShiftLsl(in, n) ==
  LET t == in * 2 ^ (n % (2 * WordBits)) IN [out |-> Wrap(t), carry |-> (t \div Modulus) % 2]
ShiftLsr(in, n) ==
  [out |-> in \div 2 ^ (n % (2 * WordBits)), carry |-> (in \div 2 ^ ((n - 1) % (2 * WordBits))) % 2]
ShiftAsr(in, n) ==
  [out |-> Wrap(Signed(in) \div 2 ^ (n % (2 * WordBits))), carry |-> (Signed(in) \div 2 ^ ((n - 1) % (2 * WordBits))) % 2]
ShiftRor(in, n) ==
  LET k == n % WordBits
      out == Wrap(in * 2 ^ (WordBits - k)) | (in \div 2 ^ k)
  IN  [out |-> out, carry |-> Msb(out)]

(* An immediate count of zero has a meaning of its own for each shift.     *)
ADisasmShift(sh) ==
  IF sh.reg \/ sh.n # 0 \/ sh.type = "LSL" THEN sh
  ELSE IF sh.type = "ROR" THEN [sh EXCEPT !.type = "RRX", !.n = 1]
  ELSE [sh EXCEPT !.n = WordBits]

AShift(c, sh, in) ==
  LET n == IF sh.reg THEN c.r[sh.n] ELSE sh.n
      res(x) == [out |-> x.out, carry |-> x.carry, fatal |-> FALSE]
      same == [out |-> in, carry |-> PsrBit(c.cpsr, CBitA)]
  IN  CASE n = 0 -> res(same)
        [] n # 0 /\ sh.type = "LSL" -> res(ShiftLsl(in, n))
        [] n # 0 /\ sh.type = "LSR" -> res(ShiftLsr(in, n))
        [] n # 0 /\ sh.type = "ASR" -> res(ShiftAsr(in, n))
        [] n # 0 /\ sh.type = "ROR" -> res(ShiftRor(in, n))
        [] OTHER -> [res(same) EXCEPT !.fatal = TRUE]

(* The prefetched pc: 8 ahead, or 12 if a register gives the shift count.  *)
AParseShift(c, addr, rm, shift) ==
  LET sh == ADisasmShift(shift)
  IN  AShift(c, sh, IF rm # 15 THEN c.r[rm] ELSE Wrap(addr + (IF sh.reg THEN 12 ELSE 8)))
LoadRn(c, addr, n) == IF n = 15 THEN Wrap(addr + 8) ELSE c.r[n]
LoadRd(c, addr, n) == IF n = 15 THEN Wrap(addr + 12) ELSE c.r[n]

(* A second operand is an immediate rotated right or a shifted register.   *)
AOp2(c, addr, i) ==
  IF i.imm THEN IF i.rot # 0 THEN LET x == ShiftRor(i.val, 2 * i.rot) IN [out |-> x.out, carry |-> x.carry, fatal |-> FALSE]
                ELSE [out |-> i.val, carry |-> PsrBit(c.cpsr, CBitA), fatal |-> FALSE]
  ELSE AParseShift(c, addr, i.rm, i.shift)

----------------------------------------------------------------------------
(* Instructions.                                                           *)

ABranch(c, i, addr) ==
  LET l == IF i.op = "BL" THEN [c EXCEPT !.r[14] = Wrap(addr + 4)] ELSE c
  IN  [l EXCEPT !.r[15] = Wrap(addr + 8 + 4 * i.val)]

FlagsLogical(sr, res, carry) == MakeCpsr(sr, Msb(res), Bool(res = 0), carry, 0)
FlagsSub(sr, lhs, rhs, res) ==
  MakeCpsr(sr, Msb(res), Bool(res = 0), 1 - Msb((NotWord(lhs) & rhs) | ((NotWord(lhs) | rhs) & res)),
           Msb((lhs ^^ rhs) & (res ^^ lhs)))
FlagsAdd(sr, lhs, rhs, res) ==
  MakeCpsr(sr, Msb(res), Bool(res = 0), CarryOf(lhs, rhs, res), Msb((res ^^ lhs) & (res ^^ rhs)))

ASubs == {"SUB", "RSB", "SBC", "RSC", "CMP"}
AAdds == {"ADD", "ADC", "CMN"}
ALogical == {"AND", "EOR", "TST", "TEQ", "ORR", "MOV", "BIC", "MVN"}
ATests == {"TST", "TEQ", "CMP", "CMN"}

AResult(op, lhs, rhs, cin) ==
  CASE op \in {"AND", "TST"} -> lhs & rhs
    [] op \in {"EOR", "TEQ"} -> lhs ^^ rhs
    [] op \in {"SUB", "RSB", "CMP"} -> Wrap(lhs - rhs)
    [] op \in {"ADD", "CMN"} -> Wrap(lhs + rhs)
    [] op = "ADC" -> Wrap(lhs + rhs + cin)
    [] op \in {"SBC", "RSC"} -> Wrap(lhs - rhs + cin - 1)
    [] op = "ORR" -> lhs | rhs
    [] op = "MOV" -> rhs
    [] op = "BIC" -> lhs & NotWord(rhs)
    [] op = "MVN" -> NotWord(rhs)

AFlags(sr, op, lhs, rhs, res, carry) ==
  CASE op \in ALogical -> FlagsLogical(sr, res, carry)
    [] op \in ASubs -> FlagsSub(sr, lhs, rhs, res)
    [] op \in AAdds -> FlagsAdd(sr, lhs, rhs, res)

(* The result and the flags are written, then the mode is restored if the  *)
(* instruction returns from an exception.                                  *)
AWriteResult(c, i, addr, res, sr) ==
  LET p == [c EXCEPT !.r[15] = Wrap(addr + 4), !.cpsr = IF i.s THEN sr ELSE @]
      d == IF i.op \in ATests THEN p ELSE [p EXCEPT !.r[i.rd] = res]
  IN  IF i.s /\ i.rd = 15 THEN RestoreMode(d) ELSE d
ACompute(c, i, addr, lhs, rhs, carry) ==
  LET res == AResult(i.op, lhs, rhs, PsrBit(c.cpsr, CBitA))
  IN  AWriteResult(c, i, addr, res, AFlags(c.cpsr, i.op, lhs, rhs, res, carry))
AOperate(c, i, addr, rn, op2) ==
  IF op2.fatal THEN [c EXCEPT !.fatal = TRUE]
  ELSE IF i.op \in {"RSB", "RSC"} THEN ACompute(c, i, addr, op2.out, rn, op2.carry)
  ELSE ACompute(c, i, addr, rn, op2.out, op2.carry)
AData(c, i, addr) == AOperate(c, i, addr, LoadRn(c, addr, i.rn), AOp2(c, addr, i))

(* MSR to CPSR goes through the mode switch, which also saves the old one. *)
APsr(c, i, addr) ==
  LET new == IF i.imm THEN ShiftRor(i.val, 2 * i.rot).out ELSE c.r[i.rm]
      flags(old) == (new - (new % VBitA)) + (old % VBitA)
      spsr == IF i.all THEN new ELSE flags(c.spsr)
      cpsr == IF i.all /\ Mode(c.cpsr) # USR THEN new ELSE flags(c.cpsr)
      m == CASE i.op = "MRS" -> [c EXCEPT !.r[i.rd] = IF i.spsr THEN c.spsr ELSE c.cpsr]
             [] i.op = "MSR" /\ i.spsr -> IF Mode(c.cpsr) \in USR + 1 .. SYS - 1 THEN [c EXCEPT !.spsr = spsr] ELSE c
             [] i.op = "MSR" /\ ~i.spsr -> SwitchMode(c, cpsr)
  IN  [m EXCEPT !.r[15] = Wrap(addr + 4)]

AMul(c, i, addr) ==
  LET res == Wrap(c.r[i.rm] * c.r[i.rs] + (IF i.op = "MLA" THEN c.r[i.rn] ELSE 0))
      sr == (c.cpsr % ZBitA) + Msb(res) * NBitA + Bool(res = 0) * ZBitA
  IN  [c EXCEPT !.r[15] = Wrap(addr + 4), !.r[i.rd] = res, !.cpsr = IF i.s THEN sr ELSE @]

(* The base is written back before memory is accessed.                     *)
AAccess(c, i, addr, base, off) ==
  LET final == Wrap(IF i.u THEN base + off.out ELSE base - off.out)
      ea == IF i.p THEN final ELSE base
      w == IF i.w \/ ~i.p THEN [c EXCEPT !.r[i.rn] = final] ELSE c
      size == IF i.b THEN 1 ELSE 4
  IN  CASE off.fatal -> [c EXCEPT !.fatal = TRUE]
        [] ~off.fatal /\ i.op = "LDR" -> [w EXCEPT !.r[15] = Wrap(addr + 4), !.r[i.rd] = LoadZ(w, ea, size)]
        [] ~off.fatal /\ i.op = "STR" -> [StoreMem(w, ea, size, LoadRd(w, addr, i.rd)) EXCEPT !.r[15] = Wrap(addr + 4)]
AMemop(c, i, addr) ==
  AAccess(c, i, addr, LoadRn(c, addr, i.rn),
          IF i.imm THEN [out |-> i.val, fatal |-> FALSE] ELSE AParseShift(c, addr, i.rm, i.shift))

(* The transfer order: upwards from the lowest register or downwards from  *)
(* the highest.  A transfer of the user bank indexes the registers with    *)
(* the value of the user's register instead of its number; that is out of  *)
(* the array for most values, and is only marked here.                     *)
AOrder(i) == SetToSortSeq(i.list, LAMBDA a, b : IF i.u THEN a < b ELSE a > b)
AStep(i, ea) == Wrap(IF i.u THEN ea + 4 ELSE ea - 4)

ALdm(c, i, addr) ==
  LET base == LoadRn(c, addr, i.rn)
      final == Wrap(IF i.u THEN base + 4 * Len(AOrder(i)) ELSE base - 4 * Len(AOrder(i)))
      w == [(IF i.w THEN [c EXCEPT !.r[i.rn] = final] ELSE c) EXCEPT !.r[15] = Wrap(addr + 4)]
      load(a, n) == LET ea == IF i.p THEN AStep(i, a.ea) ELSE a.ea
                    IN  [ctx |-> [a.ctx EXCEPT !.r[n] = LoadZ(a.ctx, ea, 4)], ea |-> IF i.p THEN ea ELSE AStep(i, ea)]
      l == FoldLeft(load, [ctx |-> w, ea |-> base], AOrder(i)).ctx
  IN  CASE i.s /\ 15 \notin i.list -> [c EXCEPT !.wild = TRUE]
        [] i.s /\ 15 \in i.list -> RestoreMode(l)
        [] OTHER -> l

(* The base is written back after the first register was stored.           *)
AStm(c, i, addr) ==
  LET base == LoadRn(c, addr, i.rn)
      final == Wrap(IF i.u THEN base + 4 * Len(AOrder(i)) ELSE base - 4 * Len(AOrder(i)))
      store(a, n) == LET ea == IF i.p THEN AStep(i, a.ea) ELSE a.ea
                         s == StoreMem(a.ctx, ea, 4, LoadRd(a.ctx, addr, n))
                     IN  [ctx |-> IF i.w /\ ~a.wrote THEN [s EXCEPT !.r[i.rn] = final] ELSE s,
                          ea |-> IF i.p THEN ea ELSE AStep(i, ea), wrote |-> TRUE]
      s == FoldLeft(store, [ctx |-> c, ea |-> base, wrote |-> FALSE], AOrder(i)).ctx
  IN  IF i.s THEN [c EXCEPT !.wild = TRUE] ELSE [s EXCEPT !.r[15] = Wrap(addr + 4)]

ASwp(c, i, addr) ==
  LET size == IF i.b THEN 1 ELSE 4
      s == StoreMem(c, c.r[i.rn], size, c.r[i.rm])
  IN  [s EXCEPT !.r[15] = Wrap(addr + 4), !.r[i.rd] = LoadZ(c, c.r[i.rn], size)]

ASwi(c, i, addr) == [SwitchMode(c, WithMode(c.cpsr, SVC)) EXCEPT !.r[14] = Wrap(addr + 4), !.r[15] = 8]

AExec(c, i, addr) ==
  IF i.op = "INVALID" THEN c
  ELSE IF ~ACond(c.cpsr, i.cond) THEN [c EXCEPT !.r[15] = Wrap(addr + 4)]
  ELSE CASE i.op \in {"B", "BL"} -> ABranch(c, i, addr)
         [] i.op \in ASubs \cup AAdds \cup ALogical -> AData(c, i, addr)
         [] i.op \in {"MRS", "MSR"} -> APsr(c, i, addr)
         [] i.op \in {"MUL", "MLA"} -> AMul(c, i, addr)
         [] i.op \in {"LDR", "STR"} -> AMemop(c, i, addr)
         [] i.op = "LDM" -> ALdm(c, i, addr)
         [] i.op = "STM" -> AStm(c, i, addr)
         [] i.op = "SWP" -> ASwp(c, i, addr)
         [] i.op = "SWI" -> ASwi(c, i, addr)

(* A block ends with the first instruction that may set the pc or PSR.     *)
AEndsBlock(i) ==
  \/ i.op \in {"INVALID", "B", "BL", "MRS", "MSR", "SWI"}
  \/ i.op \in ASubs \cup AAdds \cup ALogical \cup {"LDR", "STR"} /\ i.rd = 15
  \/ i.op \in {"LDM", "STM"} /\ 15 \in i.list
AAnalyze(prog) == CHOOSE k \in 1 .. Len(prog) :
  (AEndsBlock(prog[k]) \/ k = Len(prog)) /\ \A j \in 1 .. k - 1 : ~AEndsBlock(prog[j])

(* LOG_FATAL aborts; what a wild access does is not followed further.      *)
ADead(c) == c.fatal \/ c.wild

(* A block calls the fallback of each instruction, with its own address.   *)
ARunBlock(c, prog) ==
  FoldLeft(LAMBDA d, k : IF ADead(d) THEN d ELSE AExec(d, prog[k], ABase + 4 * (k - 1)), c, [k \in 1 .. AAnalyze(prog) |-> k])

----------------------------------------------------------------------------
(* The arithmetic an instruction stands for.                               *)

BitOf(v, k) == IF k \in 0 .. WordBits - 1 THEN (v \div 2 ^ k) % 2 ELSE 0
AShifted(c, i) ==
  LET in == c.r[i.rm]
      sh == ADisasmShift(i.shift)
      n == IF sh.reg THEN c.r[sh.n] ELSE sh.n
      sign(k) == IF k >= WordBits THEN Msb(in) ELSE BitOf(in, k)
      word(bit(_)) == MapThenSumSet(LAMBDA k : bit(k) * 2 ^ k, 0 .. WordBits - 1)
  IN  CASE n = 0 -> [out |-> in, carry |-> PsrBit(c.cpsr, CBitA)]
        [] n > 0 /\ sh.type = "LSL" -> [out |-> word(LAMBDA k : BitOf(in, k - n)), carry |-> BitOf(in, WordBits - n)]
        [] n > 0 /\ sh.type = "LSR" -> [out |-> word(LAMBDA k : BitOf(in, k + n)), carry |-> BitOf(in, n - 1)]
        [] n > 0 /\ sh.type = "ASR" -> [out |-> word(LAMBDA k : sign(k + n)), carry |-> sign(n - 1)]
        [] n > 0 /\ sh.type = "ROR" -> [out |-> word(LAMBDA k : BitOf(in, (k + n) % WordBits)),
                                        carry |-> BitOf(in, (n - 1) % WordBits)]

AFits(x) == x \in -(Modulus \div 2) .. Modulus \div 2 - 1
AExpectedOf(c, i, b) ==
  LET n == c.r[i.rn]
      cin == PsrBit(c.cpsr, CBitA)
      nat(x, y, k) == [res |-> Wrap(x + y + k), carry |-> (x + y + k) \div Modulus, v |-> Bool(~AFits(Signed(x) + Signed(y) + k))]
      sub(x, y, k) == [res |-> Wrap(x - y - k), carry |-> Bool(x >= y + k), v |-> Bool(~AFits(Signed(x) - Signed(y) - k))]
      log(r) == [res |-> r, carry |-> b.carry, v |-> 0]
  IN  CASE i.op \in {"SUB", "CMP"} -> sub(n, b.out, 0)
        [] i.op = "RSB" -> sub(b.out, n, 0)
        [] i.op = "SBC" -> sub(n, b.out, 1 - cin)
        [] i.op = "RSC" -> sub(b.out, n, 1 - cin)
        [] i.op \in {"ADD", "CMN"} -> nat(n, b.out, 0)
        [] i.op = "ADC" -> nat(n, b.out, cin)
        [] i.op = "MOV" -> log(b.out)
        [] i.op = "MVN" -> log(Modulus - 1 - b.out)
        [] i.op = "BIC" -> log(n - (n & b.out))
AExpected(c, i) == AExpectedOf(c, i, AShifted(c, i))

(* What each condition asks after CMP a, b.                                *)
ACompared(cond, a, b) ==
  CASE cond = "EQ" -> a = b [] cond = "NE" -> a # b
    [] cond = "CS" -> a >= b [] cond = "CC" -> a < b
    [] cond = "HI" -> a > b [] cond = "LS" -> a <= b
    [] cond = "GE" -> Signed(a) >= Signed(b) [] cond = "LT" -> Signed(a) < Signed(b)
    [] cond = "GT" -> Signed(a) > Signed(b) [] cond = "LE" -> Signed(a) <= Signed(b)

(* The banks of the architecture; nested once an exception interrupted     *)
(* another.                                                                *)
AOwner(m, n) == IF n \in Banked(m) THEN m ELSE USR
AArchOf(c) == [bank |-> [c.bank EXCEPT ![USR] = [n \in ARegs |-> c.r[n]]], nested |-> FALSE]
AArchPut(a, m, n, v) == [a EXCEPT !.bank[AOwner(m, n)][n] = v]
AArchEnter(a, m, sr, lr) ==
  AArchPut([a EXCEPT !.nested = @ \/ HasSpsr(Mode(sr))], m, 14, lr)

----------------------------------------------------------------------------
CONSTANTS AStarts,    \* the initial states [unit, prog, ctx] to explore
          AWalkLen    \* bound on the length of a walk

VARIABLES aUnit, aProg, aCtx, aStart, aArch, aLen
aVars == <<aUnit, aProg, aCtx, aStart, aArch, aLen>>

AStartAt(s) ==
  /\ aUnit = s.unit /\ aProg = s.prog /\ aCtx = s.ctx /\ aStart = s.ctx /\ aLen = 0
  /\ aArch = AArchOf(s.ctx)
AInit == \E s \in AStarts : AStartAt(s)

AHalted == aLen = AAnalyze(aProg) \/ (aCtx.r[15] - ABase) \div 4 \notin 0 .. Len(aProg) - 1 \/ ADead(aCtx)

(* The instruction at the pc.                                              *)
AExecute ==
  /\ aUnit # "walk" /\ ~AHalted
  /\ aCtx' = AExec(aCtx, aProg[(aCtx.r[15] - ABase) \div 4 + 1], aCtx.r[15])
  /\ aLen' = aLen + 1
  /\ UNCHANGED <<aUnit, aProg, aStart, aArch>>

(* A walk: the AICA requests the interrupt, the dispatch loop takes it, and *)
(* whatever runs writes registers, calls the supervisor or returns.        *)
AWalking == aUnit = "walk" /\ aLen < AWalkLen
AWalkTo(c, arch) ==
  /\ aCtx' = c /\ aArch' = arch /\ aLen' = aLen + 1
  /\ UNCHANGED <<aUnit, aProg, aStart>>

ARaise == AWalking /\ ~aCtx.requested /\ AWalkTo(RaiseInterrupt(aCtx), aArch)
ATake ==
  /\ AWalking /\ aCtx.pending
  /\ AWalkTo(CheckInterrupts(aCtx), AArchEnter(aArch, FIQ, aCtx.cpsr, Wrap(aCtx.r[15] + 4)))
AMove(n) ==
  LET i == [op |-> "MOV", cond |-> "AL", imm |-> TRUE, rot |-> 0, val |-> 100 + n + aLen, rd |-> n, rn |-> 0, s |-> FALSE]
  IN  AWalking /\ AWalkTo(AExec(aCtx, i, ABase), AArchPut(aArch, Mode(aCtx.cpsr), n, 100 + n + aLen))
ACall ==
  /\ AWalking
  /\ AWalkTo(AExec(aCtx, [op |-> "SWI", cond |-> "AL"], ABase), AArchEnter(aArch, SVC, aCtx.cpsr, Wrap(ABase + 4)))
(* MOVS pc, lr                                                             *)
AReturn ==
  LET i == [op |-> "MOV", cond |-> "AL", imm |-> FALSE, rd |-> 15, rn |-> 0, rm |-> 14, s |-> TRUE,
            shift |-> [reg |-> FALSE, type |-> "LSL", n |-> 0]]
  IN  AWalking /\ HasSpsr(Mode(aCtx.cpsr)) /\ AWalkTo(AExec(aCtx, i, ABase), aArch)

AReset ==
  /\ AWalking
  /\ aCtx' = ResetContext(aCtx) /\ aStart' = aCtx' /\ aArch' = AArchOf(aCtx') /\ aLen' = aLen + 1
  /\ UNCHANGED <<aUnit, aProg>>

ANext == AExecute \/ AReset \/ ARaise \/ ATake \/ (\E n \in ARegs \ {15} : AMove(n)) \/ ACall \/ AReturn

----------------------------------------------------------------------------
(* The flags and shifts that armv3_fallback.c derives by logical           *)
(* operations (66-110, 272-304) are those of the arithmetic, at each       *)
(* boundary value and for counts below two words, and after a comparison   *)
(* each of the ten ordering conditions (23-64) holds exactly when its      *)
(* relation does.                                                          *)
ArmFlagsExact ==
  LET i == aProg[1]
      e == AExpected(aStart, i)
  IN  aUnit = "single" /\ AHalted =>
        /\ aCtx.cpsr = MakeCpsr(aStart.cpsr, Msb(e.res), Bool(e.res = 0), e.carry, e.v)
        /\ i.op \notin ATests => aCtx.r[i.rd] = e.res
        /\ i.op = "CMP" =>
             \A cond \in {"EQ", "NE", "CS", "CC", "HI", "LS", "GE", "LT", "GT", "LE"} :
               ACond(aCtx.cpsr, cond) = ACompared(cond, aStart.r[i.rn], AShifted(aStart, i).out)

(* Running the instructions of a block one after the other, as the         *)
(* translated code does, is running them by the pc: armv3_frontend ends    *)
(* the block with every instruction that may set the pc, be it a branch, a *)
(* move, a load, or a load of several registers.                           *)
ArmBlocksAgree ==
  aUnit = "block" /\ AHalted => aCtx = ARunBlock(aStart, aProg)

(* Registers pushed by STM with write-back and popped by the LDM of the    *)
(* opposite direction are what they were, the base too, for all four       *)
(* addressing modes.                                                       *)
ArmStackIdentity ==
  aUnit = "stack" /\ AHalted => [aCtx EXCEPT !.mem = <<>>, !.r[15] = 0] = [aStart EXCEPT !.mem = <<>>, !.r[15] = 0]

(* Unless exceptions nest, the interrupted program keeps its registers,    *)
(* whatever a handler writes, and gets back its status register with its   *)
(* mode; and a request is pending exactly when F allows it.                *)
ArmProgramKept ==
  LET m == Mode(aCtx.cpsr)
      user(n) == IF n \in Banked(m) THEN aCtx.bank[m][n] ELSE aCtx.r[n]
  IN  aUnit = "walk" /\ ~aArch.nested =>
        /\ \A n \in ARegs \ {15} : user(n) = aArch.bank[USR][n]
        /\ m \in {USR, SYS} => aCtx.cpsr = aStart.cpsr
        /\ aCtx.pending = (aCtx.requested /\ PsrBit(aCtx.cpsr, FMask) = 0)

(* The flags, shifts and transfers of several registers are those of the   *)
(* architecture (armv3_fallback.c 66-293, 654-755), in whatever blocks the *)
(* code is translated, and a program is none the wiser for any sequence of *)
(* interrupts, supervisor calls and returns in between (arm7.c 39-122).    *)
ArmExact == ArmFlagsExact /\ ArmStackIdentity /\ ArmBlocksAgree /\ ArmProgramKept

(* The comment in arm7_swap_registers: "load the new mode's bank into the  *)
(* active registers".                                                      *)
ArmBankLoaded ==
  LET m == Mode(aCtx.cpsr)
  IN  aUnit = "walk" /\ ~aArch.nested => \A n \in Banked(m) : aCtx.r[n] = aArch.bank[m][n]
==============================================================================
