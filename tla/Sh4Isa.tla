-------------------------------- MODULE Sh4Isa --------------------------------
(***************************************************************************)
(* The SH4 instruction set as redream executes it.  sh4_instr.h describes  *)
(* each instruction once, in macros, and is compiled twice: into handlers  *)
(* that the interpreter calls (sh4_fallback.c) and into a translation to   *)
(* the intermediate language (sh4_translate.c).  Each operator Sh4<Family> *)
(* below gives the context that one family of instructions leaves; the two *)
(* engines around them are SInterp and STranslated.                        *)
(*                                                                         *)
(* An instruction is a record: op, the registers n and m, the immediate or *)
(* displacement d, the operand width w in bytes for the moves that exist   *)
(* in three sizes, and x, the system register of a LDC, LDS, STC or STS.   *)
(* Registers are words of WordBits bits, with SrNum general registers of   *)
(* which the first SrBanked are banked.  The memory behind the r8, r16     *)
(* and r32 callbacks is a small array of bytes that repeats.               *)
(***************************************************************************)
EXTENDS Words, Sequences, FiniteSets, SequencesExt

CONSTANTS SrNum,      \* general registers (16 in the code)
          SrBanked,   \* of which these are banked (8 in the code)
          SBase       \* the address of the first instruction of a program

(* Bits of SR and FPSCR.  The interrupt level is in Intc.                  *)
TBit == 1
SBit == 2
QBit == 8
MBit == 16
BLBit == 32
RBBit == 64
MDBit == 128
SRMask == MDBit + RBBit + BLBit + MBit + QBit + SBit + TBit
PRBit == 1
SZBit == 2
FRBit == 4
RMBit == 8
FPSCRMask == PRBit + SZBit + FRBit + RMBit
Has(v, bit) == (v \div bit) % 2 = 1

----------------------------------------------------------------------------
(* The context.                                                            *)

SwapGprBank(c) == [c EXCEPT !.r = [k \in DOMAIN @ |-> IF k < SrBanked THEN c.ralt[k] ELSE @[k]],
                            !.ralt = [k \in DOMAIN @ |-> c.r[k]]]
SwapFprBank(c) == [c EXCEPT !.fr = c.xf, !.xf = c.fr]

(* sr_qm keeps in its sign bit whether Q equals M.                         *)
ImplodeSr(c) ==
  LET q == Bool(Msb(c.qm) = c.m)
  IN  [c EXCEPT !.sr = (@ & (SRMask - MBit - QBit - SBit - TBit))
                         + c.m * MBit + q * QBit + c.s * SBit + c.t * TBit]
ExplodeSr(c) ==
  LET bit(b) == (c.sr \div b) % 2
  IN  [c EXCEPT !.t = bit(TBit), !.s = bit(SBit), !.m = bit(MBit),
                !.qm = Bool(bit(QBit) = bit(MBit)) * (Modulus \div 2)]

SrUpdated4(c, old) == IF Has(c.sr, RBBit) # Has(old, RBBit) THEN SwapGprBank(c) ELSE c
FpscrUpdated(c, old) == IF Has(c.fpscr, FRBit) # Has(old, FRBit) THEN SwapFprBank(c) ELSE c

(* Mutant: the bank is not exchanged.                                      *)
StoreSrUnswapped(c, v) == ExplodeSr([ImplodeSr(c) EXCEPT !.sr = v & SRMask])

StoreSr(c, v) ==
  LET o == ImplodeSr(c) IN SrUpdated4(ExplodeSr([o EXCEPT !.sr = v & SRMask]), o.sr)
StoreFpscr(c, v) == FpscrUpdated([c EXCEPT !.fpscr = v & FPSCRMask], c.fpscr)

(* An exception saves the context and enters the handler in bank 1.        *)
Exception(c, offset) ==
  LET o == ImplodeSr(c)
      e == [o EXCEPT !.spc = o.pc, !.ssr = o.sr, !.sgr = o.r[SrNum - 1],
                     !.sr = @ | (BLBit + MDBit + RBBit), !.pc = Wrap(o.vbr + offset)]
  IN  SrUpdated4(e, o.sr)

R(c, n) == c.r[n]
SetR(c, n, v) == [c EXCEPT !.r[n] = v]
SetT(c, v) == [c EXCEPT !.t = v]

----------------------------------------------------------------------------
(* Moves.  addr is the address of the instruction itself.                  *)

Sh4MovPcr(c, i, addr) ==
  CASE i.op = "MOVI" -> SetR(c, i.n, Sext(i.d, ByteBits))
    [] i.op = "MOVL_PCR" ->
         LET ea == Wrap(i.d * i.w + (IF i.w = 4 THEN addr - (addr % 4) ELSE addr) + 4)
         IN  SetR(c, i.n, LoadS(c, ea, i.w))
    [] i.op = "MOV" -> SetR(c, i.n, R(c, i.m))

Sh4MovInd(c, i) ==
  CASE i.op = "MOVS_IND" -> StoreMem(c, R(c, i.n), i.w, R(c, i.m))
    [] i.op = "MOVL_IND" -> SetR(c, i.n, LoadS(c, R(c, i.m), i.w))

Sh4MovDec(c, i) ==
  LET v == R(c, i.m)
      ea == Wrap(R(c, i.n) - i.w)
  IN  StoreMem(SetR(c, i.n, ea), ea, i.w, v)

Sh4MovInc(c, i) ==
  LET ea == R(c, i.m)
      l == SetR(c, i.n, LoadS(c, ea, i.w))
  IN  IF i.m # i.n THEN SetR(l, i.m, Wrap(ea + i.w)) ELSE l

(* The byte and half word forms use R0 and encode their base in m.         *)
Sh4MovOff(c, i) ==
  LET base == IF i.op = "MOVS_OFF" /\ i.w = 4 THEN i.n ELSE i.m
      ea == Wrap(R(c, base) + i.d * i.w)
  IN  CASE i.op = "MOVS_OFF" -> StoreMem(c, ea, i.w, R(c, IF i.w = 4 THEN i.m ELSE 0))
        [] i.op = "MOVL_OFF" -> SetR(c, IF i.w = 4 THEN i.n ELSE 0, LoadS(c, ea, i.w))

Sh4MovIdx(c, i) ==
  CASE i.op = "MOVS_IDX" -> StoreMem(c, Wrap(R(c, 0) + R(c, i.n)), i.w, R(c, i.m))
    [] i.op = "MOVL_IDX" -> SetR(c, i.n, LoadS(c, Wrap(R(c, 0) + R(c, i.m)), i.w))

Sh4MovGbr(c, i) ==
  LET ea == Wrap(c.gbr + i.d * i.w)
  IN  CASE i.op = "MOVS_GBR" -> StoreMem(c, ea, i.w, R(c, 0))
        [] i.op = "MOVL_GBR" -> SetR(c, 0, LoadS(c, ea, i.w))

Swapped(v, nbits) ==
  LET tmp == (v ^^ Lshr(v, nbits)) & (2 ^ nbits - 1)
  IN  v ^^ (tmp | Shl(tmp, nbits))

Sh4MovData(c, i, addr) ==
  CASE i.op = "MOVA" -> SetR(c, 0, Wrap(i.d * 4 + (addr - (addr % 4)) + 4))
    [] i.op = "MOVT" -> SetR(c, i.n, c.t)
    [] i.op = "SWAPB" -> SetR(c, i.n, Swapped(R(c, i.m), ByteBits))
    [] i.op = "SWAPW" -> SetR(c, i.n, Swapped(R(c, i.m), HalfBits))
    [] i.op = "XTRCT" -> SetR(c, i.n, Shl(Zext(R(c, i.m), HalfBits), HalfBits)
                                        | Lshr(R(c, i.n), HalfBits))

----------------------------------------------------------------------------
(* Arithmetic and logic.                                                   *)

Sh4Add(c, i) ==
  LET n == R(c, i.n)
      m == IF i.op = "ADDI" THEN Sext(i.d, ByteBits) ELSE R(c, i.m)
      v == Wrap(n + m + (IF i.op = "ADDC" THEN c.t ELSE 0))
      s == SetR(c, i.n, v)
  IN  CASE i.op \in {"ADD", "ADDI"} -> s
        [] i.op = "ADDC" -> SetT(s, CarryOf(n, m, v))
        [] i.op = "ADDV" -> SetT(s, Msb((v ^^ n) & (v ^^ m)))

Sh4Cmp(c, i) ==
  LET n == R(c, i.n)
      m == R(c, i.m)
      diff == n ^^ m
      same(k) == diff & ((2 ^ ByteBits - 1) * 2 ^ (k * ByteBits)) = 0
  IN  SetT(c, Bool(CASE i.op = "CMPEQI" -> R(c, 0) = Sext(i.d, ByteBits)
                     [] i.op = "CMPEQ" -> n = m
                     [] i.op = "CMPHS" -> n >= m
                     [] i.op = "CMPGE" -> Signed(n) >= Signed(m)
                     [] i.op = "CMPHI" -> n > m
                     [] i.op = "CMPGT" -> Signed(n) > Signed(m)
                     [] i.op = "CMPPZ" -> Signed(n) >= 0
                     [] i.op = "CMPPL" -> Signed(n) > 0
                     [] i.op = "CMPSTR" -> \E k \in 0 .. 3 : same(k)))

Sh4Div0(c, i) ==
  LET qnotm == R(c, i.n) ^^ R(c, i.m)
  IN  CASE i.op = "DIV0S" -> [c EXCEPT !.m = Msb(R(c, i.m)), !.qm = NotWord(qnotm), !.t = Msb(qnotm)]
        [] i.op = "DIV0U" -> [c EXCEPT !.m = 0, !.qm = Modulus \div 2, !.t = 0]

(* One step of a division: the divisor is subtracted if Q equals M and     *)
(* added otherwise; the carry of that addition gives the next Q == M.      *)
Sh4Div1(c, i) ==
  LET qm == Ashr(c.qm, WordBits - 1)
      r0 == R(c, i.m) ^^ qm
      rn == Shl(R(c, i.n), 1) | c.t
      rd == Wrap(rn + r0 + Msb(qm))
      out == qm ^^ R(c, i.n)
      next == Select(CarryOf(rn, r0, rd), out, NotWord(out))
  IN  [SetR(c, i.n, rd) EXCEPT !.qm = next, !.t = Msb(next)]

Sh4MulExt(c, i) ==
  LET n == R(c, i.n)
      m == R(c, i.m)
      both(p) == [c EXCEPT !.macl = Wrap(p), !.mach = Wrap(p \div Modulus)]
      low(p) == [c EXCEPT !.macl = Wrap(p)]
      h(v) == Signed(Sext(v, HalfBits))
  IN  CASE i.op = "DMULS" -> both(Signed(n) * Signed(m))
        [] i.op = "DMULU" -> both(n * m)
        [] i.op = "DT" -> SetT(SetR(c, i.n, Wrap(n - 1)), Bool(Wrap(n - 1) = 0))
        [] i.op = "EXTSB" -> SetR(c, i.n, Sext(m, ByteBits))
        [] i.op = "EXTSW" -> SetR(c, i.n, Sext(m, HalfBits))
        [] i.op = "EXTUB" -> SetR(c, i.n, Zext(m, ByteBits))
        [] i.op = "EXTUW" -> SetR(c, i.n, Zext(m, HalfBits))
        [] i.op = "MAC" -> [c EXCEPT !.fatal = TRUE]
        [] i.op = "MULL" -> low(n * m)
        [] i.op = "MULS" -> low(h(n) * h(m))
        [] i.op = "MULU" -> low(Zext(n, HalfBits) * Zext(m, HalfBits))

Sh4Sub(c, i) ==
  LET n == IF i.op \in {"NEG", "NEGC"} THEN 0 ELSE R(c, i.n)
      m == R(c, i.m)
      v == Wrap(n - m - (IF i.op \in {"NEGC", "SUBC"} THEN c.t ELSE 0))
      s == SetR(c, i.n, v)
  IN  CASE i.op \in {"NEG", "SUB"} -> s
        [] i.op = "NEGC" -> SetT(s, Msb(m | v))
        [] i.op = "SUBC" -> SetT(s, Msb((NotWord(n) & m) | ((NotWord(n) | m) & v)))
        [] i.op = "SUBV" -> SetT(s, Msb((n ^^ m) & (v ^^ n)))

(* AND, OR, XOR and TST each have a register form, an immediate form on R0 *)
(* and a byte form on memory at R0 + GBR; f is the plain operation.        *)
LogicOp(f, a, b) ==
  CASE f = "AND" -> a & b [] f = "OR" -> a | b [] f = "XOR" -> a ^^ b

Sh4Logic(c, i) ==
  LET ea == Wrap(R(c, 0) + c.gbr)
  IN  CASE i.op = "LOGIC" -> SetR(c, i.n, LogicOp(i.x, R(c, i.n), R(c, i.m)))
        [] i.op = "LOGICI" -> SetR(c, 0, LogicOp(i.x, R(c, 0), i.d))
        [] i.op = "LOGICB" -> StoreMem(c, ea, 1, LogicOp(i.x, LoadZ(c, ea, 1), i.d))
        [] i.op = "NOT" -> SetR(c, i.n, NotWord(R(c, i.m)))

Sh4Test(c, i) ==
  LET ea == Wrap(R(c, 0) + c.gbr)
      tas == LoadZ(c, R(c, i.n), 1)
  IN  CASE i.op = "TAS" -> SetT(StoreMem(c, R(c, i.n), 1, tas | 2 ^ (ByteBits - 1)), Bool(tas = 0))
        [] i.op = "TST" -> SetT(c, Bool(R(c, i.n) & R(c, i.m) = 0))
        [] i.op = "TSTI" -> SetT(c, Bool(R(c, 0) & i.d = 0))
        [] i.op = "TSTB" -> SetT(c, Bool(LoadZ(c, ea, 1) & i.d = 0))

Sh4Shift(c, i) ==
  LET n == R(c, i.n)
      lsb == n % 2
      top == WordBits - 1
      put(v, t) == SetT(SetR(c, i.n, v), t)
  IN  CASE i.op = "ROTL" -> put(Shl(n, 1) | Msb(n), Msb(n))
        [] i.op = "ROTR" -> put(Shl(lsb, top) | Lshr(n, 1), lsb)
        [] i.op = "ROTCL" -> put(Shl(n, 1) | c.t, Msb(n))
        [] i.op = "ROTCR" -> put(Shl(c.t, top) | Lshr(n, 1), lsb)
        [] i.op = "SHAD" -> SetR(c, i.n, Ashd(n, R(c, i.m)))
        [] i.op \in {"SHAL", "SHLL"} -> put(Shl(n, 1), Msb(n))
        [] i.op = "SHAR" -> put(Ashr(n, 1), lsb)
        [] i.op = "SHLD" -> SetR(c, i.n, Lshd(n, R(c, i.m)))
        [] i.op = "SHLR" -> put(Lshr(n, 1), lsb)
        [] i.op = "SHLLN" -> SetR(c, i.n, Shl(n, i.d))
        [] i.op = "SHLRN" -> SetR(c, i.n, Lshr(n, i.d))

----------------------------------------------------------------------------
(* System registers.                                                       *)

LoadSys(c, i) ==
  CASE i.x = "sr" -> ImplodeSr(c).sr
    [] i.x = "bank" -> c.ralt[i.m % SrBanked]
    [] OTHER -> c[i.x]

StoreSys(c, i, v) ==
  CASE i.x = "sr" -> StoreSr(c, v)
    [] i.x = "fpscr" -> StoreFpscr(c, v)
    [] i.x = "bank" -> [c EXCEPT !.ralt[i.m % SrBanked] = v]
    [] OTHER -> [c EXCEPT ![i.x] = v]

Sh4Clear(c, i) ==
  CASE i.op = "CLRMAC" -> [c EXCEPT !.mach = 0, !.macl = 0]
    [] i.op = "CLRS" -> [c EXCEPT !.s = 0]
    [] i.op = "CLRT" -> SetT(c, 0)

Sh4Ldc(c, i) == StoreSys(c, i, R(c, i.n))

(* The pop of SR reads Rn again, for the store may have swapped the banks; *)
(* the others step the address they loaded from.                           *)
Sh4LdcM(c, i) ==
  LET ea == R(c, i.n)
      v == LoadZ(c, ea, 4)
      l == StoreSys(c, i, v)
  IN  CASE i.x = "sr" -> SetR(l, i.n, Wrap(R(l, i.n) + 4))
        [] i.x = "bank" -> StoreSys(SetR(c, i.n, Wrap(ea + 4)), i, v)
        [] OTHER -> SetR(l, i.n, Wrap(ea + 4))

Sh4Lds(c, i) ==
  CASE i.op = "LDS" -> StoreSys(c, i, R(c, i.n))
    [] i.op = "LDSM" -> SetR(StoreSys(c, i, LoadZ(c, R(c, i.n), 4)), i.n, Wrap(R(c, i.n) + 4))

Sh4Stc(c, i) == SetR(c, i.n, LoadSys(c, i))

Sh4StcM(c, i) ==
  LET ea == Wrap(R(c, i.n) - 4)
      s == SetR(c, i.n, ea)
  IN  StoreMem(s, ea, 4, LoadSys(s, i))

Sh4Sts(c, i) ==
  LET ea == Wrap(R(c, i.n) - 4)
  IN  CASE i.op = "STS" -> SetR(c, i.n, LoadSys(c, i))
        [] i.op = "STSM" -> StoreMem(SetR(c, i.n, ea), ea, 4, LoadSys(c, i))

(* PREF of an address in the store queue area bursts the queue (Ccn).      *)
Sh4Cache(c, i) ==
  CASE i.op = "MOVCAL" -> StoreMem(c, R(c, i.n), 4, R(c, 0))
    [] i.op \in {"NOP", "OCBI", "OCBP", "OCBWB"} -> c
    [] i.op = "PREF" -> IF Lshr(R(c, i.n), WordBits - 2) = 3 THEN [c EXCEPT !.pref = R(c, i.n)] ELSE c
    [] i.op = "LDTLB" -> [c EXCEPT !.ltlb = TRUE]

Sh4SetTrap(c, i) ==
  CASE i.op = "SETS" -> [c EXCEPT !.s = 1]
    [] i.op = "SETT" -> SetT(c, 1)
    [] i.op = "SLEEP" -> [c EXCEPT !.sleep = TRUE]
    [] i.op = "TRAPA" -> [c EXCEPT !.fatal = TRUE]

----------------------------------------------------------------------------
(* Floating point.  FRn is kept in fr[n ^ 1], so that the pair DRn is the  *)
(* 64-bit value at fr[n].  What the host computes is abstracted to         *)
(* arithmetic on words that tells operands and operations apart: addition  *)
(* and multiplication commute, as the vector instructions rely on.         *)

Twin(n) == n + 1 - 2 * (n % 2)
Even(n) == n - (n % 2)
Fr(c, n) == c.fr[Twin(n)]
SetFr(c, n, v) == [c EXCEPT !.fr[Twin(n)] = v]
Dr(c, n) == c.fr[n] + Modulus * c.fr[n + 1]
SetDr(c, n, v) == [c EXCEPT !.fr[n] = v % Modulus, !.fr[n + 1] = v \div Modulus]

FpOps == <<"FSUB", "FDIV", "FABS", "FNEG", "FSQRT", "FSRRA", "FLOAT", "FTRC", "FCNVDS", "FCNVSD", "SIN", "COS">>
HostFp(op, a, b, range) ==
  CASE op = "FADD" -> (a + b) % range
    [] op = "FMUL" -> (a * b) % range
    [] OTHER -> (3 * a + 5 * b + 7 * (CHOOSE k \in 1 .. Len(FpOps) : FpOps[k] = op)) % range

Sh4Fldi(c, i) == SetFr(c, i.n, IF i.op = "FLDI1" THEN Modulus \div 2 - 1 ELSE 0)

(* With SZ set an odd register number names a pair of the other bank.      *)
PairWord(c, k, h) == IF k % 2 = 1 THEN c.xf[Twin(k - 1 + h)] ELSE c.fr[Twin(k + h)]
SetPairWord(c, k, h, v) ==
  IF k % 2 = 1 THEN [c EXCEPT !.xf[Twin(k - 1 + h)] = v] ELSE [c EXCEPT !.fr[Twin(k + h)] = v]

Sh4Fmov(c, i, sz) ==
  LET bank(k) == IF k % 2 = 1 THEN "xf" ELSE "fr"
      src == c[bank(i.m)]
  IN  IF sz THEN [c EXCEPT ![bank(i.n)][Even(i.n)] = src[Even(i.m)],
                           ![bank(i.n)][Even(i.n) + 1] = src[Even(i.m) + 1]]
            ELSE SetFr(c, i.n, Fr(c, i.m))

FpFromMem(c, i, ea, sz) ==
  IF sz THEN SetPairWord(SetPairWord(c, i.n, 0, LoadZ(c, ea, 4)), i.n, 1, LoadZ(c, Wrap(ea + 4), 4))
        ELSE SetFr(c, i.n, LoadZ(c, ea, 4))
FpToMem(c, i, ea, sz) ==
  IF sz THEN StoreMem(StoreMem(c, ea, 4, PairWord(c, i.m, 0)), Wrap(ea + 4), 4, PairWord(c, i.m, 1))
        ELSE StoreMem(c, ea, 4, Fr(c, i.m))

Sh4FmovLoad(c, i, sz) ==
  CASE i.op = "FMOV_LOAD" -> FpFromMem(c, i, R(c, i.m), sz)
    [] i.op = "FMOV_INDEX_LOAD" -> FpFromMem(c, i, Wrap(R(c, 0) + R(c, i.m)), sz)
Sh4FmovStore(c, i, sz) ==
  CASE i.op = "FMOV_STORE" -> FpToMem(c, i, R(c, i.n), sz)
    [] i.op = "FMOV_INDEX_STORE" -> FpToMem(c, i, Wrap(R(c, 0) + R(c, i.n)), sz)
Sh4FmovSave(c, i, sz) ==
  LET ea == Wrap(R(c, i.n) - (IF sz THEN 8 ELSE 4)) IN FpToMem(SetR(c, i.n, ea), i, ea, sz)
Sh4FmovRestore(c, i, sz) ==
  SetR(FpFromMem(c, i, R(c, i.m), sz), i.m, Wrap(R(c, i.m) + (IF sz THEN 8 ELSE 4)))

Sh4Fpul(c, i) ==
  CASE i.op = "FLDS" -> [c EXCEPT !.fpul = Fr(c, i.n)]
    [] i.op = "FSTS" -> SetFr(c, i.n, c.fpul)

(* One operand or two, single or double by PR, result in FRn or DRn.       *)
FpResult(c, i, pr, op, unary) ==
  IF pr THEN SetDr(c, Even(i.n), HostFp(op, Dr(c, Even(i.n)), IF unary THEN 0 ELSE Dr(c, Even(i.m)), Modulus ^ 2))
        ELSE SetFr(c, i.n, HostFp(op, Fr(c, i.n), IF unary THEN 0 ELSE Fr(c, i.m), Modulus))
FpCompare(c, i, pr) ==
  LET a == IF pr THEN Dr(c, Even(i.n)) ELSE Fr(c, i.n)
      b == IF pr THEN Dr(c, Even(i.m)) ELSE Fr(c, i.m)
  IN  SetT(c, Bool(IF i.op = "FCMPEQ" THEN a = b ELSE a > b))

Sh4FpUnary(c, i, pr) ==
  CASE i.op = "FABS" -> FpResult(c, i, pr, "FABS", TRUE)
    [] i.op = "FSRRA" -> FpResult(c, i, FALSE, "FSRRA", TRUE)

Sh4FpArith(c, i, pr) ==
  CASE i.op \in {"FADD", "FDIV"} -> FpResult(c, i, pr, i.op, FALSE)
    [] i.op \in {"FCMPEQ", "FCMPGT"} -> FpCompare(c, i, pr)

Sh4FpMore(c, i, pr) ==
  CASE i.op = "FLOAT" -> IF pr THEN SetDr(c, Even(i.n), HostFp("FLOAT", Signed(c.fpul) % Modulus ^ 2, 0, Modulus ^ 2))
                               ELSE SetFr(c, i.n, HostFp("FLOAT", c.fpul, 0, Modulus))
    [] i.op = "FMAC" -> IF pr THEN [c EXCEPT !.fatal = TRUE]
                              ELSE SetFr(c, i.n, HostFp("FADD", HostFp("FMUL", Fr(c, 0), Fr(c, i.m), Modulus),
                                                        Fr(c, i.n), Modulus))
    [] i.op \in {"FMUL", "FSUB"} -> FpResult(c, i, pr, i.op, FALSE)
    [] i.op \in {"FNEG", "FSQRT"} -> FpResult(c, i, pr, i.op, TRUE)

Sh4FpConvert(c, i, pr) ==
  CASE i.op = "FTRC" -> [c EXCEPT !.fpul = HostFp("FTRC", IF pr THEN Dr(c, Even(i.n)) ELSE Fr(c, i.n), 0, Modulus)]
    [] i.op = "FCNVDS" -> IF pr THEN [c EXCEPT !.fpul = HostFp("FCNVDS", Dr(c, Even(i.n)), 0, Modulus)]
                                ELSE [c EXCEPT !.fatal = TRUE]
    [] i.op = "FCNVSD" -> IF pr THEN SetDr(c, Even(i.n), HostFp("FCNVSD", c.fpul, 0, Modulus ^ 2))
                                ELSE [c EXCEPT !.fatal = TRUE]

(* LDS, STS and their memory forms for FPSCR and FPUL.                     *)
Sh4FpSys(c, i) ==
  CASE i.op \in {"LDS", "LDSM"} -> Sh4Lds(c, i)
    [] i.op \in {"STS", "STSM"} -> Sh4Sts(c, i)

(* The vector registers are loaded as the four words at fr[n].             *)
Dot(c, n, m) == MapThenSumSet(LAMBDA k : HostFp("FMUL", c.fr[n + k], c.fr[m + k], Modulus), 0 .. 3) % Modulus
Sh4Vector(c, i) ==
  LET n == 4 * (i.n \div 4)
      col(e, j) == HostFp("FMUL", c.xf[4 * e + j], Fr(c, n + e), Modulus)
  IN  CASE i.op = "FIPR" -> SetFr(c, n + 3, Dot(c, n, 4 * (i.n % 4)))
        [] i.op = "FSCA" -> SetFr(SetFr(c, i.n, HostFp("SIN", Zext(c.fpul, HalfBits), 0, Modulus)),
                                  i.n + 1, HostFp("COS", Zext(c.fpul, HalfBits), 0, Modulus))
        [] i.op = "FTRV" -> [c EXCEPT !.fr = [k \in DOMAIN @ |->
                               IF k \in n .. n + 3 THEN MapThenSumSet(LAMBDA e : col(e, k - n), 0 .. 3) % Modulus
                                                   ELSE @[k]]]

Sh4Change(c, i) ==
  CASE i.op = "FRCHG" -> StoreFpscr(c, c.fpscr ^^ FRBit)
    [] i.op = "FSCHG" -> StoreFpscr(c, c.fpscr ^^ SZBit)

----------------------------------------------------------------------------
(* The table of instructions and their flags (sh4_instr.inc).              *)

Branches == {"BF", "BFS", "BT", "BTS", "BRA", "BRAF", "BSR", "BSRF", "JMP", "JSR", "RTS", "RTE"}
Delayed == Branches \ {"BF", "BT"}
LoadsPc == {"INVALID", "SLEEP"}
StoresPc == Branches \cup LoadsPc \cup {"TRAPA"}
StoresFpscr(i) == i.op \in {"FRCHG", "FSCHG"} \/ (i.op \in {"LDS", "LDSM"} /\ i.x = "fpscr")
UsesFpscr == {"FMOV", "FMOV_LOAD", "FMOV_INDEX_LOAD", "FMOV_STORE", "FMOV_INDEX_STORE", "FMOV_SAVE",
              "FMOV_RESTORE", "FABS", "FADD", "FCMPEQ", "FCMPGT", "FDIV", "FLOAT", "FMAC", "FMUL",
              "FNEG", "FSQRT", "FSUB", "FTRC", "FCNVDS", "FCNVSD"}

Sh4Op(c, i, addr, pr, sz) ==
  CASE i.op \in {"MOVI", "MOVL_PCR", "MOV"} -> Sh4MovPcr(c, i, addr)
    [] i.op \in {"MOVS_IND", "MOVL_IND"} -> Sh4MovInd(c, i)
    [] i.op = "MOVS_DEC" -> Sh4MovDec(c, i)
    [] i.op = "MOVL_INC" -> Sh4MovInc(c, i)
    [] i.op \in {"MOVS_OFF", "MOVL_OFF"} -> Sh4MovOff(c, i)
    [] i.op \in {"MOVS_IDX", "MOVL_IDX"} -> Sh4MovIdx(c, i)
    [] i.op \in {"MOVS_GBR", "MOVL_GBR"} -> Sh4MovGbr(c, i)
    [] i.op \in {"MOVA", "MOVT", "SWAPB", "SWAPW", "XTRCT"} -> Sh4MovData(c, i, addr)
    [] i.op \in {"ADD", "ADDI", "ADDC", "ADDV"} -> Sh4Add(c, i)
    [] i.op \in {"CMPEQI", "CMPEQ", "CMPHS", "CMPGE", "CMPHI", "CMPGT", "CMPPZ", "CMPPL", "CMPSTR"} -> Sh4Cmp(c, i)
    [] i.op \in {"DIV0S", "DIV0U"} -> Sh4Div0(c, i)
    [] i.op = "DIV1" -> Sh4Div1(c, i)
    [] i.op \in {"DMULS", "DMULU", "DT", "EXTSB", "EXTSW", "EXTUB", "EXTUW", "MAC", "MULL", "MULS", "MULU"} -> Sh4MulExt(c, i)
    [] i.op \in {"NEG", "NEGC", "SUB", "SUBC", "SUBV"} -> Sh4Sub(c, i)
    [] i.op \in {"LOGIC", "LOGICI", "LOGICB", "NOT"} -> Sh4Logic(c, i)
    [] i.op \in {"TAS", "TST", "TSTI", "TSTB"} -> Sh4Test(c, i)
    [] i.op \in {"ROTL", "ROTR", "ROTCL", "ROTCR", "SHAD", "SHAL", "SHAR", "SHLD", "SHLL", "SHLR", "SHLLN", "SHLRN"} -> Sh4Shift(c, i)
    [] i.op \in {"CLRMAC", "CLRS", "CLRT"} -> Sh4Clear(c, i)
    [] i.op = "LDC" -> Sh4Ldc(c, i)
    [] i.op = "LDCM" -> Sh4LdcM(c, i)
    [] i.op \in {"LDS", "LDSM"} /\ i.x \notin {"fpscr", "fpul"} -> Sh4Lds(c, i)
    [] i.op = "STC" -> Sh4Stc(c, i)
    [] i.op = "STCM" -> Sh4StcM(c, i)
    [] i.op \in {"STS", "STSM"} /\ i.x \notin {"fpscr", "fpul"} -> Sh4Sts(c, i)
    [] i.op \in {"MOVCAL", "NOP", "OCBI", "OCBP", "OCBWB", "PREF", "LDTLB"} -> Sh4Cache(c, i)
    [] i.op \in {"SETS", "SETT", "SLEEP", "TRAPA"} -> Sh4SetTrap(c, i)
    [] i.op \in {"FLDI0", "FLDI1"} -> Sh4Fldi(c, i)
    [] i.op = "FMOV" -> Sh4Fmov(c, i, sz)
    [] i.op \in {"FMOV_LOAD", "FMOV_INDEX_LOAD"} -> Sh4FmovLoad(c, i, sz)
    [] i.op \in {"FMOV_STORE", "FMOV_INDEX_STORE"} -> Sh4FmovStore(c, i, sz)
    [] i.op = "FMOV_SAVE" -> Sh4FmovSave(c, i, sz)
    [] i.op = "FMOV_RESTORE" -> Sh4FmovRestore(c, i, sz)
    [] i.op \in {"FLDS", "FSTS"} -> Sh4Fpul(c, i)
    [] i.op \in {"FABS", "FSRRA"} -> Sh4FpUnary(c, i, pr)
    [] i.op \in {"FADD", "FDIV", "FCMPEQ", "FCMPGT"} -> Sh4FpArith(c, i, pr)
    [] i.op \in {"FLOAT", "FMAC", "FMUL", "FNEG", "FSQRT", "FSUB"} -> Sh4FpMore(c, i, pr)
    [] i.op \in {"FTRC", "FCNVDS", "FCNVSD"} -> Sh4FpConvert(c, i, pr)
    [] i.op \in {"LDS", "LDSM", "STS", "STSM"} -> Sh4FpSys(c, i)
    [] i.op \in {"FIPR", "FSCA", "FTRV"} -> Sh4Vector(c, i)
    [] i.op \in {"FRCHG", "FSCHG"} -> Sh4Change(c, i)

----------------------------------------------------------------------------
(* Branches: where to, decided before the slot; and what follows the slot. *)

BranchTarget(c, i, addr) ==
  LET rel == Wrap(addr + 4 + 2 * Signed(Sext(i.d, ByteBits)))
      past == Wrap(addr + (IF i.op \in Delayed THEN 4 ELSE 2))
  IN  CASE i.op \in {"BF", "BFS"} -> Select(c.t, past, rel)
        [] i.op \in {"BT", "BTS"} -> Select(c.t, rel, past)
        [] i.op \in {"BRA", "BSR"} -> rel
        [] i.op \in {"BRAF", "BSRF"} -> Wrap(R(c, i.n) + addr + 4)
        [] i.op \in {"JMP", "JSR"} -> R(c, i.n)
        [] i.op = "RTS" -> c.pr
        [] i.op = "RTE" -> c.spc

(* RTE restores SR before its slot, a call stores PR after it.             *)
RteSr(c, i) == IF i.op = "RTE" THEN StoreSr(c, c.ssr) ELSE c
BranchTail(c, i, addr, dest) ==
  [c EXCEPT !.pr = IF i.op \in {"BSR", "BSRF", "JSR"} THEN Wrap(addr + 4) ELSE @, !.pc = dest]

InProgram(prog, a) == a >= SBase /\ (a - SBase) % 2 = 0 /\ (a - SBase) \div 2 < Len(prog)
Fetch(prog, a) == prog[(a - SBase) \div 2 + 1]

(* An instruction the table does not know traps.  Only the one reserved    *)
(* code raises an exception; the others belong to the debugger and bios.   *)
InvalidInstr(c, prog) ==
  LET here == Fetch(prog, c.pc)
      slot == here.op # "INVALID"
      data == IF slot THEN Fetch(prog, c.pc + 2) ELSE here
  IN  IF data.x # "fffd" THEN c ELSE Exception(c, IF slot THEN 2 ELSE 1)

OpOrTrap(c, i, addr, prog, pr, sz) ==
  IF i.op = "INVALID" THEN InvalidInstr(c, prog) ELSE Sh4Op(c, i, addr, pr, sz)

(* The interpreter: one instruction, with its delay slot, off the context. *)
SInterp(c, prog) ==
  LET addr == c.pc
      i == Fetch(prog, addr)
      run(d, j, a) == OpOrTrap(d, j, a, prog, Has(d.fpscr, PRBit), Has(d.fpscr, SZBit))
      h == RteSr(c, i)
      s == IF i.op \in Delayed THEN run(h, Fetch(prog, addr + 2), addr + 2) ELSE h
  IN  IF i.op \in Branches THEN BranchTail(s, i, addr, BranchTarget(c, i, addr))
      ELSE [run(c, i, addr) EXCEPT !.pc =
              IF i.op \in {"INVALID", "SLEEP", "TRAPA", "LDTLB", "MAC"} THEN @ ELSE Wrap(addr + 2)]

(* Mutant: a block goes on past a store to FPSCR.                          *)
IsTerminatorPc(i) == i.op \in StoresPc

(* The translator.  A block ends with the first instruction that stores    *)
(* the pc or FPSCR, whose PR and SZ bits it is compiled for.               *)
IsTerminator(i) == i.op \in StoresPc \/ StoresFpscr(i)
AnalyzeCode(prog, first) == CHOOSE k \in first .. Len(prog) :
  /\ IsTerminator(prog[k]) \/ k = Len(prog)
  /\ \A j \in first .. k - 1 : ~IsTerminator(prog[j])

STranslated(c, prog, fpscr) ==
  LET pr == Has(fpscr, PRBit)
      sz == Has(fpscr, SZBit)
      first == (c.pc - SBase) \div 2 + 1
      last == AnalyzeCode(prog, first)
      t == prog[last]
      addr == SBase + 2 * (last - 1)
      sync(d, j, a) == IF j.op \in LoadsPc THEN [d EXCEPT !.pc = a] ELSE d
      op(d, j, a) == OpOrTrap(sync(d, j, a), j, a, prog, pr, sz)
      emit(s, k) == IF k = last /\ t.op \in Branches
                    THEN [ctx |-> RteSr(s.ctx, t), dest |-> BranchTarget(s.ctx, t, addr)]
                    ELSE [s EXCEPT !.ctx = op(s.ctx, prog[k], SBase + 2 * (k - 1))]
      end == IF t.op \in Delayed THEN last + 1 ELSE last
      uses == \E k \in first .. end : prog[k].op \in UsesFpscr
      tail(s) == CASE t.op \in Branches -> BranchTail(s.ctx, t, addr, s.dest)
                   [] t.op \in StoresPc \ Branches -> s.ctx
                   [] OTHER -> [s.ctx EXCEPT !.pc = Wrap(addr + 2)]
  IN  IF uses /\ c.fpscr & (PRBit + SZBit) # fpscr & (PRBit + SZBit) THEN [c EXCEPT !.fatal = TRUE]
      ELSE tail(FoldLeft(emit, [ctx |-> c, dest |-> 0], [k \in 1 .. end - first + 1 |-> first + k - 1]))

----------------------------------------------------------------------------
(* What an instruction should leave, in plain arithmetic on integers, for  *)
(* those whose code computes it another way.                               *)

Reference(c, i) ==
  LET n == R(c, i.n)
      m == R(c, i.m)
      sn == Signed(n)
      sm == Signed(m)
      fits(x) == x \in -(Modulus \div 2) .. Modulus \div 2 - 1
      put(v, t) == SetT(SetR(c, i.n, Wrap(v)), t)
      byte(v, k) == (v \div 2 ^ (k * ByteBits)) % 2 ^ ByteBits
      poke(a, v) == [b \in DOMAIN c.mem |-> IF (b - a) % MemBytes < i.w THEN byte(v, (b - a) % MemBytes) ELSE c.mem[b]]
      right == IF m % WordBits = 0 THEN WordBits ELSE WordBits - (m % WordBits)
  IN  CASE i.op = "ADDC" -> put(n + m + c.t, (n + m + c.t) \div Modulus)
        [] i.op = "ADDV" -> put(n + m, Bool(~fits(sn + sm)))
        [] i.op = "SUBC" -> put(n - m - c.t, Bool(n < m + c.t))
        [] i.op = "SUBV" -> put(n - m, Bool(~fits(sn - sm)))
        [] i.op = "NEGC" -> put(-m - c.t, Bool(m + c.t > 0))
        [] i.op = "CMPSTR" -> SetT(c, Bool(\E k \in 0 .. 3 : byte(n, k) = byte(m, k)))
        [] i.op = "DT" -> put(n - 1, Bool(n = 1))
        [] i.op = "ROTCL" -> put(2 * n + c.t, n \div (Modulus \div 2))
        [] i.op = "ROTCR" -> put(n \div 2 + c.t * (Modulus \div 2), n % 2)
        [] i.op = "ROTL" -> put(2 * n + Msb(n), Msb(n))
        [] i.op = "ROTR" -> put(n \div 2 + (n % 2) * (Modulus \div 2), n % 2)
        [] i.op = "SHAR" -> put(sn \div 2, n % 2)
        [] i.op = "SHAD" -> SetR(c, i.n, IF sm >= 0 THEN Wrap(n * 2 ^ (m % WordBits)) ELSE Wrap(sn \div 2 ^ right))
        [] i.op = "SHLD" -> SetR(c, i.n, IF sm >= 0 THEN Wrap(n * 2 ^ (m % WordBits)) ELSE n \div 2 ^ right)
        [] i.op = "SWAPB" -> SetR(c, i.n, (m - (m % 2 ^ HalfBits)) + byte(m, 1) + byte(m, 0) * 2 ^ ByteBits)
        [] i.op = "SWAPW" -> SetR(c, i.n, (m \div 2 ^ HalfBits) + (m % 2 ^ HalfBits) * 2 ^ HalfBits)
        [] i.op = "XTRCT" -> SetR(c, i.n, (n \div 2 ^ HalfBits) + (m % 2 ^ HalfBits) * 2 ^ HalfBits)
        [] i.op = "DMULS" -> [c EXCEPT !.mach = Wrap((sn * sm) \div Modulus), !.macl = Wrap(sn * sm)]
        [] i.op = "MULS" -> [c EXCEPT !.macl = LET h(v) == IF v >= 2 ^ (HalfBits - 1) THEN v - 2 ^ HalfBits ELSE v
                                               IN  Wrap(h(n % 2 ^ HalfBits) * h(m % 2 ^ HalfBits))]
        [] i.op = "MOVS_DEC" -> [SetR(c, i.n, Wrap(n - i.w)) EXCEPT !.mem = poke(n - i.w, m)]
        [] i.op = "MOVL_INC" -> LET v == LoadS(c, m, i.w)
                                IN  IF i.n = i.m THEN SetR(c, i.n, v) ELSE SetR(SetR(c, i.m, Wrap(m + i.w)), i.n, v)
        [] OTHER -> c

(* The register file as the architecture defines it: two banks of general  *)
(* and of floating point registers, of which RB and FR select one.         *)
ArchView(c) ==
  LET rb == Bool(Has(c.sr, RBBit))
      f == Bool(Has(c.fpscr, FRBit))
  IN  [rb |-> rb, srb |-> Bool(Has(c.ssr, RBBit)), f |-> f,
       gpr |-> [b \in 0 .. 1 |-> [k \in 0 .. SrBanked - 1 |-> IF b = rb THEN c.r[k] ELSE c.ralt[k]]],
       hi |-> [k \in SrBanked .. SrNum - 1 |-> c.r[k]],
       fpr |-> [b \in 0 .. 1 |-> [k \in 0 .. 15 |-> IF b = f THEN c.fr[Twin(k)] ELSE c.xf[Twin(k)]]]]

ArchStep(a, i) ==
  LET r(k) == IF k < SrBanked THEN a.gpr[a.rb][k] ELSE a.hi[k]
      put(k, v) == IF k < SrBanked THEN [a EXCEPT !.gpr[a.rb][k] = v] ELSE [a EXCEPT !.hi[k] = v]
      bank(k) == IF k % 2 = 1 THEN 1 - a.f ELSE a.f
      fr(k) == a.fpr[a.f][k]
      xf(k) == a.fpr[1 - a.f][k]
      dr(k) == fr(k) * Modulus + fr(k + 1)
      sum == (dr(Even(i.n)) + dr(Even(i.m))) % Modulus ^ 2
      v == 4 * (i.n \div 4)
  IN  CASE i.op = "MOV" -> put(i.n, r(i.m))
        [] i.op = "LDC" /\ i.x = "sr" -> [a EXCEPT !.rb = Bool(Has(r(i.n), RBBit))]
        [] i.op = "LDC" /\ i.x = "bank" -> [a EXCEPT !.gpr[1 - a.rb][i.m % SrBanked] = r(i.n)]
        [] i.op = "STC" -> put(i.n, a.gpr[1 - a.rb][i.m % SrBanked])
        [] i.op = "EXC" -> [a EXCEPT !.srb = a.rb, !.rb = 1]
        [] i.op = "RTE" -> [a EXCEPT !.rb = a.srb]
        [] i.op = "FRCHG" -> [a EXCEPT !.f = 1 - @]
        [] i.op = "FMOV" -> [a EXCEPT !.fpr[bank(i.n)] = [k \in 0 .. 15 |->
                               IF Even(k) = Even(i.n) THEN a.fpr[bank(i.m)][Even(i.m) + (k % 2)] ELSE @[k]]]
        [] i.op = "FADD" -> [a EXCEPT !.fpr[a.f][Even(i.n)] = sum \div Modulus, !.fpr[a.f][Even(i.n) + 1] = sum % Modulus]
        [] i.op = "FIPR" -> [a EXCEPT !.fpr[a.f][v + 3] =
                               MapThenSumSet(LAMBDA k : fr(v + k) * fr(4 * (i.n % 4) + k), 0 .. 3) % Modulus]
        [] i.op = "FTRV" -> [a EXCEPT !.fpr[a.f] = [k \in 0 .. 15 |-> IF k \in v .. v + 3
                               THEN MapThenSumSet(LAMBDA e : xf(4 * e + (k - v)) * fr(v + e), 0 .. 3) % Modulus
                               ELSE @[k]]]

----------------------------------------------------------------------------
(* A guest program under both engines.  unit says what a behaviour is for: *)
(* a single instruction, a division, a push and pop, a block, or a walk    *)
(* over the instructions that move between banks.                          *)

CONSTANTS SStarts,    \* the initial states [unit, prog, ctx, fpscr] to explore
          SWalkOps,   \* the instructions of a walk
          SWalkLen    \* bound on the length of a walk

VARIABLES sUnit, sProg, sCtx, sStart, sFlags, sTrans, sArch, sLen
sVars == <<sUnit, sProg, sCtx, sStart, sFlags, sTrans, sArch, sLen>>

SStartAt(s) ==
  /\ sUnit = s.unit /\ sProg = s.prog /\ sFlags = s.fpscr
  /\ sCtx = s.ctx /\ sStart = s.ctx /\ sTrans = s.ctx
  /\ sArch = ArchView(s.ctx) /\ sLen = 0
SInit == \E s \in SStarts : SStartAt(s)

SHalted(c) == ~InProgram(sProg, c.pc) \/ c.fatal \/ c.sleep \/ c.ltlb

(* interp_backend_run_code executes the instruction at the pc.             *)
SExecute ==
  /\ sUnit # "walk" /\ ~SHalted(sCtx)
  /\ sCtx' = SInterp(sCtx, sProg)
  /\ UNCHANGED <<sUnit, sProg, sStart, sFlags, sTrans, sArch, sLen>>

(* The translated code runs block by block.  The first may have been       *)
(* compiled for another FPSCR, the next are compiled when they are reached.*)
SRunBlock ==
  /\ sUnit = "block" /\ SHalted(sCtx) /\ ~SHalted(sTrans)
  /\ sTrans' = STranslated(sTrans, sProg, IF sTrans = sStart THEN sFlags ELSE sTrans.fpscr)
  /\ UNCHANGED <<sUnit, sProg, sCtx, sStart, sFlags, sArch, sLen>>

(* One instruction of a walk, in the emulator and in the architecture.     *)
SWalk(i) ==
  /\ sUnit = "walk" /\ sLen < SWalkLen
  /\ sCtx' = CASE i.op = "EXC" -> Exception(sCtx, 1)
               [] i.op = "RTE" -> RteSr(sCtx, i)
               [] OTHER -> Sh4Op(sCtx, i, SBase, TRUE, TRUE)
  /\ sArch' = ArchStep(sArch, i)
  /\ sLen' = sLen + 1
  /\ UNCHANGED <<sUnit, sProg, sStart, sFlags, sTrans>>

SNext == SExecute \/ SRunBlock \/ (\E i \in SWalkOps : SWalk(i))

----------------------------------------------------------------------------
(* Flags, shifts, products and addresses that the code derives by logical  *)
(* operations on words (sh4_instr.h 394-1034) are those of the arithmetic  *)
(* they stand for, for each boundary value, also when both operands are    *)
(* one register; nothing else in the context changes.                      *)
SinglesExact ==
  sUnit = "single" /\ SHalted(sCtx) => [sCtx EXCEPT !.pc = SBase] = Reference(sStart, sProg[1])

(* A division composed of DIV0U or DIV0S and one DIV1 for each bit, the    *)
(* only way the guest divides, yields the quotient, although only Q == M   *)
(* is kept instead of Q.  Signed quotients are rounded to zero.            *)
DivisionExact ==
  SHalted(sCtx) =>
    /\ sUnit = "divu" => R(sCtx, 1) = (R(sStart, 2) * Modulus + R(sStart, 1)) \div R(sStart, 0)
    /\ sUnit = "divs" =>
         LET a == Signed(R(sStart, 1))
             d == Signed(R(sStart, 0))
             abs(x) == IF x < 0 THEN -x ELSE x
         IN  Signed(R(sCtx, 1)) = (abs(a) \div abs(d)) * (IF (a < 0) = (d < 0) THEN 1 ELSE -1)

(* A system register, a register of the other bank, a floating point       *)
(* register or a pair of either bank that is pushed, overwritten and       *)
(* popped again is what it was, and so are the stack pointer and all       *)
(* registers beside, SR with its split flags included.                     *)
PushPopIdentity ==
  LET norm(c) == [ImplodeSr(c) EXCEPT !.qm = Msb(@), !.pc = 0, !.mem = <<>>]
      used(b) == (b - R(sStart, SrNum - 1)) % MemBytes >= MemBytes - 8
  IN  sUnit = "stack" /\ SHalted(sCtx) =>
        /\ norm(sCtx) = norm(sStart)
        /\ \A b \in DOMAIN sCtx.mem : sCtx.mem[b] = sStart.mem[b] \/ used(b)

(* r, ralt, fr and xf, which are swapped whenever RB or FR changes and     *)
(* whose floating point words are stored in exchanged pairs, present the   *)
(* banks of the architecture, after any sequence of SR and FPSCR writes,   *)
(* exceptions, returns, bank accesses and pair and vector instructions.    *)
BanksExact == sUnit = "walk" => ArchView(sCtx) = sArch

(* Every instruction, every division and every save and restore does what  *)
(* it stands for (sh4_instr.h 5-1766).                                     *)
InstructionsExact == SinglesExact /\ DivisionExact /\ PushPopIdentity /\ BanksExact

(* A translated block leaves the context that the interpreter leaves,      *)
(* whatever instruction is in the delay slot and whatever PR and SZ it was *)
(* compiled for, unless the check at its head found them changed.  (Slots  *)
(* that trap or sleep are left out: see the README.)                       *)
EnginesAgree ==
  sUnit = "block" /\ SHalted(sCtx) /\ SHalted(sTrans) =>
    sTrans = sCtx \/ (sTrans.fatal /\ (sCtx.fatal \/ sFlags # sStart.fpscr))
==============================================================================
