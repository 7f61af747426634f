-------------------------------- MODULE MCIsa --------------------------------
EXTENDS Sh4Isa, Arm7, RegAlloc

CONSTANT MCValues     \* the boundary values of the operands

Ins(op, n, m, d, w, x) == [op |-> op, n |-> n, m |-> m, d |-> d, w |-> w, x |-> x]
Op2(op) == Ins(op, 1, 2, 0, 4, "")
Op1(op, n) == Ins(op, n, n, 0, 4, "")

(* A context with distinct values everywhere.                              *)
MCContext ==
  [pc |-> SBase, pr |-> 200, sr |-> MDBit, t |-> 0, s |-> 1, m |-> 0, qm |-> 128,
   r |-> [k \in 0 .. SrNum - 1 |-> 17 * k + 5], ralt |-> [k \in 0 .. SrBanked - 1 |-> 40 + k],
   fr |-> [k \in 0 .. 15 |-> 7 * k + 3], xf |-> [k \in 0 .. 15 |-> 5 * k + 2],
   fpscr |-> 0, dbr |-> 11, gbr |-> 12, vbr |-> 160, fpul |-> 77, mach |-> 13, macl |-> 14,
   sgr |-> 15, spc |-> 180, ssr |-> MDBit + TBit + RBBit, sleep |-> FALSE, fatal |-> FALSE,
   pref |-> 0, ltlb |-> FALSE, mem |-> [b \in 0 .. MemBytes - 1 |-> (b * b + b \div 4) % 4]]

Start(u, p, c, f) == [unit |-> u, prog |-> p, ctx |-> c, fpscr |-> f]

SingleOps ==
  {Op2(op) : op \in {"ADDC", "ADDV", "SUBC", "SUBV", "NEGC", "CMPSTR", "DT", "ROTCL", "ROTCR", "ROTL", "ROTR",
                     "SHAR", "SHAD", "SHLD", "SWAPB", "SWAPW", "XTRCT", "DMULS", "MULS"}}
    \cup {Ins(op, 1, m, 0, w, "") : op \in {"MOVS_DEC", "MOVL_INC"}, m \in {1, 2}, w \in {1, 2, 4}}
Singles == {Start("single", <<i>>, [MCContext EXCEPT !.r[1] = a, !.r[2] = b, !.t = t], 0) :
              i \in SingleOps, a \in MCValues, b \in MCValues, t \in {0, 1}}

DivSteps == [k \in 1 .. 2 * WordBits |-> IF k % 2 = 1 THEN Op1("ROTCL", 1) ELSE Ins("DIV1", 2, 0, 0, 4, "")]
DivU == <<Op1("DIV0U", 0)>> \o DivSteps \o <<Op1("ROTCL", 1)>>
DivS == <<Ins("MOV", 2, 1, 0, 4, ""), Op1("ROTCL", 2), Op1("SUBC", 2), Ins("LOGIC", 3, 3, 0, 4, "XOR"),
          Ins("SUBC", 1, 3, 0, 4, ""), Ins("DIV0S", 2, 0, 0, 4, "")>>
          \o DivSteps \o <<Op1("ROTCL", 1), Ins("ADDC", 1, 3, 0, 4, "")>>
Divisions ==
  {Start("divu", DivU, [MCContext EXCEPT !.r[0] = d, !.r[1] = lo, !.r[2] = hi], 0) :
     <<d, lo, hi>> \in {v \in (MCValues \ {0}) \X MCValues \X MCValues : v[3] = 0 \/ v[3] = v[1] - 1}}
  \cup {Start("divs", DivS, [MCContext EXCEPT !.r[0] = d, !.r[1] = a], 0) :
     <<d, a>> \in {v \in (MCValues \ {0}) \X MCValues : v # <<Modulus - 1, Modulus \div 2>>}}

Sp == SrNum - 1
SaveRestore(x) ==
  LET c == IF x \in {"mach", "macl", "pr", "fpul", "fpscr"} THEN <<"STSM", "LDS", "LDSM">> ELSE <<"STCM", "LDC", "LDCM">>
      i(k, n) == Ins(c[k], n, 1, 0, 4, x)
  IN  <<i(1, Sp), i(2, 1), i(3, Sp)>>
Stacks ==
  {Start("stack", SaveRestore(x), [MCContext EXCEPT !.r[Sp] = 64, !.r[1] = v, !.t = t, !.m = m, !.qm = q], 0) :
     x \in {"sr", "gbr", "vbr", "ssr", "spc", "dbr", "bank", "mach", "macl", "pr", "fpul", "fpscr"},
     v \in {RBBit + MBit, QBit + TBit + FRBit}, t \in {0, 1}, m \in {0, 1}, q \in {0, 128, 255}}
  \cup {Start("stack", <<Ins("FMOV_SAVE", Sp, m, 0, 4, ""), Ins("FMOV", m, k, 0, 4, ""), Ins("FMOV_RESTORE", m, Sp, 0, 4, "")>>,
              [MCContext EXCEPT !.r[Sp] = 64, !.fpscr = f], f) : m \in 2 .. 5, k \in 6 .. 7, f \in {0, SZBit}}

BranchIns == {Ins(op, 1, 2, 1, 4, "") : op \in Branches}
SlotIns ==
  {Op2(op) : op \in {"MOV", "ADDC", "CMPHS", "DIV0U", "DMULU", "NEG", "NOT", "TST", "TAS", "SHLR", "CLRMAC", "CLRS", "CLRT", "NOP",
                     "MOVA", "MOVT", "SETS", "SETT", "FLDI0", "FLDI1", "FLDS", "FSTS", "FSRRA", "PREF", "MOVCAL", "MAC", "EXTUW",
                     "MOVL_IND", "MOVS_IND", "MOVL_OFF", "MOVS_OFF", "MOVL_IDX", "MOVS_IDX", "MOVL_GBR", "MOVS_GBR", "FTRV", "FSCA"}}
    \cup {Ins("LDC", 2, 1, 0, 4, x) : x \in {"sr", "gbr", "spc", "ssr", "bank"}}
    \cup {Ins(op, 1, 2, 3, 2, "") : op \in {"MOVI", "MOVL_PCR", "ADDI", "CMPEQI", "TSTI", "TSTB", "SHLLN", "SHLRN"}}
    \cup {Ins(op, 1, 2, 3, 4, "AND") : op \in {"LOGIC", "LOGICI", "LOGICB"}}
    \cup {Ins("LDS", 1, 2, 0, 4, "pr"), Ins("STS", 1, 2, 0, 4, "pr"), Ins("STC", 1, 2, 0, 4, "sr")}
FpIns == {Ins(op, 2, 5, 0, 4, "") : op \in UsesFpscr} \cup {Ins("FMOV_RESTORE", 5, 2, 0, 4, ""), Ins("FMOV_SAVE", 2, 4, 0, 4, "")}
FpIn(i) == IF i.op \in {"FMOV_LOAD", "FMOV_INDEX_LOAD", "FMOV_RESTORE"} THEN [i EXCEPT !.n = 5, !.m = 2] ELSE i
Changes == {Op1("FRCHG", 0), Op1("FSCHG", 0), Ins("LDS", 1, 1, 0, 4, "fpscr"), Ins("STS", 1, 1, 0, 4, "fpscr")}
Blocks ==
  {Start("block", <<b, s>>, [MCContext EXCEPT !.t = t], 0) : b \in BranchIns \cup {Op1("SLEEP", 0), Op1("TRAPA", 0)}, s \in SlotIns, t \in {0, 1}}
  \cup {Start("block", <<Ins("INVALID", 0, 0, 0, 4, x)>>, MCContext, 0) : x \in {"fffd", ""}}
  \cup {Start("block", <<FpIn(a), b, Op2("FADD"), Ins("JSR", 1, 1, 0, 4, ""), FpIn(a)>>, [MCContext EXCEPT !.fpscr = f], g) :
          a \in FpIns, b \in Changes, f \in 0 .. 3, g \in 0 .. 3}

MCWalk == Start("walk", <<>>, [MCContext EXCEPT !.fpscr = PRBit + SZBit], 0)
MCStarts == Singles \cup Divisions \cup Stacks \cup Blocks \cup {MCWalk}
MCWalkOps ==
  {Ins("MOV", 0, 3, 0, 4, ""), Ins("MOV", 3, 0, 0, 4, "")}
    \cup {Ins("LDC", n, 1, 0, 4, x) : n \in {0, 2}, x \in {"sr", "bank"}} \cup {Ins("STC", 3, 1, 0, 4, "bank")}
    \cup {Op1("EXC", 0), Op1("RTE", 0), Op1("FRCHG", 0)}
    \cup {Ins("FMOV", n, m, 0, 4, "") : n \in {2, 3}, m \in {4, 7}}
    \cup {Ins("FADD", 2, 6, 0, 4, ""), Ins("FIPR", 1, 0, 0, 4, ""), Ins("FTRV", 4, 0, 0, 4, "")}

(* The sound processor.                                                    *)
AContext ==
  [r |-> [n \in ARegs |-> IF n = 15 THEN ABase ELSE 10 * n + 3],
   bank |-> [m \in AModes |-> [n \in ARegs |-> 20 * m + n]],
   cpsr |-> SYS, spsr |-> 0, bspsr |-> [m \in AModes |-> 0],
   pending |-> FALSE, requested |-> FALSE, fatal |-> FALSE, wild |-> FALSE,
   mem |-> [b \in 0 .. MemBytes - 1 |-> (b * b + b \div 4) % 4]]
AStartOf(u, p, c) == [unit |-> u, prog |-> p, ctx |-> c]
Lsl(reg, type, n) == [reg |-> reg, type |-> type, n |-> n]
AIns(op, s, rd, rm, sh) ==
  [op |-> op, cond |-> "AL", s |-> s, rd |-> rd, rn |-> 0, rm |-> rm, rs |-> 2, imm |-> FALSE, rot |-> 0, val |-> 2,
   shift |-> sh, spsr |-> FALSE, all |-> FALSE, p |-> TRUE, u |-> TRUE, w |-> FALSE, b |-> FALSE, list |-> {0, 2}]
ABlk(op, rn, p, u, w, list) == [AIns(op, FALSE, 0, 0, Lsl(FALSE, "LSL", 0)) EXCEPT !.rn = rn, !.p = p, !.u = u, !.w = w, !.list = list]
NoShift == Lsl(FALSE, "LSL", 0)

ASingles ==
  {AStartOf("single", <<AIns(op, TRUE, 2, 1, NoShift)>>, [AContext EXCEPT !.r[0] = a, !.r[1] = b, !.cpsr = SYS + c * CBitA]) :
     op \in (ASubs \cup AAdds \cup {"BIC", "MVN"}) , a \in MCValues, b \in MCValues, c \in {0, 1}}
  \cup {AStartOf("single", <<AIns(op, TRUE, 2, 1, sh)>>, [AContext EXCEPT !.r[1] = a, !.r[2] = n]) :
     op \in {"MOV"}, a \in MCValues, n \in {0, 1, 7, 8, 9, 15},
     sh \in {Lsl(TRUE, t, 2) : t \in {"LSL", "LSR", "ASR", "ROR"}} \cup {Lsl(FALSE, t, k) : t \in {"LSL", "LSR", "ASR"}, k \in {0, 3}}}
AStacks ==
  {AStartOf("stack", <<ABlk("STM", 13, p, u, TRUE, l), [AIns("MVN", TRUE, 2, 1, NoShift) EXCEPT !.s = FALSE],
                       ABlk("LDM", 13, ~p, ~u, TRUE, l)>>, [AContext EXCEPT !.r[13] = 64]) :
     p \in BOOLEAN, u \in BOOLEAN, l \in {{2}, {1, 2, 14}, {0, 2, 14}}}
AMiddle ==
  {AIns(op, s, rd, 1, NoShift) : op \in {"ADD", "TST", "EOR", "MUL", "MLA", "SWP", "LDR", "STR"}, s \in BOOLEAN, rd \in {2, 14}}
    \cup {AIns(op, FALSE, 15, 1, NoShift) : op \in {"MOV", "LDR", "STR"}}
    \cup {AIns("MOV", TRUE, 15, 1, NoShift), AIns("MOV", FALSE, 2, 1, Lsl(FALSE, "ROR", 0)),
          AIns("B", FALSE, 0, 1, NoShift), AIns("BL", FALSE, 0, 1, NoShift), AIns("SWI", FALSE, 0, 1, NoShift), AIns("INVALID", FALSE, 0, 1, NoShift)}
    \cup {[AIns("LDR", FALSE, 2, 1, NoShift) EXCEPT !.p = FALSE, !.u = FALSE, !.b = b, !.imm = i] : b \in BOOLEAN, i \in BOOLEAN}
    \cup {[AIns(op, FALSE, 2, 1, NoShift) EXCEPT !.spsr = b, !.all = a, !.imm = i, !.val = FMask + FIQ] :
            op \in {"MRS", "MSR"}, a \in BOOLEAN, b \in BOOLEAN, i \in BOOLEAN}
    \cup {ABlk(op, 13, TRUE, TRUE, w, l) : op \in {"LDM", "STM"}, w \in BOOLEAN, l \in {{0, 2}, {2, 15}}}
    \cup {[ABlk(op, 13, TRUE, TRUE, FALSE, l) EXCEPT !.s = TRUE] : op \in {"LDM", "STM"}, l \in {{0, 2}, {2, 15}}}
ABlocks ==
  {AStartOf("block", <<AIns("SUB", TRUE, 0, 1, NoShift), [i EXCEPT !.cond = k], AIns("ADC", TRUE, 1, 2, NoShift), AIns("B", FALSE, 0, 1, NoShift)>>,
            [AContext EXCEPT !.r[0] = a, !.cpsr = m]) :
     i \in AMiddle, k \in {"AL", "HI", "LE"}, a \in {3, 13, 200}, m \in {SYS, USR, SVC}}
MCAWalk == AStartOf("walk", <<AIns("INVALID", FALSE, 0, 1, NoShift)>>, AContext)
MCAStarts == ASingles \cup AStacks \cup ABlocks \cup {MCAWalk}

(* The blocks that the compiler sees.                                      *)
MCRegs == <<[cls |-> "I", caller |-> FALSE], [cls |-> "I", caller |-> TRUE], [cls |-> "I", caller |-> FALSE], [cls |-> "I", caller |-> TRUE],
            [cls |-> "F", caller |-> TRUE], [cls |-> "F", caller |-> TRUE], [cls |-> "F", caller |-> TRUE]>>
IIns(id, op, args, t) == [id |-> id, op |-> op, args |-> args, type |-> t]
ICtxLoad(id, off, t) == IIns(id, "LOAD_CONTEXT", <<Imm(off, "I32")>>, t)
IVal(id, t) == [k |-> "res", v |-> id, t |-> t]
Loads32(n) == [k \in 1 .. n |-> ICtxLoad(k, 4 * (k - 1), "I32")]
Blk(prefix, ops, types, imms, len, keep) ==
  [prefix |-> prefix, ops |-> ops, types |-> types, imms |-> imms, offs |-> 2, ccs |-> {0, 3, 9}, len |-> len, keep |-> keep, fast |-> FALSE]
Mix == <<ICtxLoad(1, 0, "I8"), ICtxLoad(2, 2, "I16"), ICtxLoad(3, 4, "I32"), ICtxLoad(4, 8, "I64"), ICtxLoad(5, 0, "V128"),
         ICtxLoad(6, 0, "F32"), ICtxLoad(7, 8, "F64"), ICtxLoad(8, 4, "F32")>>
(* What DMULS.L becomes, its halves stored at off and off + 4.             *)
Product(id, off) ==
  <<ICtxLoad(id, 0, "I32"), ICtxLoad(id + 1, 4, "I32"), IIns(id + 2, "SEXT", <<IVal(id, "I32")>>, "I64"),
    IIns(id + 3, "SEXT", <<IVal(id + 1, "I32")>>, "I64"), IIns(id + 4, "SMUL", <<IVal(id + 2, "I64"), IVal(id + 3, "I64")>>, "I64"),
    IIns(id + 5, "TRUNC", <<IVal(id + 4, "I64")>>, "I32"), IIns(id + 6, "STORE_CONTEXT", <<Imm(off, "I32"), IVal(id + 5, "I32")>>, "V"),
    IIns(id + 7, "LSHR", <<IVal(id + 4, "I64"), Imm(WordBits, "I32")>>, "I64"), IIns(id + 8, "TRUNC", <<IVal(id + 7, "I64")>>, "I32"),
    IIns(id + 9, "STORE_CONTEXT", <<Imm(off + 4, "I32"), IVal(id + 8, "I32")>>, "V")>>
IntWords == {"ADD", "SUB", "AND", "OR", "XOR", "SHL", "LSHR", "ASHR", "UMUL", "SMUL", "NEG", "NOT"}
MCBlocks ==
  {Blk(<<>>, {"LOAD_CONTEXT", "STORE_CONTEXT", "CALL"}, {"I8", "I16"}, {Imm(2, "I16")}, 4, 0),
   Blk(Loads32(1), IntWords, {"I32"}, {Imm(0, "I32"), Imm(1, "I32")}, 1, 0),
   Blk(Loads32(1), {"SUB", "AND", "NEG", "STORE_CONTEXT"}, {"I32"}, {Imm(255, "I32")}, 2, 0),
   [Blk(SubSeq(Mix, 1, 4), {"SEXT", "ZEXT", "TRUNC", "CMP", "SELECT", "BRANCH_COND", "CALL_COND"}, IInts, {}, 2, 1) EXCEPT !.ccs = {9}],
   [Blk(Mix, {"FTOI", "ITOF", "FEXT", "FTRUNC", "CMP", "FCMP", "FADD", "FSUB", "FMUL", "FDIV", "FNEG", "FABS", "SQRT", "VBROADCAST", "VADD",
              "VMUL", "VDOT", "ASHD", "LSHD", "LOAD_HOST", "STORE_HOST", "LOAD_FAST", "STORE_FAST", "CALL", "FALLBACK", "SOURCE_INFO", "BRANCH"},
        ITypes, {}, 1, 6) EXCEPT !.ccs = 0 .. 9],
   [Blk(Product(1, 16), {"LOAD_GUEST", "STORE_GUEST"}, {"I32", "I16"}, {Imm(3, "I16")}, 2, 9) EXCEPT !.fast = TRUE],
   Blk([k \in 1 .. 4 |-> ICtxLoad(k, 4 * (k - 1), "F32")], {"FADD", "CALL"}, {"F32"}, {}, 2, 1)}
  \cup {Blk(p, {"SUB"}, {"I32"}, {}, 2, k) : k \in {0, 5}, p \in {Loads32(5), Append(Loads32(5), IIns(6, "CALL", <<Imm(0, "I64")>>, "V"))}}

VARIABLE unit
Sh4Idle == SStartAt(MCWalk)
ArmIdle == AStartAt(MCAWalk)
IrIdle == RStartAt(Blk(Loads32(1), {}, {}, {}, 0, 0))
Sh4Init == unit = "sh4" /\ SInit /\ ArmIdle /\ IrIdle
ArmInit == unit = "arm7" /\ AInit /\ Sh4Idle /\ IrIdle
IrInit == unit = "ir" /\ RInit /\ Sh4Idle /\ ArmIdle
Init == Sh4Init \/ ArmInit \/ IrInit
Next ==
  /\ unit' = unit
  /\ \/ unit = "sh4" /\ SNext /\ UNCHANGED <<aVars, rVars>>
     \/ unit = "arm7" /\ ANext /\ UNCHANGED <<sVars, rVars>>
     \/ unit = "ir" /\ RNext /\ UNCHANGED <<sVars, aVars>>
==============================================================================
