------------------------------- MODULE RegAlloc -------------------------------
(***************************************************************************)
(* From the optimised block to host code: ra_run, a second-chance          *)
(* binpacking allocator, gives every value a register, with copies, spills *)
(* and fills; the x64 emitters then turn each instruction into code that   *)
(* works on those registers in place.  The block is built and run through  *)
(* all passes; what the host code does must be what the block means.       *)
(***************************************************************************)
EXTENDS Ir

CONSTANTS RRegs,      \* the allocatable registers, in order: [cls, caller]
          RAvx,       \* whether the host has AVX
          RBlocks     \* the blocks to build: [prefix, ops, types, imms, offs, ccs, len, keep, fast]

RRegIds == DOMAIN RRegs
ClassOf(t) == IF t \in IInts THEN "I" ELSE "F"
CanStore(r, t) == RRegs[r].cls = ClassOf(t)
ReuseArg0 == {"ADD", "SUB", "SMUL", "UMUL", "NEG", "AND", "OR", "XOR", "NOT", "SHL", "ASHR", "LSHR", "ASHD", "LSHD"}

(* Which immediates the emitter of an operation encodes, by argument.      *)
Encodes(op, k, t) ==
  CASE op \in {"ADD", "SUB", "AND", "OR", "XOR", "SHL", "ASHR", "LSHR"} -> k = 2 /\ t \in {"I8", "I16", "I32"}
    [] op \in {"CMP", "FCMP"} -> k = 3 \/ (op = "CMP" /\ k = 2 /\ t \in {"I8", "I16", "I32"})
    [] op \in {"LOAD_GUEST", "LOAD_CONTEXT", "LOAD_LOCAL", "BRANCH"} -> k = 1 /\ t \in {"I8", "I16", "I32"}
    [] op \in {"STORE_GUEST", "STORE_CONTEXT", "STORE_LOCAL"} -> (k = 1 /\ t = "I32") \/ k = 2
    [] op \in {"STORE_HOST", "STORE_FAST"} -> k = 2
    [] op = "BRANCH_COND" -> k \in {1, 2} /\ t \in {"I8", "I16", "I32"}
    [] op \in {"CALL", "CALL_COND", "FALLBACK", "SOURCE_INFO", "COPY", "DEBUG_LOG"} -> TRUE
    [] OTHER -> FALSE

(* ra_legalize_args: other immediates are copied into a register first.    *)
Legalize(code) ==
  LET step(s, i) ==
        LET bad == {k \in DOMAIN i.args : IsImm(i.args[k]) /\ ~Encodes(i.op, k, i.args[k].t)}
            ids == [k \in bad |-> s.fresh + Cardinality({j \in bad : j < k})]
            copy(k) == [id |-> ids[k], op |-> "COPY", args |-> <<i.args[k]>>, type |-> i.args[k].t]
            order == Reverse(Ascending(bad))
        IN  [fresh |-> s.fresh + Cardinality(bad),
             out |-> s.out \o [j \in DOMAIN order |-> copy(order[j])]
                       \o <<[i EXCEPT !.args = [k \in DOMAIN @ |-> IF k \in bad THEN Res(copy(k)) ELSE @[k]]]>>]
  IN  FoldLeft(step, [fresh |-> 50, out |-> <<>>], code)

(* The state of the allocation.  A temporary is known by the value it was  *)
(* created for; uses lists the ordinals of its definition and its uses.    *)
RaCreate(code) ==
  LET ids == {code[k].id : k \in {j \in DOMAIN code : code[j].type # "V"}}
      usesBy(k, t) == (IF code[k].type # "V" /\ code[k].id = t THEN <<k>> ELSE <<>>)
                        \o [j \in 1 .. Cardinality({n \in DOMAIN code[k].args : code[k].args[n].k = "res" /\ code[k].args[n].v = t}) |-> k]
  IN  [bin |-> [r \in RRegIds |-> 0],
       val |-> [t \in ids |-> 0], slot |-> [t \in ids |-> 0], next |-> [t \in ids |-> 1],
       uses |-> [t \in ids |-> FoldLeft(LAMBDA s, k : s \o usesBy(k, t), <<>>, Positions(code))],
       reg |-> [v \in 1 .. 99 |-> 0], tmp |-> [v \in 1 .. 99 |-> IF v \in ids THEN v ELSE 0],
       type |-> [t \in ids |-> (CHOOSE i \in Range(code) : i.id = t /\ i.type # "V").type],
       fresh |-> 70, slots |-> 0, out |-> <<>>, ok |-> TRUE]

Emit(a, op, args, type, id) == [a EXCEPT !.out = Append(@, [id |-> id, op |-> op, args |-> args, type |-> type])]
ValueOf(a, t) == [k |-> "res", v |-> a.val[t], t |-> a.type[t]]
NextUse(a, t) == a.uses[t][a.next[t]]

PackBin(a, r, t) ==
  LET b == IF a.bin[r] # 0 THEN [a EXCEPT !.val[a.bin[r]] = 0] ELSE a
  IN  IF t # 0 THEN [b EXCEPT !.reg[a.val[t]] = r, !.bin[r] = t] ELSE [b EXCEPT !.bin[r] = 0]

SpillTmp(a, t) ==
  LET n == a.slots + 1
      stored == [Emit(a, "STORE_LOCAL", <<Imm(n, "I32"), ValueOf(a, t)>>, "V", 0) EXCEPT !.slot[t] = n, !.slots = n]
  IN  [(IF a.slot[t] = 0 THEN stored ELSE a) EXCEPT !.val[t] = 0]

(* Mutant: what is used by the instruction after the call is not spilled.  *)
SpillTmpsShort(a, i, k) ==
  LET spans(b, t) == b.val[t] # 0 /\ RRegs[b.reg[b.val[t]]].caller /\ b.uses[t][1] < k /\ b.uses[t][Len(b.uses[t])] > k + 1
      step(b, t) == IF spans(b, t) THEN PackBin(SpillTmp(b, t), b.reg[b.val[t]], 0) ELSE b
  IN  IF i.op \in CallOps THEN FoldLeft(step, a, Ascending(DOMAIN a.val)) ELSE a

(* Before a call, what lives in a caller saved register beyond it.         *)
SpillTmps(a, i, k) ==
  LET spans(b, t) == b.val[t] # 0 /\ RRegs[b.reg[b.val[t]]].caller /\ b.uses[t][1] < k /\ b.uses[t][Len(b.uses[t])] > k
      step(b, t) == IF spans(b, t) THEN PackBin(SpillTmp(b, t), b.reg[b.val[t]], 0) ELSE b
  IN  IF i.op \in CallOps THEN FoldLeft(step, a, Ascending(DOMAIN a.val)) ELSE a

(* ra_alloc_free_reg and, when all are taken, the register whose           *)
(* temporary is needed last.                                               *)
AllocFree(a, t) == {r \in RRegIds : a.bin[r] = 0 /\ CanStore(r, a.type[t])}
AllocBlocked(a, t) ==
  LET full == {r \in RRegIds : a.bin[r] # 0 /\ CanStore(r, a.type[t])}
      last == {r \in full : \A q \in full : NextUse(a, a.bin[q]) <= NextUse(a, a.bin[r])}
  IN  {r \in last : \A q \in last : r <= q}

CanReuse(a, t, i) ==
  LET arg == a.tmp[i.args[1].v]
      r == a.reg[a.val[arg]]
  IN  /\ i.args # <<>> /\ ~IsImm(i.args[1])
      /\ a.next[arg] = Len(a.uses[arg])
      /\ CanStore(r, a.type[t])

(* The bin r for t, spilled if blocked; an instruction that works on its   *)
(* first argument gets a copy of it.                                       *)
RaTake(a, t, i, r, blocked) ==
  LET c == PackBin(IF blocked THEN SpillTmp(a, a.bin[r]) ELSE a, r, t)
  IN  IF i.op \in ReuseArg0 /\ a.reg[i.args[1].v] # r
      THEN [Emit(c, "COPY", <<i.args[1]>>, i.type, a.fresh) EXCEPT !.reg[a.fresh] = r, !.fresh = @ + 1]
      ELSE c
RaAlloc(a, t, i) ==
  LET free == AllocFree(a, t)
      blocked == AllocBlocked(a, t)
  IN  CASE CanReuse(a, t, i) -> RaTake(a, t, i, a.reg[i.args[1].v], FALSE)
        [] ~CanReuse(a, t, i) /\ free # {} -> RaTake(a, t, i, Min(free), FALSE)
        [] ~CanReuse(a, t, i) /\ free = {} /\ blocked # {} -> RaTake(a, t, i, Min(blocked), TRUE)
        [] OTHER -> [a EXCEPT !.ok = FALSE]

(* An argument that is not in a register is filled from its slot.          *)
RewriteArg(a, t) ==
  LET f == a.fresh
      i == [id |-> f, op |-> "LOAD_LOCAL", args |-> <<Imm(a.slot[t], "I32")>>, type |-> a.type[t]]
      b == RaAlloc([a EXCEPT !.val[t] = f, !.tmp[f] = t, !.fresh = @ + 1], t, i)
  IN  IF a.val[t] # 0 THEN a ELSE [b EXCEPT !.out = Append(@, i), !.ok = @ /\ a.slot[t] # 0]

ExpireTmps(a, k) ==
  LET past(t) == {n \in DOMAIN a.uses[t] : a.uses[t][n] < k}
      len(t) == Len(a.uses[t])
      expired == {r \in RRegIds : a.bin[r] # 0 /\ Cardinality(past(a.bin[r])) = len(a.bin[r])}
      step(b, r) == IF b.bin[r] = 0 THEN b
                    ELSE IF r \in expired THEN [PackBin(b, r, 0) EXCEPT !.next[b.bin[r]] = len(b.bin[r])]
                    ELSE [b EXCEPT !.next[b.bin[r]] = Max({@, Cardinality(past(b.bin[r])) + 1})]
  IN  FoldLeft(step, a, [r \in RRegIds |-> r])

(* The arguments, one after the other, the result, then what a call would  *)
(* destroy, and the instruction itself.                                    *)
RaUse(a, args, v) == [a |-> a, args |-> Append(args, ValueOf(a, v.v))]
RaArg(s, v) ==
  IF IsImm(v) THEN [s EXCEPT !.args = Append(@, v)] ELSE RaUse(RewriteArg(s.a, v.v), s.args, v)
RaDefine(a, i, k) ==
  LET x == IF i.type = "V" THEN a ELSE RaAlloc([a EXCEPT !.val[i.id] = i.id], i.id, i)
  IN  [SpillTmps(x, i, k) EXCEPT !.out = Append(@, i)]
RaRewritten(s, i, k) == RaDefine(s.a, [i EXCEPT !.args = s.args], k)
RaInstr(a, k, code) ==
  RaRewritten(FoldLeft(RaArg, [a |-> ExpireTmps(a, k), args |-> <<>>], code[k].args), code[k], k)

----------------------------------------------------------------------------
(* The emitted code.  A register is as wide as an I64; a byte or a half    *)
(* word written to it leaves the rest, a word clears it.                   *)

WriteReg(old, t, v) ==
  IF t \in {"I8", "I16"} THEN (old \div IMod(t)) * IMod(t) + v ELSE v
ReadReg(m, a, v) == IF IsImm(v) THEN v.v ELSE m.reg[a.reg[v.v]] % IMod(v.t)
PutReg(m, a, i, v) == [m EXCEPT !.reg[a.reg[i.id]] = WriteReg(@, i.type, v)]

(* Operations whose emitter works on the result register, which the        *)
(* allocator has made hold the first argument.                             *)
EmitInPlace(m, a, i) ==
  LET d == m.reg[a.reg[i.id]] % IMod(i.type)
      b == IF Len(i.args) > 1 THEN ReadReg(m, a, i.args[2]) ELSE 0
  IN  PutReg(m, a, i, IEval(i.op, i.type, i.type, <<d, b>>))

(* The host takes a shift count modulo the width of the operation.         *)
EmitLogic(m, a, i) ==
  LET d == m.reg[a.reg[i.id]] % IMod(i.type)
      b == IF Len(i.args) > 1 THEN ReadReg(m, a, i.args[2]) ELSE 0
      n == IF i.op \in {"SHL", "ASHR", "LSHR"} THEN b % (ISize(i.type) * ByteBits) ELSE b
  IN  PutReg(m, a, i, IEval(i.op, i.type, i.type, <<d, n>>))

EmitShiftDynamic(m, a, i) ==
  LET d == m.reg[a.reg[i.id]] % Modulus
      n == ReadReg(m, a, i.args[2])
      left == Shl(d, n % WordBits)
      right(k) == IF i.op = "ASHD" THEN Ashr(d, k) ELSE Lshr(d, k)
      over == IF i.op = "ASHD" THEN Ashr(d, WordBits - 1) ELSE 0
  IN  PutReg(m, a, i, CASE Msb(n) = 0 -> left
                        [] Msb(n) = 1 /\ n % WordBits # 0 -> right((-n) % WordBits)
                        [] OTHER -> over)

EmitSelect(m, a, i) ==
  LET r(k) == a.reg[i.args[k].v]
      d == a.reg[i.id]
      c == ReadReg(m, a, i.args[3])
      x == IF d # r(1) /\ c # 0 THEN [m EXCEPT !.reg[d] = ReadReg(m, a, i.args[1])] ELSE m
  IN  IF c = 0 THEN [x EXCEPT !.reg[d] = ReadReg(x, a, i.args[2])] ELSE x

(* A truncation into the same register is no code at all: the bits above   *)
(* stay.  Extensions always are, since the two operands differ in width.   *)
EmitCast(m, a, i) ==
  LET v == ReadReg(m, a, i.args[1])
      d == a.reg[i.id]
  IN  CASE i.op = "TRUNC" /\ d = a.reg[i.args[1].v] -> m
        [] i.op = "TRUNC" /\ d # a.reg[i.args[1].v] -> [m EXCEPT !.reg[d] = v % IMod(i.type)]
        [] OTHER -> PutReg(m, a, i, IEval(i.op, i.type, i.args[1].t, <<v>>))

(* LOAD_FAST and STORE_FAST address memory with the whole register.        *)
EmitFast(m, a, i) ==
  LET addr == m.reg[a.reg[i.args[1].v]]
  IN  IF i.op = "LOAD_FAST" THEN PutReg(m, a, i, HostLoad(addr, i.type))
      ELSE [m EXCEPT !.s = Effect(@, i, <<addr, ReadReg(m, a, i.args[2])>>)]

(* Without AVX the first operand is moved to the result register before    *)
(* the second is read.                                                     *)
EmitFloat(m, a, i) ==
  LET d == a.reg[i.id]
      x == IF RAvx THEN m ELSE [m EXCEPT !.reg[d] = m.reg[a.reg[i.args[1].v]]]
      first == (IF RAvx THEN m.reg[a.reg[i.args[1].v]] ELSE x.reg[d]) % IMod(i.args[1].t)
  IN  PutReg(m, a, i, HostF(i.op, i.type, IF Len(i.args) = 1 THEN <<first>> ELSE <<first, ReadReg(x, a, i.args[2])>>))
EmitVector(m, a, i) == EmitFloat(m, a, i)
EmitFloatCast(m, a, i) == PutReg(m, a, i, HostF(i.op, i.type, <<ReadReg(m, a, i.args[1])>>))

(* The result of a comparison is a byte: the rest of the register stays.   *)
EmitCompare(m, a, i) ==
  LET u == IF i.op = "CMP" THEN i.args[1].t ELSE "I32"
  IN  PutReg(m, a, i, Compared(i.args[3].v, ReadReg(m, a, i.args[1]), ReadReg(m, a, i.args[2]), u))

EmitContext(m, a, i) ==
  IF i.op = "LOAD_CONTEXT" THEN PutReg(m, a, i, GetCtx(m.s.ctx, i.args[1].v, i.type))
  ELSE [m EXCEPT !.s = Effect(@, i, <<i.args[1].v, ReadReg(m, a, i.args[2])>>)]
EmitLocal(m, a, i) ==
  IF i.op = "LOAD_LOCAL" THEN PutReg(m, a, i, m.loc[i.args[1].v]) ELSE [m EXCEPT !.loc[i.args[1].v] = ReadReg(m, a, i.args[2])]
EmitHostMem(m, a, i) ==
  LET v == [j \in DOMAIN i.args |-> ReadReg(m, a, i.args[j])]
  IN  IF i.op = "LOAD_HOST" THEN PutReg(m, a, i, HostLoad(v[1], i.type)) ELSE [m EXCEPT !.s = Effect(@, i, v)]
EmitCopy(m, a, i) == PutReg(m, a, i, ReadReg(m, a, i.args[1]))

(* A call destroys the caller saved registers.  An access of guest memory  *)
(* is one, unless its address is constant and mapped.                      *)
Clobber(m) == [m EXCEPT !.reg = [r \in RRegIds |-> IF RRegs[r].caller THEN 1 ELSE @[r]]]
EmitCall(m, a, i) ==
  LET v == [j \in DOMAIN i.args |-> ReadReg(m, a, i.args[j])]
      n == IF i.op = "CALL_COND" /\ v[2] = 0 THEN m ELSE Clobber(m)
  IN  [n EXCEPT !.s = Effect(@, i, v)]
EmitGuestMem(m, a, i) ==
  LET v == [j \in DOMAIN i.args |-> ReadReg(m, a, i.args[j])]
  IN  IF i.op = "LOAD_GUEST" THEN PutReg(Clobber(m), a, i, HostLoad(v[1], i.type)) ELSE [Clobber(m) EXCEPT !.s = Effect(@, i, v)]
EmitBranch(m, a, i) == [m EXCEPT !.s = Effect(@, i, [j \in DOMAIN i.args |-> ReadReg(m, a, i.args[j])])]

EmitInstr(m, i, a) ==
  CASE i.op \in {"ADD", "SUB", "SMUL", "UMUL", "NEG"} -> EmitInPlace(m, a, i)
    [] i.op \in {"AND", "OR", "XOR", "NOT", "SHL", "ASHR", "LSHR"} -> EmitLogic(m, a, i)
    [] i.op \in {"ASHD", "LSHD"} -> EmitShiftDynamic(m, a, i)
    [] i.op = "SELECT" -> EmitSelect(m, a, i)
    [] i.op \in {"CMP", "FCMP"} -> EmitCompare(m, a, i)
    [] i.op \in {"SEXT", "ZEXT", "TRUNC"} -> EmitCast(m, a, i)
    [] i.op \in {"FTOI", "ITOF", "FEXT", "FTRUNC"} -> EmitFloatCast(m, a, i)
    [] i.op \in {"FADD", "FSUB", "FMUL", "FDIV", "FNEG", "FABS", "SQRT"} -> EmitFloat(m, a, i)
    [] i.op \in {"VBROADCAST", "VADD", "VMUL", "VDOT"} -> EmitVector(m, a, i)
    [] i.op \in {"LOAD_FAST", "STORE_FAST"} -> EmitFast(m, a, i)
    [] i.op \in {"LOAD_HOST", "STORE_HOST"} -> EmitHostMem(m, a, i)
    [] i.op \in {"LOAD_GUEST", "STORE_GUEST"} -> EmitGuestMem(m, a, i)
    [] i.op \in {"LOAD_CONTEXT", "STORE_CONTEXT"} -> EmitContext(m, a, i)
    [] i.op \in {"LOAD_LOCAL", "STORE_LOCAL"} -> EmitLocal(m, a, i)
    [] i.op \in {"CALL", "CALL_COND", "FALLBACK"} -> EmitCall(m, a, i)
    [] i.op \in {"BRANCH", "BRANCH_COND"} -> EmitBranch(m, a, i)
    [] i.op = "COPY" -> EmitCopy(m, a, i)
    [] OTHER -> m

(* ra_validate checks that every argument is still in its register when it *)
(* is used.                                                                *)
Validated(act, i, a) == \A j \in DOMAIN i.args : IsImm(i.args[j]) \/ act[a.reg[i.args[j].v]] = i.args[j].v
Active(act, i, a) ==
  LET kept == [r \in RRegIds |-> IF i.op \in CallOps /\ RRegs[r].caller THEN 0 ELSE act[r]]
  IN  IF i.type = "V" THEN kept ELSE [kept EXCEPT ![a.reg[i.id]] = i.id]

HostStart == [reg |-> [r \in RRegIds |-> IMod("I64") - 2], loc |-> [n \in 1 .. 20 |-> 0], s |-> IStart,
              act |-> [r \in RRegIds |-> 0], ok |-> TRUE]

----------------------------------------------------------------------------
VARIABLES rBlock,     \* what is being built
          rSource,    \* the block as it was built
          rCode,      \* the block as the passes leave it
          rStage,     \* the next pass
          rAlloc,     \* the state of the allocation
          rHost,      \* the host running the emitted code
          rAt         \* the next instruction to allocate for or to run
rVars == <<rBlock, rSource, rCode, rStage, rAlloc, rHost, rAt>>

RStartAt(b) ==
  /\ rBlock = b /\ rSource = b.prefix /\ rCode = <<>> /\ rStage = "build"
  /\ rAlloc = RaCreate(<<>>) /\ rHost = HostStart /\ rAt = 1
RInit == \E b \in RBlocks : RStartAt(b)

RBuild(sigs(_)) ==
  /\ rStage = "build" /\ Len(rSource) < Len(rBlock.prefix) + rBlock.len
  /\ \E op \in rBlock.ops : \E i \in IBuilds(rSource, rBlock, op, sigs(op)) : rSource' = Append(rSource, i)
  /\ UNCHANGED <<rBlock, rCode, rStage, rAlloc, rHost, rAt>>
BuildMemory == RBuild(MemorySigs)
BuildCast == RBuild(CastSigs)
BuildCompare == RBuild(CompareSigs)
BuildInt == RBuild(IntSigs)
BuildFloat == RBuild(FloatSigs)
BuildVector == RBuild(VectorSigs)
BuildLogic == RBuild(LogicSigs)
BuildControl == RBuild(ControlSigs)

(* The front end ends a block by storing results and branching; then the   *)
(* block is compiled.                                                      *)
RSeal ==
  LET n == Len(rSource)
      put(i, id, off) == [id |-> id, op |-> "STORE_CONTEXT", args |-> <<Imm(off, "I32"), Res(i)>>, type |-> "V"]
      br == [id |-> n + 3, op |-> "BRANCH", args |-> <<Imm(5, "I32")>>, type |-> "V"]
      stored == (IF rSource[n].type = "V" THEN <<>> ELSE <<put(rSource[n], n + 1, 0)>>)
                  \o (IF rBlock.keep = 0 THEN <<>> ELSE <<put(rSource[rBlock.keep], n + 2, 8)>>)
  IN  /\ rStage = "build" /\ Len(rSource) = Len(rBlock.prefix) + rBlock.len
      /\ rSource' = rSource \o stored \o <<br>>
      /\ rCode' = PromoteFastmem(rSource \o stored \o <<br>>, rBlock.fast)
      /\ rStage' = "lse"
      /\ UNCHANGED <<rBlock, rAlloc, rHost, rAt>>

RPass(name, next, Run(_)) ==
  /\ rStage = name /\ rCode' = Run(rCode) /\ rStage' = next
  /\ UNCHANGED <<rBlock, rSource, rAlloc, rHost, rAt>>
RunLse == CfaChecks(rCode) /\ RPass("lse", "cprop", LseRun)
RunCprop == RPass("cprop", "esimp", CpropRun)
RunEsimp == RPass("esimp", "dce", EsimpRun)
RunDce == RPass("dce", "ra", DceRun)

(* ra_run: legalize and create the temporaries, then one step for each     *)
(* instruction.                                                            *)
RunRa ==
  /\ rStage = "ra" /\ rCode' = Legalize(rCode).out
  /\ rAlloc' = RaCreate(rCode') /\ rStage' = "bins" /\ rAt' = 1
  /\ UNCHANGED <<rBlock, rSource, rHost>>
AllocBins ==
  /\ rStage = "bins" /\ rAt <= Len(rCode)
  /\ rAlloc' = RaInstr(rAlloc, rAt, rCode) /\ rAt' = rAt + 1
  /\ UNCHANGED <<rBlock, rSource, rCode, rStage, rHost>>
Assemble ==
  /\ rStage = "bins" /\ rAt > Len(rCode) /\ rStage' = "run" /\ rAt' = 1
  /\ UNCHANGED <<rBlock, rSource, rCode, rAlloc, rHost>>
HostStep ==
  /\ rStage = "run" /\ rAt <= Len(rAlloc.out)
  /\ LET i == rAlloc.out[rAt]
     IN  rHost' = [EmitInstr(rHost, i, rAlloc) EXCEPT !.act = Active(@, i, rAlloc), !.ok = @ /\ Validated(rHost.act, i, rAlloc)]
  /\ rAt' = rAt + 1
  /\ UNCHANGED <<rBlock, rSource, rCode, rStage, rAlloc>>

RNext ==
  \/ BuildMemory \/ BuildCast \/ BuildCompare \/ BuildInt \/ BuildFloat \/ BuildVector \/ BuildLogic \/ BuildControl
  \/ RSeal \/ RunLse \/ RunCprop \/ RunEsimp \/ RunDce
  \/ RunRa \/ AllocBins \/ Assemble \/ HostStep

----------------------------------------------------------------------------
(* Every pass leaves a block that has the effect it had: the same context, *)
(* seen by the same calls, the same stores to guest memory in the same     *)
(* order and the same branch, whatever overlapping loads and stores of     *)
(* the context, calls and foldable operations it consists of.              *)
PassesPreserve == rStage \in {"lse", "cprop", "esimp", "dce", "ra"} => Meaning(rCode) = Meaning(rSource)

(* The allocated and emitted code has the effect of the block, although    *)
(* operations overwrite their first argument, values are spilled, filled   *)
(* and copied, calls destroy registers and narrow values leave rubbish in  *)
(* the upper bits; no check of ra_validate fails.                          *)
EmittedExact ==
  rStage = "run" /\ rAt > Len(rAlloc.out) => rAlloc.ok /\ rHost.ok /\ rHost.s = Meaning(rSource)
==============================================================================
