---------------------------------- MODULE Ir ----------------------------------
(***************************************************************************)
(* The intermediate language of the recompiler and its optimisation        *)
(* passes: a block is built by the functions of ir.c, then promoted,       *)
(* analysed, and rewritten by load and store elimination, constant         *)
(* propagation, expression simplification and dead code elimination, in    *)
(* the order of jit_compile_code.  RegAlloc continues with the result.     *)
(*                                                                         *)
(* An instruction is [id, op, args, type], type "V" having no result.  A   *)
(* value is an immediate or the result of the instruction id.  The use     *)
(* lists of the code are read off the arguments.  Types keep their         *)
(* proportions: a byte has ByteBits bits, a V128 is two lanes wide.        *)
(***************************************************************************)
EXTENDS Words, Sequences, SequencesExt

CONSTANT ICtxBytes    \* bytes of the guest context (IR_MAX_CONTEXT)

IInts == {"I8", "I16", "I32", "I64"}
IFloats == {"F32", "F64"}
ITypes == IInts \cup IFloats \cup {"V128"}
ISize(t) == CASE t = "I8" -> 1 [] t = "I16" -> 2 [] t \in {"I32", "F32"} -> 4 [] OTHER -> 8
IMod(t) == 2 ^ (ISize(t) * ByteBits)
ISigned(v, t) == IF v >= IMod(t) \div 2 THEN v - IMod(t) ELSE v
IOffsets(t) == {ISize(t) * k : k \in 0 .. (ICtxBytes \div ISize(t)) - 1}

Imm(v, t) == [k |-> "imm", v |-> v % IMod(t), t |-> t]
Res(i) == [k |-> "res", v |-> i.id, t |-> i.type]
IsImm(v) == v.k = "imm"
IsImmInt(v) == v.k = "imm" /\ v.t \in IInts

(* The operations that call out of the generated code.                     *)
CallOps == {"FALLBACK", "LOAD_GUEST", "STORE_GUEST", "CALL", "CALL_COND", "DEBUG_LOG"}

----------------------------------------------------------------------------
(* Building: the signatures that the checks of each builder admit.         *)

Sig(args, type) == [args |-> args, type |-> type]

MemorySigs(op) ==
  CASE op = "LOAD_HOST" -> {Sig(<<"I64">>, t) : t \in ITypes}
    [] op = "STORE_HOST" -> {Sig(<<"I64", t>>, "V") : t \in ITypes}
    [] op \in {"LOAD_GUEST", "LOAD_FAST"} -> {Sig(<<"I32">>, t) : t \in IInts}
    [] op \in {"STORE_GUEST", "STORE_FAST"} -> {Sig(<<"I32", t>>, "V") : t \in IInts}
    [] op = "LOAD_CONTEXT" -> {Sig(<<"OFF">>, t) : t \in ITypes}
    [] op = "STORE_CONTEXT" -> {Sig(<<"OFF", t>>, "V") : t \in ITypes}
    [] OTHER -> {}

(* ir_sext, ir_zext and ir_trunc check only that both types are integers;  *)
(* the front ends and the emitters take each in its own direction.         *)
CastSigs(op) ==
  CASE op = "FTOI" -> {Sig(<<t>>, "I32") : t \in IFloats}
    [] op = "ITOF" -> {Sig(<<"I32">>, "F32"), Sig(<<"I64">>, "F64")}
    [] op \in {"SEXT", "ZEXT"} -> {Sig(<<a>>, b) : <<a, b>> \in {p \in IInts \X IInts : ISize(p[1]) < ISize(p[2])}}
    [] op = "TRUNC" -> {Sig(<<a>>, b) : <<a, b>> \in {p \in IInts \X IInts : ISize(p[1]) > ISize(p[2])}}
    [] op = "FEXT" -> {Sig(<<"F32">>, "F64")}
    [] op = "FTRUNC" -> {Sig(<<"F64">>, "F32")}
    [] OTHER -> {}

CompareSigs(op) ==
  CASE op = "SELECT" -> {Sig(<<t, t, c>>, t) : t \in {"I32", "I64"}, c \in {"I8", "I32"}}
    [] op = "CMP" -> {Sig(<<t, t, "CC">>, "I8") : t \in IInts}
    [] op = "FCMP" -> {Sig(<<t, t, "FC">>, "I8") : t \in IFloats}
    [] OTHER -> {}

IntSigs(op) ==
  CASE op \in {"ADD", "SUB", "SMUL", "UMUL"} -> {Sig(<<t, t>>, t) : t \in {"I32", "I64"}}
    [] op = "NEG" -> {Sig(<<t>>, t) : t \in IInts}
    [] OTHER -> {}

FloatSigs(op) ==
  CASE op \in {"FADD", "FSUB", "FMUL", "FDIV"} -> {Sig(<<t, t>>, t) : t \in IFloats}
    [] op \in {"FNEG", "FABS", "SQRT"} -> {Sig(<<t>>, t) : t \in IFloats}
    [] OTHER -> {}

VectorSigs(op) ==
  CASE op = "VBROADCAST" -> {Sig(<<"F32">>, "V128")}
    [] op \in {"VADD", "VMUL"} -> {Sig(<<"V128", "V128">>, "V128")}
    [] op = "VDOT" -> {Sig(<<"V128", "V128">>, "F32")}
    [] OTHER -> {}

LogicSigs(op) ==
  CASE op \in {"AND", "OR", "XOR"} -> {Sig(<<t, t>>, t) : t \in IInts}
    [] op = "NOT" -> {Sig(<<t>>, t) : t \in IInts}
    [] op \in {"SHL", "ASHR", "LSHR"} -> {Sig(<<t, "N">>, t) : t \in {"I32", "I64"}}
    [] op \in {"ASHD", "LSHD"} -> {Sig(<<"I32", "I32">>, "I32")}
    [] OTHER -> {}

ControlSigs(op) ==
  CASE op = "BRANCH" -> {Sig(<<"I32">>, "V")}
    [] op = "BRANCH_COND" -> {Sig(<<"I32", "I32", "I8">>, "V")}
    [] op = "CALL" -> {Sig(<<"FN", "I64", "I32">>, "V"), Sig(<<"FN">>, "V")}
    [] op = "CALL_COND" -> {Sig(<<"FN", "I8", "I64", "I32">>, "V")}
    [] op = "FALLBACK" -> {Sig(<<"FN", "FN", "FN">>, "V")}
    [] op = "SOURCE_INFO" -> {Sig(<<"FN", "FN">>, "V")}
    [] OTHER -> {}

(* What an argument of a signature may be: an offset, a condition, a host  *)
(* pointer, a shift count, or any value of the type.                       *)
IArgs(code, b, t, type) ==
  LET live(u) == {Res(code[j]) : j \in {k \in DOMAIN code : code[k].type = u}}
  IN  CASE t = "OFF" -> {Imm(o, "I32") : o \in {n \in IOffsets(type) : n < b.offs}}
        [] t = "CC" -> {Imm(n, "I32") : n \in b.ccs}
        [] t = "FC" -> {Imm(n, "I32") : n \in {0, 3}}
        [] t = "FN" -> {Imm(0, "I64")}
        [] t = "N" -> {Imm(n, "I32") : n \in {0, 1, WordBits - 1}}
        [] OTHER -> live(t) \cup {v \in b.imms : v.t = t}

IBuilds(code, b, op, sigs) ==
  LET id == Len(code) + 1
      ins(a, t) == [id |-> id, op |-> op, args |-> a, type |-> t]
      arg(s, k) == IArgs(code, b, s.args[k], IF s.type = "V" THEN s.args[Len(s.args)] ELSE s.type)
  IN  UNION {CASE Len(s.args) = 1 -> {ins(<<a>>, s.type) : a \in arg(s, 1)}
               [] Len(s.args) = 2 -> {ins(<<a, y>>, s.type) : a \in arg(s, 1), y \in arg(s, 2)}
               [] Len(s.args) = 3 -> {ins(<<a, y, c>>, s.type) : a \in arg(s, 1), y \in arg(s, 2), c \in arg(s, 3)}
               [] OTHER -> {ins(<<a, y, c, d>>, s.type) : a \in arg(s, 1), y \in arg(s, 2), c \in arg(s, 3), d \in arg(s, 4)}
             : s \in {x \in sigs : {x.type} \cup Range(x.args) \subseteq b.types \cup {"V", "OFF", "CC", "FC", "FN", "N"}}}

----------------------------------------------------------------------------
(* Reading and rewriting a block.                                          *)

Gone(i) == [i EXCEPT !.op = "GONE", !.args = <<>>, !.type = "V"]
Compact(code) == SelectSeq(code, LAMBDA i : i.op # "GONE")
ReplaceUses(code, id, v) ==
  [k \in DOMAIN code |-> [code[k] EXCEPT !.args = [j \in DOMAIN @ |-> IF @[j].k = "res" /\ @[j].v = id THEN v ELSE @[j]]]]
Unused(code, id) == \A k \in DOMAIN code : \A j \in DOMAIN code[k].args : ~(code[k].args[j].k = "res" /\ code[k].args[j].v = id)
Positions(code) == [k \in DOMAIN code |-> k]
Ascending(S) == SelectSeq([n \in 1 .. 99 |-> n], LAMBDA n : n \in S)

(* jit_promote_fastmem: accesses of an instruction whose fastmem flag is   *)
(* set use the mapped memory directly.                                     *)
PromoteFastmem(code, fast) ==
  [k \in DOMAIN code |->
     [code[k] EXCEPT !.op = CASE fast /\ @ = "LOAD_GUEST" -> "LOAD_FAST"
                              [] fast /\ @ = "STORE_GUEST" -> "STORE_FAST"
                              [] OTHER -> @]]

(* cfa_run checks that only the last instruction branches.                 *)
CfaChecks(code) == \A k \in 1 .. Len(code) - 1 : code[k].op \notin {"BRANCH", "BRANCH_COND"}

----------------------------------------------------------------------------
(* Load and store elimination.  An entry for each byte of the context      *)
(* holds the value last known there; clearing changes the token and leaves *)
(* the entries, which are stale from then on.                              *)

NoEntry == [live |-> FALSE, off |-> 0, v |-> Imm(0, "I8"), none |-> TRUE]
LseClear(av) == [b \in DOMAIN av |-> [av[b] EXCEPT !.live = FALSE]]
LseErase(av, off, size) == [b \in DOMAIN av |-> IF b \in off .. off + size - 1 THEN NoEntry ELSE av[b]]
LseSet(av, off, v) ==
  [b \in DOMAIN av |-> IF b \in off .. off + ISize(v.t) - 1 THEN [live |-> TRUE, off |-> off, v |-> v, none |-> FALSE] ELSE av[b]]
LseGet(av, off) ==
  LET e == av[off]
  IN  /\ e.live /\ e.off = off
      /\ \A b \in off .. off + ISize(e.v.t) - 1 : av[b].v = e.v /\ ~av[b].none
LseTest(av, off, size) == \A b \in off .. off + size - 1 : av[b].live
Barriers == {"FALLBACK", "CALL", "BRANCH", "BRANCH_COND"}

LseLoad(s, k) ==
  LET i == s.code[k]
      off == i.args[1].v
  IN  CASE i.op \in Barriers -> [s EXCEPT !.av = LseClear(@)]
        [] i.op = "LOAD_CONTEXT" /\ LseGet(s.av, off) /\ s.av[off].v.t = i.type ->
             [s EXCEPT !.code = [ReplaceUses(@, i.id, s.av[off].v) EXCEPT ![k] = Gone(@)]]
        [] i.op = "LOAD_CONTEXT" /\ ~(LseGet(s.av, off) /\ s.av[off].v.t = i.type) ->
             [s EXCEPT !.av = LseSet(@, off, Res(i))]
        [] i.op = "STORE_CONTEXT" -> [s EXCEPT !.av = LseSet(@, off, i.args[2])]
        [] OTHER -> s

(* Mutant: a store before a call is found overwritten by one behind it.    *)
LseStorePast(s, k) ==
  LET i == s.code[k]
      off == i.args[1].v
  IN  CASE i.op = "LOAD_CONTEXT" -> [s EXCEPT !.av = LseErase(@, off, ISize(i.type))]
        [] i.op = "STORE_CONTEXT" /\ LseTest(s.av, off, ISize(i.args[2].t)) -> [s EXCEPT !.code[k] = Gone(@)]
        [] i.op = "STORE_CONTEXT" /\ ~LseTest(s.av, off, ISize(i.args[2].t)) -> [s EXCEPT !.av = LseSet(@, off, i.args[2])]
        [] OTHER -> s

LseStore(s, k) ==
  LET i == s.code[k]
      off == i.args[1].v
  IN  CASE i.op \in Barriers -> [s EXCEPT !.av = LseClear(@)]
        [] i.op = "LOAD_CONTEXT" -> [s EXCEPT !.av = LseErase(@, off, ISize(i.type))]
        [] i.op = "STORE_CONTEXT" /\ LseTest(s.av, off, ISize(i.args[2].t)) -> [s EXCEPT !.code[k] = Gone(@)]
        [] i.op = "STORE_CONTEXT" /\ ~LseTest(s.av, off, ISize(i.args[2].t)) -> [s EXCEPT !.av = LseSet(@, off, i.args[2])]
        [] OTHER -> s

LseRun(code) ==
  LET av == [b \in 0 .. ICtxBytes - 1 |-> NoEntry]
      loads == Compact(FoldLeft(LseLoad, [code |-> code, av |-> av], Positions(code)).code)
  IN  Compact(FoldLeft(LseStore, [code |-> loads, av |-> av], Reverse(Positions(loads))).code)

----------------------------------------------------------------------------
(* Constant propagation folds operations on immediates, zero extended to   *)
(* 64 bits and cut to the type of the result.                              *)

Folded(i, a, b) ==
  CASE i.op = "ADD" -> a + b
    [] i.op = "AND" -> a & b
    [] i.op = "LSHR" -> a \div 2 ^ b
    [] i.op = "OR" -> a | b
    [] i.op = "SHL" -> (a % 2 ^ (ISize(i.type) * ByteBits - b)) * 2 ^ b
    [] i.op = "SUB" -> a - b
    [] i.op = "UMUL" -> ISigned(a, i.type) * ISigned(b, i.type)
    [] i.op = "XOR" -> a ^^ b
FoldsBinary == {"ADD", "AND", "LSHR", "OR", "SHL", "SUB", "UMUL", "XOR"}

CpropStep(code, k) ==
  LET i == code[k]
      n == Len(i.args)
  IN  CASE i.type # "V" /\ n >= 2 /\ IsImmInt(i.args[1]) /\ IsImmInt(i.args[2]) /\ i.op \in FoldsBinary ->
             ReplaceUses(code, i.id, Imm(Folded(i, i.args[1].v, i.args[2].v), i.type))
        [] i.type # "V" /\ n = 1 /\ IsImmInt(i.args[1]) /\ i.op = "NEG" -> ReplaceUses(code, i.id, Imm(-i.args[1].v, i.type))
        [] i.type # "V" /\ n = 1 /\ IsImmInt(i.args[1]) /\ i.op = "NOT" -> ReplaceUses(code, i.id, Imm(-1 - i.args[1].v, i.type))
        [] OTHER -> code
CpropRun(code) == FoldLeft(CpropStep, code, Positions(code))

(* Expression simplification.                                              *)
EsimpStep(code, k) ==
  LET i == code[k]
      twice == Len(i.args) >= 2 /\ i.args[1] = i.args[2]
      rhs(n) == Len(i.args) >= 2 /\ IsImmInt(i.args[2]) /\ i.args[2].v = n
      same == CASE i.op = "XOR" /\ twice -> ReplaceUses(code, i.id, Imm(0, i.type))
                [] i.op \in {"AND", "OR"} /\ twice -> ReplaceUses(code, i.id, i.args[1])
                [] OTHER -> code
  IN  CASE i.op \in {"AND", "SMUL", "UMUL"} /\ rhs(0) -> ReplaceUses(same, i.id, Imm(0, i.type))
        [] i.op \in {"ADD", "SUB", "OR", "XOR", "SHL", "LSHR", "ASHR"} /\ rhs(0) -> ReplaceUses(same, i.id, i.args[1])
        [] i.op \in {"UMUL", "SMUL"} /\ rhs(1) -> ReplaceUses(same, i.id, i.args[1])
        [] OTHER -> same
EsimpRun(code) == FoldLeft(EsimpStep, code, Positions(code))

(* Dead code elimination, from the end so that chains go together.         *)
DceStep(code, k) == IF code[k].type # "V" /\ Unused(code, code[k].id) THEN [code EXCEPT ![k] = Gone(@)] ELSE code
DceRun(code) == Compact(FoldLeft(DceStep, code, Reverse(Positions(code))))

----------------------------------------------------------------------------
(* What a block means: the context it leaves, the calls and stores it      *)
(* makes and the address it branches to.                                   *)

(* The floating point unit and the vector unit of the host, of which only  *)
(* the dependence on the operands matters.                                 *)
HostF(op, t, a) ==
  LET n == CASE op \in {"FADD", "VADD"} -> 3 [] op \in {"FSUB"} -> 5 [] op \in {"FMUL", "VMUL"} -> 7 [] op = "FDIV" -> 9
             [] op = "FNEG" -> 11 [] op = "FABS" -> 13 [] op = "SQRT" -> 15 [] op = "VDOT" -> 17 [] OTHER -> 19
  IN  (a[1] * n + (IF Len(a) > 1 THEN a[2] * (n + 2) ELSE 0) + n) % IMod(t)
HostLoad(addr, t) == (addr * 7 + 3) % IMod(t)

Compared(cc, a, b, t) ==
  LET s(v) == ISigned(v, t)
  IN  Bool(CASE cc = 0 -> a = b [] cc = 1 -> a # b [] cc = 2 -> s(a) >= s(b) [] cc = 3 -> s(a) > s(b)
             [] cc = 4 -> a >= b [] cc = 5 -> a > b [] cc = 6 -> s(a) <= s(b) [] cc = 7 -> s(a) < s(b)
             [] cc = 8 -> a <= b [] cc = 9 -> a < b)

IEval(op, t, u, a) ==
  CASE op = "ADD" -> (a[1] + a[2]) % IMod(t)
    [] op = "SUB" -> (a[1] - a[2]) % IMod(t)
    [] op \in {"SMUL", "UMUL"} -> (ISigned(a[1], t) * ISigned(a[2], t)) % IMod(t)
    [] op = "NEG" -> (-a[1]) % IMod(t)
    [] op = "NOT" -> (-1 - a[1]) % IMod(t)
    [] op = "AND" -> a[1] & a[2]
    [] op = "OR" -> a[1] | a[2]
    [] op = "XOR" -> a[1] ^^ a[2]
    [] op = "SHL" -> (a[1] % 2 ^ (ISize(t) * ByteBits - a[2])) * 2 ^ a[2]
    [] op = "LSHR" -> a[1] \div 2 ^ a[2]
    [] op = "ASHR" -> (ISigned(a[1], t) \div 2 ^ a[2]) % IMod(t)
    [] op = "ASHD" -> Ashd(a[1], a[2])
    [] op = "LSHD" -> Lshd(a[1], a[2])
    [] op = "SEXT" -> ISigned(a[1], u) % IMod(t)
    [] op \in {"ZEXT", "TRUNC"} -> a[1] % IMod(t)
    [] op = "SELECT" -> IF a[3] # 0 THEN a[1] ELSE a[2]
    [] op = "CMP" -> Compared(a[3], a[1], a[2], u)
    [] op = "FCMP" -> Compared(a[3], a[1], a[2], "I32")
    [] op = "COPY" -> a[1]
    [] op \in {"LOAD_GUEST", "LOAD_FAST", "LOAD_HOST"} -> HostLoad(a[1], t)
    [] OTHER -> HostF(op, t, a)

GetCtx(ctx, off, t) == MapThenSumSet(LAMBDA k : ctx[off + k] * 2 ^ (k * ByteBits), 0 .. ISize(t) - 1)
PutCtx(ctx, off, t, v) ==
  [b \in DOMAIN ctx |-> IF b \in off .. off + ISize(t) - 1 THEN (v \div 2 ^ ((b - off) * ByteBits)) % 2 ^ ByteBits ELSE ctx[b]]

(* A callee sees the whole context and may change it.                      *)
Effect(s, i, a) ==
  CASE i.op = "STORE_CONTEXT" -> [s EXCEPT !.ctx = PutCtx(@, a[1], i.args[2].t, a[2])]
    [] i.op \in {"CALL", "FALLBACK"} ->
         [s EXCEPT !.log = Append(@, <<i.op, a, s.ctx>>), !.ctx = [b \in DOMAIN @ |-> (@[b] + 1) % 2 ^ ByteBits]]
    [] i.op = "CALL_COND" -> IF a[2] = 0 THEN s ELSE [s EXCEPT !.log = Append(@, <<i.op, a, <<>>>>)]
    [] i.op \in {"STORE_GUEST", "STORE_FAST", "STORE_HOST"} -> [s EXCEPT !.log = Append(@, <<"STORE", a, <<ISize(i.args[2].t)>>>>)]
    [] i.op = "BRANCH" -> [s EXCEPT !.pc = a[1]]
    [] i.op = "BRANCH_COND" -> [s EXCEPT !.pc = IF a[3] # 0 THEN a[1] ELSE a[2]]
    [] OTHER -> s

IStart == [ctx |-> [b \in 0 .. ICtxBytes - 1 |-> (b * b + b + b \div 3 + 1) % 2 ^ ByteBits], log |-> <<>>, pc |-> 0]

Meaning(code) ==
  LET arg(s, v) == IF IsImm(v) THEN v.v ELSE s.val[v.v]
      step(s, i) ==
        LET a == [j \in DOMAIN i.args |-> arg(s, i.args[j])]
        IN  CASE i.op = "LOAD_CONTEXT" -> [s EXCEPT !.val[i.id] = GetCtx(s.s.ctx, a[1], i.type)]
              [] i.op # "LOAD_CONTEXT" /\ i.type # "V" -> [s EXCEPT !.val[i.id] = IEval(i.op, i.type, i.args[1].t, a)]
              [] OTHER -> [s EXCEPT !.s = Effect(@, i, a)]
  IN  FoldLeft(step, [val |-> [j \in 1 .. Len(code) + 20 |-> 0], s |-> IStart], code).s
==============================================================================
