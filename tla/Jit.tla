-------------------------------- MODULE Jit --------------------------------
(***************************************************************************)
(* The recompiler: the block cache and the links between blocks of         *)
(* jit/jit.c, and the dispatch thunks of jit/backend/x64/x64_dispatch.cc   *)
(* that look blocks up, compile them and patch the branches between them.  *)
(*                                                                         *)
(* A block of guest code is one of Contents: what matters of it is its     *)
(* size and where its static branch goes.  Host code is numbered in the    *)
(* order in which it is emitted into the code buffer; a number is reused   *)
(* once the buffer is reset, as a host address is.                         *)
(***************************************************************************)
EXTENDS Integers

CONSTANTS
  Addrs,      \* guest addresses blocks begin at
  ResetPc,    \* where execution starts, 0xa0000000
  Contents,   \* code a guest address may hold
  Trap,       \* the content a breakpoint writes, in Contents if there are any
  Target,     \* Target[c] is where the static branch that ends c goes
  Size,       \* Size[c] is the extent of c
  SlotOf,     \* SlotOf[a] is the dispatch cache entry of a, a & cache_mask
  Capacity,   \* blocks that fit the code buffer
  Slice,      \* cycles a call of jit_run is given
  JumpsAfterFlush \* may a block that wrote CCR end in a static branch?

ASSUME JitAssumption ==
  /\ Addrs \subseteq Nat /\ ResetPc \in Addrs
  /\ DOMAIN Target = Contents /\ \A c \in Contents : Target[c] \in Addrs
  /\ DOMAIN Size = Contents /\ \A c \in Contents : Size[c] \in Nat
  /\ DOMAIN SlotOf = Addrs
  /\ Capacity \in Nat \ {0} /\ Slice \in Nat
  /\ JumpsAfterFlush \in BOOLEAN

VARIABLES
  mem,     \* the guest code at each address
  jit,     \* struct jit and the state of its backend
  at,      \* what the host is executing
  host,    \* the host code being executed, or NoHost
  pc,      \* the guest's pc
  cycles,  \* run_cycles
  flushed, \* did the running block write CCR?
  blocked, \* are interrupts blocked since the last one was taken?
  fatal,   \* has a CHECK failed, or a null pointer been used?
  since    \* contents each address had since the guest last flushed its cache

vars == <<mem, jit, at, host, pc, cycles, flushed, blocked, fatal, since>>

\* No host code is running; as a branch or dispatch entry, the thunk of
\* dispatch_static or dispatch_compile.
NoHost == 0
Thunk == 0

Hosts == 1..Capacity
Slots == {SlotOf[a] : a \in Addrs}

Block == [state : {"valid", "invalid", "recompile"}, host : Hosts,
          fast : BOOLEAN, size : Nat]

Edge == [src : Addrs, dst : Addrs, branch : Hosts, patched : BOOLEAN]

Code == [addr : Addrs, content : Contents, fast : BOOLEAN,
         jmp : Hosts \cup {Thunk}]

(* Every piece of state has its type, a block's host code has been emitted,
   and no two blocks share their host code. *)
TypeOK ==
  /\ mem \in [Addrs -> Contents]
  /\ DOMAIN jit.blocks \subseteq Addrs
  /\ \A a \in DOMAIN jit.blocks :
       jit.blocks[a] \in Block /\ jit.blocks[a].host <= jit.used
  /\ \A a, b \in DOMAIN jit.blocks :
       jit.blocks[a].host = jit.blocks[b].host => a = b
  /\ jit.edges \subseteq Edge
  /\ jit.used \in 0..Capacity /\ DOMAIN jit.code = 1..jit.used
  /\ \A h \in 1..jit.used : jit.code[h] \in Code
  /\ jit.slots \in [Slots -> Hosts \cup {Thunk}]
  /\ at \in {"exit", "dynamic", "static", "compile", "prolog", "body"}
  /\ host \in Hosts \cup {NoHost} /\ pc \in Addrs
  /\ cycles \in -1..Slice
  /\ {flushed, blocked, fatal} \subseteq BOOLEAN
  /\ since \in [Addrs -> SUBSET Contents]

-----------------------------------------------------------------------------
(* The block cache. *)

\* jit_lookup_block_reverse: the blocks whose host code is h, at most one.
ReverseLookup(j, h) == {a \in DOMAIN j.blocks : j.blocks[a].host = h}

\* A jit_invalidate_block that does not restore the branches to the block.
InvalidateBlocksUnrestored(j, S, state) ==
  [j EXCEPT
    !.blocks = [a \in DOMAIN @ |->
      IF a \in S THEN [@[a] EXCEPT !.state = state] ELSE @[a]],
    !.slots  = [s \in Slots |->
      IF s \in {SlotOf[a] : a \in S} THEN Thunk ELSE @[s]],
    !.edges  = {e \in @ : e.src \notin S /\ e.dst \notin S}]

(* jit_invalidate_block for every block in S, in the order of their addresses.
   A block restores the branches of the edges into it, then frees the edges
   into it and out of it: the branch of an edge whose source comes first is
   never restored, since the edge is gone when its destination is reached. *)
InvalidateBlocks(j, S, state) ==
  LET restored == {e.branch : e \in
        {e \in j.edges : e.dst \in S /\ e.patched
                         /\ (e.src \in S => e.dst <= e.src)}}
  IN [j EXCEPT
       !.blocks = [a \in DOMAIN @ |->
         IF a \in S THEN [@[a] EXCEPT !.state = state] ELSE @[a]],
       !.slots  = [s \in Slots |->
         IF s \in {SlotOf[a] : a \in S} THEN Thunk ELSE @[s]],
       !.code   = [h \in DOMAIN @ |->
         IF h \in restored THEN [@[h] EXCEPT !.jmp = Thunk] ELSE @[h]],
       !.edges  = {e \in @ : e.src \notin S /\ e.dst \notin S}]

\* jit_free_block for every block in S.
FreeBlocks(j, S) ==
  LET k == InvalidateBlocks(j, S, "invalid")
  IN [k EXCEPT !.blocks = [a \in DOMAIN @ \ S |-> @[a]]]

\* A jit_free_code that leaves the dispatch cache alone.
FreeCodeKeepsSlots(j) ==
  [FreeBlocks(j, DOMAIN j.blocks) EXCEPT !.used = 0, !.code = << >>,
                                         !.slots = j.slots]

\* jit_free_code.  The buffer may be overwritten from its beginning.
FreeCode(j) ==
  [FreeBlocks(j, DOMAIN j.blocks) EXCEPT !.used = 0, !.code = << >>]

\* jit_invalidate_code
InvalidateCode(j) == InvalidateBlocks(j, DOMAIN j.blocks, "invalid")

(* jit_patch_edges: the branches into and out of the block at a that are not
   patched yet jump to the host code of their destinations. *)
PatchEdges(j, a) ==
  LET patch == {e \in j.edges : ~e.patched /\ a \in {e.src, e.dst}}
  IN [j EXCEPT
       !.edges = (@ \ patch) \cup {[e EXCEPT !.patched = TRUE] : e \in patch},
       !.code  = [g \in DOMAIN @ |->
         IF \E e \in patch : e.branch = g
         THEN [@[g] EXCEPT !.jmp =
                 j.blocks[(CHOOSE e \in patch : e.branch = g).dst].host]
         ELSE @[g]]]

\* jit_link_code: record the edge and patch the branch.
LinkCode(j, h, dst) ==
  LET src  == CHOOSE a \in ReverseLookup(j, h) : TRUE
      edge == [src |-> src, dst |-> dst, branch |-> h, patched |-> FALSE]
  IN IF j.blocks[src].state # "valid" \/ dst \notin DOMAIN j.blocks THEN j
     ELSE PatchEdges([j EXCEPT !.edges = @ \cup {edge}], src)

\* Is there a block at a whose fastmem state is kept?
Persists(j, a) == a \in DOMAIN j.blocks /\ j.blocks[a].state # "invalid"

\* The block that a is compiled anew for is removed first.
Freed(j, a) ==
  IF a \in DOMAIN j.blocks THEN FreeBlocks(j, {a}) ELSE j

(* The CHECKs of jit_compile_code, jit_finalize_block and
   x64_dispatch_cache_code. *)
CompileChecks(j, a) ==
  /\ Persists(j, a) => j.blocks[a].size = Size[mem[a]]
  /\ Freed(j, a).slots[SlotOf[a]] = Thunk
  /\ \A e \in Freed(j, a).edges : a \notin {e.src, e.dst}

NewBlock(j, a) ==
  LET fast  == Persists(j, a) => j.blocks[a].fast
      h     == j.used + 1
      code  == [addr |-> a, content |-> mem[a], fast |-> fast, jmp |-> Thunk]
      block == [state |-> "valid", host |-> h, fast |-> fast,
                size |-> Size[mem[a]]]
  IN [Freed(j, a) EXCEPT
       !.used   = h,
       !.code   = [g \in DOMAIN @ \cup {h} |-> IF g = h THEN code ELSE @[g]],
       !.slots  = [@ EXCEPT ![SlotOf[a]] = h],
       !.blocks = [b \in DOMAIN @ \cup {a} |-> IF b = a THEN block ELSE @[b]]]

\* A jit_compile_code that does not make room when the buffer is full.
CompileCodeNoReset(j, a) ==
  IF j.used = Capacity THEN Freed(j, a) ELSE NewBlock(j, a)

(* jit_compile_code: an existing block is freed, but for its fastmem state if
   it is only to be recompiled.  If the buffer is full everything is freed and
   dispatch tries again. *)
CompileCode(j, a) ==
  IF j.used = Capacity THEN FreeCode(Freed(j, a)) ELSE NewBlock(j, a)

\* The blocks of host code h use fastmem no more.
WithoutFastmem(j, h) ==
  [j EXCEPT !.blocks = [a \in DOMAIN @ |->
    IF a \in ReverseLookup(j, h) THEN [@[a] EXCEPT !.fast = FALSE] ELSE @[a]]]

(* jit_handle_exception for an access of host code h that is not plain
   memory: the block is compiled without fastmem the next time. *)
HandleException(j, h) ==
  InvalidateBlocks(WithoutFastmem(j, h), ReverseLookup(j, h), "recompile")

-----------------------------------------------------------------------------
Init ==
  /\ mem \in [Addrs -> Contents \ {Trap}]
  /\ jit = [blocks |-> << >>, edges |-> {}, code |-> << >>, used |-> 0,
            slots |-> [s \in Slots |-> Thunk]]
  /\ at = "exit" /\ host = NoHost /\ pc = ResetPc
  /\ cycles = -1
  /\ flushed = FALSE /\ blocked = FALSE /\ fatal = FALSE
  /\ since = [a \in Addrs |-> {mem[a]}]

\* dispatch_enter
Enter ==
  /\ at = "exit"
  /\ at' = "dynamic" /\ cycles' = Slice
  /\ UNCHANGED <<mem, jit, host, pc, flushed, blocked, fatal, since>>

\* dispatch_dynamic
Dynamic ==
  /\ at = "dynamic" /\ ~fatal
  /\ LET h == jit.slots[SlotOf[pc]]
     IN IF h = Thunk THEN at' = "compile" /\ host' = NoHost
                     ELSE at' = "prolog" /\ host' = h
  /\ UNCHANGED <<mem, jit, pc, cycles, flushed, blocked, fatal, since>>

\* dispatch_compile
Compile ==
  /\ at = "compile"
  /\ fatal' = ~CompileChecks(jit, pc)
  /\ jit' = CompileCode(jit, pc)
  /\ at' = "dynamic"
  /\ UNCHANGED <<mem, host, pc, cycles, flushed, blocked, since>>

\* dispatch_static: link, and fall through to dispatch_dynamic.
Static ==
  /\ at = "static"
  /\ fatal' = (ReverseLookup(jit, host) = {})
  /\ jit' = IF fatal' THEN jit ELSE LinkCode(jit, host, pc)
  /\ at' = "dynamic" /\ host' = NoHost
  /\ UNCHANGED <<mem, pc, cycles, flushed, blocked, since>>

\* The prologue of a block leaves once the cycles are used up.
PrologExit ==
  /\ at = "prolog" /\ cycles < 0
  /\ at' = "exit" /\ host' = NoHost
  /\ UNCHANGED <<mem, jit, pc, cycles, flushed, blocked, fatal, since>>

(* dispatch_interrupt: the handler's address is the new pc, and taking the
   interrupt blocks others until guest code allows them again. *)
PrologInterrupt(handler) ==
  /\ at = "prolog" /\ cycles >= 0 /\ ~blocked
  /\ pc' = handler /\ blocked' = TRUE
  /\ at' = "dynamic" /\ host' = NoHost
  /\ UNCHANGED <<mem, jit, cycles, flushed, fatal, since>>

\* The prologue pays for the block.
Prolog ==
  /\ at = "prolog" /\ cycles >= 0
  /\ at' = "body" /\ cycles' = cycles - 1
  /\ UNCHANGED <<mem, jit, host, pc, flushed, blocked, fatal, since>>

\* Is the host in the middle of a block that does not end in a breakpoint?
Running == at = "body" /\ jit.code[host].content # Trap

\* Guest code writes over guest code, or a device does between two slices.
WriteCode(a, c) ==
  /\ at = "exit" \/ Running
  /\ c \in Contents \ {Trap} /\ mem[a] # Trap
  /\ mem' = [mem EXCEPT ![a] = c]
  /\ since' = [since EXCEPT ![a] = @ \cup {c}]
  /\ UNCHANGED <<jit, at, host, pc, cycles, flushed, blocked, fatal>>

\* The running block sets CCR.ICI: sh4_ccn_reset.
WriteCCR ==
  /\ Running
  /\ jit' = InvalidateCode(jit)
  /\ flushed' = TRUE
  /\ since' = [a \in Addrs |-> {mem[a]}]
  /\ UNCHANGED <<mem, at, host, pc, cycles, blocked, fatal>>

\* The running block accesses a device through a fastmem access.
Fault ==
  /\ Running /\ jit.code[host].fast
  /\ fatal' = (ReverseLookup(jit, host) = {})
  /\ jit' = HandleException(jit, host)
  /\ UNCHANGED <<mem, at, host, pc, cycles, flushed, blocked, since>>

\* The block ends in a branch to an address in a register.
BranchDynamic(a) ==
  /\ Running
  /\ pc' = a /\ at' = "dynamic" /\ host' = NoHost
  /\ flushed' = FALSE /\ blocked' = FALSE
  /\ UNCHANGED <<mem, jit, cycles, fatal, since>>

(* The block ends in a branch to a constant address: a call of
   dispatch_static, or a jump to the host code it has been patched to. *)
BranchStatic ==
  /\ Running
  /\ flushed => JumpsAfterFlush
  /\ pc' = Target[jit.code[host].content]
  /\ LET jmp == jit.code[host].jmp
     IN IF jmp = Thunk THEN at' = "static" /\ host' = host
                       ELSE at' = "prolog" /\ host' = jmp
  /\ flushed' = FALSE /\ blocked' = FALSE
  /\ UNCHANGED <<mem, jit, cycles, fatal, since>>

(* The block is a breakpoint: sh4_dbg_invalid_instr takes the remaining cycles
   away and leaves the pc. *)
TrapHit ==
  /\ at = "body" /\ ~Running
  /\ cycles' = 0
  /\ at' = "dynamic" /\ host' = NoHost
  /\ UNCHANGED <<mem, jit, pc, flushed, blocked, fatal, since>>

\* The debugger adds or removes a breakpoint between two slices.
Breakpoint(a, c) ==
  /\ at = "exit"
  /\ (c = Trap) # (mem[a] = Trap)
  /\ mem' = [mem EXCEPT ![a] = c]
  /\ jit' = FreeCode(jit)
  /\ since' = [b \in Addrs |-> {mem'[b]}]
  /\ UNCHANGED <<at, host, pc, cycles, flushed, blocked, fatal>>

\* sh4_reset
Reset ==
  /\ at = "exit"
  /\ jit' = FreeCode(jit)
  /\ pc' = ResetPc /\ blocked' = TRUE
  /\ since' = [a \in Addrs |-> {mem[a]}]
  /\ UNCHANGED <<mem, at, host, cycles, flushed, fatal>>

Dispatch == Dynamic \/ Compile \/ Static \/ PrologExit \/ Prolog

EndBlock == (\E a \in Addrs : BranchDynamic(a)) \/ BranchStatic \/ TrapHit

Next ==
  \/ Enter
  \/ Dispatch
  \/ \E a \in Addrs : PrologInterrupt(a)
  \/ \E a \in Addrs, c \in Contents : WriteCode(a, c)
  \/ WriteCCR
  \/ Fault
  \/ EndBlock
  \/ \E a \in Addrs, c \in Contents : Breakpoint(a, c)
  \/ Reset

Spec == Init /\ [][Next]_vars

(* The host executes one instruction after the other: the thunks run to their
   end, and a block has finitely many instructions. *)
Fairness == WF_vars(Dispatch) /\ WF_vars(EndBlock)

FairSpec == Spec /\ Fairness

-----------------------------------------------------------------------------
(* No CHECK of the recompiler fails and no block lookup comes back empty, and
   host code that is entered was translated from the address in the guest's
   pc and is that of a block which is not stale, whether dispatch looked it up
   or a patched branch jumped to it, and however often the code buffer has been
   reused since: code that is to be recompiled is never run again. *)
RightCode ==
  /\ TypeOK /\ ~fatal
  /\ at = "prolog" =>
       /\ host \in DOMAIN jit.code /\ jit.code[host].addr = pc
       /\ \E a \in ReverseLookup(jit, host) : jit.blocks[a].state = "valid"

\* Every recorded edge is a patched branch between the host code of two blocks.
EdgesPatched ==
  \A e \in jit.edges :
    /\ {e.src, e.dst} \subseteq DOMAIN jit.blocks
    /\ e.branch = jit.blocks[e.src].host
    /\ jit.code[e.branch].jmp = jit.blocks[e.dst].host

\* The patched branch of a valid block is recorded, and goes to host code of a
\* block that is valid or about to be compiled anew, which will restore it.
BranchesRecorded ==
  \A a \in DOMAIN jit.blocks :
    (jit.blocks[a].state = "valid" /\ jit.code[jit.blocks[a].host].jmp # Thunk)
      => \E e \in jit.edges :
           /\ e.src = a
           /\ \/ jit.blocks[e.dst].state = "valid"
              \/ at \in {"dynamic", "compile"} /\ pc = e.dst

(* The body of host code is only run if it stands for code its address held at
   some time since the guest last flushed its instruction cache: after the block
   that flushes it, no block runs that was translated before and has been
   written over.  For that, the branches jit_patch_edges has patched are exactly
   the ones the edges record, so that invalidation restores all of them. *)
FreshCode ==
  /\ EdgesPatched /\ BranchesRecorded
  /\ at = "prolog" /\ cycles >= 0 =>
       /\ host \in DOMAIN jit.code
       /\ jit.code[host].content \in since[jit.code[host].addr]

(* The running block is one a breakpoint was written to. *)
AtTrap == at = "body" /\ ~Running

(* A call of jit_run returns or comes to a breakpoint: blocks use up their
   cycles, and dispatch always finds or compiles the next one, also when the
   code buffer overflows meanwhile. *)
RunEnds == at = "dynamic" ~> at = "exit" \/ AtTrap

(* "force a break from dispatch" (sh4_dbg_invalid_instr): a breakpoint makes
   jit_run return, so that the debugger can stop the machine. *)
TrapBreaks == AtTrap ~> at = "exit"

=============================================================================
