----------------------------- MODULE JitProofs -----------------------------
(***************************************************************************)
(* Proofs about Jit: what the host runs is the current translation of the  *)
(* guest's pc.  The block cache is a value, so its invariant is a          *)
(* predicate of that value, and every operation of jit.c is shown to keep  *)
(* it before the actions that call the operation are looked at.            *)
(***************************************************************************)
EXTENDS Jit, TLAPS

\* Guest code that is written over keeps its extent (jit.c:341).
OneExtent == \A c, d \in Contents : Size[c] = Size[d]

\* No two blocks share an entry of the dispatch cache.
OwnEntry == \A a, b \in Addrs : SlotOf[a] = SlotOf[b] => a = b

-----------------------------------------------------------------------------
(* The invariant of the block cache. *)

\* The fields of the cache.
Shape(j) ==
  j \in [blocks : {j.blocks}, edges : {j.edges}, code : {j.code},
         used : {j.used}, slots : {j.slots}]

CacheType(j) ==
  /\ Shape(j)
  /\ DOMAIN j.blocks \subseteq Addrs
  /\ j.blocks \in [DOMAIN j.blocks -> Block]
  /\ j.edges \subseteq Edge
  /\ j.used \in 0..Capacity
  /\ j.code \in [1..j.used -> Code]
  /\ j.slots \in [Slots -> Hosts \cup {Thunk}]

\* A block has host code of its own, translated from its address.
Translated(j) ==
  \A a \in DOMAIN j.blocks :
    /\ j.blocks[a].host \in 1..j.used
    /\ j.code[j.blocks[a].host].addr = a
    /\ \E c \in Contents : j.blocks[a].size = Size[c]

\* An entry of the dispatch cache leads to the valid block of its address.
EntriesLive(j) ==
  \A a \in Addrs :
    j.slots[SlotOf[a]] # Thunk =>
      /\ a \in DOMAIN j.blocks /\ j.blocks[a].state = "valid"
      /\ j.slots[SlotOf[a]] = j.blocks[a].host

\* An edge is a patched branch, from a valid block to where its content goes.
EdgesLive(j) ==
  \A e \in j.edges :
    /\ e.patched /\ e.src \in DOMAIN j.blocks /\ e.dst \in DOMAIN j.blocks
    /\ j.blocks[e.src].state = "valid"
    /\ e.branch = j.blocks[e.src].host
    /\ j.code[e.branch].jmp = j.blocks[e.dst].host
    /\ e.dst = Target[j.code[e.branch].content]

\* The patched branch of a valid block is an edge, and its destination is
\* valid or about to be compiled, one of P.
Recorded(j, P) ==
  \A a \in DOMAIN j.blocks :
    (j.blocks[a].state = "valid" /\ j.code[j.blocks[a].host].jmp # Thunk) =>
      \E e \in j.edges :
        e.src = a /\ (j.blocks[e.dst].state = "valid" \/ e.dst \in P)

\* A valid block stands for code its address held since the last flush.
Fresh(j, snc) ==
  \A a \in DOMAIN j.blocks :
    j.blocks[a].state = "valid" => j.code[j.blocks[a].host].content \in snc[a]

CacheInv(j, P, snc) ==
  /\ CacheType(j) /\ Translated(j) /\ EntriesLive(j) /\ EdgesLive(j)
  /\ Recorded(j, P) /\ Fresh(j, snc)

-----------------------------------------------------------------------------
(* jit_invalidate_block *)

\* Does the invalidation of S restore the branch of host code h?
Restores(j, S, h) ==
  \E e \in j.edges : /\ e.branch = h /\ e.dst \in S /\ e.patched
                     /\ (e.src \in S => e.dst <= e.src)

(* What invalidation does to each part of the cache: code keeps all but the
   branches into the blocks that are invalidated. *)
LEMMA InvalidateParts ==
  ASSUME NEW j, CacheType(j), NEW S \in SUBSET DOMAIN j.blocks,
         NEW state \in {"invalid", "recompile"}
  PROVE  LET k == InvalidateBlocks(j, S, state)
         IN /\ CacheType(k)
            /\ DOMAIN k.blocks = DOMAIN j.blocks /\ k.used = j.used
            /\ \A a \in DOMAIN j.blocks :
                 /\ k.blocks[a].host = j.blocks[a].host
                 /\ k.blocks[a].fast = j.blocks[a].fast
                 /\ k.blocks[a].size = j.blocks[a].size
                 /\ k.blocks[a].state = IF a \in S THEN state ELSE j.blocks[a].state
            /\ \A s \in Slots :
                 k.slots[s] = IF \E a \in S : s = SlotOf[a] THEN Thunk ELSE j.slots[s]
            /\ \A h \in 1..j.used :
                 /\ k.code[h].addr = j.code[h].addr
                 /\ k.code[h].content = j.code[h].content
                 /\ k.code[h].jmp = IF Restores(j, S, h) THEN Thunk ELSE j.code[h].jmp
            /\ k.edges = {e \in j.edges : e.src \notin S /\ e.dst \notin S}
PROOF
<1> DEFINE R == {e.branch : e \in {e \in j.edges : e.dst \in S /\ e.patched
                                     /\ (e.src \in S => e.dst <= e.src)}}
           b == [a \in DOMAIN j.blocks |->
                  IF a \in S THEN [j.blocks[a] EXCEPT !.state = state] ELSE j.blocks[a]]
           s == [s \in Slots |->
                  IF s \in {SlotOf[a] : a \in S} THEN Thunk ELSE j.slots[s]]
           c == [h \in DOMAIN j.code |->
                  IF h \in R THEN [j.code[h] EXCEPT !.jmp = Thunk] ELSE j.code[h]]
           d == {e \in j.edges : e.src \notin S /\ e.dst \notin S}
           k == InvalidateBlocks(j, S, state)
<1>1. k = [j EXCEPT !.blocks = b, !.slots = s, !.code = c, !.edges = d]
  BY DEF InvalidateBlocks
<1> HIDE DEF b, s, c, d, k
<1>2. /\ k.blocks = b /\ k.edges = d /\ k.code = c /\ k.used = j.used /\ k.slots = s
      /\ Shape(k)
  BY <1>1 DEF CacheType, Shape
<1> USE DEF b, s, c, d
<1>3. \A a \in DOMAIN j.blocks :
        /\ b[a] \in Block /\ b[a].host = j.blocks[a].host
        /\ b[a].fast = j.blocks[a].fast /\ b[a].size = j.blocks[a].size
        /\ b[a].state = IF a \in S THEN state ELSE j.blocks[a].state
  BY DEF CacheType, Block
<1>4. \A h \in 1..j.used :
        /\ c[h] \in Code /\ c[h].addr = j.code[h].addr
        /\ c[h].content = j.code[h].content
        /\ c[h].jmp = IF h \in R THEN Thunk ELSE j.code[h].jmp
  BY DEF CacheType, Code, Thunk
<1>5. DOMAIN b = DOMAIN j.blocks /\ DOMAIN c = 1..j.used
  BY DEF CacheType
<1>6. CacheType(k)
  <2>1. Shape(k)
    BY <1>2
  <2>2. k.blocks \in [DOMAIN k.blocks -> Block]
    BY <1>2, <1>3, <1>5
  <2>3. k.code \in [1..k.used -> Code]
    BY <1>2, <1>4, <1>5
  <2>4. k.slots \in [Slots -> Hosts \cup {Thunk}]
    BY <1>2 DEF CacheType
  <2> QED
    BY <2>1, <2>2, <2>3, <2>4, <1>2, <1>5 DEF CacheType
<1>7. \A h \in 1..j.used :
        h \in R <=> Restores(j, S, h)
  BY DEF Restores
<1>8. \A t \in Slots :
        k.slots[t] = IF \E a \in S : t = SlotOf[a] THEN Thunk ELSE j.slots[t]
  BY <1>2
<1>9. \A h \in 1..j.used :
        /\ k.code[h].addr = j.code[h].addr
        /\ k.code[h].content = j.code[h].content
        /\ k.code[h].jmp = IF Restores(j, S, h) THEN Thunk ELSE j.code[h].jmp
  <2> HIDE DEF R, c
  <2> QED
    BY <1>2, <1>4, <1>7
<1> QED
  BY <1>2, <1>3, <1>5, <1>6, <1>8, <1>9 DEF k

(* Invalidation keeps the invariant.  The branch of a block that stays valid
   to one that does not is an edge, and so it is restored; an edge that stays
   keeps its branch, since a branch belongs to one edge. *)
LEMMA InvalidateKeeps ==
  ASSUME NEW j, NEW P, NEW snc, CacheInv(j, P, snc),
         NEW S \in SUBSET DOMAIN j.blocks, NEW state \in {"invalid", "recompile"},
         OwnEntry
  PROVE  CacheInv(InvalidateBlocks(j, S, state), P \ S, snc)
PROOF
<1> DEFINE k == InvalidateBlocks(j, S, state)
<1>1. /\ CacheType(k)
      /\ DOMAIN k.blocks = DOMAIN j.blocks /\ k.used = j.used
      /\ \A a \in DOMAIN j.blocks :
           /\ k.blocks[a].host = j.blocks[a].host
           /\ k.blocks[a].size = j.blocks[a].size
           /\ k.blocks[a].state = IF a \in S THEN state ELSE j.blocks[a].state
      /\ \A s \in Slots :
           k.slots[s] = IF \E a \in S : s = SlotOf[a] THEN Thunk ELSE j.slots[s]
      /\ \A h \in 1..j.used :
           /\ k.code[h].addr = j.code[h].addr
           /\ k.code[h].content = j.code[h].content
           /\ k.code[h].jmp = IF Restores(j, S, h) THEN Thunk ELSE j.code[h].jmp
      /\ k.edges = {e \in j.edges : e.src \notin S /\ e.dst \notin S}
  BY InvalidateParts DEF CacheInv
<1> HIDE DEF k
<1>2. \A a \in DOMAIN j.blocks : j.blocks[a].host \in 1..j.used
  BY DEF CacheInv, Translated
<1>3. Translated(k)
  BY <1>1, <1>2 DEF CacheInv, Translated
<1>4. EntriesLive(k)
  <2> SUFFICES ASSUME NEW a \in Addrs, k.slots[SlotOf[a]] # Thunk
               PROVE  /\ a \in DOMAIN k.blocks /\ k.blocks[a].state = "valid"
                      /\ k.slots[SlotOf[a]] = k.blocks[a].host
    BY DEF EntriesLive
  <2>1. SlotOf[a] \in Slots
    BY DEF Slots
  <2>2. a \notin S /\ k.slots[SlotOf[a]] = j.slots[SlotOf[a]]
    BY <1>1, <2>1
  <2> QED
    BY <1>1, <2>2 DEF CacheInv, EntriesLive
<1>5. \A e \in k.edges : k.code[e.branch].jmp = j.code[e.branch].jmp
  <2> SUFFICES ASSUME NEW e \in k.edges, Restores(j, S, e.branch) PROVE FALSE
    <3>1. \A e \in k.edges : e.branch \in 1..j.used
      BY <1>1, <1>2 DEF CacheInv, EdgesLive
    <3> QED
      BY <1>1, <3>1
  <2>1. PICK f \in j.edges : f.branch = e.branch /\ f.dst \in S
    BY DEF Restores
  <2>2. /\ e \in j.edges /\ e.dst \notin S
        /\ {e.src, e.dst, f.src, f.dst} \subseteq DOMAIN j.blocks
        /\ e.branch = j.blocks[e.src].host /\ f.branch = j.blocks[f.src].host
        /\ j.code[e.branch].jmp = j.blocks[e.dst].host
        /\ j.code[f.branch].jmp = j.blocks[f.dst].host
    BY <1>1, <2>1 DEF CacheInv, EdgesLive
  <2>3. j.blocks[e.dst].host = j.blocks[f.dst].host
    BY <2>1, <2>2
  <2> QED
    BY <2>1, <2>2, <2>3 DEF CacheInv, Translated
<1>6. EdgesLive(k)
  BY <1>1, <1>2, <1>5 DEF CacheInv, EdgesLive
<1>7. Recorded(k, P \ S)
  <2> SUFFICES ASSUME NEW a \in DOMAIN k.blocks, k.blocks[a].state = "valid",
                      k.code[k.blocks[a].host].jmp # Thunk
               PROVE  \E e \in k.edges :
                        e.src = a /\ (k.blocks[e.dst].state = "valid" \/ e.dst \in P \ S)
    BY DEF Recorded
  <2>1. /\ a \in DOMAIN j.blocks /\ a \notin S /\ j.blocks[a].state = "valid"
        /\ k.blocks[a].host = j.blocks[a].host /\ j.blocks[a].host \in 1..j.used
    BY <1>1, <1>2
  <2>2. j.code[j.blocks[a].host].jmp # Thunk /\ ~Restores(j, S, j.blocks[a].host)
    BY <1>1, <2>1
  <2>3. PICK e \in j.edges :
          e.src = a /\ (j.blocks[e.dst].state = "valid" \/ e.dst \in P)
    BY <2>1, <2>2 DEF CacheInv, Recorded
  <2>4. e.dst \in DOMAIN j.blocks /\ e.branch = j.blocks[a].host /\ e.patched
    BY <2>3 DEF CacheInv, EdgesLive
  <2>5. e.dst \notin S
    BY <2>1, <2>2, <2>3, <2>4 DEF Restores
  <2>6. e \in k.edges /\ k.blocks[e.dst].state = j.blocks[e.dst].state
    BY <1>1, <2>1, <2>3, <2>4, <2>5
  <2> QED
    BY <2>3, <2>5, <2>6
<1>8. Fresh(k, snc)
  BY <1>1, <1>2 DEF CacheInv, Fresh
<1> QED
  BY <1>1, <1>3, <1>4, <1>6, <1>7, <1>8 DEF CacheInv, k

(* jit_free_block keeps the invariant, and leaves no entry and no edge of the
   blocks it frees. *)
LEMMA FreeKeeps ==
  ASSUME NEW j, NEW P, NEW snc, CacheInv(j, P, snc),
         NEW S \in SUBSET DOMAIN j.blocks, OwnEntry
  PROVE  LET k == FreeBlocks(j, S)
         IN /\ CacheInv(k, P \ S, snc)
            /\ DOMAIN k.blocks = DOMAIN j.blocks \ S /\ k.used = j.used
            /\ \A a \in S : k.slots[SlotOf[a]] = Thunk
PROOF
<1> DEFINE i == InvalidateBlocks(j, S, "invalid")
           b == [a \in DOMAIN i.blocks \ S |-> i.blocks[a]]
           k == FreeBlocks(j, S)
<1>1. CacheInv(i, P \ S, snc)
  BY InvalidateKeeps
<1>2. /\ DOMAIN i.blocks = DOMAIN j.blocks /\ i.used = j.used
      /\ \A s \in Slots : (\E a \in S : s = SlotOf[a]) => i.slots[s] = Thunk
      /\ \A a \in S : i.blocks[a].state = "invalid"
      /\ i.edges = {e \in j.edges : e.src \notin S /\ e.dst \notin S}
  BY InvalidateParts DEF CacheInv
<1>3. k = [i EXCEPT !.blocks = b]
  BY DEF FreeBlocks
<1> HIDE DEF i, b, k
<1>4. /\ k.blocks = b /\ k.edges = i.edges /\ k.code = i.code /\ k.used = i.used
      /\ k.slots = i.slots /\ Shape(k)
  BY <1>1, <1>3 DEF CacheInv, CacheType, Shape
<1>5. DOMAIN b = DOMAIN i.blocks \ S /\ \A a \in DOMAIN b : b[a] = i.blocks[a]
  BY DEF b
<1>6. CacheType(k)
  <2>1. k.blocks \in [DOMAIN k.blocks -> Block]
    BY <1>1, <1>4, <1>5 DEF CacheInv, CacheType, b
  <2> QED
    BY <1>1, <1>4, <1>5, <2>1 DEF CacheInv, CacheType
<1>7. Translated(k)
  BY <1>1, <1>4, <1>5 DEF CacheInv, Translated
<1>8. EntriesLive(k)
  BY <1>1, <1>2, <1>4, <1>5 DEF CacheInv, EntriesLive
<1>9. EdgesLive(k)
  BY <1>1, <1>2, <1>4, <1>5 DEF CacheInv, EdgesLive
<1>10. Recorded(k, P \ S)
  <2> SUFFICES ASSUME NEW a \in DOMAIN k.blocks, k.blocks[a].state = "valid",
                      k.code[k.blocks[a].host].jmp # Thunk
               PROVE  \E e \in k.edges :
                        e.src = a /\ (k.blocks[e.dst].state = "valid" \/ e.dst \in P \ S)
    BY DEF Recorded
  <2>1. PICK e \in i.edges :
          e.src = a /\ (i.blocks[e.dst].state = "valid" \/ e.dst \in P \ S)
    BY <1>1, <1>4, <1>5 DEF CacheInv, Recorded
  <2>2. e \in k.edges /\ e.dst \in DOMAIN b
    BY <1>1, <1>2, <1>4, <1>5, <2>1 DEF CacheInv, EdgesLive
  <2> QED
    BY <1>4, <1>5, <2>1, <2>2
<1>11. Fresh(k, snc)
  BY <1>1, <1>4, <1>5 DEF CacheInv, Fresh
<1>12. \A a \in S : k.slots[SlotOf[a]] = Thunk
  <2>1. \A a \in S : SlotOf[a] \in Slots
    BY DEF CacheInv, CacheType, Slots
  <2> QED
    BY <1>2, <1>4, <2>1
<1> QED
  BY <1>2, <1>4, <1>5, <1>6, <1>7, <1>8, <1>9, <1>10, <1>11, <1>12 DEF CacheInv, k

(* jit_free_code leaves an empty cache, which has the invariant whatever was
   pending and whatever guest memory held. *)
LEMMA FreeCodeKeeps ==
  ASSUME NEW j, NEW P, NEW snc, CacheInv(j, P, snc), NEW Q, NEW tnc, OwnEntry
  PROVE  CacheInv(FreeCode(j), Q, tnc)
PROOF
<1> DEFINE f == FreeBlocks(j, DOMAIN j.blocks)
           k == FreeCode(j)
<1>1. CacheInv(f, P \ DOMAIN j.blocks, snc) /\ DOMAIN f.blocks = {}
  <2>1. DOMAIN j.blocks \in SUBSET DOMAIN j.blocks
    OBVIOUS
  <2>2. CacheInv(f, P \ DOMAIN j.blocks, snc) /\ DOMAIN f.blocks = DOMAIN j.blocks \ DOMAIN j.blocks
    BY <2>1, FreeKeeps
  <2> QED
    BY <2>2
<1>2. k = [f EXCEPT !.used = 0, !.code = << >>]
  BY DEF FreeCode
<1> HIDE DEF f, k
<1>3. /\ k.blocks = f.blocks /\ k.edges = f.edges /\ k.code = << >> /\ k.used = 0
      /\ k.slots = f.slots /\ Shape(k)
  BY <1>1, <1>2 DEF CacheInv, CacheType, Shape
<1>4. k.edges = {}
  BY <1>1, <1>3 DEF CacheInv, EdgesLive
<1>5. k.code \in [1..k.used -> Code]
  BY <1>3
<1>6. CacheType(k)
  BY <1>1, <1>3, <1>5, JitAssumption DEF CacheInv, CacheType
<1>7. EntriesLive(k)
  BY <1>1, <1>3 DEF CacheInv, EntriesLive
<1> QED
  BY <1>1, <1>3, <1>4, <1>6, <1>7
     DEF CacheInv, Translated, EdgesLive, Recorded, Fresh, k

(* The block at an address is gone before the address is compiled, and
   nothing waits for it any more. *)
LEMMA FreedKeeps ==
  ASSUME NEW j, NEW a \in Addrs, NEW snc, CacheInv(j, {a}, snc), OwnEntry
  PROVE  /\ CacheInv(Freed(j, a), {}, snc)
         /\ a \notin DOMAIN Freed(j, a).blocks /\ Freed(j, a).used = j.used
         /\ Freed(j, a).slots[SlotOf[a]] = Thunk
         /\ \A e \in Freed(j, a).edges : a \notin {e.src, e.dst}
PROOF
<1>1. CASE a \in DOMAIN j.blocks
  <2>1. {a} \ {a} = {} /\ {a} \in SUBSET DOMAIN j.blocks
    BY <1>1
  <2>2. /\ CacheInv(FreeBlocks(j, {a}), {}, snc)
        /\ DOMAIN FreeBlocks(j, {a}).blocks = DOMAIN j.blocks \ {a}
        /\ FreeBlocks(j, {a}).used = j.used
        /\ FreeBlocks(j, {a}).slots[SlotOf[a]] = Thunk
    <3>1. /\ CacheInv(FreeBlocks(j, {a}), {a} \ {a}, snc)
          /\ DOMAIN FreeBlocks(j, {a}).blocks = DOMAIN j.blocks \ {a}
          /\ FreeBlocks(j, {a}).used = j.used
          /\ \A x \in {a} : FreeBlocks(j, {a}).slots[SlotOf[x]] = Thunk
      BY <2>1, FreeKeeps
    <3> QED
      BY <2>1, <3>1
  <2>3. Freed(j, a) = FreeBlocks(j, {a})
    BY <1>1 DEF Freed
  <2> QED
    BY <2>2, <2>3 DEF CacheInv, EdgesLive
<1>2. CASE a \notin DOMAIN j.blocks
  <2>1. Freed(j, a) = j
    BY <1>2 DEF Freed
  <2>2. \A e \in j.edges : a \notin {e.src, e.dst}
    BY <1>2 DEF CacheInv, EdgesLive
  <2>3. Recorded(j, {})
    BY <2>2 DEF CacheInv, Recorded
  <2>4. j.slots[SlotOf[a]] = Thunk
    BY <1>2 DEF CacheInv, EntriesLive
  <2> QED
    BY <1>2, <2>1, <2>2, <2>3, <2>4 DEF CacheInv
<1> QED
  BY <1>1, <1>2

(* The new block of an address, in a cache with room for it. *)
LEMMA NewBlockKeeps ==
  ASSUME NEW j, NEW a \in Addrs, NEW snc, CacheInv(j, {a}, snc), OwnEntry,
         mem[a] \in Contents, mem[a] \in snc[a], j.used # Capacity
  PROVE  CacheInv(NewBlock(j, a), {}, snc)
PROOF
<1> DEFINE f == Freed(j, a)
           fast == Persists(j, a) => j.blocks[a].fast
           h == j.used + 1
           new == [addr |-> a, content |-> mem[a], fast |-> fast, jmp |-> Thunk]
           blk == [state |-> "valid", host |-> h, fast |-> fast, size |-> Size[mem[a]]]
           c == [g \in DOMAIN f.code \cup {h} |-> IF g = h THEN new ELSE f.code[g]]
           b == [x \in DOMAIN f.blocks \cup {a} |-> IF x = a THEN blk ELSE f.blocks[x]]
           s == [f.slots EXCEPT ![SlotOf[a]] = h]
           k == NewBlock(j, a)
<1>1. /\ CacheInv(f, {}, snc)
      /\ a \notin DOMAIN f.blocks /\ f.used = j.used
      /\ \A e \in f.edges : a \notin {e.src, e.dst}
  BY FreedKeeps
<1>2. j.used \in 0..Capacity - 1 /\ h \in Hosts /\ h \in 0..Capacity
  BY JitAssumption DEF CacheInv, CacheType, Hosts
<1>3. new \in Code /\ blk \in Block
  <2>1. fast \in BOOLEAN
    OBVIOUS
  <2> HIDE DEF fast
  <2> QED
    BY <1>2, <2>1, JitAssumption DEF Code, Block
<1>4. k = [f EXCEPT !.used = h, !.code = c, !.slots = s, !.blocks = b]
  BY DEF NewBlock
<1>5. /\ DOMAIN c = 1..h /\ c[h] = new
      /\ \A g \in 1..j.used : c[g] = f.code[g] /\ g # h
  <2>1. DOMAIN f.code = 1..j.used
    BY <1>1 DEF CacheInv, CacheType
  <2>2. h \notin 1..j.used /\ (1..j.used) \cup {h} = 1..h
    BY <1>2
  <2> HIDE DEF new, f, h
  <2> QED
    BY <2>1, <2>2
<1>6. /\ DOMAIN b = DOMAIN f.blocks \cup {a} /\ b[a] = blk
      /\ \A x \in DOMAIN f.blocks : b[x] = f.blocks[x] /\ x # a
  <2> HIDE DEF blk, f
  <2> QED
    BY <1>1
<1>7. /\ DOMAIN s = Slots /\ s[SlotOf[a]] = h
      /\ \A x \in Addrs : x # a => s[SlotOf[x]] = f.slots[SlotOf[x]]
      /\ s \in [Slots -> Hosts \cup {Thunk}]
  BY <1>1, <1>2 DEF CacheInv, CacheType, Slots, OwnEntry
<1>8. c \in [1..h -> Code] /\ b \in [DOMAIN b -> Block]
  <2>1. \A g \in 1..h : g \in 1..j.used \/ g = h
    BY <1>2
  <2>2. \A g \in 1..h : c[g] \in Code
    BY <1>1, <1>3, <1>5, <2>1 DEF CacheInv, CacheType
  <2>3. \A x \in DOMAIN b : b[x] \in Block
    BY <1>1, <1>3, <1>6 DEF CacheInv, CacheType
  <2>4. c = [g \in DOMAIN c |-> c[g]] /\ b = [x \in DOMAIN b |-> b[x]]
    OBVIOUS
  <2> HIDE DEF c, b
  <2> QED
    BY <1>5, <2>2, <2>3, <2>4
<1>9. /\ new.addr = a /\ new.content = mem[a] /\ new.jmp = Thunk
      /\ blk.state = "valid" /\ blk.host = h /\ blk.size = Size[mem[a]]
  OBVIOUS
<1> HIDE DEF f, new, blk, c, b, s, k
<1>10. /\ k.blocks = b /\ k.edges = f.edges /\ k.code = c /\ k.used = h
       /\ k.slots = s /\ Shape(k)
  BY <1>1, <1>4 DEF CacheInv, CacheType, Shape
<1>11. CacheType(k)
  <2>1. DOMAIN b \subseteq Addrs
    BY <1>1, <1>6 DEF CacheInv, CacheType
  <2>2. k.edges \subseteq Edge
    BY <1>1, <1>10 DEF CacheInv, CacheType
  <2> QED
    BY <1>2, <1>7, <1>8, <1>10, <2>1, <2>2 DEF CacheType
<1>12. \A x \in DOMAIN f.blocks : f.blocks[x].host \in 1..j.used
  BY <1>1 DEF CacheInv, Translated
<1>13. Translated(k)
  <2>1. 1..j.used \subseteq 1..h /\ h \in 1..h
    BY <1>2
  <2> QED
    BY <1>1, <1>5, <1>6, <1>9, <1>10, <1>12, <2>1 DEF CacheInv, Translated
<1>14. EntriesLive(k)
  BY <1>1, <1>6, <1>7, <1>9, <1>10 DEF CacheInv, EntriesLive
<1>15. EdgesLive(k)
  BY <1>1, <1>5, <1>6, <1>10, <1>12 DEF CacheInv, EdgesLive
<1>16. Recorded(k, {})
  <2> SUFFICES ASSUME NEW x \in DOMAIN b, b[x].state = "valid", c[b[x].host].jmp # Thunk
               PROVE  \E e \in k.edges : e.src = x /\ b[e.dst].state = "valid"
    BY <1>10 DEF Recorded
  <2>1. x \in DOMAIN f.blocks
    BY <1>5, <1>6, <1>9
  <2>2. PICK e \in f.edges : e.src = x /\ f.blocks[e.dst].state = "valid"
    BY <1>1, <1>5, <1>6, <1>12, <2>1 DEF CacheInv, Recorded
  <2>3. e.dst \in DOMAIN f.blocks
    BY <1>1, <2>2 DEF CacheInv, EdgesLive
  <2> QED
    BY <1>6, <1>10, <2>2, <2>3
<1>17. Fresh(k, snc)
  BY <1>1, <1>5, <1>6, <1>9, <1>10, <1>12 DEF CacheInv, Fresh
<1> QED
  BY <1>11, <1>13, <1>14, <1>15, <1>16, <1>17 DEF CacheInv, k

(* jit_compile_code: no CHECK fails, and the invariant is kept with a buffer
   that has room and with one that overflows. *)
LEMMA CompileKeeps ==
  ASSUME NEW j, NEW a \in Addrs, NEW snc, CacheInv(j, {a}, snc), OwnEntry, OneExtent,
         mem[a] \in Contents, mem[a] \in snc[a]
  PROVE  CompileChecks(j, a) /\ CacheInv(CompileCode(j, a), {}, snc)
PROOF
<1>1. CompileChecks(j, a)
  <2>1. Persists(j, a) => j.blocks[a].size = Size[mem[a]]
    BY DEF Persists, CacheInv, Translated, OneExtent
  <2> QED
    BY <2>1, FreedKeeps DEF CompileChecks
<1>2. CASE j.used = Capacity
  <2>1. CacheInv(Freed(j, a), {}, snc)
    BY FreedKeeps
  <2>2. CacheInv(FreeCode(Freed(j, a)), {}, snc)
    BY <2>1, FreeCodeKeeps
  <2> QED
    BY <1>1, <1>2, <2>2 DEF CompileCode
<1>3. CASE j.used # Capacity
  BY <1>1, <1>3, NewBlockKeeps DEF CompileCode
<1> QED
  BY <1>2, <1>3

(* jit_link_code: every edge there is has been patched, so only the new one is,
   and its destination is valid or the block that dispatch is to compile. *)
LEMMA LinkKeeps ==
  ASSUME NEW j, NEW src \in DOMAIN j.blocks, NEW dst \in Addrs, NEW snc,
         CacheInv(j, {}, snc),
         dst = Target[j.code[j.blocks[src].host].content]
  PROVE  CacheInv(LinkCode(j, j.blocks[src].host, dst), {dst}, snc)
PROOF
<1> DEFINE h == j.blocks[src].host
           k == LinkCode(j, h, dst)
<1>1. ReverseLookup(j, h) = {src}
  BY DEF CacheInv, Translated, ReverseLookup
<1>2. (CHOOSE a \in ReverseLookup(j, h) : TRUE) = src
  BY <1>1
<1>3. CASE j.blocks[src].state # "valid" \/ dst \notin DOMAIN j.blocks
  <2>1. k = j
    BY <1>2, <1>3 DEF LinkCode
  <2>2. Recorded(j, {dst})
    BY DEF CacheInv, Recorded
  <2> QED
    BY <2>1, <2>2 DEF CacheInv
<1>4. CASE j.blocks[src].state = "valid" /\ dst \in DOMAIN j.blocks
  <2> DEFINE edge == [src |-> src, dst |-> dst, branch |-> h, patched |-> FALSE]
             done == [edge EXCEPT !.patched = TRUE]
             all == j.edges \cup {edge}
             l == [j EXCEPT !.edges = all]
             patch == {e \in all : ~e.patched /\ src \in {e.src, e.dst}}
             d == (all \ patch) \cup {[e EXCEPT !.patched = TRUE] : e \in patch}
             c == [g \in DOMAIN j.code |->
                    IF \E e \in patch : e.branch = g
                    THEN [j.code[g] EXCEPT !.jmp =
                            j.blocks[(CHOOSE e \in patch : e.branch = g).dst].host]
                    ELSE j.code[g]]
  <2>1. k = [l EXCEPT !.edges = d, !.code = c] /\ l.edges = all
        /\ l.blocks = j.blocks /\ l.code = j.code /\ l.used = j.used /\ l.slots = j.slots
        /\ Shape(l)
    <3>1. k = PatchEdges(l, src)
      BY <1>2, <1>4 DEF LinkCode
    <3> HIDE DEF k, all
    <3>2. /\ l.edges = all /\ l.blocks = j.blocks /\ l.code = j.code /\ l.used = j.used
          /\ l.slots = j.slots /\ Shape(l)
      BY DEF CacheInv, CacheType, Shape
    <3> HIDE DEF l
    <3> QED
      BY <3>1, <3>2 DEF PatchEdges
  <2>2. patch = {edge}
    BY DEF CacheInv, EdgesLive
  <2>3. edge \notin j.edges
    BY DEF CacheInv, EdgesLive
  <2>4. d = j.edges \cup {done}
    <3>1. all \ patch = j.edges
      BY <2>2, <2>3
    <3>2. {[e EXCEPT !.patched = TRUE] : e \in patch} = {done}
      <4> HIDE DEF edge, patch
      <4> QED
        BY <2>2
    <3> QED
      BY <3>1, <3>2
  <2>5. h \in 1..j.used /\ DOMAIN j.code = 1..j.used
    BY DEF CacheInv, CacheType, Translated
  <2>6. c = [g \in 1..j.used |->
               IF g = h THEN [j.code[g] EXCEPT !.jmp = j.blocks[dst].host] ELSE j.code[g]]
    <3>3. edge.dst = dst /\ edge.branch = h
      OBVIOUS
    <3> HIDE DEF patch, edge
    <3>1. \A g \in 1..j.used : (\E e \in patch : e.branch = g) <=> g = h
      BY <2>2, <3>3
    <3>2. (CHOOSE e \in patch : e.branch = h) = edge
      BY <2>2, <3>3
    <3> QED
      BY <2>5, <3>1, <3>2, <3>3
  <2>7. done \in Edge
    BY <2>5 DEF CacheInv, CacheType, Edge, Block
  <2>8. done.src = src /\ done.dst = dst /\ done.branch = h /\ done.patched
    OBVIOUS
  <2> HIDE DEF d, c, done, k, l
  <2>9. /\ k.blocks = j.blocks /\ k.edges = d /\ k.code = c /\ k.used = j.used
        /\ k.slots = j.slots /\ Shape(k)
    BY <2>1 DEF CacheInv, CacheType, Shape
  <2>10. /\ DOMAIN c = 1..j.used
         /\ \A g \in 1..j.used :
              /\ c[g] \in Code /\ c[g].addr = j.code[g].addr
              /\ c[g].content = j.code[g].content
              /\ c[g].jmp = IF g = h THEN j.blocks[dst].host ELSE j.code[g].jmp
    BY <1>4, <2>6 DEF CacheInv, CacheType, Code, Block
  <2>11. CacheType(k)
    <3>1. k.code \in [1..k.used -> Code]
      BY <2>6, <2>9, <2>10
    <3> QED
      BY <2>4, <2>7, <2>9, <3>1 DEF CacheInv, CacheType
  <2>12. \A a \in DOMAIN j.blocks :
           j.blocks[a].host \in 1..j.used /\ (j.blocks[a].host = h => a = src)
    BY DEF CacheInv, Translated
  <2>13. Translated(k)
    BY <2>9, <2>10, <2>12 DEF CacheInv, Translated
  <2>14. EntriesLive(k)
    BY <2>9 DEF CacheInv, EntriesLive
  <2>15. EdgesLive(k)
    <3> SUFFICES ASSUME NEW e \in d
                 PROVE  /\ e.patched /\ e.src \in DOMAIN j.blocks
                        /\ e.dst \in DOMAIN j.blocks
                        /\ j.blocks[e.src].state = "valid"
                        /\ e.branch = j.blocks[e.src].host
                        /\ c[e.branch].jmp = j.blocks[e.dst].host
                        /\ e.dst = Target[c[e.branch].content]
      BY <2>9 DEF EdgesLive
    <3>1. CASE e = done
      BY <1>4, <2>5, <2>8, <2>10, <3>1
    <3>2. CASE e \in j.edges
      <4>1. /\ e.patched /\ e.src \in DOMAIN j.blocks /\ e.dst \in DOMAIN j.blocks
            /\ j.blocks[e.src].state = "valid"
            /\ e.branch = j.blocks[e.src].host
            /\ j.code[e.branch].jmp = j.blocks[e.dst].host
            /\ e.dst = Target[j.code[e.branch].content]
        BY <3>2 DEF CacheInv, EdgesLive
      <4>2. e.branch \in 1..j.used
        BY <2>12, <4>1
      <4>3. e.branch = h => e.dst = dst
        BY <4>1
      <4> QED
        BY <2>10, <4>1, <4>2, <4>3
    <3> QED
      BY <2>4, <3>1, <3>2
  <2>16. Recorded(k, {dst})
    <3> SUFFICES ASSUME NEW a \in DOMAIN j.blocks, j.blocks[a].state = "valid",
                        c[j.blocks[a].host].jmp # Thunk
                 PROVE  \E e \in d :
                          e.src = a /\ (j.blocks[e.dst].state = "valid" \/ e.dst \in {dst})
      BY <2>9 DEF Recorded
    <3>1. CASE a = src
      BY <2>4, <2>8, <3>1
    <3>2. CASE a # src
      <4>1. j.code[j.blocks[a].host].jmp # Thunk
        BY <2>10, <2>12, <3>2
      <4>2. \E e \in j.edges : e.src = a /\ j.blocks[e.dst].state = "valid"
        BY <4>1 DEF CacheInv, Recorded
      <4> QED
        BY <2>4, <4>2
    <3> QED
      BY <3>1, <3>2
  <2>17. Fresh(k, snc)
    BY <2>9, <2>10, <2>12 DEF CacheInv, Fresh
  <2> QED
    BY <2>11, <2>13, <2>14, <2>15, <2>16, <2>17 DEF CacheInv, k
<1> QED
  BY <1>3, <1>4

\* The branch of host code h has not been patched, or jumps to the valid block
\* its content goes to.
LinkLive(j, h) ==
  j.code[h].jmp # Thunk =>
    \E b \in DOMAIN j.blocks :
      /\ j.blocks[b].state = "valid" /\ j.blocks[b].host = j.code[h].jmp
      /\ b = Target[j.code[h].content]

(* The branch of a valid block is live, if nothing waits to be compiled. *)
LEMMA ValidLinks ==
  ASSUME NEW j, NEW snc, CacheInv(j, {}, snc), NEW a \in DOMAIN j.blocks,
         j.blocks[a].state = "valid"
  PROVE  LinkLive(j, j.blocks[a].host)
PROOF
<1> SUFFICES ASSUME j.code[j.blocks[a].host].jmp # Thunk
             PROVE  \E b \in DOMAIN j.blocks :
                      /\ j.blocks[b].state = "valid"
                      /\ j.blocks[b].host = j.code[j.blocks[a].host].jmp
                      /\ b = Target[j.code[j.blocks[a].host].content]
  BY DEF LinkLive
<1>1. PICK e \in j.edges : e.src = a /\ j.blocks[e.dst].state = "valid"
  BY DEF CacheInv, Recorded
<1> QED
  BY <1>1 DEF CacheInv, EdgesLive

(* jit_handle_exception marks the block that faulted, and its branch stays
   live: one to the block itself has been restored. *)
LEMMA ExceptionKeeps ==
  ASSUME NEW j, NEW snc, CacheInv(j, {}, snc), NEW a \in DOMAIN j.blocks, OwnEntry
  PROVE  LET h == j.blocks[a].host
             k == HandleException(j, h)
         IN /\ CacheInv(k, {}, snc)
            /\ a \in DOMAIN k.blocks /\ k.blocks[a].host = h
            /\ LinkLive(j, h) => LinkLive(k, h)
PROOF
<1> DEFINE h == j.blocks[a].host
           b == [x \in DOMAIN j.blocks |->
                  IF x = a THEN [j.blocks[x] EXCEPT !.fast = FALSE] ELSE j.blocks[x]]
           w == WithoutFastmem(j, h)
           k == HandleException(j, h)
<1>1. ReverseLookup(j, h) = {a}
  BY DEF CacheInv, Translated, ReverseLookup
<1>2. w = [j EXCEPT !.blocks = b]
  BY <1>1 DEF WithoutFastmem
<1>3. k = InvalidateBlocks(w, {a}, "recompile")
  BY <1>1 DEF HandleException
<1>4. /\ DOMAIN b = DOMAIN j.blocks
      /\ b \in [DOMAIN b -> Block]
      /\ \A x \in DOMAIN j.blocks :
           /\ b[x].host = j.blocks[x].host /\ b[x].size = j.blocks[x].size
           /\ b[x].state = j.blocks[x].state
  BY DEF CacheInv, CacheType, Block
<1> HIDE DEF b, w, k
<1>5. /\ w.blocks = b /\ w.edges = j.edges /\ w.code = j.code /\ w.used = j.used
      /\ w.slots = j.slots /\ Shape(w)
  BY <1>2 DEF CacheInv, CacheType, Shape
<1>6. CacheInv(w, {}, snc)
  <2>1. CacheType(w)
    BY <1>4, <1>5 DEF CacheInv, CacheType
  <2>2. Translated(w) /\ EntriesLive(w)
    BY <1>4, <1>5 DEF CacheInv, Translated, EntriesLive
  <2>3. EdgesLive(w)
    BY <1>4, <1>5 DEF CacheInv, EdgesLive
  <2>4. Recorded(w, {})
    BY <1>4, <1>5 DEF CacheInv, EdgesLive, Recorded
  <2>5. Fresh(w, snc)
    BY <1>4, <1>5 DEF CacheInv, Fresh
  <2> QED
    BY <2>1, <2>2, <2>3, <2>4, <2>5 DEF CacheInv
<1>7. {a} \in SUBSET DOMAIN w.blocks
  BY <1>4, <1>5
<1>8. CacheInv(k, {} \ {a}, snc)
  BY <1>3, <1>6, <1>7, InvalidateKeeps
<1>9. CacheInv(k, {}, snc)
  BY <1>8
<1>10. /\ DOMAIN k.blocks = DOMAIN j.blocks
       /\ \A x \in DOMAIN j.blocks :
            /\ k.blocks[x].host = j.blocks[x].host
            /\ k.blocks[x].state = IF x = a THEN "recompile" ELSE j.blocks[x].state
       /\ \A g \in 1..j.used :
            /\ k.code[g].content = j.code[g].content
            /\ k.code[g].jmp = IF Restores(w, {a}, g) THEN Thunk ELSE j.code[g].jmp
  <2>1. CacheType(w)
    BY <1>6 DEF CacheInv
  <2>2. /\ DOMAIN k.blocks = DOMAIN w.blocks
        /\ \A x \in DOMAIN w.blocks :
             /\ k.blocks[x].host = w.blocks[x].host
             /\ k.blocks[x].state = IF x \in {a} THEN "recompile" ELSE w.blocks[x].state
        /\ \A g \in 1..w.used :
             /\ k.code[g].content = w.code[g].content
             /\ k.code[g].jmp = IF Restores(w, {a}, g) THEN Thunk ELSE w.code[g].jmp
    BY <1>3, <1>7, <2>1, InvalidateParts
  <2> QED
    BY <1>4, <1>5, <2>2
<1>11. ASSUME LinkLive(j, h), k.code[h].jmp # Thunk
       PROVE  \E x \in DOMAIN k.blocks :
                /\ k.blocks[x].state = "valid" /\ k.blocks[x].host = k.code[h].jmp
                /\ x = Target[k.code[h].content]
  <2>1. h \in 1..j.used
    BY DEF CacheInv, Translated
  <2>2. /\ j.code[h].jmp # Thunk /\ k.code[h].jmp = j.code[h].jmp
        /\ k.code[h].content = j.code[h].content /\ ~Restores(w, {a}, h)
    BY <1>10, <1>11, <2>1
  <2>3. PICK x \in DOMAIN j.blocks :
          /\ j.blocks[x].state = "valid" /\ j.blocks[x].host = j.code[h].jmp
          /\ x = Target[j.code[h].content]
    BY <1>11, <2>2 DEF LinkLive
  <2>4. x # a
    <3>0. SUFFICES ASSUME x = a PROVE FALSE
      OBVIOUS
    <3>1. PICK e \in j.edges : e.src = a
      BY <2>2, <2>3, <3>0 DEF CacheInv, Recorded
    <3>2. /\ e.patched /\ e.branch = h /\ e.dst \in DOMAIN j.blocks
          /\ e.dst = Target[j.code[h].content]
      BY <3>1 DEF CacheInv, EdgesLive
    <3>3. a \in Nat
      BY JitAssumption DEF CacheInv, CacheType
    <3>4. e \in w.edges /\ e.dst = a /\ e.dst <= e.src
      <4>1. e \in w.edges
        BY <1>5
      <4>2. e.dst = a
        BY <2>3, <3>0, <3>2
      <4> QED
        BY <3>1, <3>3, <4>1, <4>2
    <3>5. Restores(w, {a}, h)
      <4> HIDE DEF h
      <4> QED
        BY <3>2, <3>4 DEF Restores
    <3> QED
      BY <2>2, <3>5
  <2> QED
    BY <1>10, <2>2, <2>3, <2>4
<1> QED
  BY <1>9, <1>10, <1>11 DEF LinkLive, k

(* The invariant allows for more that is pending, and for more past code. *)
LEMMA Weaken ==
  ASSUME NEW j, NEW P, NEW Q, NEW snc, NEW tnc, CacheInv(j, P, snc), P \subseteq Q,
         \A a \in Addrs : snc[a] \subseteq tnc[a]
  PROVE  CacheInv(j, Q, tnc)
PROOF
<1>1. Recorded(j, Q)
  BY DEF CacheInv, Recorded
<1>2. Fresh(j, tnc)
  BY DEF CacheInv, CacheType, Fresh
<1> QED
  BY <1>1, <1>2 DEF CacheInv

(* jit_invalidate_code leaves no valid block, whatever guest memory holds, and
   the running block keeps its host code. *)
LEMMA InvalidateCodeKeeps ==
  ASSUME NEW j, NEW snc, NEW tnc, CacheInv(j, {}, snc), OwnEntry
  PROVE  LET k == InvalidateCode(j)
         IN /\ CacheInv(k, {}, tnc)
            /\ DOMAIN k.blocks = DOMAIN j.blocks
            /\ \A a \in DOMAIN j.blocks : k.blocks[a].host = j.blocks[a].host
PROOF
<1> DEFINE S == DOMAIN j.blocks
           k == InvalidateBlocks(j, S, "invalid")
<1>1. S \in SUBSET DOMAIN j.blocks
  OBVIOUS
<1>2. CacheInv(k, {} \ S, snc)
  BY <1>1, InvalidateKeeps
<1>3. {} \ S = {}
  OBVIOUS
<1>4. CacheInv(k, {}, snc)
  BY <1>2, <1>3
<1>5. /\ DOMAIN k.blocks = DOMAIN j.blocks
      /\ \A a \in DOMAIN j.blocks : k.blocks[a].host = j.blocks[a].host
      /\ \A a \in DOMAIN j.blocks : k.blocks[a].state = "invalid"
  <2>1. CacheType(j)
    BY DEF CacheInv
  <2>2. /\ DOMAIN k.blocks = DOMAIN j.blocks
        /\ \A a \in DOMAIN j.blocks :
             /\ k.blocks[a].host = j.blocks[a].host
             /\ k.blocks[a].state = IF a \in S THEN "invalid" ELSE j.blocks[a].state
    BY <1>1, <2>1, InvalidateParts
  <2> QED
    BY <2>2
<1>6. Fresh(k, tnc)
  BY <1>5 DEF Fresh
<1> QED
  BY <1>4, <1>5, <1>6 DEF CacheInv, InvalidateCode

-----------------------------------------------------------------------------
(* The inductive invariant. *)

\* The destination of an edge that dispatch is about to compile.
Pending == IF at \in {"dynamic", "compile"} THEN {pc} ELSE {}

\* Where the host is: in the code of a block, and of the block the pc names
\* until its body begins.  The running block's branch is live, unless it has
\* flushed the cache and so ends in a dynamic branch.
HostInv ==
  /\ at \in {"prolog", "body", "static"} =>
       \E a \in DOMAIN jit.blocks : jit.blocks[a].host = host
  /\ at = "prolog" =>
       /\ pc \in DOMAIN jit.blocks /\ jit.blocks[pc].state = "valid"
       /\ jit.blocks[pc].host = host
  /\ at = "static" => pc = Target[jit.code[host].content]
  /\ at = "body" /\ ~flushed => LinkLive(jit, host)

\* The types of the rest, and what is in memory is part of its recent past.
GuestInv ==
  /\ mem \in [Addrs -> Contents]
  /\ since \in [Addrs -> SUBSET Contents] /\ \A a \in Addrs : mem[a] \in since[a]
  /\ at \in {"exit", "dynamic", "static", "compile", "prolog", "body"}
  /\ host \in Hosts \cup {NoHost} /\ pc \in Addrs /\ cycles \in -1..Slice
  /\ flushed \in BOOLEAN /\ blocked \in BOOLEAN /\ fatal = FALSE

JitInv == CacheInv(jit, Pending, since) /\ HostInv /\ GuestInv

(* The machine starts with an empty cache. *)
LEMMA JitInitInv ==
  ASSUME Init
  PROVE  JitInv
PROOF
<1>1. /\ jit.blocks = << >> /\ jit.edges = {} /\ jit.code = << >> /\ jit.used = 0
      /\ jit.slots = [s \in Slots |-> Thunk] /\ Shape(jit)
  BY DEF Init, Shape
<1>2. jit.code \in [1..jit.used -> Code] /\ jit.blocks \in [DOMAIN jit.blocks -> Block]
      /\ DOMAIN jit.blocks = {}
  BY <1>1
<1>3. CacheType(jit)
  BY <1>1, <1>2, JitAssumption DEF CacheType, Thunk
<1>4. EntriesLive(jit)
  BY <1>1 DEF EntriesLive, Slots
<1>5. CacheInv(jit, Pending, since)
  BY <1>1, <1>2, <1>3, <1>4 DEF CacheInv, Translated, EdgesLive, Recorded, Fresh
<1>6. GuestInv
  <2>1. mem \in [Addrs -> Contents]
    BY DEF Init
  <2>2. since \in [Addrs -> SUBSET Contents] /\ \A a \in Addrs : mem[a] \in since[a]
    BY <2>1 DEF Init
  <2>3. /\ at = "exit" /\ host = NoHost /\ pc = ResetPc /\ cycles = -1
        /\ flushed = FALSE /\ blocked = FALSE /\ fatal = FALSE
    BY DEF Init
  <2>4. ResetPc \in Addrs /\ -1 \in -1..Slice
    BY JitAssumption
  <2> QED
    BY <2>1, <2>2, <2>3, <2>4 DEF GuestInv
<1>7. HostInv
  BY DEF Init, HostInv
<1> QED
  BY <1>5, <1>6, <1>7 DEF JitInv

(* Every step keeps the invariant. *)
LEMMA JitStep ==
  ASSUME JitInv, [Next]_vars, OneExtent, OwnEntry, ~JumpsAfterFlush
  PROVE  JitInv'
PROOF
<1> USE DEF JitInv
<1>0. \A P, Q, snc : CacheInv(jit, P, snc) /\ P \subseteq Q => CacheInv(jit, Q, snc)
  BY Weaken
<1>1. CASE Enter
  <2>1. CacheInv(jit', Pending', since')
    BY <1>0, <1>1 DEF Enter, Pending
  <2>2. HostInv'
    BY <1>1 DEF Enter, HostInv
  <2>3. GuestInv'
    BY <1>1, JitAssumption DEF Enter, GuestInv
  <2> QED
    BY <2>1, <2>2, <2>3
<1>2. CASE Dynamic
  <2> DEFINE h == jit.slots[SlotOf[pc]]
  <2>1. CASE h = Thunk
    <3>1. CacheInv(jit', Pending', since')
      BY <1>2, <2>1 DEF Dynamic, Pending
    <3>2. HostInv'
      BY <1>2, <2>1 DEF Dynamic, HostInv
    <3>3. GuestInv'
      BY <1>2, <2>1 DEF Dynamic, GuestInv
    <3> QED
      BY <3>1, <3>2, <3>3
  <2>2. CASE h # Thunk
    <3>1. /\ pc \in DOMAIN jit.blocks /\ jit.blocks[pc].state = "valid"
          /\ h = jit.blocks[pc].host /\ h \in Hosts
      BY <2>2 DEF GuestInv, CacheInv, EntriesLive, CacheType, Block
    <3>2. at = "dynamic" /\ at' = "prolog" /\ host' = h
          /\ UNCHANGED <<mem, jit, pc, cycles, flushed, blocked, fatal, since>>
      BY <1>2, <2>2 DEF Dynamic
    <3>3. Recorded(jit, {})
      BY <3>1, <3>2 DEF CacheInv, Recorded, Pending
    <3>4. CacheInv(jit', Pending', since')
      BY <3>2, <3>3 DEF CacheInv, Pending
    <3>5. HostInv'
      BY <3>1, <3>2 DEF HostInv
    <3>6. GuestInv'
      BY <3>1, <3>2 DEF GuestInv
    <3> QED
      BY <3>4, <3>5, <3>6
  <2> QED
    BY <2>1, <2>2
<1>3. CASE Compile
  <2>1. at = "compile" /\ Pending = {pc} /\ pc \in Addrs
        /\ mem[pc] \in Contents /\ mem[pc] \in since[pc]
    BY <1>3 DEF Compile, Pending, GuestInv
  <2>2. CompileChecks(jit, pc) /\ CacheInv(CompileCode(jit, pc), {}, since)
    BY <2>1, CompileKeeps
  <2>3. CacheInv(jit', {}, since')
    BY <1>3, <2>2 DEF Compile
  <2>4. CacheInv(jit', Pending', since')
    BY <2>3, Weaken
  <2>5. HostInv'
    BY <1>3 DEF Compile, HostInv
  <2>6. GuestInv'
    BY <1>3, <2>2 DEF Compile, GuestInv
  <2> QED
    BY <2>4, <2>5, <2>6
<1>4. CASE Static
  <2>1. at = "static" /\ Pending = {} /\ pc \in Addrs
    BY <1>4 DEF Static, Pending, GuestInv
  <2>2. PICK a \in DOMAIN jit.blocks : jit.blocks[a].host = host
    BY <2>1 DEF HostInv
  <2>3. ReverseLookup(jit, host) # {}
    BY <2>2 DEF ReverseLookup
  <2>4. CacheInv(LinkCode(jit, host, pc), {pc}, since)
    BY <2>1, <2>2, LinkKeeps DEF HostInv
  <2>5. jit' = LinkCode(jit, host, pc) /\ fatal' = FALSE /\ at' = "dynamic"
        /\ pc' = pc /\ since' = since
    BY <1>4, <2>3 DEF Static
  <2>6. CacheInv(jit', Pending', since')
    BY <2>4, <2>5 DEF Pending
  <2>7. HostInv'
    BY <2>5 DEF HostInv
  <2>8. GuestInv'
    BY <1>4, <2>5 DEF Static, GuestInv
  <2> QED
    BY <2>6, <2>7, <2>8
<1>5. CASE PrologExit
  <2>1. CacheInv(jit', Pending', since')
    BY <1>5 DEF PrologExit, Pending
  <2>2. HostInv'
    BY <1>5 DEF PrologExit, HostInv
  <2>3. GuestInv'
    BY <1>5 DEF PrologExit, GuestInv
  <2> QED
    BY <2>1, <2>2, <2>3
<1>6. CASE Prolog
  <2>1. CacheInv(jit', Pending', since') /\ CacheInv(jit, {}, since)
    BY <1>6 DEF Prolog, Pending
  <2>2. LinkLive(jit, host)
    BY <1>6, <2>1, ValidLinks DEF Prolog, HostInv
  <2>3. HostInv'
    BY <1>6, <2>2 DEF Prolog, HostInv, LinkLive
  <2>4. GuestInv'
    BY <1>6, JitAssumption DEF Prolog, GuestInv
  <2> QED
    BY <2>1, <2>3, <2>4
<1>7. ASSUME NEW a \in Addrs, PrologInterrupt(a) PROVE JitInv'
  <2>1. CacheInv(jit', Pending', since')
    BY <1>0, <1>7 DEF PrologInterrupt, Pending
  <2>2. HostInv'
    BY <1>7 DEF PrologInterrupt, HostInv
  <2>3. GuestInv'
    BY <1>7 DEF PrologInterrupt, GuestInv
  <2> QED
    BY <2>1, <2>2, <2>3
<1>8. ASSUME NEW a \in Addrs, NEW c \in Contents, WriteCode(a, c) PROVE JitInv'
  <2>1. \A b \in Addrs : since[b] \subseteq since'[b]
    BY <1>8 DEF WriteCode, GuestInv
  <2>2. CacheInv(jit, Pending, since')
    BY <2>1, Weaken
  <2>3. CacheInv(jit', Pending', since')
    BY <1>8, <2>2 DEF WriteCode, Pending
  <2>4. HostInv'
    BY <1>8 DEF WriteCode, HostInv, LinkLive
  <2>5. GuestInv'
    <3>1. mem' \in [Addrs -> Contents] /\ since' \in [Addrs -> SUBSET Contents]
      BY <1>8 DEF WriteCode, GuestInv
    <3>2. \A b \in Addrs : mem'[b] \in since'[b]
      BY <1>8 DEF WriteCode, GuestInv
    <3> QED
      BY <1>8, <3>1, <3>2 DEF WriteCode, GuestInv
  <2> QED
    BY <2>3, <2>4, <2>5
<1>9. CASE WriteCCR
  <2>1. at = "body" /\ Pending = {} /\ Pending' = {}
    BY <1>9 DEF WriteCCR, Running, Pending
  <2>2. PICK a \in DOMAIN jit.blocks : jit.blocks[a].host = host
    BY <2>1 DEF HostInv
  <2>3. /\ CacheInv(jit', {}, since')
        /\ a \in DOMAIN jit'.blocks /\ jit'.blocks[a].host = host
    BY <1>9, <2>1, <2>2, InvalidateCodeKeeps DEF WriteCCR
  <2>4. HostInv'
    BY <1>9, <2>1, <2>3 DEF WriteCCR, HostInv
  <2>5. GuestInv'
    BY <1>9 DEF WriteCCR, GuestInv
  <2> QED
    BY <2>1, <2>3, <2>4, <2>5
<1>10. CASE Fault
  <2>1. at = "body" /\ Pending = {} /\ Pending' = {}
    BY <1>10 DEF Fault, Running, Pending
  <2>2. PICK a \in DOMAIN jit.blocks : jit.blocks[a].host = host
    BY <2>1 DEF HostInv
  <2>3. ReverseLookup(jit, host) # {}
    BY <2>2 DEF ReverseLookup
  <2>4. /\ CacheInv(jit', {}, since')
        /\ a \in DOMAIN jit'.blocks /\ jit'.blocks[a].host = host
        /\ LinkLive(jit, host) => LinkLive(jit', host)
    BY <1>10, <2>1, <2>2, ExceptionKeeps DEF Fault
  <2>5. HostInv'
    BY <1>10, <2>1, <2>4 DEF Fault, HostInv, LinkLive
  <2>6. GuestInv'
    BY <1>10, <2>3 DEF Fault, GuestInv
  <2> QED
    BY <2>1, <2>4, <2>5, <2>6
<1>11. ASSUME NEW a \in Addrs, BranchDynamic(a) PROVE JitInv'
  <2>1. CacheInv(jit', Pending', since')
    BY <1>0, <1>11 DEF BranchDynamic, Running, Pending
  <2>2. HostInv'
    BY <1>11 DEF BranchDynamic, HostInv
  <2>3. GuestInv'
    BY <1>11 DEF BranchDynamic, GuestInv, NoHost
  <2> QED
    BY <2>1, <2>2, <2>3
<1>12. CASE BranchStatic
  <2>1. at = "body" /\ ~flushed /\ LinkLive(jit, host) /\ Pending = {}
    BY <1>12 DEF BranchStatic, Running, HostInv, Pending, GuestInv
  <2>2. PICK a \in DOMAIN jit.blocks : jit.blocks[a].host = host
    BY <2>1 DEF HostInv
  <2>3. jit.code[host] \in Code /\ host \in 1..jit.used
    BY <2>2 DEF CacheInv, CacheType, Translated
  <2>4. pc' \in Addrs
    BY <1>12, <2>3, JitAssumption DEF BranchStatic, Code
  <2>5. CacheInv(jit', Pending', since')
    BY <1>12, <2>1 DEF BranchStatic, Pending
  <2>6. HostInv' /\ host' \in Hosts \cup {NoHost} /\ at' \in {"static", "prolog"}
    <3>1. CASE jit.code[host].jmp = Thunk
      BY <1>12, <2>1, <2>2, <3>1 DEF BranchStatic, HostInv, GuestInv
    <3>2. CASE jit.code[host].jmp # Thunk
      <4>1. at' = "prolog" /\ host' = jit.code[host].jmp /\ jit' = jit
            /\ pc' = Target[jit.code[host].content]
        BY <1>12, <3>2 DEF BranchStatic
      <4>2. PICK b \in DOMAIN jit.blocks :
              /\ jit.blocks[b].state = "valid" /\ jit.blocks[b].host = jit.code[host].jmp
              /\ b = Target[jit.code[host].content]
        BY <2>1, <3>2 DEF LinkLive
      <4>3. HostInv'
        BY <4>1, <4>2 DEF HostInv
      <4>4. jit.code[host].jmp \in Hosts \cup {NoHost}
        BY <2>3 DEF Code, NoHost, Thunk
      <4> QED
        BY <4>1, <4>3, <4>4
    <3> QED
      BY <3>1, <3>2
  <2>7. GuestInv'
    BY <1>12, <2>4, <2>6 DEF BranchStatic, GuestInv
  <2> QED
    BY <2>5, <2>6, <2>7
<1>13. CASE TrapHit
  <2>1. CacheInv(jit', Pending', since')
    BY <1>0, <1>13 DEF TrapHit, Pending
  <2>2. HostInv'
    BY <1>13 DEF TrapHit, HostInv
  <2>3. GuestInv'
    BY <1>13, JitAssumption DEF TrapHit, GuestInv
  <2> QED
    BY <2>1, <2>2, <2>3
<1>14. ASSUME NEW a \in Addrs, NEW c \in Contents, Breakpoint(a, c) PROVE JitInv'
  <2>1. CacheInv(jit', Pending', since')
    BY <1>14, FreeCodeKeeps DEF Breakpoint
  <2>2. HostInv'
    BY <1>14 DEF Breakpoint, HostInv
  <2>3. GuestInv'
    <3>1. mem' \in [Addrs -> Contents]
      BY <1>14 DEF Breakpoint, GuestInv
    <3>2. since' \in [Addrs -> SUBSET Contents] /\ \A b \in Addrs : mem'[b] \in since'[b]
      BY <1>14, <3>1 DEF Breakpoint
    <3> QED
      BY <1>14, <3>1, <3>2 DEF Breakpoint, GuestInv
  <2> QED
    BY <2>1, <2>2, <2>3
<1>15. CASE Reset
  <2>1. CacheInv(jit', Pending', since')
    BY <1>15, FreeCodeKeeps DEF Reset
  <2>2. HostInv'
    BY <1>15 DEF Reset, HostInv
  <2>3. GuestInv'
    BY <1>15, JitAssumption DEF Reset, GuestInv
  <2> QED
    BY <2>1, <2>2, <2>3
<1>16. CASE UNCHANGED vars
  <2>1. CacheInv(jit', Pending', since')
    BY <1>16 DEF vars, Pending
  <2>2. HostInv'
    BY <1>16 DEF vars, HostInv, LinkLive
  <2>3. GuestInv'
    BY <1>16 DEF vars, GuestInv
  <2> QED
    BY <2>1, <2>2, <2>3
<1> QED
  BY <1>1, <1>2, <1>3, <1>4, <1>5, <1>6, <1>7, <1>8, <1>9, <1>10, <1>11, <1>12,
     <1>13, <1>14, <1>15, <1>16 DEF Next, Dispatch, EndBlock

(* The invariant says that the code that is entered is the right one ... *)
LEMMA InvRight ==
  ASSUME JitInv
  PROVE  RightCode
PROOF
<1> USE DEF JitInv
<1>1. TypeOK
  <2>1. \A a \in DOMAIN jit.blocks :
          jit.blocks[a] \in Block /\ jit.blocks[a].host <= jit.used
    BY DEF CacheInv, CacheType, Translated
  <2>2. \A a, b \in DOMAIN jit.blocks :
          jit.blocks[a].host = jit.blocks[b].host => a = b
    BY DEF CacheInv, Translated
  <2>3. DOMAIN jit.code = 1..jit.used /\ \A h \in 1..jit.used : jit.code[h] \in Code
    BY DEF CacheInv, CacheType
  <2> QED
    BY <2>1, <2>2, <2>3 DEF TypeOK, GuestInv, CacheInv, CacheType
<1>2. ASSUME at = "prolog"
      PROVE  /\ host \in DOMAIN jit.code /\ jit.code[host].addr = pc
             /\ \E a \in ReverseLookup(jit, host) : jit.blocks[a].state = "valid"
  BY <1>2 DEF HostInv, CacheInv, CacheType, Translated, ReverseLookup
<1> QED
  BY <1>1, <1>2 DEF RightCode, GuestInv

(* ... and that it is not stale. *)
LEMMA InvFresh ==
  ASSUME JitInv
  PROVE  FreshCode
PROOF
<1> USE DEF JitInv
<1>1. EdgesPatched
  BY DEF EdgesPatched, CacheInv, EdgesLive
<1>2. BranchesRecorded
  BY DEF BranchesRecorded, CacheInv, Recorded, Pending
<1>3. ASSUME at = "prolog"
      PROVE  /\ host \in DOMAIN jit.code
             /\ jit.code[host].content \in since[jit.code[host].addr]
  BY <1>3 DEF HostInv, CacheInv, CacheType, Translated, Fresh
<1> QED
  BY <1>1, <1>2, <1>3 DEF FreshCode

(* Whatever guest code is written, flushed, faulted on or stopped at, and
   however often the code buffer of jit_compile_code overflows: no CHECK of the
   recompiler fails, and the host code that is entered is that of a valid block
   and was translated from the address in the guest's pc.  This needs code that
   keeps its extent when it is written over, a dispatch entry per block, and
   dynamic branches after a write to CCR; without any of them it is false. *)
THEOREM EntersRightCode ==
  ASSUME OneExtent, OwnEntry, ~JumpsAfterFlush
  PROVE  Spec => []RightCode
PROOF
<1>1. Init => JitInv
  BY JitInitInv
<1>2. JitInv /\ [Next]_vars => JitInv'
  BY JitStep
<1>3. JitInv => RightCode
  BY InvRight
<1> QED
  BY <1>1, <1>2, <1>3, PTL DEF Spec

(* Under the same assumptions the recorded edges are exactly the patched
   branches of valid blocks, and the body of a block is only run if it stands
   for code its address has held since the guest last flushed its cache. *)
THEOREM EntersFreshCode ==
  ASSUME OneExtent, OwnEntry, ~JumpsAfterFlush
  PROVE  Spec => []FreshCode
PROOF
<1>1. Init => JitInv
  BY JitInitInv
<1>2. JitInv /\ [Next]_vars => JitInv'
  BY JitStep
<1>3. JitInv => FreshCode
  BY InvFresh
<1> QED
  BY <1>1, <1>2, <1>3, PTL DEF Spec

=============================================================================
