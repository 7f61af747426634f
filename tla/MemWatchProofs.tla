--------------------------- MODULE MemWatchProofs ---------------------------
(***************************************************************************)
(* Proofs about MemWatch, for any pages, textures, entries and number of   *)
(* watches: a write never faults unhandled, and every change of a texture  *)
(* that shares no page with another one is noticed.                        *)
(***************************************************************************)
EXTENDS MemWatch, FiniteSetTheorems, TLAPS

(* A texture of the cache is watched unless it will be uploaded again. *)
WatchedOrMarked ==
  \A e \in DOMAIN cache : cache[e].watched \/ cache[e].modified \/ cache[e].dirty

(* Every page of a watched texture is read-only, if it has its pages alone. *)
WatchedIsReadonly ==
  ~fatal => \A e \in DOMAIN cache :
    Alone(cache[e].texture) /\ cache[e].watched =>
      PagesOf(cache[e].texture) \subseteq readonly

IInv == TypeOK /\ FaultsHandled /\ WatchedIsLive

AInv == IInv /\ WatchedOrMarked /\ WatchedIsReadonly /\ ChangeNoticed

-----------------------------------------------------------------------------
(* A render leaves the cache typed: the entry it uses is clean and watched. *)
LEMMA RenderCache ==
  ASSUME TypeOK, NEW t \in Textures, NEW e \in Entries, Render(t, e)
  PROVE  /\ DOMAIN cache' = DOMAIN cache \cup {e}
         /\ \A d \in DOMAIN cache' : cache'[d] \in Entry
         /\ cache'[e].texture = t /\ cache'[e].watched /\ ~cache'[e].dirty
         /\ e \in DOMAIN cache => cache[e].texture = t
         /\ \A d \in DOMAIN cache : d # e => cache'[d] = DirtyModified(d)
<1> DEFINE entry == IF e \in DOMAIN cache THEN DirtyModified(e)
               ELSE [texture |-> t, watched |-> FALSE, modified |-> FALSE,
                     dirty |-> TRUE]
<1>1. e \in DOMAIN cache => cache[e].texture = t
  BY DEF Render, Find
<1>2. \A d \in DOMAIN cache : cache[d] \in Entry
  BY DEF TypeOK
<1>3. \A d \in DOMAIN cache : DirtyModified(d) \in Entry
                              /\ DirtyModified(d).texture = cache[d].texture
  BY <1>2 DEF DirtyModified, Entry
<1>4. entry \in Entry /\ entry.texture = t
  BY <1>1, <1>3 DEF Entry
<1>5. cache' = [d \in DOMAIN cache \cup {e} |->
        IF d = e THEN [entry EXCEPT !.watched = TRUE, !.dirty = FALSE]
                 ELSE DirtyModified(d)]
  BY DEF Render
<1> HIDE DEF entry
<1>6. [entry EXCEPT !.watched = TRUE, !.dirty = FALSE] \in Entry
  BY <1>4 DEF Entry
<1> QED
  BY <1>1, <1>3, <1>4, <1>5, <1>6 DEF Entry

(* What a render does to the watches: nothing, or it adds one for its texture. *)
LEMMA RenderWatches ==
  ASSUME TypeOK, NEW t \in Textures, NEW e \in Entries, Render(t, e)
  PROVE  \/ /\ e \in DOMAIN cache /\ cache[e].watched
            /\ UNCHANGED <<readonly, live, free, fatal>>
         \/ /\ readonly' = readonly \cup PagesOf(t)
            /\ fatal' = TRUE
            /\ UNCHANGED <<live, free>>
         \/ /\ readonly' = readonly \cup PagesOf(t)
            /\ fatal' = FALSE
            /\ \E i \in free :
                 /\ live' = [j \in DOMAIN live \cup {i} |->
                      IF j = i THEN [range |-> t, data |-> e] ELSE live[j]]
                 /\ free' = free \ {i}
<1>1. CASE e \in DOMAIN cache
  <2>1. DirtyModified(e).watched = cache[e].watched
    BY <1>1 DEF DirtyModified, TypeOK, Entry
  <2>2. WatchOnce(t, e, cache[e].watched)
    BY <1>1, <2>1 DEF Render
  <2> QED
    BY <1>1, <2>2 DEF WatchOnce, AddWatch
<1>2. CASE e \notin DOMAIN cache
  <2>1. WatchOnce(t, e, FALSE)
    BY <1>2 DEF Render
  <2> QED
    BY <1>2, <2>1 DEF WatchOnce, AddWatch
<1> QED
  BY <1>1, <1>2

(* Renders keep the invariant: a page becomes read-only together with a watch
   that covers it. *)
LEMMA RenderInvariant ==
  ASSUME IInv, NEW t \in Textures, NEW e \in Entries, Render(t, e)
  PROVE  IInv'
<1> USE DEF IInv
<1>1. PagesOf(t) \subseteq Pages
  BY MemWatchAssumption DEF PagesOf
<1>2. stale' \subseteq Entries /\ ~fatal
  BY DEF Render, TypeOK
<1>c. /\ DOMAIN cache' = DOMAIN cache \cup {e}
      /\ \A d \in DOMAIN cache' : cache'[d] \in Entry
      /\ cache'[e].texture = t /\ cache'[e].watched
      /\ e \in DOMAIN cache => cache[e].texture = t
      /\ \A d \in DOMAIN cache : d # e => cache'[d] = DirtyModified(d)
  BY RenderCache
<1>d. \A d \in DOMAIN cache : DirtyModified(d).texture = cache[d].texture
                              /\ (DirtyModified(d).watched = cache[d].watched)
  BY DEF TypeOK, Entry, DirtyModified
<1>e. DOMAIN cache' \subseteq Entries
  BY <1>c DEF TypeOK
<1>3. CASE e \in DOMAIN cache /\ cache[e].watched
           /\ UNCHANGED <<readonly, live, free, fatal>>
  <2>1. TypeOK'
    BY <1>2, <1>3, <1>c, <1>e DEF TypeOK
  <2>2. FaultsHandled'
    BY <1>3 DEF FaultsHandled, Watching
  <2>3. WatchedIsLive'
    <3>1. \A d \in DOMAIN cache' : d \in DOMAIN cache
                     /\ cache'[d].texture = cache[d].texture
                     /\ (cache'[d].watched => cache[d].watched)
      BY <1>3, <1>c, <1>d
    <3> QED
      BY <1>2, <1>3, <3>1 DEF WatchedIsLive
  <2> QED
    BY <2>1, <2>2, <2>3
<1>4. CASE readonly' = readonly \cup PagesOf(t) /\ fatal' = TRUE
           /\ UNCHANGED <<live, free>>
  <2>1. TypeOK'
    BY <1>1, <1>2, <1>4, <1>c, <1>e DEF TypeOK
  <2> QED
    BY <1>4, <2>1 DEF FaultsHandled, WatchedIsLive
<1>5. ASSUME readonly' = readonly \cup PagesOf(t), fatal' = FALSE,
             NEW i \in free, free' = free \ {i},
             live' = [j \in DOMAIN live \cup {i} |->
                        IF j = i THEN [range |-> t, data |-> e] ELSE live[j]]
      PROVE  IInv'
  <2>0. i \notin DOMAIN live /\ i \in Ids
    BY DEF TypeOK
  <2>1. TypeOK'
    <3>1. DOMAIN live' \subseteq Ids /\ \A j \in DOMAIN live' : live'[j] \in Watch
      BY <1>5, <2>0 DEF TypeOK, Watch
    <3>2. free' = Ids \ DOMAIN live'
      BY <1>5, <2>0 DEF TypeOK
    <3> QED
      BY <1>1, <1>2, <1>5, <3>1, <3>2, <1>c, <1>e DEF TypeOK
  <2>2. /\ \A j \in DOMAIN live : j \in DOMAIN live' /\ live'[j] = live[j]
        /\ i \in DOMAIN live' /\ live'[i] = [range |-> t, data |-> e]
    BY <1>5, <2>0
  <2>3. FaultsHandled'
    <3>1. \A p \in Pages : Watching(p) \subseteq Watching(p)'
      BY <2>2 DEF Watching
    <3>2. \A p \in PagesOf(t) : i \in Watching(p)'
      BY <2>2 DEF Watching
    <3> QED
      BY <1>2, <1>5, <3>1, <3>2 DEF FaultsHandled, TypeOK
  <2>4. WatchedIsLive'
    <3>1. \A d \in DOMAIN cache : d # e => cache'[d].texture = cache[d].texture
                     /\ (cache'[d].watched => cache[d].watched)
      BY <1>c, <1>d
    <3> QED
      BY <1>2, <2>2, <3>1, <1>c DEF WatchedIsLive
  <2> QED
    BY <2>1, <2>3, <2>4
<1> QED
  BY <1>3, <1>4, <1>5, RenderWatches

(* A handled fault keeps the invariant: the pages it leaves read-only are
   covered by watches that did not fire. *)
LEMMA FaultInvariant ==
  ASSUME IInv, NEW p \in Pages, NEW S \in SUBSET Entries, Write(p, S)
  PROVE  IInv'
<1> USE DEF IInv
<1>1. stale' \subseteq Entries /\ ~fatal
  BY DEF Write, TypeOK
<1>2. CASE p \notin readonly
  <2>1. UNCHANGED <<readonly, live, free, cache, fatal>>
    BY <1>2 DEF Write
  <2> QED
    BY <1>1, <2>1 DEF TypeOK, FaultsHandled, WatchedIsLive, Watching
<1>3. CASE p \in readonly
  <2> DEFINE fired == Watching(p)
             told  == {live[i].data : i \in fired}
  <2>1. /\ fatal' = (fired = {})
        /\ readonly' = readonly \ UNION {PagesOf(live[i].range) : i \in fired}
        /\ live' = [i \in DOMAIN live \ fired |-> live[i]]
        /\ free' = free \cup fired
        /\ cache' = [d \in DOMAIN cache |->
             IF d \in told
             THEN [cache[d] EXCEPT !.watched = FALSE, !.modified = TRUE]
             ELSE cache[d]]
    BY <1>3 DEF Write, HandleException, RemoveWatches, Modified
  <2>2. fired \subseteq DOMAIN live
    BY DEF Watching
  <2>3. TypeOK'
    <3>1. DOMAIN cache' = DOMAIN cache /\ \A d \in DOMAIN cache' : cache'[d] \in Entry
      BY <2>1 DEF TypeOK, Entry
    <3> HIDE DEF fired
    <3>2. DOMAIN live' = DOMAIN live \ fired /\ \A i \in DOMAIN live' : live'[i] = live[i]
      BY <2>1
    <3> QED
      BY <1>1, <2>1, <2>2, <3>1, <3>2 DEF TypeOK
  <2>4. FaultsHandled'
    <3>1. ASSUME NEW q \in readonly' PROVE Watching(q)' # {}
      <4>1. PICK i \in Watching(q) : TRUE
        BY <1>1, <2>1 DEF FaultsHandled
      <4>2. i \notin fired
        BY <2>1, <4>1 DEF Watching
      <4> QED
        BY <2>1, <4>1, <4>2 DEF Watching
    <3> QED
      BY <3>1 DEF FaultsHandled
  <2>5. WatchedIsLive'
    <3>1. ASSUME NEW d \in DOMAIN cache', cache'[d].watched
          PROVE  \E i \in DOMAIN live' : live'[i] = [range |-> cache'[d].texture, data |-> d]
      <4>1. d \in DOMAIN cache /\ d \notin told /\ cache'[d] = cache[d]
        BY <2>1, <3>1 DEF TypeOK, Entry
      <4>2. PICK i \in DOMAIN live : live[i] = [range |-> cache[d].texture, data |-> d]
        BY <1>1, <3>1, <4>1 DEF WatchedIsLive
      <4>3. i \notin fired
        BY <4>1, <4>2
      <4> QED
        BY <2>1, <4>1, <4>2, <4>3
    <3> QED
      BY <3>1 DEF WatchedIsLive
  <2> QED
    BY <2>3, <2>4, <2>5
<1> QED
  BY <1>2, <1>3

(* No step of MemWatch leaves the invariant. *)
LEMMA NextInvariant ==
  ASSUME IInv, [Next]_vars
  PROVE  IInv'
<1>1. CASE DirtyTextures
  <2>1. DOMAIN cache' = DOMAIN cache
        /\ \A d \in DOMAIN cache : /\ cache'[d] \in Entry
                                   /\ cache'[d].texture = cache[d].texture
                                   /\ cache'[d].watched = cache[d].watched
    BY <1>1 DEF DirtyTextures, IInv, TypeOK, Entry
  <2> QED
    BY <1>1, <2>1 DEF DirtyTextures, IInv, TypeOK, FaultsHandled, WatchedIsLive, Watching
<1>2. CASE VideoRestart
  BY <1>2 DEF VideoRestart, Nothing, IInv, TypeOK, FaultsHandled, WatchedIsLive, Watching
<1>3. CASE UNCHANGED vars
  BY <1>3 DEF vars, IInv, TypeOK, FaultsHandled, WatchedIsLive, Watching
<1> QED
  BY <1>1, <1>2, <1>3, RenderInvariant, FaultInvariant DEF Next

(* The invariant holds before the first render. *)
LEMMA InitInvariant == Init => IInv
BY DEF Init, Nothing, IInv, TypeOK, FaultsHandled, WatchedIsLive, Watching

(* The inductive invariant holds in every reachable state, resizes included. *)
THEOREM Invariance == Spec => []IInv
<1>1. IInv /\ [Next]_vars => IInv'
  BY NextInvariant
<1> QED
  BY <1>1, InitInvariant, PTL DEF Spec

(* The watches and the cache of memory.c and emulator.c keep their types, and no
   watch is both in the tree and on the free list, or on neither. *)
THEOREM TypeCorrect == Spec => []TypeOK
<1>1. IInv => TypeOK
  BY DEF IInv
<1> QED
  BY <1>1, Invariance, PTL

(* watcher_handle_exception finds a watch for every write that faults. *)
THEOREM FaultsAreHandled == Spec => []FaultsHandled
<1>1. IInv => FaultsHandled
  BY DEF IInv
<1> QED
  BY <1>1, Invariance, PTL

(* An entry of emu->textures with a watch pointer has that watch in the tree. *)
THEOREM WatchesAreLive == Spec => []WatchedIsLive
<1>1. IInv => WatchedIsLive
  BY DEF IInv
<1> QED
  BY <1>1, Invariance, PTL

-----------------------------------------------------------------------------
(* A render keeps AInv: a texture that is stale is marked, so it is uploaded
   if it is the one drawn and dirtied if it is another. *)
LEMMA RenderNoticed ==
  ASSUME AInv, NEW t \in Textures, NEW e \in Entries, Render(t, e)
  PROVE  AInv'
<1> USE DEF AInv
<1>1. IInv' /\ TypeOK /\ ~fatal
  BY RenderInvariant DEF IInv, Render
<1>2. /\ DOMAIN cache' = DOMAIN cache \cup {e}
      /\ cache'[e].texture = t /\ cache'[e].watched
      /\ e \in DOMAIN cache => cache[e].texture = t
      /\ \A d \in DOMAIN cache : d # e => cache'[d] = DirtyModified(d)
  BY <1>1, RenderCache
<1>3. \A d \in DOMAIN cache :
        /\ DirtyModified(d).texture = cache[d].texture
        /\ DirtyModified(d).watched = cache[d].watched
        /\ DirtyModified(d).dirty = (cache[d].dirty \/ cache[d].modified)
  BY <1>1 DEF TypeOK, Entry, DirtyModified
<1>4. WatchedOrMarked'
  BY <1>2, <1>3 DEF WatchedOrMarked
<1>5. WatchedIsReadonly'
  <2>1. readonly \subseteq readonly'
    BY <1>1, RenderWatches
  <2>2. Alone(t) => PagesOf(t) \subseteq readonly'
    BY <1>1, <1>2, RenderWatches DEF WatchedIsReadonly
  <2> QED
    BY <1>1, <1>2, <1>3, <2>1, <2>2 DEF WatchedIsReadonly
<1>6. ChangeNoticed'
  <2>1. Alone(t) => e \notin stale'
    <3>1. CASE e \in DOMAIN cache
      <4>1. stale' = IF DirtyModified(e).dirty THEN stale \ {e} ELSE stale
        BY <3>1 DEF Render
      <4> QED
        BY <1>2, <1>3, <3>1, <4>1 DEF ChangeNoticed
    <3>2. CASE e \notin DOMAIN cache
      BY <3>2 DEF Render
    <3> QED
      BY <3>1, <3>2
  <2>2. stale' \subseteq stale
    BY DEF Render
  <2> QED
    BY <1>2, <1>3, <2>1, <2>2 DEF ChangeNoticed
<1> QED
  BY <1>1, <1>4, <1>5, <1>6

(* A write keeps AInv: a watched texture that has its pages alone faults on
   every one of them, and no watch for another texture gives them back. *)
LEMMA WriteNoticed ==
  ASSUME AInv,
         NEW p \in Pages, NEW S \in SUBSET Entries, Write(p, S)
  PROVE  AInv'
<1> USE DEF AInv
<1>1. IInv' /\ TypeOK /\ WatchedIsLive /\ ~fatal
  BY FaultInvariant DEF IInv, Write
<1>2. stale' = stale \cup S
      /\ \A d \in S : d \in DOMAIN cache /\ p \in PagesOf(cache[d].texture)
  BY DEF Write
<1>3. CASE p \notin readonly
  <2>1. UNCHANGED <<readonly, live, free, cache, fatal>>
    BY <1>3 DEF Write
  <2>2. \A d \in S : Alone(cache[d].texture) => ~cache[d].watched
    BY <1>1, <1>2, <1>3 DEF WatchedIsReadonly
  <2>3. ChangeNoticed'
    BY <1>2, <2>1, <2>2 DEF ChangeNoticed, WatchedOrMarked
  <2> QED
    BY <1>1, <2>1, <2>3 DEF WatchedOrMarked, WatchedIsReadonly
<1>4. CASE p \in readonly
  <2> DEFINE fired == Watching(p)
             told  == {live[i].data : i \in fired}
  <2>1. /\ readonly' = readonly \ UNION {PagesOf(live[i].range) : i \in fired}
        /\ cache' = [d \in DOMAIN cache |->
             IF d \in told
             THEN [cache[d] EXCEPT !.watched = FALSE, !.modified = TRUE]
             ELSE cache[d]]
    BY <1>4 DEF Write, HandleException, RemoveWatches, Modified
  <2>2. \A d \in DOMAIN cache :
          cache[d].watched /\ p \in PagesOf(cache[d].texture) => d \in told
    <3>1. ASSUME NEW d \in DOMAIN cache, cache[d].watched, p \in PagesOf(cache[d].texture)
          PROVE  d \in told
      <4>1. PICK i \in DOMAIN live : live[i] = [range |-> cache[d].texture, data |-> d]
        BY <1>1, <3>1 DEF WatchedIsLive
      <4>2. i \in fired /\ live[i].data = d
        BY <3>1, <4>1 DEF Watching
      <4> QED
        BY <4>2
    <3> QED
      BY <3>1
  <2>3. fired \subseteq DOMAIN live
        /\ \A i \in fired : live[i].range \in Textures /\ p \in PagesOf(live[i].range)
    BY <1>1 DEF Watching, TypeOK, Watch
  <2> HIDE DEF told, fired
  <2>4. /\ DOMAIN cache' = DOMAIN cache
        /\ \A d \in told \cap DOMAIN cache : ~cache'[d].watched /\ cache'[d].modified
        /\ \A d \in DOMAIN cache : d \notin told => cache'[d] = cache[d]
    BY <1>1, <2>1 DEF TypeOK, Entry
  <2>5. WatchedOrMarked'
    BY <2>4 DEF WatchedOrMarked
  <2>6. WatchedIsReadonly'
    <3>1. ASSUME NEW d \in DOMAIN cache, d \notin told, cache[d].watched,
                 Alone(cache[d].texture)
          PROVE  PagesOf(cache[d].texture) \subseteq readonly'
      <4>1. p \notin PagesOf(cache[d].texture) /\ cache[d].texture \in Textures
        BY <1>1, <2>2, <3>1 DEF TypeOK, Entry
      <4>2. \A i \in fired : PagesOf(live[i].range) \cap PagesOf(cache[d].texture) = {}
        BY <2>3, <3>1, <4>1 DEF Alone
      <4>3. PagesOf(cache[d].texture) \subseteq readonly
        BY <1>1, <3>1 DEF WatchedIsReadonly
      <4> QED
        BY <2>1, <4>2, <4>3
    <3> QED
      BY <2>4, <3>1 DEF WatchedIsReadonly
  <2>7. ChangeNoticed'
    <3>1. ASSUME NEW d \in DOMAIN cache, d \in stale', d \notin told,
                 Alone(cache[d].texture)
          PROVE  cache[d].modified \/ cache[d].dirty
      BY <1>2, <2>2, <3>1 DEF ChangeNoticed, WatchedOrMarked
    <3>2. \A d \in told \cap DOMAIN cache : cache'[d].modified
      BY <2>4
    <3> QED
      BY <2>4, <3>1, <3>2 DEF ChangeNoticed
  <2> QED
    BY <1>1, <2>5, <2>6, <2>7
<1> QED
  BY <1>3, <1>4

(* No step leaves AInv. *)
LEMMA NextNoticed ==
  ASSUME AInv, [Next]_vars
  PROVE  AInv'
<1>1. IInv'
  BY NextInvariant DEF AInv
<1>2. CASE DirtyTextures
  <2>1. DOMAIN cache' = DOMAIN cache
        /\ \A d \in DOMAIN cache : /\ cache'[d].texture = cache[d].texture
                                   /\ cache'[d].watched = cache[d].watched
                                   /\ cache'[d].dirty
    BY <1>2 DEF DirtyTextures, AInv, IInv, TypeOK, Entry
  <2> QED
    BY <1>1, <1>2, <2>1
    DEF DirtyTextures, AInv, WatchedOrMarked, WatchedIsReadonly, ChangeNoticed
<1>3. CASE VideoRestart
  BY <1>1, <1>3 DEF VideoRestart, Nothing, AInv, WatchedOrMarked,
                    WatchedIsReadonly, ChangeNoticed
<1>4. CASE UNCHANGED vars
  BY <1>1, <1>4 DEF vars, AInv, WatchedOrMarked, WatchedIsReadonly, ChangeNoticed
<1> QED
  BY <1>2, <1>3, <1>4, RenderNoticed, WriteNoticed DEF Next

(* A texture that shares no page with another one and whose memory has changed
   since its upload is marked modified or dirty: the single-shot watches of
   memory.c lose no write to it, whatever other textures share pages and however
   often the video is restarted. *)
THEOREM ChangesNoticed == Spec => []ChangeNoticed
<1>1. Init => AInv
  BY InitInvariant DEF Init, Nothing, AInv, WatchedOrMarked, WatchedIsReadonly,
                       ChangeNoticed
<1>2. AInv /\ [Next]_vars => AInv'
  BY NextNoticed
<1>3. AInv => ChangeNoticed
  BY DEF AInv
<1> QED
  BY <1>1, <1>2, <1>3, PTL DEF Spec

-----------------------------------------------------------------------------
(* Leaks: a count of watches says the same as a pairing of watches and entries. *)

WatchedIn(c) == {e \in DOMAIN c : c[e].watched}

(* Every live watch is the one watch of a watched entry. *)
Paired(l, c) ==
  /\ \A i \in DOMAIN l : l[i].data \in WatchedIn(c)
  /\ \A i, j \in DOMAIN l : l[i].data = l[j].data => i = j

(* If every watched entry has a watch, as many watches as watched entries means
   that none is left over. *)
LEMMA NoneLeftOver ==
  ASSUME NEW l, NEW c, IsFiniteSet(DOMAIN l), IsFiniteSet(WatchedIn(c)),
         \A e \in WatchedIn(c) : \E i \in DOMAIN l : l[i].data = e
  PROVE  Cardinality(DOMAIN l) - Cardinality(WatchedIn(c)) = 0 <=> Paired(l, c)
<1> DEFINE W == WatchedIn(c)
           D == DOMAIN l
           w == [e \in W |-> CHOOSE i \in D : l[i].data = e]
           f == [i \in D |-> l[i].data]
<1>1. Cardinality(D) \in Nat /\ Cardinality(W) \in Nat
  BY FS_CardinalityType
<1>2. \A e \in W : w[e] \in D /\ l[w[e]].data = e
  OBVIOUS
<1> HIDE DEF W, D, w
<1>3. w \in Injection(W, D)
  <2>1. w \in [W -> D]
    BY <1>2 DEF w
  <2>2. \A a, b \in W : w[a] = w[b] => a = b
    BY <1>2
  <2> QED
    BY <2>1, <2>2 DEF Injection, IsInjective
<1>4. ASSUME Cardinality(D) = Cardinality(W) PROVE Paired(l, c)
  <2>1. w \in Surjection(W, D)
    BY <1>3, <1>4, FS_Injection DEF D
  <2>2. \A i \in D : \E e \in W : w[e] = i
    BY <2>1 DEF Surjection
  <2> QED
    BY <1>2, <2>2 DEF Paired, W, D
<1>5. ASSUME Paired(l, c) PROVE Cardinality(D) = Cardinality(W)
  <2>1. f \in Injection(D, W)
    BY <1>5 DEF Paired, Injection, IsInjective, W, D
  <2>2. f \in Surjection(D, W)
    BY <1>2, <2>1 DEF Surjection, Injection
  <2> QED
    BY <2>1, <2>2, FS_Injection DEF W
<1> QED
  BY <1>1, <1>4, <1>5 DEF W, D

(* The sets that are counted are finite. *)
LEMMA WatchesFinite ==
  ASSUME NEW l, NEW c, DOMAIN l \subseteq Ids, DOMAIN c \subseteq Entries
  PROVE  IsFiniteSet(DOMAIN l) /\ IsFiniteSet(WatchedIn(c))
<1>1. IsFiniteSet(Ids)
  BY MemWatchAssumption, FS_Interval DEF Ids
<1>2. WatchedIn(c) \in SUBSET Entries
  BY DEF WatchedIn
<1> QED
  BY <1>1, <1>2, MemWatchAssumption, FS_Subset

(* While there are as many watches as watched entries, an entry that is not
   watched finds a free watch or MAX_WATCHES others are watched. *)
LEMMA WatchIsFree ==
  ASSUME TypeOK, Leaked = 0, free = {}
  PROVE  Cardinality(WatchedIn(cache)) = MaxWatches
<1>1. DOMAIN live = Ids
  BY DEF TypeOK
<1>2. Cardinality(Ids) = MaxWatches /\ MaxWatches \in Nat
  BY MemWatchAssumption, FS_Interval DEF Ids
<1>3. Cardinality(WatchedIn(cache)) \in Nat
  BY WatchesFinite, FS_CardinalityType DEF TypeOK
<1>4. Cardinality(DOMAIN live) - Cardinality(WatchedIn(cache)) = 0
  BY DEF Leaked, WatchedIn
<1> QED
  BY <1>1, <1>2, <1>3, <1>4

(* Registering, writing and dirtying textures keeps the pairing, unless every
   watch is in use. *)
LEMMA PairedStep ==
  ASSUME IInv, ~fatal, Leaked = 0, Paired(live, cache),
         Next, ~VideoRestart, ~PoolExhausted'
  PROVE  ~fatal' /\ Paired(live', cache')
<1>1. ASSUME NEW t \in Textures, NEW e \in Entries, Render(t, e)
      PROVE  ~fatal' /\ Paired(live', cache')
  <2>1. TypeOK
    BY DEF IInv
  <2>2. /\ DOMAIN cache' = DOMAIN cache \cup {e}
        /\ cache'[e].watched
        /\ \A d \in DOMAIN cache : d # e => cache'[d] = DirtyModified(d)
    BY <1>1, <2>1, RenderCache
  <2>3. \A d \in DOMAIN cache : DirtyModified(d).watched = cache[d].watched
    BY <2>1 DEF TypeOK, Entry, DirtyModified
  <2>4. WatchedIn(cache') = WatchedIn(cache) \cup {e}
    BY <2>2, <2>3 DEF WatchedIn
  <2>5. CASE e \in WatchedIn(cache)
    <3>1. UNCHANGED <<live, fatal>>
      <4>1. DirtyModified(e).watched
        BY <2>3, <2>5 DEF WatchedIn
      <4> QED
        BY <1>1, <2>5, <4>1 DEF Render, WatchOnce, WatchedIn
    <3> QED
      BY <2>4, <3>1 DEF Paired
  <2>6. CASE e \notin WatchedIn(cache)
    <3>2. AddWatch(t, e)
      <4>1. CASE e \in DOMAIN cache
        <5>1. ~DirtyModified(e).watched
          BY <2>3, <2>6, <4>1 DEF WatchedIn
        <5> QED
          BY <1>1, <4>1, <5>1 DEF Render, WatchOnce
      <4>2. CASE e \notin DOMAIN cache
        BY <1>1, <4>2 DEF Render, WatchOnce
      <4> QED
        BY <4>1, <4>2
    <3>1. free # {}
      <4> SUFFICES ASSUME free = {} PROVE PoolExhausted'
        OBVIOUS
      <4>1. fatal'
        BY <3>2 DEF AddWatch
      <4>2. Cardinality(WatchedIn(cache)) = MaxWatches /\ MaxWatches \in Nat
        BY <2>1, WatchIsFree, MemWatchAssumption
      <4>3. Cardinality(WatchedIn(cache) \cup {e}) = MaxWatches + 1
        BY <2>1, <2>6, <4>2, WatchesFinite, FS_AddElement DEF TypeOK
      <4>4. Cardinality(WatchedIn(cache')) > MaxWatches
        BY <2>4, <4>2, <4>3
      <4> QED
        BY <4>1, <4>4 DEF PoolExhausted, WatchedIn
    <3>3. ~fatal' /\ \E i \in free : live' = [j \in DOMAIN live \cup {i} |->
                                      IF j = i THEN [range |-> t, data |-> e] ELSE live[j]]
      BY <3>1, <3>2 DEF AddWatch
    <3> QED
      BY <2>4, <2>6, <3>3 DEF Paired
  <2> QED
    BY <2>5, <2>6
<1>2. ASSUME NEW p \in Pages, NEW S \in SUBSET Entries, Write(p, S)
      PROVE  ~fatal' /\ Paired(live', cache')
  <2>1. CASE p \notin readonly
    BY <1>2, <2>1 DEF Write, Paired, WatchedIn
  <2>2. CASE p \in readonly
    <3> DEFINE fired == Watching(p)
               told  == {live[i].data : i \in fired}
    <3>1. /\ fatal' = (fired = {})
          /\ live' = [i \in DOMAIN live \ fired |-> live[i]]
          /\ cache' = [d \in DOMAIN cache |->
               IF d \in told
               THEN [cache[d] EXCEPT !.watched = FALSE, !.modified = TRUE]
               ELSE cache[d]]
      BY <1>2, <2>2 DEF Write, HandleException, RemoveWatches, Modified
    <3>2. fired # {} /\ fired \subseteq DOMAIN live
      BY <2>2 DEF IInv, FaultsHandled, Watching
    <3> HIDE DEF fired
    <3>3. WatchedIn(cache') = WatchedIn(cache) \ told
      BY <3>1 DEF WatchedIn, IInv, TypeOK, Entry
    <3>4. \A i \in DOMAIN live \ fired : live[i].data \notin told
      BY <3>2 DEF Paired
    <3> QED
      BY <3>1, <3>2, <3>3, <3>4 DEF Paired
  <2> QED
    BY <2>1, <2>2
<1>3. CASE DirtyTextures
  <2>1. WatchedIn(cache') = WatchedIn(cache)
    BY <1>3 DEF DirtyTextures, WatchedIn, IInv, TypeOK, Entry
  <2> QED
    BY <1>3, <2>1 DEF DirtyTextures, Paired
<1> QED
  BY <1>1, <1>2, <1>3 DEF Next

(* Only a resize of the window loses watches: emu_start_render, the fault
   handler and emu_dirty_textures leave one watch per watched range, in any order
   and however the ranges share pages, for any number of textures and watches;
   and unless a watch is lost, none is missing before MAX_WATCHES ranges are
   watched at once. *)
THEOREM RestartsAloneLeak == Spec => OnlyRestartsLeak
<1>1. ASSUME IInv, IInv', [Next]_vars
      PROVE  [Leaked = 0 /\ Leaked' # 0 => VideoRestart \/ PoolExhausted']_vars
  <2> SUFFICES ASSUME Next, ~VideoRestart, ~PoolExhausted', Leaked = 0
               PROVE  Leaked' = 0
    BY <1>1
  <2>1. ~fatal
    BY DEF Next, Render, Write, DirtyTextures, VideoRestart
  <2>2. Leaked = Cardinality(DOMAIN live) - Cardinality(WatchedIn(cache))
    BY DEF Leaked, WatchedIn
  <2>3. Leaked' = Cardinality(DOMAIN live') - Cardinality(WatchedIn(cache'))
    BY DEF Leaked, WatchedIn
  <2>4. IsFiniteSet(DOMAIN live) /\ IsFiniteSet(WatchedIn(cache))
    BY <1>1, WatchesFinite DEF IInv, TypeOK
  <2>5. IsFiniteSet(DOMAIN live') /\ IsFiniteSet(WatchedIn(cache'))
    BY <1>1, WatchesFinite DEF IInv, TypeOK
  <2>6. Paired(live, cache)
    <3>1. \A e \in WatchedIn(cache) : \E i \in DOMAIN live : live[i].data = e
      BY <1>1, <2>1 DEF IInv, WatchedIsLive, WatchedIn
    <3> QED
      BY <2>2, <2>4, <3>1, NoneLeftOver
  <2>7. ~fatal' /\ Paired(live', cache')
    BY <1>1, <2>1, <2>6, PairedStep
  <2>8. \A e \in WatchedIn(cache') : \E i \in DOMAIN live' : live'[i].data = e
    BY <1>1, <2>7 DEF IInv, WatchedIsLive, WatchedIn
  <2> QED
    BY <2>3, <2>5, <2>7, <2>8, NoneLeftOver
<1> QED
  BY <1>1, Invariance, PTL DEF Spec, OnlyRestartsLeak

=============================================================================
