------------------------------ MODULE MemWatch ------------------------------
(***************************************************************************)
(* The write watches of core/memory.c and the texture cache of emulator.c  *)
(* that relies on them: a texture is watched from its registration on, the *)
(* first write to its pages marks it modified, and the next render uploads *)
(* it again.                                                               *)
(*                                                                         *)
(* Memory is a set of pages.  A struct emu_texture watches up to two       *)
(* ranges of pages, that of its texels and that of its palette, each with  *)
(* a watch of its own; the two callbacks do the same.  Here each range is  *)
(* a texture in an entry of its own: an entry of this module is half of a  *)
(* struct emu_texture, of which the code has 8192 for MAX_WATCHES = 8192   *)
(* watches, so that there may be more entries than watches.                *)
(* Which entry or watch is taken from a free list does not matter to what  *)
(* follows, so the free lists are sets.                                    *)
(***************************************************************************)
EXTENDS Integers, FiniteSets

CONSTANTS
  Pages,      \* pages of video memory
  Textures,   \* textures and palettes the guest draws with: ranges [lo, hi]
  Entries,    \* entries of emu->textures, one for each range they may watch
  MaxWatches, \* MAX_WATCHES
  Restarts    \* is the video restarted, as it is whenever the window is resized?

ASSUME MemWatchAssumption ==
  /\ Pages \subseteq Nat
  /\ \A t \in Textures : t.lo <= t.hi /\ t.lo..t.hi \subseteq Pages
  /\ IsFiniteSet(Entries) /\ IsFiniteSet(Textures)
  /\ Cardinality(Entries) >= Cardinality(Textures)
  /\ MaxWatches \in Nat \ {0}
  /\ Restarts \in BOOLEAN

VARIABLES
  readonly, \* the pages writes to which fault
  live,     \* watches in the interval tree: id -> its range and entry
  free,     \* ids of the free list of the watcher
  cache,    \* live entries: entry -> texture and flags
  stale,    \* entries whose uploaded image is not what memory holds
  fatal     \* has a CHECK failed, or a fault found no handler?

vars == <<readonly, live, free, cache, stale, fatal>>

Ids == 1..MaxWatches

PagesOf(t) == t.lo..t.hi

Entry == [texture : Textures, watched : BOOLEAN, modified : BOOLEAN,
          dirty : BOOLEAN]

Watch == [range : Textures, data : Entries]

(* Every piece of state has its type and every watch is either live or free.
   While no watch is live there is no watcher; a new one has every watch free. *)
TypeOK ==
  /\ readonly \subseteq Pages
  /\ DOMAIN live \subseteq Ids /\ \A i \in DOMAIN live : live[i] \in Watch
  /\ free = Ids \ DOMAIN live
  /\ DOMAIN cache \subseteq Entries /\ \A e \in DOMAIN cache : cache[e] \in Entry
  /\ stale \subseteq Entries /\ fatal \in BOOLEAN

\* The function with nothing in its domain.
Nothing == [x \in {} |-> x]

Init ==
  /\ readonly = {} /\ live = Nothing /\ free = Ids
  /\ cache = Nothing /\ stale = {} /\ fatal = FALSE

-----------------------------------------------------------------------------
\* The entry of texture t, if it has one.
Find(t) == {e \in DOMAIN cache : cache[e].texture = t}

\* An emu_dirty_modified_textures that only clears the list.
DirtyModifiedLost(e) == [cache[e] EXCEPT !.modified = FALSE]

\* emu_dirty_modified_textures: what was modified is to be uploaded again.
DirtyModified(e) ==
  [cache[e] EXCEPT !.dirty = @ \/ cache[e].modified, !.modified = FALSE]

\* add_single_write_watch, which protects every page the texture touches.
AddWatch(t, e) ==
  LET id == CHOOSE i \in free : TRUE
  IN /\ readonly' = readonly \cup PagesOf(t)
     /\ fatal' = (free = {})
     /\ IF free = {} THEN UNCHANGED <<live, free>>
        ELSE /\ live' = [i \in DOMAIN live \cup {id} |->
               IF i = id THEN [range |-> t, data |-> e] ELSE live[i]]
             /\ free' = free \ {id}

\* Watches a texture on every render.
WatchAgain(t, e, watched) == AddWatch(t, e)

\* A texture that is watched already is not watched twice.
WatchOnce(t, e, watched) ==
  IF watched THEN UNCHANGED <<readonly, live, free, fatal>> ELSE AddWatch(t, e)

(* emu_start_render for texture t in entry e: the modified textures are
   dirtied, t gets an entry and a watch, and is uploaded if it is dirty. *)
Render(t, e) ==
  LET entry == IF e \in DOMAIN cache THEN DirtyModified(e)
               ELSE [texture |-> t, watched |-> FALSE, modified |-> FALSE,
                     dirty |-> TRUE]
  IN /\ ~fatal
     /\ IF Find(t) # {} THEN e \in Find(t) ELSE e \in Entries \ DOMAIN cache
     /\ cache' = [d \in DOMAIN cache \cup {e} |->
          IF d = e THEN [entry EXCEPT !.watched = TRUE, !.dirty = FALSE]
                   ELSE DirtyModified(d)]
     /\ stale' = IF entry.dirty THEN stale \ {e} ELSE stale
     /\ WatchOnce(t, e, entry.watched)

\* The watches whose range a fault at page p lies in.
Watching(p) == {i \in DOMAIN live : p \in PagesOf(live[i].range)}

\* The watches of S are removed and the pages of R given back to the guest.
RemoveWatches(S, R) ==
  /\ readonly' = readonly \ R
  /\ live' = [i \in DOMAIN live \ S |-> live[i]]
  /\ free' = free \cup S

\* A callback that leaves the pointer to the removed watch in the entry.
ModifiedKeepsWatch(S) ==
  cache' = [e \in DOMAIN cache |->
    IF e \in S THEN [cache[e] EXCEPT !.modified = TRUE] ELSE cache[e]]

\* emu_texture_modified and emu_palette_modified for the entries of S.
Modified(S) ==
  cache' = [e \in DOMAIN cache |->
    IF e \in S THEN [cache[e] EXCEPT !.watched = FALSE, !.modified = TRUE]
               ELSE cache[e]]

\* A handler that gives back the page of the fault alone.
HandleExceptionPage(p) ==
  /\ fatal' = (Watching(p) = {})
  /\ RemoveWatches(Watching(p), {p})
  /\ Modified({live[i].data : i \in Watching(p)})

(* watcher_handle_exception for a write to page p: each watch tells its entry,
   gives its whole range back to the guest and is removed.  A fault nobody
   watches for ends the program. *)
HandleException(p) ==
  /\ fatal' = (Watching(p) = {})
  /\ RemoveWatches(Watching(p), UNION {PagesOf(live[i].range) : i \in Watching(p)})
  /\ Modified({live[i].data : i \in Watching(p)})

(* The guest writes to page p and changes the textures of S, which are some of
   those on the page. *)
Write(p, S) ==
  /\ ~fatal
  /\ S \subseteq {e \in DOMAIN cache : p \in PagesOf(cache[e].texture)}
  /\ stale' = stale \cup S
  /\ IF p \in readonly THEN HandleException(p)
     ELSE UNCHANGED <<readonly, live, free, cache, fatal>>

\* The debug menu or the start of a trace: emu_dirty_textures.
DirtyTextures ==
  /\ ~fatal
  /\ cache' = [e \in DOMAIN cache |-> [cache[e] EXCEPT !.dirty = TRUE]]
  /\ UNCHANGED <<readonly, live, free, stale, fatal>>

(* emu_vid_destroyed frees the entries, but not the watches that point to
   them. *)
VideoRestart ==
  /\ Restarts /\ ~fatal
  /\ cache' = Nothing /\ stale' = {}
  /\ UNCHANGED <<readonly, live, free, fatal>>

Next ==
  \/ \E t \in Textures, e \in Entries : Render(t, e)
  \/ \E p \in Pages, S \in SUBSET Entries : Write(p, S)
  \/ DirtyTextures
  \/ VideoRestart

Spec == Init /\ [][Next]_vars

-----------------------------------------------------------------------------
(* Live watches that no entry points to. *)
Leaked == Cardinality(DOMAIN live)
          - Cardinality({e \in DOMAIN cache : cache[e].watched})

(* Every watch is in use and add_single_write_watch was asked for one more:
   MAX_WATCHES other entries are watched, and CHECK_NOTNULL(watch) fails. *)
PoolExhausted ==
  /\ fatal
  /\ Cardinality({e \in DOMAIN cache : cache[e].watched}) > MaxWatches

(* Only emu_vid_destroyed separates watches from the entries they were made
   for: registering, writing and dirtying textures in any order leaves one watch
   for each watched entry.  So unless the window is resized, the MAX_WATCHES
   watches run out only when as many ranges are watched at once, which textures
   with palettes reach with half as many entries of emu->textures. *)
OnlyRestartsLeak ==
  [][Leaked = 0 /\ Leaked' # 0 => VideoRestart \/ PoolExhausted']_vars

(* Every page that is read-only lies in the range of a live watch: no write of
   the guest faults without a handler, whatever watches it shares pages with. *)
FaultsHandled == ~fatal => \A p \in readonly : Watching(p) # {}

(* An entry that holds a pointer to a watch has a live one on its texture: the
   pointer does not keep a texture from being watched again. *)
WatchedIsLive ==
  ~fatal => \A e \in DOMAIN cache : cache[e].watched =>
    \E i \in DOMAIN live : live[i] = [range |-> cache[e].texture, data |-> e]

\* No other texture lies on a page of texture t.
Alone(t) == \A u \in Textures : t # u => PagesOf(t) \cap PagesOf(u) = {}

(* A texture whose memory has changed since it was uploaded is marked, so that
   the next render uploads it again: no write goes unnoticed, whatever watches a
   resize has left behind.  A texture that shares a page with another is not
   covered: watcher_handle_exception gives the shared page back to the guest
   with the range of the other one, and later writes to it do not fault. *)
ChangeNoticed ==
  \A e \in DOMAIN cache : Alone(cache[e].texture) /\ e \in stale =>
    cache[e].modified \/ cache[e].dirty

=============================================================================
