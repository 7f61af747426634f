---------------------------------- MODULE Ta ----------------------------------
(***************************************************************************)
(* The tile accelerator and the renderer's front end: guest/pvr/ta.c,      *)
(* guest/pvr/tr.c, emu_register_texture_sources of emulator.c and the      *)
(* merge sort of core/sort.c.                                              *)
(*                                                                         *)
(* The guest writes a frame as a stream of parameters of 32 or 64 bytes.   *)
(* Three loops split that stream: ta_write_context while it arrives, the   *)
(* emulator to register the textures it names, and tr_convert_context,     *)
(* later and on another thread, to draw it.  None of them shares its       *)
(* position with the others, each derives a parameter's size from what it  *)
(* has seen so far.                                                        *)
(*                                                                         *)
(* A chunk of 32 bytes is a record: the first of a parameter holds its     *)
(* control word, the second of a long one whatever data lies there, which  *)
(* a loop that is out of step would read as a control word.                *)
(***************************************************************************)
EXTENDS Integers, Sequences, FiniteSets, SequencesExt

CONSTANTS TaAddrs,      \* values of TA_ISP_BASE: one context each
          TaGlobals,    \* the global parameters the guest sends
          TaDepths,     \* the z of a vertex
          TaCorners,    \* background triples of vertices, <<x, y>> each
          TaMaxChunks,  \* bound on the chunks of all contexts
          TaMaxLate,    \* bound on the parameters sent to a context being rendered
          TaFirstTails, \* what may lie at byte 32 of a long first parameter
          TaSloppy      \* whether an object may begin with a degenerate sprite

ASSUME TaAssumption == TaMaxChunks \in Nat /\ TaDepths \subseteq Nat

(* para_type and list_type                                                 *)
EOL == 0
CLIP == 1
POLY == 4
SPRITE == 5
VERTEX == 7
Opaque == 0
OpaqueVol == 1
Translucent == 2
TranslucentVol == 3
PunchThrough == 4
NumLists == 5
NumVerts == 18
ModVol(list) == list \in {OpaqueVol, TranslucentVol}

VARIABLES tctx,   \* struct ta_context by address
          tcur,   \* curr_context
          traised,\* list interrupts raised since the context was begun
          tguest, \* what the guest is sending: [left, list, obj, strip, seen]
          tsent,  \* the parameters it sent to each context, in order
          tauto,  \* the presort register
          tframe, \* the frame being rendered, in a set that may be empty
          tdrawn  \* what came of it, in a set that may be empty
tavars == <<tctx, tcur, traised, tguest, tsent, tauto, tframe, tdrawn>>

-----------------------------------------------------------------------------
(* Types and sizes                                                         *)

PolyTypeRaw(p) ==
  CASE ModVol(p.list) -> 6
    [] ~ModVol(p.list) /\ p.para = SPRITE -> 5
    [] ~ModVol(p.list) /\ p.para # SPRITE /\ p.vol /\ p.col \in {0, 3} -> 3
    [] ~ModVol(p.list) /\ p.para # SPRITE /\ p.vol /\ p.col = 2 -> 4
    [] OTHER -> IF p.col # 2 THEN 0 ELSE IF p.tex /\ p.off THEN 2 ELSE 1

VertTypeRaw(p) ==
  LET wide(short, long) == IF p.uv16 THEN short ELSE long
      intensity == p.col \in {2, 3}
      volume == IF ~p.tex THEN IF intensity THEN 10 ELSE 9
                ELSE IF intensity THEN wide(14, 13) ELSE wide(12, 11)
      plain == IF ~p.tex THEN IF intensity THEN 2 ELSE p.col
               ELSE IF intensity THEN wide(8, 7) ELSE IF p.col = 1 THEN wide(6, 5) ELSE wide(4, 3)
  IN  CASE ModVol(p.list) -> 17
        [] ~ModVol(p.list) /\ p.para = SPRITE -> IF p.tex THEN 16 ELSE 15
        [] OTHER -> IF p.vol /\ p.col # 1 THEN volume ELSE plain

(* in chunks; the table is built with the list bits clear                  *)
ParamSizeRaw(p, vert) ==
  CASE p.para = POLY -> IF PolyTypeRaw([p EXCEPT !.list = 0]) \in {0, 1, 3} THEN 1 ELSE 2
    [] p.para = VERTEX -> IF vert \in {0, 1, 2, 3, 4, 7, 8, 9, 10} THEN 1 ELSE 2
    [] p.para \in {EOL, CLIP, 2, SPRITE} -> 1
    [] OTHER -> 0

(* The table has TA_NUM_VERTS columns: the index of "no vertex type yet",  *)
(* TA_NUM_VERTS, falls on the first column of the row after it.            *)
ParamSize(p, vert) ==
  IF vert = NumVerts THEN ParamSizeRaw([p EXCEPT !.para = (@ + 1) % 8], 0)
  ELSE ParamSizeRaw(p, vert)

ListTypeValid(p, list) == list = NumLists /\ p.para \in {2, POLY, SPRITE}

-----------------------------------------------------------------------------
(* ta.c: contexts and the incoming stream                                  *)

FreshContext == [params |-> <<>>, cursor |-> 0, list |-> NumLists, vert |-> NumVerts,
                 rendering |-> FALSE, used |-> FALSE, autosort |-> FALSE, bg |-> <<>>]

(* ta_write_context of one chunk                                           *)
Received(ctx, chunk) ==
  LET params == Append(ctx.params, chunk)
      pcw == params[ctx.cursor + 1]
      recv == Len(params) - ctx.cursor
      list == IF ListTypeValid(pcw, ctx.list) THEN pcw.list ELSE ctx.list
  IN  IF recv < ParamSize(pcw, ctx.vert) THEN [ctx EXCEPT !.params = params]
      ELSE [ctx EXCEPT !.params = params, !.cursor = @ + recv,
              !.list = IF pcw.para = EOL THEN NumLists ELSE list,
              !.vert = CASE pcw.para = EOL -> NumVerts
                         [] pcw.para \in {POLY, SPRITE} -> VertTypeRaw(pcw)
                         [] OTHER -> @]

(* the list interrupt it raises                                            *)
ListInterrupt(ctx, new) ==
  IF /\ new.cursor # ctx.cursor
     /\ new.params[ctx.cursor + 1].para = EOL
     /\ ctx.list # NumLists
  THEN <<ctx.list>> ELSE <<>>

TaChunks == LET n[S \in SUBSET TaAddrs] ==
                  IF S = {} THEN 0
                  ELSE LET a == CHOOSE x \in S : TRUE IN Len(tctx[a].params) + n[S \ {a}]
            IN  n[TaAddrs]

-----------------------------------------------------------------------------
(* tr.c.  A surface is its parameters, its first vertex, their number and  *)
(* its place in the strip; cur and scratch are the one being built.        *)

Built(par) == [par |-> par, first |-> 0, n |-> 0, off |-> 0]
TrReset == [list |-> NumLists, vert |-> NumVerts, ended |-> FALSE, face |-> 0, sprite |-> 0,
            cur |-> Built(<<>>), scratch |-> <<>>, surfs |-> <<>>, verts |-> <<>>,
            lists |-> [l \in 0..4 |-> <<>>], starts |-> <<>>, used |-> {}]

ReserveSurf(tr, surf) == [tr EXCEPT !.cur = surf, !.scratch = <<>>]
ReserveVerts(tr, vs) == [tr EXCEPT !.scratch = @ \o vs]

CommitSurfFlat(tr) ==
  LET n == Len(tr.scratch)
      base == Len(tr.verts)
      new == IF tr.list \in {Translucent, PunchThrough}
             THEN [i \in 1..(n - 2) |-> [tr.cur EXCEPT !.first = base + i - 1, !.n = 3]]
             ELSE << [tr.cur EXCEPT !.first = base, !.n = n] >>
      indexes == [i \in 1..Len(new) |-> Len(tr.surfs) + i]
  IN  [tr EXCEPT !.verts = @ \o tr.scratch, !.surfs = @ \o new, !.lists[tr.list] = @ \o indexes]

(* tr_commit_surf: a surface per triangle in the lists that are sorted     *)
CommitSurf(tr) ==
  LET n == Len(tr.scratch)
      base == Len(tr.verts)
      triangle(i) == [tr.cur EXCEPT !.off = i - 1, !.first = base + i - 1, !.n = 3]
      new == IF tr.list \in {Translucent, PunchThrough}
             THEN [i \in 1..(n - 2) |-> triangle(i)]
             ELSE << [tr.cur EXCEPT !.first = base, !.n = n] >>
      indexes == [i \in 1..Len(new) |-> Len(tr.surfs) + i]
  IN  [tr EXCEPT !.verts = @ \o tr.scratch, !.surfs = @ \o new, !.lists[tr.list] = @ \o indexes]

(* tr_parse_bg: the corner the other two are next to is made the second    *)
(* vertex, the missing one lies opposite to it                             *)
Dist(p, q) == (p[1] - q[1]) * (p[1] - q[1]) + (p[2] - q[2]) * (p[2] - q[2])
ParseBg(tr, bg) ==
  LET a == bg[1]
      b == bg[2]
      c == bg[3]
      score(p, q, r) == Dist(q, p) + Dist(r, p)
      sa == score(a, b, c)
      sb == score(b, a, c)
      sc == score(c, a, b)
      abc == IF sa < sb /\ sa < sc THEN <<c, a, b>>
             ELSE IF sc < sa /\ sc < sb THEN <<b, c, a>> ELSE <<a, b, c>>
      d == [k \in 1..2 |-> (abc[1][k] + abc[3][k]) - abc[2][k]]
      quad == << abc[1], abc[2], d, abc[3] >>
      built == ReserveSurf([tr EXCEPT !.list = Opaque],
                           Built([mat |-> "bg", tex |-> FALSE, blend |-> FALSE, test |-> FALSE, lequal |-> FALSE]))
  IN  [CommitSurf(ReserveVerts(built, [k \in 1..4 |-> [at |-> quad[k], col |-> 0, z |-> 0]]))
         EXCEPT !.list = NumLists]

(* tr_parse_poly_param                                                     *)
Params(p, list, autosort) ==
  [mat |-> p.mat, tex |-> p.tex, blend |-> list \in {Translucent, TranslucentVol},
   test |-> list = PunchThrough, lequal |-> list \in {Translucent, TranslucentVol} /\ autosort]
ParsePoly(tr, p, at, autosort) ==
  LET type == PolyTypeRaw(p)
      t == [tr EXCEPT !.ended = FALSE, !.vert = VertTypeRaw(p)]
  IN  IF type = 6 THEN t
      ELSE ReserveSurf([t EXCEPT !.face = IF type \in {1, 2} THEN at ELSE @,
                                 !.sprite = IF type = 5 THEN at ELSE @,
                                 !.used = IF p.tex THEN @ \cup {p.mat} ELSE @],
                       Built(Params(p, tr.list, autosort)))

(* intensities are multiplied with the face colour given last; other       *)
(* vertices bring their colour along                                       *)
VertColor(tr) == IF tr.vert \in {2, 7, 8} THEN tr.face ELSE 0

(* a quad a, b, c, d becomes the strip a, b, d, c                          *)
SpriteVerts(tr, p, at) ==
  LET corner(k) == [at |-> <<at, k>>, col |-> tr.sprite, z |-> p.z]
  IN  << corner(1), corner(2), corner(4), corner(3) >>

(* tr_parse_vert_param: after an end of strip the surface begun is a copy  *)
(* of the one committed last; a degenerate quad is never committed         *)
ParseVert(tr, p, at) ==
  LET t == [(IF tr.ended THEN ReserveSurf(tr, Last(tr.surfs)) ELSE tr) EXCEPT !.ended = p.eos]
      with == ReserveVerts(t, IF tr.vert \in {15, 16} THEN SpriteVerts(tr, p, at)
                              ELSE << [at |-> <<at>>, col |-> VertColor(tr), z |-> p.z] >>)
  IN  CASE tr.vert = 17 -> tr
        [] tr.vert \in {15, 16} /\ p.flat -> with
        [] OTHER -> IF p.eos THEN CommitSurf(with) ELSE with

ParseEol(tr) == [tr EXCEPT !.ended = FALSE, !.list = NumLists, !.vert = NumVerts]

(* the loop of tr_convert_context from chunk `at` on                       *)
RECURSIVE ParseFrom(_, _, _, _)
ParseFrom(tr, params, at, autosort) ==
  IF at > Len(params) THEN tr
  ELSE LET pcw == params[at]
           t == [tr EXCEPT !.list = IF ListTypeValid(pcw, @) THEN pcw.list ELSE @, !.starts = Append(@, at)]
           parsed == CASE pcw.para = EOL -> ParseEol(t)
                       [] pcw.para \in {POLY, SPRITE} -> ParsePoly(t, pcw, at, autosort)
                       [] pcw.para = VERTEX -> ParseVert(t, pcw, at)
                       [] OTHER -> t
       IN  ParseFrom(parsed, params, at + ParamSize(pcw, parsed.vert), autosort)

(* emu_register_texture_sources, the same loop with a state of its own     *)
RECURSIVE RegisterFrom(_, _, _)
RegisterFrom(params, at, vert) ==
  IF at > Len(params) THEN {}
  ELSE LET pcw == params[at]
           global == pcw.para \in {POLY, SPRITE}
           v == IF global THEN VertTypeRaw(pcw) ELSE vert
       IN  (IF global /\ pcw.tex THEN {pcw.mat} ELSE {}) \cup RegisterFrom(params, at + ParamSize(pcw, v), v)

(* msort_noalloc over the list, from back to front (tr_sort_surfaces)      *)
MinOf(S) == CHOOSE x \in S : \A y \in S : x <= y
MinZ(tr, i) == MinOf({tr.verts[tr.surfs[i].first + k].z : k \in 1..3})
RECURSIVE MergeBy(_, _, _)
MergeBy(tr, l, r) ==
  CASE l = <<>> -> r
    [] l # <<>> /\ r = <<>> -> l
    [] OTHER -> IF MinZ(tr, Head(l)) <= MinZ(tr, Head(r))
                THEN <<Head(l)>> \o MergeBy(tr, Tail(l), r)
                ELSE <<Head(r)>> \o MergeBy(tr, l, Tail(r))
RECURSIVE SortSurfaces(_, _)
SortSurfaces(tr, s) ==
  IF Len(s) < 2 THEN s
  ELSE LET m == Len(s) \div 2
       IN  MergeBy(tr, SortSurfaces(tr, SubSeq(s, 1, m)), SortSurfaces(tr, SubSeq(s, m + 1, Len(s))))

(* tr_generate_indices for one list.  Triangles replace the strips; a run  *)
(* of surfaces with equal parameters becomes one, and the list is moved up *)
(* in place over the entries the merges leave unused.                      *)
Triangles(surf) ==
  [j \in 1..(surf.n - 2) |->
     LET v == surf.first + j
     IN  IF (surf.off + j - 1) % 2 = 1 THEN <<v, v + 1, v + 2>> ELSE <<v, v + 2, v + 1>>]
RunEnd(rc, list, i) ==
  MinOf({j \in (i + 1)..(Len(list) + 1) : j = Len(list) + 1 \/ rc.surfs[list[j]].par # rc.surfs[list[i]].par})
RECURSIVE MergeRuns(_, _, _, _)
MergeRuns(rc, list, i, merged) ==
  IF i > Len(list) THEN [rc |-> rc, list |-> SubSeq(list, 1, Len(list) - merged)]
  ELSE LET j == RunEnd(rc, list, i)
           tris == FlattenSeq([k \in 1..(j - i) |-> Triangles(rc.surfs[list[i + k - 1]])])
           m == merged + (j - i - 1)
           root == [rc.surfs[list[i]] EXCEPT !.first = Len(rc.indices), !.n = Len(tris)]
       IN  MergeRuns([rc EXCEPT !.indices = @ \o tris, !.surfs[list[i]] = root],
                     [list EXCEPT ![j - m - 1] = list[i]], j, m)
RECURSIVE GenerateIndices(_, _)
GenerateIndices(rc, l) ==
  IF l = NumLists THEN rc
  ELSE LET r == MergeRuns(rc, rc.lists[l], 1, 0)
       IN  GenerateIndices([r.rc EXCEPT !.lists[l] = r.list], l + 1)

(* tr_convert_context: the result is the render context                    *)
ConvertParsed(tr, autosort) ==
  LET lists == IF autosort
               THEN [tr.lists EXCEPT ![Translucent] = SortSurfaces(tr, @), ![PunchThrough] = SortSurfaces(tr, @)]
               ELSE tr.lists
  IN  GenerateIndices([surfs |-> tr.surfs, verts |-> tr.verts, lists |-> lists, indices |-> <<>>,
                       starts |-> tr.starts, used |-> tr.used], 0)
Convert(ctx) == ConvertParsed(ParseFrom(ParseBg(TrReset, ctx.bg), ctx.params, 1, ctx.autosort), ctx.autosort)

(* tr_render_context: the triangles in the order they are drawn            *)
RenderList(rc, l) ==
  FlattenSeq([i \in 1..Len(rc.lists[l]) |->
    LET surf == rc.surfs[rc.lists[l][i]]
    IN  [k \in 1..surf.n |->
           [par |-> surf.par, tri |-> [c \in 1..3 |-> rc.verts[rc.indices[surf.first + k][c]]]]]])
RenderContext(rc) == RenderList(rc, Opaque) \o RenderList(rc, PunchThrough) \o RenderList(rc, Translucent)

-----------------------------------------------------------------------------
(* The guest.  It sends whole lists: a global parameter, strips of three   *)
(* or more vertices the last of which ends the strip, the end of the list; *)
(* seen says that the object has a strip.                                  *)

Silent == [left |-> <<>>, list |-> NumLists, obj |-> NumVerts, strip |-> 0, seen |-> FALSE]
Control(para) == [para |-> para, list |-> 0, col |-> 0, tex |-> FALSE, off |-> FALSE, vol |-> FALSE,
                  uv16 |-> FALSE, eos |-> FALSE, flat |-> FALSE, mat |-> "", z |-> 0, tail |-> CLIP]
TaVertices == {[Control(VERTEX) EXCEPT !.z = z, !.eos = e, !.flat = f] : z \in TaDepths, e \in BOOLEAN, f \in BOOLEAN}

Quad == tguest.obj \in {15, 16}
Sorted(list) == list \in {Translucent, PunchThrough}
FaceGiven == \E i \in 1..Len(tsent[tcur]) : tsent[tcur][i].p.para = POLY /\ tsent[tcur][i].p.col = 2

(* the vertices it may send: quads and volumes end every strip, the last   *)
(* vertex of a strip may lie in front of the others where surfaces are     *)
(* sorted, and a later quad of an object may be degenerate                 *)
GoodVertex(v) ==
  /\ tguest.obj # NumVerts
  /\ IF Quad \/ tguest.obj = 17 THEN v.eos ELSE v.eos => tguest.strip >= 2
  /\ (Sorted(tguest.list) /\ v.eos) \/ \A z \in TaDepths : z <= v.z
  /\ v.flat => Quad /\ (tguest.seen \/ TaSloppy)

GoodGlobal(p) ==
  /\ tguest.strip = 0
  /\ tguest.list # NumLists => tguest.seen
  /\ IF tguest.list # NumLists THEN p.list = tguest.list
     ELSE ParamSizeRaw(p, 0) = 2 => p.tail \in TaFirstTails
  /\ p.col = 3 => FaceGiven

TaSize(p) == IF p.para = VERTEX THEN ParamSizeRaw(p, tguest.obj) ELSE ParamSizeRaw(p, 0)
Sent(p) ==
  CASE p.para = EOL -> [tguest EXCEPT !.list = NumLists, !.obj = NumVerts, !.seen = FALSE]
    [] p.para \in {POLY, SPRITE} -> [tguest EXCEPT !.list = p.list, !.obj = VertTypeRaw(p), !.seen = FALSE]
    [] p.para = VERTEX -> [tguest EXCEPT !.strip = IF p.eos THEN 0 ELSE @ + 1, !.seen = @ \/ p.eos]
    [] OTHER -> tguest

(* a parameter is begun: its chunks are queued for the write that follows  *)
Compose(p) ==
  /\ tguest.left = <<>> /\ tctx[tcur].used
  /\ \A f \in tframe : f.addr = tcur => Len(tsent[tcur]) < Len(f.sent) + TaMaxLate
  /\ TaChunks + TaSize(p) <= TaMaxChunks
  /\ tguest' = [Sent(p) EXCEPT !.left = IF TaSize(p) = 2 THEN <<p, Control(p.tail)>> ELSE <<p>>]
  /\ tsent' = [tsent EXCEPT ![tcur] = Append(@, [p |-> p, pos |-> Len(tctx[tcur].params) + 1])]
  /\ UNCHANGED <<tctx, tcur, traised, tauto, tframe, tdrawn>>

SendGlobal == \E p \in TaGlobals : GoodGlobal(p) /\ Compose(p)
SendVertex == \E v \in TaVertices : GoodVertex(v) /\ Compose(v)
SendEol == tguest.list # NumLists /\ tguest.strip = 0 /\ tguest.seen /\ Compose(Control(EOL))
SendClip ==
  /\ tguest.list # NumLists /\ tguest.strip = 0
  /\ Last(tsent[tcur]).p.para # CLIP
  /\ Compose(Control(CLIP))

-----------------------------------------------------------------------------
(* ta_poly_write: 32 bytes at a time.  Nothing stops a write to a context  *)
(* that is being rendered.                                                 *)
PolyWrite ==
  /\ tguest.left # <<>>
  /\ LET old == tctx[tcur]
         new == Received(old, Head(tguest.left))
     IN  /\ tctx' = [tctx EXCEPT ![tcur] = new]
         /\ traised' = [traised EXCEPT ![tcur] = @ \o ListInterrupt(old, new)]
  /\ tguest' = [tguest EXCEPT !.left = Tail(@)]
  /\ tframe' = {[f EXCEPT !.late = @ \/ f.addr = tcur] : f \in tframe}
  /\ UNCHANGED <<tcur, tsent, tauto, tdrawn>>

(* the guest ended the lists it sent to the context                        *)
Closed(a) == tsent[a] # <<>> /\ Last(tsent[a]).p.para = EOL

(* ta_list_init, ta_list_cont: both CHECK that the context is not rendered *)
ListInit(a) ==
  /\ tguest.left = <<>> /\ ~tctx[a].rendering
  /\ tctx' = [tctx EXCEPT ![a] = [@ EXCEPT !.params = <<>>, !.cursor = 0, !.list = NumLists,
                                           !.vert = NumVerts, !.used = TRUE]]
  /\ tcur' = a
  /\ tguest' = Silent
  /\ tsent' = [tsent EXCEPT ![a] = <<>>]
  /\ traised' = [traised EXCEPT ![a] = <<>>]
  /\ UNCHANGED <<tauto, tframe, tdrawn>>

ListCont(a) ==
  /\ tguest.left = <<>> /\ Closed(a)
  /\ tctx[a].used /\ ~tctx[a].rendering
  /\ tctx' = [tctx EXCEPT ![a].list = NumLists, ![a].vert = NumVerts]
  /\ tcur' = a
  /\ tguest' = Silent
  /\ UNCHANGED <<traised, tsent, tauto, tframe, tdrawn>>

(* ta_save_state: what may be modified by the time the frame is drawn      *)
SaveState(ctx, bg) == [ctx EXCEPT !.autosort = tauto, !.bg = bg]

(* ta_start_render: the registers are saved, the sources registered        *)
StartRender(a) ==
  /\ tframe = {} /\ tctx[a].used
  /\ tguest.left = <<>> /\ Closed(a)
  /\ \E bg \in TaCorners :
       LET ctx == SaveState([tctx[a] EXCEPT !.rendering = TRUE], bg)
       IN  /\ tctx' = [tctx EXCEPT ![a] = ctx]
           /\ tframe' = {[addr |-> a, sent |-> tsent[a], autosort |-> tauto, bg |-> bg, late |-> FALSE,
                          sources |-> RegisterFrom(ctx.params, 1, 0)]}
  /\ UNCHANGED <<tcur, traised, tguest, tsent, tauto, tdrawn>>

(* the video thread, at any time before the end of the frame               *)
VideoConvert ==
  /\ tdrawn = {}
  /\ \E f \in tframe : \E rc \in {Convert(tctx[f.addr])} :
       tdrawn' = {[draws |-> RenderContext(rc), starts |-> rc.starts, used |-> rc.used]}
  /\ UNCHANGED <<tctx, tcur, traised, tguest, tsent, tauto, tframe>>

(* ta_render_context_end waits for it                                      *)
RenderEnd ==
  /\ tdrawn # {}
  /\ tctx' = [a \in TaAddrs |-> IF \E f \in tframe : f.addr = a
                                THEN [tctx[a] EXCEPT !.rendering = FALSE, !.bg = <<>>, !.autosort = FALSE]
                                ELSE tctx[a]]
  /\ tframe' = {} /\ tdrawn' = {}
  /\ UNCHANGED <<tcur, traised, tguest, tsent, tauto>>

WritePresort ==
  /\ tframe # {}
  /\ tauto' = ~tauto
  /\ UNCHANGED <<tctx, tcur, traised, tguest, tsent, tframe, tdrawn>>

TaInit ==
  /\ tctx = [a \in TaAddrs |-> FreshContext]
  /\ tcur = CHOOSE a \in TaAddrs : TRUE
  /\ traised = [a \in TaAddrs |-> <<>>]
  /\ tguest = Silent
  /\ tsent = [a \in TaAddrs |-> <<>>]
  /\ tauto \in BOOLEAN
  /\ tframe = {} /\ tdrawn = {}

TaNext ==
  \/ SendGlobal \/ SendVertex \/ SendEol \/ SendClip
  \/ PolyWrite
  \/ \E a \in TaAddrs : ListInit(a) \/ ListCont(a) \/ StartRender(a)
  \/ VideoConvert \/ RenderEnd \/ WritePresort

-----------------------------------------------------------------------------
(* Between two parameters the accelerator has consumed exactly what it was *)
(* sent, has raised one interrupt for each list that was ended, in order,  *)
(* and knows the list it is in; and the two loops over a finished frame    *)
(* split it where the guest did, so that every texture that is drawn with  *)
(* was registered.                                                         *)
EndedLists(sent) ==
  LET lists(i) == LET before == {j \in 1..(i - 1) : sent[j].p.para \in {POLY, SPRITE}}
                  IN  sent[CHOOSE j \in before : \A k \in before : k <= j].p.list
      ends == SetToSortSeq({i \in 1..Len(sent) : sent[i].p.para = EOL}, <)
  IN  [k \in 1..Len(ends) |-> lists(ends[k])]
StreamInStep ==
  /\ tguest.left = <<>> =>
       /\ \A a \in TaAddrs : /\ tctx[a].cursor = Len(tctx[a].params)
                             /\ traised[a] = EndedLists(tsent[a])
       /\ tctx[tcur].list = tguest.list
  /\ \A f \in tframe, d \in tdrawn : ~f.late =>
       /\ d.used \subseteq f.sources
       /\ d.starts = [i \in 1..Len(f.sent) |-> f.sent[i].pos]

(* What is drawn of a frame is what the guest sent up to START_RENDER,     *)
(* with the registers of that moment: every triangle of every strip once,  *)
(* with the parameters and the face colour in force, all wound the same    *)
(* way, list by list, the sorted lists from back to front and otherwise in *)
(* the order sent; behind them the two halves of the background rectangle. *)
Before2(s, i, S) == LET js == {j \in 1..i : s[j].p.para \in S} IN CHOOSE j \in js : \A k \in js : k <= j
TriangleOf(f, i, k) ==
  LET s == f.sent
      o == Before2(s, i, {POLY, SPRITE})
      obj == s[o].p
      faces == {j \in 1..o : s[j].p.para = POLY /\ s[j].p.col = 2 /\ ~ModVol(s[j].p.list)}
      face == CHOOSE j \in faces : \A m \in faces : m <= j
      par == [mat |-> obj.mat, tex |-> obj.tex, blend |-> obj.list = Translucent,
              test |-> obj.list = PunchThrough, lequal |-> obj.list = Translucent /\ f.autosort]
      corner(c) == [at |-> <<s[i].pos, c>>, col |-> s[o].pos, z |-> s[i].p.z]
      vertex(j) == [at |-> <<s[j].pos>>, col |-> IF obj.col \in {2, 3} THEN s[face].pos ELSE 0, z |-> s[j].p.z]
  IN  [par |-> par,
       tri |-> CASE obj.para = SPRITE -> IF k = 1 THEN <<corner(1), corner(4), corner(2)>>
                                         ELSE <<corner(2), corner(4), corner(3)>>
                 [] obj.para # SPRITE /\ k = 0 -> <<vertex(i - 2), vertex(i), vertex(i - 1)>>
                 [] OTHER -> <<vertex(i - 2), vertex(i - 1), vertex(i)>>]

(* the triangles of list l: <<i, k>>, the vertex that completes it and the *)
(* half of the quad, or the parity of its place in the strip               *)
Wanted(f, l) ==
  LET s == f.sent
      vertex(i) == i > 0 /\ s[i].p.para = VERTEX
      of(i) == s[Before2(s, i, {POLY, SPRITE})].p
      begin(i) == LET js == {j \in 1..i : \A k \in j..i : vertex(k) /\ (k < i => ~s[k].p.eos)} IN MinOf(js)
      is == {i \in 1..Len(s) : vertex(i) /\ of(i).list = l}
  IN  {<<i, k>> \in is \X {0, 1} : of(i).para = SPRITE /\ ~s[i].p.flat}
        \cup {<<i, k>> \in is \X {0, 1} : of(i).para = POLY /\ i - begin(i) >= 2 /\ k = (i - begin(i)) % 2}
TriangleZ(t) == MinOf({t.tri[c].z : c \in 1..3})
DrawnFor(f, l) ==
  LET w == Wanted(f, l)
      t(x) == TriangleOf(f, x[1], IF f.sent[Before2(f.sent, x[1], {POLY, SPRITE})].p.para = SPRITE THEN x[2] + 1 ELSE x[2])
      earlier(x, y) == x[1] < y[1] \/ (x[1] = y[1] /\ x[2] < y[2])
      before(x, y) == IF Sorted(l) /\ f.autosort /\ TriangleZ(t(x)) # TriangleZ(t(y))
                      THEN TriangleZ(t(x)) < TriangleZ(t(y)) ELSE earlier(x, y)
  IN  [i \in 1..Cardinality(w) |-> t(CHOOSE x \in w : Cardinality({y \in w : before(y, x)}) = i - 1)]

(* the two halves of the background share a diagonal and its orientation   *)
Turn(t) == (t[2].at[1] - t[1].at[1]) * (t[3].at[2] - t[1].at[2]) - (t[2].at[2] - t[1].at[2]) * (t[3].at[1] - t[1].at[1])
CoversScreen(bg, x, y) ==
  LET cs(t) == {t[k].at : k \in 1..3}
      xs == {bg[k][1] : k \in 1..3}
      ys == {bg[k][2] : k \in 1..3}
  IN  /\ cs(x) \cup cs(y) = xs \X ys
      /\ LET shared == cs(x) \cap cs(y)
         IN  Cardinality(shared) = 2 /\ Cardinality({p[1] : p \in shared}) = 2 /\ Cardinality({p[2] : p \in shared}) = 2
      /\ Turn(x) * Turn(y) > 0
TrianglesExact ==
  \A f \in tframe, d \in tdrawn : ~f.late =>
    /\ CoversScreen(f.bg, d.draws[1].tri, d.draws[2].tri)
    /\ SubSeq(d.draws, 3, Len(d.draws)) = DrawnFor(f, Opaque) \o DrawnFor(f, PunchThrough) \o DrawnFor(f, Translucent)

(* The guest's stream and the picture agree: the accelerator keeps in step *)
(* with what it is sent, and what is drawn of a frame is what was sent for *)
(* it (ta_write_context, emu_register_texture_sources, tr_convert_context).*)
DisplayListExact == StreamInStep /\ TrianglesExact

=============================================================================
