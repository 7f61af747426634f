----------------------------- MODULE MCDevices -----------------------------
(* Flash memory, the BIOS, the interval tree, the tile accelerator, texture
   memory, the serial port, the DMA engines, the maple
   bus and disc images, each on a small instance of its own.  A behaviour is a behaviour of one
   unit; the others stay where they begin. *)
EXTENDS Flash, Bios, IntervalTree, Ta, Tex, Scif, HollyDma, Maple, Disc

(* Two of five intervals are equal, others nest, overlap or are one byte. *)
MCRange == << <<0, 3>>, <<1, 1>>, <<2, 5>>, <<2, 5>>, <<4, 6>> >>

(* A range with gaps, whose words are also a format of subcode and its size,
   and a frame that no track holds. *)
MCParams == {<<1, 14, 0, 0>>, <<0, 1, 1, 0>>}

(* Short and long global parameters, with the colour of an earlier one, of
   every list, sprites, and a modifier volume. *)
Poly(l, m) == [Control(POLY) EXCEPT !.list = l, !.mat = m]
MCGlobals ==
  {Poly(Opaque, "A"), Poly(Translucent, "A"), Poly(PunchThrough, "A"), Poly(OpaqueVol, "A"),
   [Poly(Opaque, "A") EXCEPT !.col = 2, !.tex = TRUE, !.off = TRUE, !.tail = EOL],
   [Poly(Translucent, "B") EXCEPT !.col = 2, !.tex = TRUE, !.off = TRUE],
   [Poly(Opaque, "B") EXCEPT !.col = 3, !.tex = TRUE],
   [Poly(Opaque, "B") EXCEPT !.para = SPRITE, !.tex = TRUE],
   [Poly(Translucent, "A") EXCEPT !.para = SPRITE, !.uv16 = TRUE]}

(* The right angle of the background first, second and third. *)
MCCorners == {<< <<0, 0>>, <<4, 0>>, <<0, 3>> >>, << <<4, 0>>, <<0, 0>>, <<0, 3>> >>,
              << <<4, 0>>, <<0, 3>>, <<0, 0>> >>}

MCTextures ==
  {TxCase(p, u, v, s, FALSE, m, FALSE, 0) :
     p \in {"4bpp", "8bpp", "565", "yuv"}, u \in 0..1, v \in 0..2, s \in BOOLEAN, m \in BOOLEAN}
    \cup {TxCase(p, u, v, s, TRUE, m, FALSE, 0) :
            p \in {"1555", "4444"}, u \in 0..1, v \in 0..1, s \in BOOLEAN, m \in BOOLEAN}
    \cup {TxCase(p, 2, 0, TRUE, FALSE, FALSE, TRUE, 20) : p \in {"1555", "yuv"}}
MCWords == {w * 521 : w \in 0..125}

MCScModes == {{}, {"RE", "TE"}, {"RE", "TE", "RIE", "TIE"}}

(* One transfer that ends with its channel disabled, one that leaves it on. *)
MCG2Jobs == {[stag |-> 0, star |-> 10, len |-> 3, last |-> TRUE],
             [stag |-> 1, star |-> 20, len |-> 5, last |-> FALSE]}

(* Two cards, of one several blocks and quarters, and every other request. *)
Card(p, cmd, b, q) ==
  [port |-> p, dst |-> {0}, cmd |-> cmd, fn |-> "MEMCARD", block |-> b, phase |-> q]
Request(p, dst, cmd, fn) ==
  [port |-> p, dst |-> dst, cmd |-> cmd, fn |-> fn, block |-> 0, phase |-> 0]
MCMpFrames ==
  {Card(0, "BLKWRITE", b, q) : q \in {0, 3}, b \in {0, 2}}
    \cup {Card(1, "BLKWRITE", 1, 2), Card(0, "BLKREAD", 0, 0), Card(0, "BLKREAD", 2, 0)}
    \cup {Request(0, {0}, c, "MEMCARD") : c \in {"DEVINFO", "GETMEMINFO", "SETCOND"}}
    \cup {Request(0, {0}, "BLKWRITE", "LCD"), Request(1, {1}, "DEVINFO", ""),
          Request(0, {0, 5}, "DEVINFO", ""), Request(1, {5}, "GETCOND", "")}

MCStick == {-32768, 32767}

(* Images of the three formats, of every sector size, with audio tracks between
   the data, gaps, an offset into the file, lengths that are no multiple of
   four, a layout that is not known and a gap where none is allowed. *)
DcTrack(mode, size, frames, lba, pregap) ==
  [mode |-> mode, size |-> size, frames |-> frames, lba |-> lba, pregap |-> pregap, skip |-> 0]
DcEntry(name, len, extent) == [name |-> name, len |-> len, extent |-> extent]
DcRoot == <<DcEntry(<<"0">>, 3, 30), DcEntry(<<"A", "B">>, 4, 31), DcEntry(<<"B">>, 3, 32)>>
DcImage(kind, boot, tracks) == [kind |-> kind, boot |-> boot, root |-> DcRoot, tracks |-> tracks]
MCDcImages ==
  {DcImage("gdi", 3, <<DcTrack(1, s, 3, 0, 0), DcTrack(0, 2352, 2, 3, 0), [DcTrack(1, s, 9, 10, 0) EXCEPT !.skip = 8],
                       DcTrack(0, 2352, 2, 21, 0), DcTrack(1, 2352, 3, 24, 0)>>) : s \in {2048, 2352}}
    \cup {DcImage("cdi", 2, <<DcTrack(0, 2352, 3, 0, 2), DcTrack(2, s, 9, 12, 2)>>) : s \in {1000, 2048, 2336, 2352}}
    \cup {DcImage("cdi", 3, <<DcTrack(0, 2352, 3, 0, 2), DcTrack(1, 2048, 3, 5, 3), DcTrack(1, 2352, 9, 13, 1)>>)}
    \cup {DcImage("chd", 3, <<DcTrack(1, s, 3, 0, 0), DcTrack(0, 2352, 7, 0, 0), DcTrack(1, s, 9, 0, 0),
                              DcTrack(0, 2352, 2, 0, g), DcTrack(1, 2352, 2, 0, 0)>>) : s \in {2352, 2336}, g \in 0..1}
MCDcNames == {<<"0">>, <<"A", "B">>, <<"B">>, <<"C">>}

VARIABLE unit

Units == {"flash", "bios", "tree", "ta", "yuv", "tex",
          "scif", "dma", "maple", "disc"}

Init ==
  /\ unit \in Units
  /\ FlInit /\ BInit /\ ItInit /\ TaInit /\ YuvInit /\ TxInit
  /\ ScInit /\ DmInit /\ MpInit /\ DcInit
  /\ unit # "ta" => ~tauto
  /\ unit # "scif" => ~scserial
  /\ unit # "bios" => bpar = CHOOSE p \in BParams : TRUE

Next ==
  /\ UNCHANGED unit
  /\ \/ /\ unit = "flash" /\ FlNext
        /\ UNCHANGED <<bvars, itvars, tavars, yuvvars, txvars, scvars, dmvars, mpvars, dcvars>>
     \/ /\ unit = "bios" /\ BNext
        /\ UNCHANGED <<flvars, itvars, tavars, yuvvars, txvars, scvars, dmvars, mpvars, dcvars>>
     \/ /\ unit = "tree" /\ ItNext
        /\ UNCHANGED <<flvars, bvars, tavars, yuvvars, txvars, scvars, dmvars, mpvars, dcvars>>
     \/ /\ unit = "ta" /\ TaNext
        /\ UNCHANGED <<flvars, bvars, itvars, yuvvars, txvars, scvars, dmvars, mpvars, dcvars>>
     \/ /\ unit = "yuv" /\ YuvNext
        /\ UNCHANGED <<flvars, bvars, itvars, tavars, txvars, scvars, dmvars, mpvars, dcvars>>
     \/ /\ unit = "tex" /\ TxNext
        /\ UNCHANGED <<flvars, bvars, itvars, tavars, yuvvars, scvars, dmvars, mpvars, dcvars>>
     \/ /\ unit = "scif" /\ ScNext
        /\ UNCHANGED <<flvars, bvars, itvars, tavars, yuvvars, txvars, dmvars, mpvars, dcvars>>
     \/ /\ unit = "dma" /\ DmNext
        /\ UNCHANGED <<flvars, bvars, itvars, tavars, yuvvars, txvars, scvars, mpvars, dcvars>>
     \/ /\ unit = "maple" /\ MpNext
        /\ UNCHANGED <<flvars, bvars, itvars, tavars, yuvvars, txvars, scvars, dmvars, dcvars>>
     \/ /\ unit = "disc" /\ DcNext
        /\ UNCHANGED <<flvars, bvars, itvars, tavars, yuvvars, txvars, scvars, dmvars, mpvars>>

=============================================================================
