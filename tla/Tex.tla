---------------------------------- MODULE Tex ---------------------------------
(***************************************************************************)
(* Texture memory: the YUV converter and the texture descriptions of       *)
(* guest/pvr/ta.c and the decoder of guest/pvr/tex.c.                      *)
(*                                                                         *)
(* Memory is symbolic.  A byte the converter writes is <<block, byte>> of  *)
(* the macroblock it came from; a texel the decoder writes says which      *)
(* bytes of the source it was made of.                                     *)
(***************************************************************************)
EXTENDS Integers, Sequences, FiniteSets

CONSTANTS YuvU, YuvV,   \* TA_YUV_TEX_CTRL u_size + 1 and v_size + 1
          TxCases,      \* texture descriptions: see TxCase
          TxWords       \* 16-bit texels whose colours are compared

ASSUME TexAssumption == YuvU \in Nat \ {0} /\ YuvV \in Nat \ {0} /\ TxWords \subseteq 0..65535

VARIABLES ynum,   \* TA_YUV_TEX_CNT
          ydata,  \* the texture being built: the bytes written, by address
          ypass,  \* which picture the guest is sending, modulo 2
          ydone,  \* HOLLY_INT_TAYUVINT
          txcase, \* the texture a surface uses, in a set that may be empty
          txout   \* what pvr_tex_decode made of it: a texel by <<x, y>>
yuvvars == <<ynum, ydata, ypass, ydone>>
txvars == <<txcase, txout>>

-----------------------------------------------------------------------------
(* ta.c: YUV420 macroblocks to a UYVY422 texture                           *)

YuvWidth == YuvU * 16

ProcessBlockTight(uv, y, out) ==
  LET cell(j, i) ==
        LET u == uv + (j \div 2) * 4 + i \div 2
            l == y + j * 8 + i
            row0 == out + (j \div 2) * (YuvWidth * 4) + i * 2
            row1 == row0 + YuvWidth * 2
        IN  {<<row0, u>>, <<row0 + 1, l>>, <<row0 + 2, u + 64>>, <<row0 + 3, l + 1>>,
             <<row1, u>>, <<row1 + 1, l + 8>>, <<row1 + 2, u + 64>>, <<row1 + 3, l + 9>>}
  IN  UNION {cell(j, i) : j \in {0, 2, 4, 6}, i \in {0, 2, 4, 6}}

(* ta_yuv_process_block: the writes of one 8x8 subblock in loop order,     *)
(* <<address, byte of the macroblock>>                                     *)
ProcessBlock(uv, y, out) ==
  LET cell(j, i) ==
        LET u == uv + (j \div 2) * 8 + i \div 2
            l == y + j * 8 + i
            row0 == out + (j \div 2) * (YuvWidth * 4) + i * 2
            row1 == row0 + YuvWidth * 2
        IN  {<<row0, u>>, <<row0 + 1, l>>, <<row0 + 2, u + 64>>, <<row0 + 3, l + 1>>,
             <<row1, u>>, <<row1 + 1, l + 8>>, <<row1 + 2, u + 64>>, <<row1 + 3, l + 9>>}
  IN  UNION {cell(j, i) : j \in {0, 2, 4, 6}, i \in {0, 2, 4, 6}}

(* ta_yuv_process_macroblock: the byte each macroblock writes by address   *)
MacroblockWrites(num) ==
  LET x == (num % YuvU) * 16
      y == (num \div YuvU) * 16
      out == (y * YuvWidth + x) * 2
  IN  ProcessBlock(0, 128, out) \cup ProcessBlock(4, 192, out + 16)
        \cup ProcessBlock(32, 256, out + YuvWidth * 16) \cup ProcessBlock(36, 320, out + YuvWidth * 16 + 16)

Macroblocks == [num \in 0..(YuvU * YuvV - 1) |->
                  LET w == MacroblockWrites(num)
                  IN  [a \in {p[1] : p \in w} |-> (CHOOSE p \in w : p[1] = a)[2]]]

(* ta_yuv_write of one macroblock, the reset after the last one included   *)
YuvWrite ==
  LET w == Macroblocks[ynum]
      last == ynum + 1 >= YuvU * YuvV
  IN  /\ ydata' = [b \in DOMAIN w \cup DOMAIN ydata |-> IF b \in DOMAIN w THEN <<ynum, w[b], ypass>> ELSE ydata[b]]
      /\ ynum' = IF last THEN 0 ELSE ynum + 1
      /\ ydone' = (ydone \/ last)
      /\ ypass' = IF last THEN 1 - ypass ELSE ypass

(* ta_yuv_init: the guest restarts the picture                             *)
YuvReset ==
  /\ ynum # 0 /\ ~ydone
  /\ ynum' = 0
  /\ ypass' = 1 - ypass
  /\ UNCHANGED <<ydata, ydone>>

YuvAck ==
  /\ ydone
  /\ ydone' = FALSE
  /\ UNCHANGED <<ynum, ydata, ypass>>

-----------------------------------------------------------------------------
(* ta.c: what tsp and tcw say of a texture                                 *)

TxCase(pix, us, vs, scan, vq, mip, sel, stride) ==
  [pix |-> pix, us |-> us, vs |-> vs, scan |-> scan, vq |-> vq, mip |-> mip, sel |-> sel, stride |-> stride]

Paletted(c) == c.pix \in {"4bpp", "8bpp"}
TexTwiddled(c) == ~c.scan \/ Paletted(c)
TexMipmaps(c) == TexTwiddled(c) /\ c.mip
TexWidth(c) == 8 * 2^c.us
TexHeight(c) == IF TexMipmaps(c) THEN TexWidth(c) ELSE 8 * 2^c.vs
TexStride(c) == IF ~c.sel \/ TexTwiddled(c) THEN TexWidth(c) ELSE c.stride

(* ta_texture_format: the compressed flag hides how the texels are stored  *)
TexFormat(c) ==
  [kind |-> CASE c.vq -> "vq"
              [] ~c.vq /\ Paletted(c) -> c.pix
              [] OTHER -> IF TexTwiddled(c) THEN "twiddled" ELSE "bitmap",
   mipmaps |-> TexMipmaps(c)]

CodebookSize == 256 * 8
Bpp(c) == CASE c.pix = "8bpp" -> 8
            [] c.pix = "4bpp" -> 4
            [] OTHER -> IF c.vq THEN 2 ELSE 16

(* the levels of a mipmapped texture, from log2 of the side 0 up           *)
Log2[n \in 1..1024] == IF n = 1 THEN 0 ELSE 1 + Log2[n \div 2]
LevelSize(c, l) == LET levels == Log2[TexWidth(c)]
                       s(x) == x \div (2^(levels - l))
                   IN  (s(TexWidth(c)) * s(TexHeight(c)) * Bpp(c)) \div 8
SumTo(f(_), a, b) == LET n[i \in (a - 1)..b] == IF i = a - 1 THEN 0 ELSE n[i - 1] + f(i) IN n[b]

(* ta_texture_addr: the bytes registered and watched as the source         *)
TextureSize(c) ==
  LET top == Log2[TexWidth(c)]
      size(l) == LevelSize(c, l)
  IN  (IF c.vq THEN CodebookSize ELSE 0) + SumTo(size, IF TexMipmaps(c) THEN 0 ELSE top, top)

-----------------------------------------------------------------------------
(* tex.c                                                                   *)

(* where the finest level begins, by log2 of its side                      *)
VqOffsets == <<6, 22, 86, 342>>
Pal4Offsets == <<12, 44, 172, 684>>
Pal8Offsets == <<24, 88, 344, 1368>>
PlainOffsets == <<48, 176, 688, 2736>>
LevelOffset(c) ==
  LET i == Log2[TexWidth(c)] - 2
      table == CASE c.vq -> VqOffsets
                 [] ~c.vq /\ c.pix = "4bpp" -> Pal4Offsets
                 [] ~c.vq /\ c.pix = "8bpp" -> Pal8Offsets
                 [] OTHER -> PlainOffsets
  IN  IF TexMipmaps(c) THEN table[i] ELSE 0

(* pvr_init_twiddle_table: bit j of i at bit 2j                            *)
Twitbl[i \in 0..1023] == IF i = 0 THEN 0 ELSE (i % 2) + 4 * Twitbl[i \div 2]
TwiddlePos(x, y) == 2 * Twitbl[x] + Twitbl[y]

(* the four texels that are unpacked together, and the one of them that    *)
(* lands on (x, y): squares of the smaller side, one after the other       *)
TwiddledUnit(c, x, y) ==
  LET w == TexWidth(c)
      h == TexHeight(c)
      size == IF w < h THEN w ELSE h
      base == ((y \div size) * (w \div size) + x \div size) * size * size
      x2 == x % size
      y2 == y % size
  IN  <<base + TwiddlePos(x2 - (x2 % 2), y2 - (y2 % 2)), 2 * (x2 % 2) + (y2 % 2)>>

(* A texel is made of [at, sub, u, v]: the byte it is in or begins at, the *)
(* nibble or the texel of the codebook entry, and for YUV422 the bytes of  *)
(* the pair's chroma.                                                      *)
Texel(at, sub, u, v) == [at |-> at, sub |-> sub, u |-> u, v |-> v]
Plain(c, at, u, v) == IF c.pix = "yuv" THEN Texel(at + 1, 0, u, v) ELSE Texel(at, 0, 0, 0)

(* convert_bitmap: four texels of a row at a time                          *)
ConvertBitmap(c, x, y) ==
  LET pair == 2 * (y * TexStride(c) + x - (x % 2))
  IN  Plain(c, 2 * (y * TexStride(c) + x), pair, pair + 2)
ConvertTwiddled(c, x, y) ==
  LET u == TwiddledUnit(c, x, y)
      src == LevelOffset(c)
  IN  Plain(c, src + 2 * (u[1] + u[2]), src + 2 * (u[1] + (u[2] % 2)), src + 2 * (u[1] + 2 + (u[2] % 2)))
ConvertPal4(c, x, y) ==
  LET u == TwiddledUnit(c, x, y) IN Texel(LevelOffset(c) + u[1] \div 2 + u[2] \div 2, u[2] % 2, 0, 0)
ConvertPal8(c, x, y) ==
  LET u == TwiddledUnit(c, x, y) IN Texel(LevelOffset(c) + u[1] + u[2], 0, 0, 0)
ConvertVq(c, x, y) ==
  LET u == TwiddledUnit(c, x, y) IN Texel(CodebookSize + LevelOffset(c) + u[1] \div 4, u[2], 0, 0)

(* pvr_tex_decode                                                          *)
TexDecode(c) ==
  LET kind == TexFormat(c).kind
      t(x, y) == CASE kind = "vq" -> ConvertVq(c, x, y)
                   [] kind = "4bpp" -> ConvertPal4(c, x, y)
                   [] kind = "8bpp" -> ConvertPal8(c, x, y)
                   [] kind = "twiddled" -> ConvertTwiddled(c, x, y)
                   [] kind = "bitmap" -> ConvertBitmap(c, x, y)
  IN  [p \in (0..(TexWidth(c) - 1)) \X (0..(TexHeight(c) - 1)) |-> t(p[1], p[2])]

(* the colours of a 16-bit texel, <<r, g, b, a>>; what is masked and       *)
(* shifted to the top of a byte is extended by repeating its high bits     *)
Bits(w, low, n) == (w \div 2^low) % 2^n
ColorExtend(c, n) == CASE n = 1 -> IF c = 1 THEN 255 ELSE 0
                       [] n = 4 -> c * 16 + c
                       [] n = 5 -> c * 8 + c \div 4
                       [] n = 6 -> c * 4 + c \div 16
Channels(pix) == CASE pix = "1555" -> << <<10, 5>>, <<5, 5>>, <<0, 5>>, <<15, 1>> >>
                   [] pix = "565"  -> << <<11, 5>>, <<5, 6>>, <<0, 5>> >>
                   [] pix = "4444" -> << <<8, 4>>, <<4, 4>>, <<0, 4>>, <<12, 4>> >>
Unpack(pix, w) == [k \in 1..Len(Channels(pix)) |->
                     ColorExtend(Bits(w, Channels(pix)[k][1], Channels(pix)[k][2]), Channels(pix)[k][2])]

(* tr_convert_texture of a surface's texture, and the next one             *)
TxDecode ==
  /\ txout = <<>>
  /\ \E c \in TxCases : txcase' = {c} /\ txout' = TexDecode(c)
TxDrop ==
  /\ txout # <<>>
  /\ txcase' = {} /\ txout' = <<>>

YuvInit == ynum = 0 /\ ydata = <<>> /\ ypass = 0 /\ ydone = FALSE
YuvNext == YuvWrite \/ YuvReset \/ YuvAck
TxInit == txcase = {} /\ txout = <<>>
TxNext == TxDecode \/ TxDrop

-----------------------------------------------------------------------------
(* The macroblocks of the picture sent so far lie where a UYVY422 bitmap   *)
(* has them: each pixel has the luma of its place in the 16x16 block and   *)
(* the chroma of the 2x2 square it belongs to.  Once the interrupt says    *)
(* that a picture is complete, what the next has not reached is of it.     *)
YuvExact ==
  LET place(x, y, k) ==
        LET px == x % 16
            py == y % 16
            chroma == (py \div 2) * 8 + px \div 2
            luma == 128 + 64 * (2 * (py \div 8) + px \div 8) + (py % 8) * 8 + (px % 8)
        IN  IF k = 1 THEN luma ELSE IF x % 2 = 0 THEN chroma ELSE 64 + chroma
      byte(x, y, k) ==
        LET mb == (y \div 16) * YuvU + x \div 16
            pass == IF mb < ynum THEN ypass ELSE 1 - ypass
        IN  mb < ynum \/ ydone => ydata[2 * (y * YuvWidth + x) + k] = <<mb, place(x, y, k), pass>>
  IN  ynum > 0 \/ ydone =>
        \A x \in 0..(YuvWidth - 1), y \in 0..(YuvV * 16 - 1), k \in {0, 1} : byte(x, y, k)

(* Reverse N order, quarter by quarter: where texel (x, y) of a square of  *)
(* side s is stored.                                                       *)
Stored[s \in {1, 2, 4, 8, 16, 32, 64}, x \in 0..63, y \in 0..63] ==
  IF s = 1 THEN 0
  ELSE LET h == s \div 2
       IN  (2 * (x \div h) + y \div h) * h * h + Stored[h, x % h, y % h]

(* Every texel of a decoded texture comes from where the hardware stores   *)
(* it: squares of the smaller side in a row, the finest mipmap level after *)
(* all of the coarser ones, the chroma of a YUV422 texel from the pair it  *)
(* is in.  Nothing is read outside the bytes registered as the source,     *)
(* except that a mipmapped texture is read further by what its levels are  *)
(* padded with, which its size leaves out; and no colour is off by more    *)
(* than rounding.                                                          *)
Padding(c) ==
  CASE ~TexMipmaps(c) -> 0
    [] TexMipmaps(c) /\ c.vq -> 1
    [] TexMipmaps(c) /\ ~c.vq /\ c.pix = "4bpp" -> 2
    [] TexMipmaps(c) /\ ~c.vq /\ c.pix = "8bpp" -> 3
    [] OTHER -> 6
TexelsExact ==
  \A c \in txcase :
    LET w == TexWidth(c)
        h == TexHeight(c)
        s == IF w < h THEN w ELSE h
        top == Log2[w]
        size(l) == LevelSize(c, l)
        coarser == (IF TexMipmaps(c) THEN SumTo(size, 0, top - 1) ELSE 0) + (IF c.vq THEN CodebookSize ELSE 0)
        level == coarser + Padding(c)
        limit == TextureSize(c) + Padding(c)
        nth(x, y) == IF TexFormat(c).kind = "bitmap" THEN y * TexStride(c) + x
                     ELSE (x \div s + (y \div s) * (w \div s)) * s * s + Stored[s, x % s, y % s]
    IN  /\ \A x \in 0..(w - 1), y \in 0..(h - 1) :
             LET t == txout[<<x, y>>]
                 n == nth(x, y)
             IN  /\ CASE c.vq -> t.at = level + n \div 4 /\ t.sub = n % 4
                      [] ~c.vq /\ c.pix = "4bpp" -> t.at = level + n \div 2 /\ t.sub = n % 2
                      [] ~c.vq /\ c.pix = "8bpp" -> t.at = level + n
                      [] ~c.vq /\ c.pix = "yuv" ->
                           /\ t.at = level + 2 * n + 1
                           /\ t.u = level + 2 * nth(x - (x % 2), y) /\ t.v = level + 2 * nth(x - (x % 2) + 1, y)
                      [] OTHER -> t.at = level + 2 * n
                 /\ t.at < limit
        /\ c.pix \in {"1555", "565", "4444"} =>
             \A word \in TxWords : \A k \in 1..Len(Channels(c.pix)) :
               LET n == Channels(c.pix)[k][2]
                   error == Unpack(c.pix, word)[k] * (2^n - 1) - 255 * Bits(word, Channels(c.pix)[k][1], n)
               IN  error <= 2^n - 1 /\ -error <= 2^n - 1

(* What a surface is drawn with: the converter places each byte of a video *)
(* frame where a bitmap has it, and the decoder takes each texel from      *)
(* where the hardware stores it (ta_yuv_write, pvr_tex_decode).            *)
TexturesExact == YuvExact /\ TexelsExact
=============================================================================
