----------------------------- MODULE GdromProofs -----------------------------
(***************************************************************************)
(* Proofs about Gdrom: a guest that moves data while the drive asks for it *)
(* makes no CHECK fail and receives the sectors it asked for, in order,    *)
(* over any number of refills of the drive's buffer.  And about Bios,      *)
(* whose system calls stand in for a driver: what a request and the        *)
(* bootstrap leave in memory.  And about Disc: what a read of a disc image *)
(* delivers, in each of the three formats.                                 *)
(***************************************************************************)
EXTENDS Gdrom, Bios, Disc, SequenceTheorems, FiniteSetTheorems, WellFoundedInduction, TLAPS

Bytes == Int \X Int

\* struct gdrom
Drive ==
  [state : States, flags : SUBSET Flags, cdr_dma : BOOLEAN, cdr_first : Nat, cdr_num : Nat,
   pio_buffer : Seq(Bytes), pio_head : Nat, pio_size : Nat,
   dma_buffer : Seq(Bytes), dma_head : Nat, dma_size : Nat]

\* Byte i, from 1, of the sectors from first on.
ByteAt(first, i) == <<first + ((i - 1) \div SectorSize), (i - 1) % SectorSize>>

\* Of the bytes w that were asked for, t have been received; the next ones are in
\* buffer b behind the first h, and the last ones in num sectors from first on.
Delivers(w, t, b, h, first, num) ==
  /\ h <= Len(b)
  /\ Len(w) = Len(t) + (Len(b) - h) + num * SectorSize
  /\ \A i \in 1 .. Len(t) : t[i] = w[i]
  /\ \A i \in 1 .. (Len(b) - h) : w[Len(t) + i] = b[h + i]
  /\ \A i \in 1 .. (num * SectorSize) : w[Len(t) + (Len(b) - h) + i] = ByteAt(first, i)

\* What the state of the drive says of its flags, of its buffers and of the data
\* that is to come, when w was asked for and t received.
FlagInv(g) ==
  /\ g.state = "read_ata_cmd" => ~("DRQ" \in g.flags) /\ ~("BSY" \in g.flags)
  /\ g.state = "read_ata_data" =>
       "DRQ" \in g.flags /\ ~("BSY" \in g.flags) /\ ~("IO" \in g.flags)
  /\ g.state \in {"read_spi_data", "write_spi_data"} =>
       "DRQ" \in g.flags /\ ~("BSY" \in g.flags) /\ "IO" \in g.flags
  /\ g.state = "write_dma_data" => ~("DRQ" \in g.flags) /\ "BSY" \in g.flags

DataInv(g, w, t) ==
  /\ g.dma_size = Len(g.dma_buffer)
  /\ g.state \in {"read_ata_cmd", "read_ata_data"} => t = w
  /\ g.state = "read_spi_data" => w = <<>> /\ t = <<>>
  /\ g.state = "write_spi_data" =>
       /\ g.pio_size = Len(g.pio_buffer)
       /\ \/ w = <<>> /\ t = <<>> /\ g.cdr_num = 0
          \/ /\ w # <<>> /\ ~g.cdr_dma /\ g.pio_head < g.pio_size
             /\ Delivers(w, t, g.pio_buffer, g.pio_head, g.cdr_first, g.cdr_num)
  /\ g.state = "write_dma_data" =>
       /\ w # <<>> /\ g.cdr_dma /\ g.dma_size > 0
       /\ Delivers(w, t, g.dma_buffer, g.dma_head, g.cdr_first, g.cdr_num)

GdInv ==
  /\ gd \in Drive /\ features \in BOOLEAN /\ fatal = FALSE /\ gdIrq \subseteq {"G1GDINT", "G1DEINT"}
  /\ want \in Seq(Bytes) /\ got \in Seq(Bytes)
  /\ loop \in Nat \cup {NoLoop} /\ (loop # NoLoop => gd.state = "write_dma_data")
  /\ FlagInv(gd) /\ DataInv(gd, want, got)

-----------------------------------------------------------------------------
(* Sequences of bytes. *)

LEMMA Sectors ==
  ASSUME NEW k \in Nat, NEW i \in Nat
  PROVE  /\ (k * SectorSize + i) \div SectorSize = k + (i \div SectorSize)
         /\ (k * SectorSize + i) % SectorSize = i % SectorSize
PROOF
<1> DEFINE q == i \div SectorSize
           r == i % SectorSize
<1>1. SectorSize \in Nat /\ SectorSize > 0
  BY GdromAssumption
<1>2. q \in Nat /\ r \in Nat /\ r < SectorSize /\ i = q * SectorSize + r
  BY <1>1, SMT
<1> HIDE DEF q, r
<1>3. k * SectorSize + i = (k + q) * SectorSize + r
  BY <1>1, <1>2, SMT
<1>4. ASSUME NEW x \in Int, NEW y \in Nat, y < SectorSize
      PROVE  (x * SectorSize + y) \div SectorSize = x /\ (x * SectorSize + y) % SectorSize = y
  BY <1>1, <1>4, SMT
<1> QED
  BY <1>2, <1>3, <1>4 DEF q, r

(* The bytes of some sectors, one after the other. *)
LEMMA SectorBytes ==
  ASSUME NEW first \in Nat, NEW num \in Nat
  PROVE  /\ ReadSectors(first, num) \in Seq(Bytes)
         /\ Len(ReadSectors(first, num)) = num * SectorSize
         /\ num * SectorSize \in Nat
         /\ \A i \in 1 .. (num * SectorSize) : ReadSectors(first, num)[i] = ByteAt(first, i)
PROOF
<1>1. SectorSize \in Nat /\ SectorSize > 0
  BY GdromAssumption
<1> DEFINE l == num * SectorSize
<1>2. l \in Nat
  BY <1>1
<1>3. ASSUME NEW i \in Int PROVE ByteAt(first, i) \in Bytes
  BY <1>1 DEF ByteAt, Bytes
<1>4. ReadSectors(first, num) = [i \in 1 .. l |-> ByteAt(first, i)]
  BY DEF ReadSectors, ByteAt
<1> HIDE DEF l
<1>5. ReadSectors(first, num) \in Seq(Bytes) /\ Len(ReadSectors(first, num)) = l
  BY <1>2, <1>3, <1>4
<1> QED
  BY <1>2, <1>4, <1>5 DEF l

(* The next n bytes of the buffer. *)
LEMMA Takes ==
  ASSUME NEW w \in Seq(Bytes), NEW t \in Seq(Bytes), NEW b \in Seq(Bytes), NEW h \in Nat,
         NEW first \in Nat, NEW num \in Nat, Delivers(w, t, b, h, first, num),
         NEW n \in Nat, h + n <= Len(b)
  PROVE  /\ t \o SubSeq(b, h + 1, h + n) \in Seq(Bytes)
         /\ Delivers(w, t \o SubSeq(b, h + 1, h + n), b, h + n, first, num)
PROOF
<1> DEFINE s == SubSeq(b, h + 1, h + n)
           u == t \o s
           m == num * SectorSize
<1>1. SectorSize \in Nat /\ m \in Nat
  BY GdromAssumption
<1>2. s \in Seq(Bytes) /\ Len(s) = n /\ \A i \in 1 .. n : s[i] = b[h + i]
  <2>1. h + 1 \in Int /\ h + n \in Int /\ Len(b) \in Nat
    OBVIOUS
  <2>2. ASSUME NEW i \in (h + 1) .. (h + n) PROVE b[i] \in Bytes
    <3>1. i \in 1 .. Len(b)
      BY <2>1
    <3> QED
      BY <3>1
  <2>3. /\ s \in Seq(Bytes)
        /\ Len(s) = IF h + 1 <= h + n THEN (h + n) - (h + 1) + 1 ELSE 0
        /\ \A i \in 1 .. ((h + n) - (h + 1) + 1) : s[i] = b[(h + 1) + i - 1]
    BY <2>1, <2>2, SubSeqProperties
  <2> HIDE DEF s
  <2>4. Len(s) = n /\ (h + n) - (h + 1) + 1 = n
    BY <2>1, <2>3
  <2>5. ASSUME NEW i \in 1 .. n PROVE s[i] = b[h + i]
    <3>1. s[i] = b[(h + 1) + i - 1]
      BY <2>3, <2>4
    <3>2. (h + 1) + i - 1 = h + i
      BY <2>1
    <3> QED
      BY <3>1, <3>2
  <2> QED
    BY <2>3, <2>4, <2>5
<1> HIDE DEF s
<1>3. /\ u \in Seq(Bytes) /\ Len(u) = Len(t) + n /\ \A i \in 1 .. Len(t) : u[i] = t[i]
      /\ \A i \in 1 .. n : u[Len(t) + i] = s[i]
  <2>1. u \in Seq(Bytes) /\ Len(u) = Len(t) + n
    BY <1>2, ConcatProperties
  <2>2. \A i \in 1 .. Len(u) : u[i] = IF i <= Len(t) THEN t[i] ELSE s[i - Len(t)]
    BY <1>2, <2>1, ConcatProperties
  <2>3. ASSUME NEW i \in 1 .. n PROVE u[Len(t) + i] = s[i]
    <3>1. Len(t) + i \in 1 .. Len(u) /\ ~(Len(t) + i <= Len(t)) /\ (Len(t) + i) - Len(t) = i
      BY <2>1
    <3> QED
      BY <3>1, <2>2
  <2> HIDE DEF u
  <2> QED
    BY <2>1, <2>2, <2>3
<1> HIDE DEF u, m
<1>4. h <= Len(b) /\ Len(w) = Len(t) + (Len(b) - h) + m
  BY DEF Delivers, m
<1>5. \A i \in 1 .. Len(t) : t[i] = w[i]
  BY DEF Delivers
<1>6. \A i \in 1 .. (Len(b) - h) : w[Len(t) + i] = b[h + i]
  BY DEF Delivers
<1>7. \A i \in 1 .. m : w[Len(t) + (Len(b) - h) + i] = ByteAt(first, i)
  BY DEF Delivers, m
<1>8. h + n <= Len(b) /\ Len(w) = Len(u) + (Len(b) - (h + n)) + m
  BY <1>1, <1>3, <1>4
<1>9. ASSUME NEW i \in 1 .. Len(u) PROVE u[i] = w[i]
  <2>1. CASE i <= Len(t)
    BY <1>3, <1>5, <2>1
  <2>2. CASE i > Len(t)
    <3> DEFINE k == i - Len(t)
    <3>1. k \in 1 .. n /\ k \in 1 .. (Len(b) - h) /\ i = Len(t) + k
      BY <1>3, <2>2
    <3> QED
      BY <3>1, <1>2, <1>3, <1>6
  <2> QED
    BY <2>1, <2>2
<1>10. ASSUME NEW i \in 1 .. (Len(b) - (h + n)) PROVE w[Len(u) + i] = b[h + n + i]
  <2>1. n + i \in 1 .. (Len(b) - h) /\ Len(u) + i = Len(t) + (n + i) /\ h + n + i = h + (n + i)
    BY <1>3
  <2> QED
    BY <2>1, <1>6
<1>11. ASSUME NEW i \in 1 .. m
       PROVE  w[Len(u) + (Len(b) - (h + n)) + i] = ByteAt(first, i)
  <2>1. Len(u) + (Len(b) - (h + n)) + i = Len(t) + (Len(b) - h) + i
    BY <1>1, <1>3
  <2> QED
    BY <2>1, <1>7
<1>12. Delivers(w, u, b, h + n, first, num)
  BY <1>8, <1>9, <1>10, <1>11 DEF Delivers, m
<1> QED
  BY <1>3, <1>12 DEF u, s

(* The next n sectors into an exhausted buffer. *)
LEMMA Refills ==
  ASSUME NEW w \in Seq(Bytes), NEW t \in Seq(Bytes), NEW b \in Seq(Bytes),
         NEW first \in Nat, NEW num \in Nat, Delivers(w, t, b, Len(b), first, num),
         NEW n \in Nat, n <= num
  PROVE  Delivers(w, t, ReadSectors(first, n), 0, first + n, num - n)
PROOF
<1> DEFINE s == ReadSectors(first, n)
           m == num * SectorSize
           k == n * SectorSize
           l == (num - n) * SectorSize
<1>1. SectorSize \in Nat /\ SectorSize > 0
  BY GdromAssumption
<1>2. m \in Nat /\ k \in Nat /\ l \in Nat /\ m = k + l
  BY <1>1, SMT
<1>3. s \in Seq(Bytes) /\ Len(s) = k /\ \A i \in 1 .. k : s[i] = ByteAt(first, i)
  BY SectorBytes
<1>4. ASSUME NEW i \in 1 .. l PROVE ByteAt(first, k + i) = ByteAt(first + n, i)
  <2>1. i - 1 \in Nat /\ (k + i) - 1 = n * SectorSize + (i - 1)
    BY <1>2
  <2>2. /\ (n * SectorSize + (i - 1)) \div SectorSize = n + ((i - 1) \div SectorSize)
        /\ (n * SectorSize + (i - 1)) % SectorSize = (i - 1) % SectorSize
    BY <2>1, Sectors
  <2>3. (i - 1) \div SectorSize \in Int
    BY <2>1, <1>1
  <2>4. first + (n + ((i - 1) \div SectorSize)) = (first + n) + ((i - 1) \div SectorSize)
    BY <2>3
  <2> QED
    BY <2>1, <2>2, <2>4 DEF ByteAt
<1> HIDE DEF s, k, l
<1>5. Len(w) = Len(t) + (Len(b) - Len(b)) + m
  BY DEF Delivers
<1>6. \A i \in 1 .. Len(t) : t[i] = w[i]
  BY DEF Delivers
<1>7. \A i \in 1 .. m : w[Len(t) + (Len(b) - Len(b)) + i] = ByteAt(first, i)
  BY DEF Delivers
<1> HIDE DEF m
<1>8. \A i \in 1 .. m : w[Len(t) + i] = ByteAt(first, i)
  <2> SUFFICES ASSUME NEW i \in 1 .. m PROVE w[Len(t) + i] = ByteAt(first, i)
    OBVIOUS
  <2>1. Len(t) + (Len(b) - Len(b)) + i = Len(t) + i
    BY <1>2
  <2> QED
    BY <2>1, <1>7
<1>9. 0 <= Len(s) /\ Len(w) = Len(t) + (Len(s) - 0) + l
  BY <1>2, <1>3, <1>5
<1>10. ASSUME NEW i \in 1 .. (Len(s) - 0) PROVE w[Len(t) + i] = s[0 + i]
  <2>1. i \in 1 .. k /\ i \in 1 .. m /\ 0 + i = i
    BY <1>2, <1>3
  <2> QED
    BY <2>1, <1>3, <1>8
<1>11. ASSUME NEW i \in 1 .. l
       PROVE  w[Len(t) + (Len(s) - 0) + i] = ByteAt(first + n, i)
  <2>1. k + i \in 1 .. m /\ Len(t) + (Len(s) - 0) + i = Len(t) + (k + i)
    BY <1>2, <1>3
  <2> QED
    BY <2>1, <1>4, <1>8
<1> QED
  BY <1>6, <1>9, <1>10, <1>11 DEF Delivers, s, l

(* A read begins with an empty buffer, and is over when the buffer is      *)
(* exhausted and no sector is left.                                        *)
LEMMA Begins ==
  ASSUME NEW first \in Nat, NEW num \in Nat
  PROVE  Delivers(ReadSectors(first, num), <<>>, <<>>, Len(<<>>), first, num)
PROOF
<1> DEFINE w == ReadSectors(first, num)
           m == num * SectorSize
<1>1. m \in Nat /\ Len(w) = m /\ \A i \in 1 .. m : w[i] = ByteAt(first, i)
  BY SectorBytes
<1> HIDE DEF w, m
<1>2. Len(<<>>) = 0 /\ Len(w) = Len(<<>>) + (Len(<<>>) - Len(<<>>)) + m
  BY <1>1
<1>3. ASSUME NEW i \in 1 .. m PROVE w[Len(<<>>) + (Len(<<>>) - Len(<<>>)) + i] = ByteAt(first, i)
  BY <1>1, <1>2
<1>4. 1 .. Len(<<>>) = {} /\ 1 .. (Len(<<>>) - Len(<<>>)) = {}
  OBVIOUS
<1> QED
  BY <1>2, <1>3, <1>4 DEF Delivers, w, m

(* When nothing is left to deliver, everything was received. *)
LEMMA Ends ==
  ASSUME NEW w \in Seq(Bytes), NEW t \in Seq(Bytes), NEW b \in Seq(Bytes),
         NEW first \in Nat, Delivers(w, t, b, Len(b), first, 0)
  PROVE  t = w
PROOF
<1>1. SectorSize \in Nat /\ 0 * SectorSize = 0
  BY GdromAssumption
<1>2. Len(w) = Len(t) + (Len(b) - Len(b)) + 0 /\ \A i \in 1 .. Len(t) : t[i] = w[i]
  BY <1>1 DEF Delivers
<1>3. Len(w) = Len(t)
  BY <1>2
<1> QED
  BY <1>2, <1>3

(* What was received so far is the beginning of what was asked for. *)
LEMMA Prefix ==
  ASSUME NEW w \in Seq(Bytes), NEW t \in Seq(Bytes), NEW b \in Seq(Bytes), NEW h \in Nat,
         NEW first \in Nat, NEW num \in Nat, Delivers(w, t, b, h, first, num)
  PROVE  IsPrefix(t, w)
PROOF
<1>1. num * SectorSize \in Nat
  BY GdromAssumption
<1>2. Len(t) <= Len(w) /\ \A i \in 1 .. Len(t) : t[i] = w[i]
  BY <1>1 DEF Delivers
<1>3. SubSeq(t, 1, Len(t)) = SubSeq(w, 1, Len(t))
  BY <1>2
<1> QED
  BY <1>2, <1>3 DEF IsPrefix
-----------------------------------------------------------------------------
(* What the operations of the drive change. *)

SamePio(a, b) ==
  a.pio_buffer = b.pio_buffer /\ a.pio_head = b.pio_head /\ a.pio_size = b.pio_size

SameDma(a, b) ==
  a.dma_buffer = b.dma_buffer /\ a.dma_head = b.dma_head /\ a.dma_size = b.dma_size

SameRead(a, b) ==
  a.cdr_dma = b.cdr_dma /\ a.cdr_first = b.cdr_first /\ a.cdr_num = b.cdr_num

(* Setting and clearing status flags changes nothing else. *)
LEMMA WithFields ==
  ASSUME NEW g \in Drive, NEW set \in SUBSET Flags, NEW clear
  PROVE  /\ With(g, set, clear) \in Drive
         /\ With(g, set, clear).flags = (g.flags \ clear) \cup set
         /\ With(g, set, clear).state = g.state
         /\ SamePio(With(g, set, clear), g) /\ SameDma(With(g, set, clear), g)
         /\ SameRead(With(g, set, clear), g)
PROOF
<1> DEFINE f == (g.flags \ clear) \cup set
<1>1. f \in SUBSET Flags
  BY DEF Drive
<1>2. With(g, set, clear) = [g EXCEPT !.flags = f]
  BY DEF With
<1> HIDE DEF f
<1>3. /\ With(g, set, clear) \in Drive /\ With(g, set, clear).flags = f
      /\ With(g, set, clear).state = g.state
  BY <1>1, <1>2 DEF Drive
<1>4. SamePio(With(g, set, clear), g) /\ SameDma(With(g, set, clear), g)
  BY <1>2 DEF Drive, SamePio, SameDma
<1>5. SameRead(With(g, set, clear), g)
  BY <1>2 DEF Drive, SameRead
<1> QED
  BY <1>3, <1>4, <1>5 DEF f

(* The state alone. *)
LEMMA StateFields ==
  ASSUME NEW g \in Drive, NEW st \in States
  PROVE  LET r == [g EXCEPT !.state = st]
         IN  /\ r \in Drive /\ r.flags = g.flags /\ r.state = st
             /\ SamePio(r, g) /\ SameDma(r, g) /\ SameRead(r, g)
PROOF
<1> DEFINE r == [g EXCEPT !.state = st]
<1>1. r \in Drive /\ r.flags = g.flags /\ r.state = st
  BY DEF Drive
<1>2. SamePio(r, g) /\ SameDma(r, g)
  BY DEF Drive, SamePio, SameDma
<1>3. SameRead(r, g)
  BY DEF Drive, SameRead
<1> QED
  BY <1>1, <1>2, <1>3

(* The head of the pio buffer alone. *)
LEMMA HeadFields ==
  ASSUME NEW g \in Drive
  PROVE  LET r == [g EXCEPT !.pio_head = @ + 2]
         IN  /\ r \in Drive /\ r.flags = g.flags /\ r.state = g.state
             /\ r.pio_head = g.pio_head + 2 /\ r.pio_buffer = g.pio_buffer
             /\ r.pio_size = g.pio_size /\ SameDma(r, g) /\ SameRead(r, g)
PROOF
<1> DEFINE k == g.pio_head + 2
           r == [g EXCEPT !.pio_head = k]
<1>1. k \in Nat
  BY DEF Drive
<1>2. [g EXCEPT !.pio_head = @ + 2] = r
  BY DEF Drive
<1> HIDE DEF k
<1>3. /\ r \in Drive /\ r.flags = g.flags /\ r.state = g.state /\ r.pio_head = k
      /\ r.pio_buffer = g.pio_buffer /\ r.pio_size = g.pio_size
  BY <1>1 DEF Drive
<1>4. SameDma(r, g)
  BY DEF Drive, SameDma
<1>5. SameRead(r, g)
  BY DEF Drive, SameRead
<1> QED
  BY <1>2, <1>3, <1>4, <1>5 DEF k

(* gdrom_spi_end and gdrom_ata_end leave an idle drive. *)
LEMMA SpiEndFields ==
  ASSUME NEW g \in Drive
  PROVE  /\ SpiEnd(g) \in Drive /\ SpiEnd(g).state = "read_ata_cmd" /\ FlagInv(SpiEnd(g))
         /\ SamePio(SpiEnd(g), g) /\ SameDma(SpiEnd(g), g) /\ SameRead(SpiEnd(g), g)
PROOF
<1> DEFINE u == With(g, {"IO", "CoD", "DRDY"}, {"BSY", "DRQ"})
<1>1. /\ u \in Drive /\ u.flags = (g.flags \ {"BSY", "DRQ"}) \cup {"IO", "CoD", "DRDY"}
      /\ SamePio(u, g) /\ SameDma(u, g) /\ SameRead(u, g)
  BY WithFields DEF Flags
<1> HIDE DEF u
<1>2. /\ SpiEnd(g) \in Drive /\ SpiEnd(g).state = "read_ata_cmd" /\ SpiEnd(g).flags = u.flags
      /\ SamePio(SpiEnd(g), u) /\ SameDma(SpiEnd(g), u) /\ SameRead(SpiEnd(g), u)
  BY <1>1, StateFields DEF SpiEnd, States, u
<1>3. FlagInv(SpiEnd(g))
  BY <1>1, <1>2 DEF FlagInv
<1> QED
  BY <1>1, <1>2, <1>3 DEF SamePio, SameDma, SameRead

(* gdrom_ata_end leaves the drive ready for a command. *)
LEMMA AtaEndFields ==
  ASSUME NEW g \in Drive, ~("DRQ" \in g.flags)
  PROVE  /\ AtaEnd(g) \in Drive /\ AtaEnd(g).state = "read_ata_cmd" /\ FlagInv(AtaEnd(g))
         /\ SameDma(AtaEnd(g), g)
PROOF
<1> DEFINE u == With(g, {"DRDY"}, {"BSY"})
<1>1. /\ u \in Drive /\ u.flags = (g.flags \ {"BSY"}) \cup {"DRDY"} /\ SameDma(u, g)
  BY WithFields DEF Flags
<1> HIDE DEF u
<1>2. /\ AtaEnd(g) \in Drive /\ AtaEnd(g).state = "read_ata_cmd" /\ AtaEnd(g).flags = u.flags
      /\ SameDma(AtaEnd(g), u)
  BY <1>1, StateFields DEF AtaEnd, States, u
<1>3. FlagInv(AtaEnd(g))
  BY <1>1, <1>2 DEF FlagInv
<1> QED
  BY <1>1, <1>2, <1>3 DEF SameDma

(* Data for the guest, or from it, in the pio buffer. *)
LEMMA DataInFields ==
  ASSUME NEW g \in Drive
  PROVE  /\ DataIn(g) \in Drive /\ SameDma(DataIn(g), g) /\ SameRead(DataIn(g), g)
         /\ "DRQ" \in DataIn(g).flags /\ "IO" \in DataIn(g).flags /\ ~("BSY" \in DataIn(g).flags)
PROOF
<1>1. /\ DataIn(g) \in Drive /\ SameDma(DataIn(g), g) /\ SameRead(DataIn(g), g)
      /\ DataIn(g).flags = (g.flags \ {"CoD", "BSY"}) \cup {"IO", "DRQ"}
  BY WithFields DEF Flags, DataIn
<1> QED
  BY <1>1

(* A reply is as long as it says. *)
LEMMA ReplyBytes ==
  ASSUME NEW size \in Nat
  PROVE  Reply(size) \in Seq(Bytes) /\ Len(Reply(size)) = size
PROOF
<1>1. \A i \in 1 .. size : <<NoSector, i - 1>> \in Bytes
  BY DEF NoSector, Bytes
<1> QED
  BY <1>1 DEF Reply

(* gdrom_spi_write offers a reply. *)
LEMMA SpiWriteFields ==
  ASSUME NEW g \in Drive, NEW size \in Nat
  PROVE  /\ SpiWrite(g, size) \in Drive /\ SpiWrite(g, size).state = "write_spi_data"
         /\ FlagInv(SpiWrite(g, size)) /\ SameDma(SpiWrite(g, size), g)
         /\ SpiWrite(g, size).cdr_num = 0
         /\ SpiWrite(g, size).pio_size = Len(SpiWrite(g, size).pio_buffer)
PROOF
<1> DEFINE u == DataIn(g)
           b == Reply(size)
           r == SpiWrite(g, size)
<1>1. b \in Seq(Bytes) /\ Len(b) = size
  BY ReplyBytes
<1>2. /\ u \in Drive /\ SameDma(u, g)
      /\ "DRQ" \in u.flags /\ "IO" \in u.flags /\ ~("BSY" \in u.flags)
  BY DataInFields
<1>3. r = [u EXCEPT !.cdr_num = 0, !.pio_buffer = b, !.pio_size = size, !.pio_head = 0,
                    !.state = "write_spi_data"]
  BY DEF SpiWrite
<1> HIDE DEF u, b, r
<1>4. "write_spi_data" \in States
  BY DEF States
<1>5. /\ r \in Drive /\ r.state = "write_spi_data" /\ r.flags = u.flags /\ r.cdr_num = 0
      /\ r.pio_size = size /\ r.pio_buffer = b
  BY <1>1, <1>2, <1>3, <1>4 DEF Drive
<1>6. SameDma(r, u)
  BY <1>2, <1>3 DEF Drive, SameDma
<1>7. FlagInv(r)
  BY <1>2, <1>5 DEF FlagInv
<1> QED
  BY <1>1, <1>2, <1>5, <1>6, <1>7 DEF SameDma, r

(* gdrom_spi_read asks for data. *)
LEMMA SpiReadFields ==
  ASSUME NEW g \in Drive, NEW size \in Nat
  PROVE  /\ SpiRead(g, size) \in Drive /\ SpiRead(g, size).state = "read_spi_data"
         /\ FlagInv(SpiRead(g, size)) /\ SameDma(SpiRead(g, size), g)
PROOF
<1> DEFINE u == DataIn(g)
           r == SpiRead(g, size)
<1>1. /\ u \in Drive /\ SameDma(u, g)
      /\ "DRQ" \in u.flags /\ "IO" \in u.flags /\ ~("BSY" \in u.flags)
  BY DataInFields
<1>2. r = [u EXCEPT !.cdr_num = 0, !.pio_size = size, !.pio_head = 0, !.state = "read_spi_data"]
  BY DEF SpiRead
<1> HIDE DEF u, r
<1>3. "read_spi_data" \in States
  BY DEF States
<1>4. r \in Drive /\ r.state = "read_spi_data" /\ r.flags = u.flags
  BY <1>1, <1>2, <1>3 DEF Drive
<1>5. SameDma(r, u)
  BY <1>1, <1>2 DEF Drive, SameDma
<1>6. FlagInv(r)
  BY <1>1, <1>4 DEF FlagInv
<1> QED
  BY <1>1, <1>4, <1>5, <1>6 DEF SameDma, r

(* gdrom_spi_cdread continues the delivery of w, with sectors left. *)
LEMMA CdreadKeeps ==
  ASSUME NEW g \in Drive, NEW w \in Seq(Bytes), NEW t \in Seq(Bytes), NEW b \in Seq(Bytes),
         w # <<>>, g.cdr_num > 0, Delivers(w, t, b, Len(b), g.cdr_first, g.cdr_num),
         g.dma_size = Len(g.dma_buffer),
         g.cdr_dma => "BSY" \in g.flags /\ ~("DRQ" \in g.flags)
  PROVE  /\ SpiCdread(g) \in Drive /\ FlagInv(SpiCdread(g)) /\ DataInv(SpiCdread(g), w, t)
         /\ SpiCdread(g).state = IF g.cdr_dma THEN "write_dma_data" ELSE "write_spi_data"
         /\ SpiCdread(g).cdr_dma = g.cdr_dma
         /\ g.cdr_dma => SpiCdread(g).dma_head = 0
PROOF
<1> DEFINE n == Min2(g.cdr_num, BufferSectors)
           first == g.cdr_first + n
           num == g.cdr_num - n
           d == ReadSectors(g.cdr_first, n)
           l == Len(d)
           rest == [g EXCEPT !.cdr_first = first, !.cdr_num = num]
           r == SpiCdread(g)
<1>1. g.cdr_first \in Nat /\ g.cdr_num \in Nat /\ g.cdr_dma \in BOOLEAN
  BY DEF Drive
<1>2. n \in Nat /\ n > 0 /\ n <= g.cdr_num
  BY <1>1, GdromAssumption DEF Min2
<1> HIDE DEF n
<1>3. first \in Nat /\ num \in Nat
  BY <1>1, <1>2
<1>4. Delivers(w, t, d, 0, first, num)
  BY <1>1, <1>2, Refills
<1>5. d \in Seq(Bytes) /\ l \in Nat /\ l > 0
  <2>1. d \in Seq(Bytes) /\ l = n * SectorSize
    BY <1>1, <1>2, SectorBytes
  <2>2. n * SectorSize \in Nat /\ n * SectorSize > 0
    BY <1>2, GdromAssumption, SMT
  <2> QED
    BY <2>1, <2>2
<1>6. [g EXCEPT !.cdr_first = @ + n, !.cdr_num = @ - n] = rest
  BY DEF Drive
<1> HIDE DEF first, num, d
<1>7. /\ rest \in Drive /\ rest.flags = g.flags /\ rest.cdr_first = first /\ rest.cdr_num = num
      /\ SameDma(rest, g)
  <2>1. rest \in Drive /\ rest.flags = g.flags /\ rest.cdr_first = first /\ rest.cdr_num = num
    BY <1>3 DEF Drive
  <2> QED
    BY <2>1 DEF Drive, SameDma
<1>8. rest.cdr_dma = g.cdr_dma
  BY DEF Drive
<1> DEFINE ld == l
<1>9. r = IF g.cdr_dma
          THEN [rest EXCEPT !.dma_buffer = d, !.dma_size = ld, !.dma_head = 0,
                            !.state = "write_dma_data"]
          ELSE [DataIn(rest) EXCEPT !.pio_buffer = d, !.pio_size = ld, !.pio_head = 0,
                                    !.state = "write_spi_data"]
  BY <1>6 DEF SpiCdread, n, d
<1>10. "write_dma_data" \in States /\ "write_spi_data" \in States
  BY DEF States
<1> HIDE DEF rest, r, ld
<1>11. ld \in Nat /\ ld > 0 /\ ld = Len(d)
  BY <1>5 DEF ld
<1>12. CASE g.cdr_dma
  <2>1. r = [rest EXCEPT !.dma_buffer = d, !.dma_size = ld, !.dma_head = 0,
                         !.state = "write_dma_data"]
    BY <1>9, <1>12
  <2>2. /\ r \in Drive /\ r.state = "write_dma_data" /\ r.flags = rest.flags
        /\ r.dma_buffer = d /\ r.dma_size = ld /\ r.dma_head = 0
        /\ r.cdr_first = first /\ r.cdr_num = num
    BY <1>5, <1>7, <1>10, <1>11, <2>1 DEF Drive
  <2>3. r.cdr_dma = rest.cdr_dma
    BY <1>7, <2>1 DEF Drive
  <2>4. r.cdr_dma = g.cdr_dma
    BY <2>3, <1>8
  <2>5. FlagInv(r)
    BY <2>2, <1>7, <1>12 DEF FlagInv
  <2>6. DataInv(r, w, t)
    BY <2>2, <2>4, <1>4, <1>11, <1>12 DEF DataInv
  <2> QED
    BY <2>2, <2>4, <2>5, <2>6, <1>12 DEF r
<1>13. CASE ~g.cdr_dma
  <2> DEFINE u == DataIn(rest)
  <2>1. /\ u \in Drive /\ SameDma(u, rest) /\ SameRead(u, rest)
        /\ "DRQ" \in u.flags /\ "IO" \in u.flags /\ ~("BSY" \in u.flags)
    BY <1>7, DataInFields
  <2>2. r = [u EXCEPT !.pio_buffer = d, !.pio_size = ld, !.pio_head = 0,
                      !.state = "write_spi_data"]
    BY <1>9, <1>13
  <2> HIDE DEF u
  <2>3. u.cdr_first = first /\ u.cdr_num = num /\ u.cdr_dma = g.cdr_dma
    BY <2>1, <1>7, <1>8 DEF SameRead
  <2>4. /\ r \in Drive /\ r.state = "write_spi_data" /\ r.flags = u.flags
        /\ r.pio_buffer = d /\ r.pio_size = ld /\ r.pio_head = 0
        /\ r.cdr_first = u.cdr_first /\ r.cdr_num = u.cdr_num
    BY <1>5, <1>10, <1>11, <2>1, <2>2 DEF Drive
  <2>5. r.cdr_dma = u.cdr_dma
    BY <2>1, <2>2 DEF Drive
  <2>6. SameDma(r, u)
    BY <2>1, <2>2 DEF Drive, SameDma
  <2>7. r.dma_size = Len(r.dma_buffer)
    BY <2>1, <2>6, <1>7 DEF SameDma
  <2>8. r.cdr_dma = g.cdr_dma
    BY <2>3, <2>5
  <2>9. FlagInv(r)
    BY <2>1, <2>4 DEF FlagInv
  <2>10. Delivers(w, t, r.pio_buffer, r.pio_head, r.cdr_first, r.cdr_num)
    BY <2>3, <2>4, <1>4
  <2>11. ~r.cdr_dma
    BY <2>8, <1>13
  <2>12. DataInv(r, w, t)
    BY <2>4, <2>7, <2>10, <2>11, <1>11 DEF DataInv
  <2> QED
    BY <2>4, <2>8, <2>9, <2>12, <1>13 DEF r
<1> QED
  BY <1>12, <1>13

(* A read by pio of no sectors offers an empty buffer. *)
LEMMA CdreadNone ==
  ASSUME NEW g \in Drive, g.cdr_num = 0, ~g.cdr_dma, g.dma_size = Len(g.dma_buffer)
  PROVE  /\ SpiCdread(g) \in Drive /\ FlagInv(SpiCdread(g))
         /\ DataInv(SpiCdread(g), <<>>, <<>>)
PROOF
<1> DEFINE d == ReadSectors(g.cdr_first, 0)
           u == DataIn(g)
           r == SpiCdread(g)
<1>1. g.cdr_first \in Nat /\ Min2(0, BufferSectors) = 0
  <2>1. g.cdr_first \in Nat
    BY DEF Drive
  <2>2. 0 < BufferSectors
    BY GdromAssumption
  <2>3. Min2(0, BufferSectors) = 0
    BY <2>2 DEF Min2
  <2> QED
    BY <2>1, <2>3
<1>2. d \in Seq(Bytes) /\ Len(d) = 0
  <2> DEFINE n == 0
  <2>1. n \in Nat /\ n * SectorSize = 0 /\ d = ReadSectors(g.cdr_first, n)
    BY GdromAssumption
  <2> HIDE DEF n, d
  <2>2. ReadSectors(g.cdr_first, n) \in Seq(Bytes) /\ Len(ReadSectors(g.cdr_first, n)) = n * SectorSize
    BY <1>1, <2>1, SectorBytes
  <2> QED
    BY <2>1, <2>2
<1>3. [g EXCEPT !.cdr_first = @ + 0, !.cdr_num = @ - 0] = g
  <2>1. g.cdr_first + 0 = g.cdr_first /\ g.cdr_num - 0 = g.cdr_num
    BY <1>1
  <2> QED
    BY <2>1 DEF Drive
<1>4. r = [DataIn([g EXCEPT !.cdr_first = @ + 0, !.cdr_num = @ - 0])
             EXCEPT !.pio_buffer = d, !.pio_size = Len(d), !.pio_head = 0,
                    !.state = "write_spi_data"]
  BY <1>1 DEF SpiCdread
<1>5. r = [u EXCEPT !.pio_buffer = d, !.pio_size = 0, !.pio_head = 0,
                    !.state = "write_spi_data"]
  BY <1>2, <1>3, <1>4
<1>6. /\ u \in Drive /\ SameDma(u, g) /\ SameRead(u, g)
      /\ "DRQ" \in u.flags /\ "IO" \in u.flags /\ ~("BSY" \in u.flags)
  BY DataInFields
<1> HIDE DEF d, u, r
<1>7. "write_spi_data" \in States
  BY DEF States
<1>8. /\ r \in Drive /\ r.state = "write_spi_data" /\ r.flags = u.flags
      /\ r.pio_buffer = d /\ r.pio_size = 0 /\ r.cdr_num = u.cdr_num
  BY <1>2, <1>5, <1>6, <1>7 DEF Drive
<1>9. SameDma(r, u)
  BY <1>5, <1>6 DEF Drive, SameDma
<1>10. FlagInv(r)
  BY <1>6, <1>8 DEF FlagInv
<1>11. r.cdr_num = 0 /\ r.dma_size = Len(r.dma_buffer)
  BY <1>6, <1>8, <1>9 DEF SameDma, SameRead
<1>12. DataInv(r, <<>>, <<>>)
  BY <1>2, <1>8, <1>11 DEF DataInv
<1> QED
  BY <1>8, <1>10, <1>12 DEF r
-----------------------------------------------------------------------------
(* The steps. *)

LEMMA GdInitInv == GdromInit => GdInv
PROOF
<1> SUFFICES ASSUME GdromInit PROVE GdInv
  OBVIOUS
<1>1. gd \in Drive
  BY DEF GdromInit, Drive, States, Flags
<1>2. gd.state = "read_ata_cmd" /\ gd.flags = {"DRDY"} /\ gd.dma_buffer = <<>> /\ gd.dma_size = 0
  BY DEF GdromInit
<1>3. FlagInv(gd)
  BY <1>2 DEF FlagInv
<1>4. DataInv(gd, want, got)
  BY <1>2 DEF DataInv, GdromInit
<1>5. want \in Seq(Bytes) /\ got \in Seq(Bytes)
  BY DEF GdromInit
<1>6. features \in BOOLEAN /\ fatal = FALSE /\ gdIrq \subseteq {"G1GDINT", "G1DEINT"} /\ loop = NoLoop
  BY DEF GdromInit
<1> QED
  BY <1>1, <1>3, <1>4, <1>5, <1>6 DEF GdInv

(* The guest asks for something else. *)
LEMMA Idles ==
  ASSUME GdInv, gd' \in Drive, gd'.state = "read_ata_cmd", FlagInv(gd'), SameDma(gd', gd),
         want' = got', want' \in Seq(Bytes), loop' = NoLoop, fatal' = fatal,
         features' = features, gdIrq' \subseteq {"G1GDINT", "G1DEINT"}
  PROVE  GdInv'
PROOF
<1>1. DataInv(gd', want', got')
  BY DEF DataInv, GdInv, SameDma
<1> QED
  BY <1>1 DEF GdInv

(* The ATA commands keep the invariant. *)
LEMMA AtaKeeps ==
  ASSUME GdInv, ~Aborts, AtaPacket \/ AtaSetFeatures \/ AtaNop \/ AtaSoftReset
  PROVE  GdInv'
PROOF
<1> DEFINE u == Begin
<1>1. gd \in Drive /\ FlagInv(gd) /\ DataInv(gd, want, got) /\ gd.state \in States
  BY DEF GdInv, Drive
<1>2. /\ u \in Drive /\ u.flags = (gd.flags \ {"DRDY", "CHECK"}) \cup {"BSY"}
      /\ SameDma(u, gd) /\ SameRead(u, gd)
  BY <1>1, WithFields DEF Begin, Flags
<1>3. Idle => gd.state = "read_ata_cmd" /\ want = got /\ ~("DRQ" \in u.flags)
  BY <1>1, <1>2 DEF Idle, Has, FlagInv, DataInv, States
<1> HIDE DEF u
<1>4. CASE AtaPacket
  <2> DEFINE v == With(u, {"CoD", "DRQ"}, {"IO", "BSY"})
  <2>1. /\ v \in Drive /\ v.flags = (u.flags \ {"IO", "BSY"}) \cup {"CoD", "DRQ"} /\ SameDma(v, u)
    BY <1>2, WithFields DEF Flags
  <2>2. gd' = [v EXCEPT !.pio_head = 0, !.state = "read_ata_data"]
    BY <1>4 DEF AtaPacket, u
  <2> HIDE DEF v
  <2>3. gd' \in Drive /\ gd'.state = "read_ata_data" /\ gd'.flags = v.flags
    BY <2>1, <2>2 DEF Drive, States
  <2>4. SameDma(gd', v)
    BY <2>1, <2>2 DEF Drive, SameDma
  <2>5. FlagInv(gd')
    BY <2>1, <2>3 DEF FlagInv
  <2>6. want' = want /\ got' = got /\ want = got
    BY <1>3, <1>4 DEF AtaPacket
  <2>7. gd'.dma_size = Len(gd'.dma_buffer)
    BY <1>1, <1>2, <2>1, <2>4 DEF SameDma, DataInv
  <2>8. DataInv(gd', want', got')
    BY <2>3, <2>6, <2>7 DEF DataInv
  <2>9. loop' = NoLoop
    BY <1>4 DEF AtaPacket, Running
  <2> QED
    BY <1>4, <2>3, <2>5, <2>8, <2>9 DEF AtaPacket, GdInv
<1>5. CASE AtaSetFeatures
  <2>1. gd' = AtaEnd(u) /\ Idle /\ loop' = NoLoop /\ UNCHANGED <<features, fatal, want, got>>
    BY <1>5 DEF AtaSetFeatures, Running, u
  <2>2. gd' \in Drive /\ gd'.state = "read_ata_cmd" /\ FlagInv(gd') /\ SameDma(gd', u)
    BY <2>1, <1>2, <1>3, AtaEndFields
  <2>3. SameDma(gd', gd)
    BY <2>2, <1>2 DEF SameDma
  <2>4. want' = got' /\ want' \in Seq(Bytes) /\ gdIrq' \subseteq {"G1GDINT", "G1DEINT"}
    BY <2>1, <1>3, <1>5 DEF GdInv, AtaSetFeatures, RaiseGd
  <2> QED
    BY <2>1, <2>2, <2>3, <2>4, Idles
<1>6. CASE AtaNop
  <2> DEFINE v == With(u, {"CHECK"}, {})
  <2>1. v \in Drive /\ v.flags = (u.flags \ {}) \cup {"CHECK"} /\ SameDma(v, u)
    BY <1>2, WithFields DEF Flags
  <2>2. gd' = AtaEnd(v) /\ Idle /\ loop' = NoLoop /\ UNCHANGED <<features, fatal>>
    BY <1>6 DEF AtaNop, Running, u
  <2> HIDE DEF v
  <2>3. gd' \in Drive /\ gd'.state = "read_ata_cmd" /\ FlagInv(gd') /\ SameDma(gd', v)
    BY <2>1, <2>2, <1>3, AtaEndFields
  <2>4. SameDma(gd', gd)
    BY <2>1, <2>3, <1>2 DEF SameDma
  <2>5. want' = got' /\ want' \in Seq(Bytes) /\ gdIrq' \subseteq {"G1GDINT", "G1DEINT"}
    BY <1>6 DEF GdInv, AtaNop, RaiseGd, Forget
  <2> QED
    BY <2>2, <2>3, <2>4, <2>5, Idles
<1>7. CASE AtaSoftReset
  <2> DEFINE v == SoftReset(u)
  <2>6. {"DRDY"} \in SUBSET Flags
    BY DEF Flags
  <2>1. /\ v \in Drive /\ v.flags = (u.flags \ {"BSY", "DRQ", "CHECK"}) \cup {"DRDY"}
        /\ SameDma(v, u)
    BY <1>2, <2>6, WithFields DEF SoftReset
  <2>2. gd' = AtaEnd(v) /\ loop' = NoLoop /\ UNCHANGED <<features, fatal>>
    BY <1>7 DEF AtaSoftReset, Running, u
  <2> HIDE DEF v
  <2>3. gd' \in Drive /\ gd'.state = "read_ata_cmd" /\ FlagInv(gd') /\ SameDma(gd', v)
    BY <2>1, <2>2, AtaEndFields
  <2>4. SameDma(gd', gd)
    BY <2>1, <2>3, <1>2 DEF SameDma
  <2>5. want' = got' /\ want' \in Seq(Bytes) /\ gdIrq' \subseteq {"G1GDINT", "G1DEINT"}
    BY <1>7 DEF GdInv, AtaSoftReset, RaiseGd, Forget
  <2> QED
    BY <2>2, <2>3, <2>4, <2>5, Idles
<1> QED
  BY <1>4, <1>5, <1>6, <1>7

(* The last word of a packet starts one of the four flows. *)
LEMMA SpiCmdKeeps ==
  ASSUME ~EmptyDmas, GdInv, Running, NEW g \in Drive, SameDma(g, gd), SpiCmd(g),
         "BSY" \in g.flags, ~("DRQ" \in g.flags), UNCHANGED <<features, loop, fatal>>
  PROVE  GdInv'
PROOF
<1>1. loop' = NoLoop /\ features \in BOOLEAN /\ g.dma_size = Len(g.dma_buffer)
  BY DEF Running, GdInv, DataInv, SameDma
<1>2. CASE SpiCmdReply(g)
  <2>1. PICK size \in ReplySizes : gd' = SpiWrite(g, size)
    BY <1>2 DEF SpiCmdReply
  <2>2. size \in Nat
    BY GdromAssumption
  <2>3. /\ gd' \in Drive /\ gd'.state = "write_spi_data" /\ FlagInv(gd') /\ SameDma(gd', g)
        /\ gd'.cdr_num = 0 /\ gd'.pio_size = Len(gd'.pio_buffer)
    BY <2>1, <2>2, SpiWriteFields
  <2>4. want' = <<>> /\ got' = <<>> /\ gdIrq' \subseteq {"G1GDINT", "G1DEINT"}
    BY <1>2 DEF SpiCmdReply, Forget, RaiseGd, GdInv
  <2>5. DataInv(gd', want', got')
    BY <2>3, <2>4, <1>1 DEF DataInv, SameDma
  <2> QED
    BY <1>1, <2>3, <2>4, <2>5 DEF GdInv
<1>3. CASE SpiCmdRead(g)
  <2>1. PICK first \in FirstSectors, num \in SectorCounts :
          /\ num = 0 /\ features => EmptyDmas
          /\ gd' = SpiCdread([g EXCEPT !.cdr_dma = features, !.cdr_first = first, !.cdr_num = num])
          /\ (IF features THEN UNCHANGED gdIrq ELSE RaiseGd)
          /\ want' = ReadSectors(first, num) /\ got' = <<>>
    BY <1>3 DEF SpiCmdRead
  <2>2. first \in Nat /\ num \in Nat
    BY GdromAssumption
  <2> DEFINE c == [g EXCEPT !.cdr_dma = features, !.cdr_first = first, !.cdr_num = num]
  <2>3. /\ c \in Drive /\ c.flags = g.flags /\ c.cdr_first = first /\ c.cdr_num = num
        /\ c.dma_size = g.dma_size /\ c.dma_buffer = g.dma_buffer
    BY <1>1, <2>2 DEF Drive
  <2>4. c.cdr_dma = features
    BY <1>1, <2>2 DEF Drive
  <2>5. /\ want' \in Seq(Bytes) /\ Len(want') = num * SectorSize /\ got' = <<>>
        /\ got' \in Seq(Bytes)
    BY <2>1, <2>2, SectorBytes
  <2>6. gd' = SpiCdread(c)
    BY <2>1
  <2>7. gd' \in Drive /\ FlagInv(gd') /\ DataInv(gd', want', got')
    <3>1. CASE num > 0
      <4>1. Delivers(want', got', <<>>, Len(<<>>), c.cdr_first, c.cdr_num)
        BY <2>1, <2>2, <2>3, <3>1, Begins
      <4> HIDE DEF c
      <4>2. want' # <<>>
        <5>1. num * SectorSize > 0
          BY <2>2, <3>1, GdromAssumption, SMT
        <5> QED
          BY <2>5, <5>1
      <4>3. <<>> \in Seq(Bytes)
        OBVIOUS
      <4>4. c.cdr_num > 0 /\ c.dma_size = Len(c.dma_buffer) /\ "BSY" \in c.flags
            /\ ~("DRQ" \in c.flags)
        BY <2>3, <3>1, <1>1
      <4> QED
        BY <2>3, <2>5, <2>6, <4>1, <4>2, <4>3, <4>4, CdreadKeeps
    <3>2. CASE num = 0
      <4> HIDE DEF c
      <4>1. c.cdr_num = 0 /\ ~c.cdr_dma /\ c.dma_size = Len(c.dma_buffer)
        BY <2>1, <2>3, <2>4, <3>2, <1>1
      <4>2. want' = <<>>
        <5>1. num * SectorSize = 0
          BY <3>2, GdromAssumption
        <5> QED
          BY <2>5, <5>1
      <4> QED
        BY <2>3, <2>5, <2>6, <4>1, <4>2, CdreadNone
    <3> QED
      BY <2>2, <3>1, <3>2
  <2>8. gdIrq' \subseteq {"G1GDINT", "G1DEINT"}
    BY <2>1 DEF GdInv, RaiseGd
  <2> QED
    BY <1>1, <2>5, <2>7, <2>8 DEF GdInv
<1>4. CASE SpiCmdMode(g)
  <2>1. PICK size \in ReplySizes : gd' = SpiRead(g, size)
    BY <1>4 DEF SpiCmdMode
  <2>2. size \in Nat
    BY GdromAssumption
  <2>3. gd' \in Drive /\ gd'.state = "read_spi_data" /\ FlagInv(gd') /\ SameDma(gd', g)
    BY <2>1, <2>2, SpiReadFields
  <2>4. want' = <<>> /\ got' = <<>> /\ gdIrq' \subseteq {"G1GDINT", "G1DEINT"}
    BY <1>4 DEF SpiCmdMode, Forget, RaiseGd, GdInv
  <2>5. DataInv(gd', want', got')
    BY <2>3, <2>4, <1>1 DEF DataInv, SameDma
  <2> QED
    BY <1>1, <2>3, <2>4, <2>5 DEF GdInv
<1>5. CASE SpiCmdNoData(g)
  <2>1. /\ gd' \in Drive /\ gd'.state = "read_ata_cmd" /\ FlagInv(gd') /\ SameDma(gd', g)
    BY <1>5, SpiEndFields DEF SpiCmdNoData
  <2>2. want' = got' /\ want' \in Seq(Bytes) /\ gdIrq' \subseteq {"G1GDINT", "G1DEINT"}
    BY <1>5 DEF SpiCmdNoData, Forget, RaiseGd, GdInv
  <2>3. SameDma(gd', gd)
    BY <2>1 DEF SameDma
  <2> QED
    BY <1>1, <2>1, <2>2, <2>3, Idles
<1> QED
  BY <1>2, <1>3, <1>4, <1>5 DEF SpiCmd
(* A word of a packet, or of the data of SET_MODE. *)
LEMMA WriteKeeps ==
  ASSUME ~EmptyDmas, GdInv, WriteData \/ WriteMode
  PROVE  GdInv'
PROOF
<1>1. /\ gd \in Drive /\ FlagInv(gd) /\ DataInv(gd, want, got) /\ gd.state \in States
      /\ want \in Seq(Bytes) /\ got \in Seq(Bytes)
  BY DEF GdInv, Drive
<1> DEFINE g == [gd EXCEPT !.pio_head = @ + 2]
<1>2. g \in Drive /\ g.flags = gd.flags /\ g.state = gd.state /\ SameDma(g, gd) /\ SameRead(g, gd)
  BY <1>1, HeadFields
<1>3. CASE WriteData
  <2>1. gd.state = "read_ata_data"
    BY <1>1, <1>3 DEF WriteData, Has, FlagInv, States
  <2>2. Running /\ UNCHANGED <<features, loop>>
    BY <1>3 DEF WriteData
  <2>3. CASE g.pio_head = PacketSize
    <3> DEFINE c == With(g, {"BSY"}, {"DRQ"})
    <3>1. SpiCmd(c) /\ UNCHANGED fatal
      BY <1>3, <2>1, <2>3 DEF WriteData
    <3>5. {"BSY"} \in SUBSET Flags
      BY DEF Flags
    <3>2. c \in Drive /\ SameDma(c, g) /\ c.flags = (g.flags \ {"DRQ"}) \cup {"BSY"}
      BY <1>2, <3>5, WithFields
    <3> HIDE DEF c, g
    <3>3. SameDma(c, gd) /\ "BSY" \in c.flags /\ ~("DRQ" \in c.flags)
      BY <1>2, <3>2 DEF SameDma
    <3> QED
      BY <2>2, <3>1, <3>2, <3>3, SpiCmdKeeps
  <2>4. CASE g.pio_head # PacketSize
    <3>1. gd' = g /\ UNCHANGED <<gdIrq, fatal, want, got>>
      BY <1>3, <2>1, <2>4 DEF WriteData
    <3> HIDE DEF g
    <3>2. FlagInv(gd') /\ DataInv(gd', want', got')
      BY <1>1, <1>2, <2>1, <3>1 DEF FlagInv, DataInv, SameDma
    <3>3. loop' = NoLoop
      BY <2>2 DEF Running
    <3> QED
      BY <1>2, <2>2, <3>1, <3>2, <3>3 DEF GdInv
  <2> QED
    BY <2>3, <2>4
<1>4. CASE WriteMode
  <2>1. /\ gd.state = "read_spi_data" /\ loop' = NoLoop /\ UNCHANGED <<features, fatal, want, got>>
    BY <1>4 DEF WriteMode, Running
  <2>2. want = <<>> /\ got = <<>>
    BY <1>1, <2>1 DEF DataInv
  <2>3. CASE g.pio_head = gd.pio_size
    <3>1. gd' = SpiEnd(g) /\ RaiseGd
      BY <1>4, <2>3 DEF WriteMode
    <3> HIDE DEF g
    <3>2. gd' \in Drive /\ gd'.state = "read_ata_cmd" /\ FlagInv(gd') /\ SameDma(gd', g)
      BY <1>2, <3>1, SpiEndFields
    <3>3. SameDma(gd', gd)
      BY <1>2, <3>2 DEF SameDma
    <3>4. gdIrq' \subseteq {"G1GDINT", "G1DEINT"}
      BY <3>1 DEF RaiseGd, GdInv
    <3>5. want' = got' /\ want' \in Seq(Bytes)
      BY <1>1, <2>1, <2>2
    <3> QED
      BY <2>1, <3>2, <3>3, <3>4, <3>5, Idles
  <2>4. CASE g.pio_head # gd.pio_size
    <3>1. gd' = g /\ UNCHANGED gdIrq
      BY <1>4, <2>4 DEF WriteMode
    <3> HIDE DEF g
    <3>2. FlagInv(gd') /\ DataInv(gd', want', got')
      BY <1>1, <1>2, <2>1, <3>1 DEF FlagInv, DataInv, SameDma
    <3> QED
      BY <1>2, <2>1, <3>1, <3>2 DEF GdInv
  <2> QED
    BY <2>3, <2>4
<1> QED
  BY <1>3, <1>4

(* A word of a reply or of a sector; the last one of the buffer fetches the *)
(* next sectors or ends the command.                                        *)
LEMMA ReadKeeps ==
  ASSUME ~TrustsIO, GdInv, ReadData
  PROVE  GdInv'
PROOF
<1>1. /\ gd \in Drive /\ FlagInv(gd) /\ DataInv(gd, want, got) /\ gd.state \in States
      /\ want \in Seq(Bytes) /\ got \in Seq(Bytes)
  BY DEF GdInv, Drive
<1>2. /\ gd.state = "write_spi_data" /\ loop' = NoLoop /\ fatal' = FALSE
      /\ UNCHANGED <<features, want>> /\ gdIrq' \subseteq {"G1GDINT", "G1DEINT"}
  <2>1. gd.state = "write_spi_data"
    BY <1>1 DEF ReadData, Has, FlagInv, States
  <2>2. gdIrq' \subseteq {"G1GDINT", "G1DEINT"}
    BY DEF ReadData, RaiseGd, GdInv
  <2> QED
    BY <2>1, <2>2 DEF ReadData, Running
<1> DEFINE g == [gd EXCEPT !.pio_head = @ + 2]
           h == gd.pio_head
           b == gd.pio_buffer
           word == SubSeq(b, h + 1, Min2(h + 2, gd.pio_size))
<1>3. /\ g \in Drive /\ g.flags = gd.flags /\ g.state = gd.state /\ SameDma(g, gd) /\ SameRead(g, gd)
      /\ g.pio_head = h + 2 /\ g.pio_buffer = b /\ g.pio_size = gd.pio_size
  BY <1>1, HeadFields
<1>4. /\ got' = IF want = <<>> THEN <<>> ELSE got \o word
      /\ g.pio_head >= gd.pio_size => gd' = IF g.cdr_num > 0 THEN SpiCdread(g) ELSE SpiEnd(g)
      /\ ~(g.pio_head >= gd.pio_size) => gd' = g
  BY DEF ReadData
<1>5. gd.pio_size = Len(b) /\ b \in Seq(Bytes) /\ h \in Nat /\ Len(b) \in Nat /\ gd.cdr_num \in Nat
      /\ gd.cdr_first \in Nat
  BY <1>1, <1>2 DEF DataInv, Drive
<1>6. ASSUME gd' = SpiEnd(g), got' = want
      PROVE  GdInv'
  <2>1. gd' \in Drive /\ gd'.state = "read_ata_cmd" /\ FlagInv(gd') /\ SameDma(gd', g)
    BY <1>3, <1>6, SpiEndFields
  <2>2. SameDma(gd', gd)
    BY <1>3, <2>1 DEF SameDma
  <2>3. fatal' = fatal
    BY <1>2 DEF GdInv
  <2> QED
    BY <1>1, <1>2, <1>6, <2>1, <2>2, <2>3, Idles
<1> HIDE DEF g, word
<1>7. CASE want = <<>>
  <2>1. gd.cdr_num = 0 /\ g.cdr_num = 0 /\ got' = <<>>
    BY <1>1, <1>2, <1>3, <1>4, <1>7 DEF DataInv, SameRead
  <2>2. CASE g.pio_head >= gd.pio_size
    BY <1>4, <1>6, <1>7, <2>1, <2>2
  <2>3. CASE ~(g.pio_head >= gd.pio_size)
    <3>1. gd' = g
      BY <1>4, <2>3
    <3>2. FlagInv(gd') /\ DataInv(gd', want', got')
      BY <1>1, <1>2, <1>3, <1>7, <2>1, <3>1 DEF FlagInv, DataInv, SameDma
    <3>3. got' \in Seq(Bytes) /\ want' \in Seq(Bytes)
      BY <1>1, <1>2, <2>1
    <3> QED
      BY <1>1, <1>2, <1>3, <3>1, <3>2, <3>3 DEF GdInv
  <2> QED
    BY <2>2, <2>3
<1>8. CASE want # <<>>
  <2> DEFINE n == Min2(h + 2, Len(b)) - h
  <2>1. /\ ~gd.cdr_dma /\ h < Len(b)
        /\ Delivers(want, got, b, h, gd.cdr_first, gd.cdr_num)
    BY <1>1, <1>2, <1>5, <1>8 DEF DataInv
  <2>2. n \in Nat /\ h + n <= Len(b) /\ h + n = Min2(h + 2, Len(b))
    BY <1>5, <2>1 DEF Min2
  <2> HIDE DEF n
  <2>3. got' = got \o SubSeq(b, h + 1, h + n)
    BY <1>4, <1>5, <1>8, <2>2 DEF word
  <2>4. got' \in Seq(Bytes) /\ Delivers(want, got', b, h + n, gd.cdr_first, gd.cdr_num)
    BY <1>1, <1>5, <2>1, <2>2, <2>3, Takes
  <2>5. g.cdr_first = gd.cdr_first /\ g.cdr_num = gd.cdr_num /\ ~g.cdr_dma
    BY <1>3, <2>1 DEF SameRead
  <2>6. CASE g.pio_head >= gd.pio_size
    <3>1. h + n = Len(b)
      BY <1>3, <1>5, <2>2, <2>6 DEF Min2
    <3>2. CASE g.cdr_num > 0
      <4>1. gd' = SpiCdread(g)
        BY <1>4, <2>6, <3>2
      <4>2. g.dma_size = Len(g.dma_buffer)
        BY <1>1, <1>3 DEF DataInv, SameDma
      <4>3. Delivers(want, got', b, Len(b), g.cdr_first, g.cdr_num)
        BY <2>4, <2>5, <3>1
      <4>4. gd' \in Drive /\ FlagInv(gd') /\ DataInv(gd', want, got')
        BY <1>1, <1>3, <1>5, <1>8, <2>4, <2>5, <3>2, <4>1, <4>2, <4>3, CdreadKeeps
      <4> QED
        BY <1>1, <1>2, <2>4, <4>4 DEF GdInv
    <3>3. CASE ~(g.cdr_num > 0)
      <4>1. g.cdr_num = 0 /\ gd.cdr_num = 0
        BY <1>5, <2>5, <3>3
      <4>2. Delivers(want, got', b, Len(b), gd.cdr_first, 0)
        BY <2>4, <3>1, <4>1
      <4>3. got' = want
        BY <1>1, <1>5, <2>4, <4>2, Ends
      <4> QED
        BY <1>4, <1>6, <2>6, <3>3, <4>3
    <3> QED
      BY <3>2, <3>3
  <2>7. CASE ~(g.pio_head >= gd.pio_size)
    <3>1. gd' = g /\ n = 2
      BY <1>3, <1>4, <1>5, <2>2, <2>7 DEF Min2
    <3>2. Delivers(want, got', gd'.pio_buffer, gd'.pio_head, gd'.cdr_first, gd'.cdr_num)
      BY <1>3, <2>4, <2>5, <3>1
    <3>3. gd'.pio_head < gd'.pio_size /\ gd'.pio_size = Len(gd'.pio_buffer)
          /\ gd'.dma_size = Len(gd'.dma_buffer) /\ gd'.state = "write_spi_data"
      BY <1>1, <1>2, <1>3, <1>5, <2>7, <3>1 DEF DataInv, SameDma
    <3>4. ~gd'.cdr_dma
      BY <2>5, <3>1
    <3>5. DataInv(gd', want', got')
      BY <1>2, <1>8, <3>2, <3>3, <3>4 DEF DataInv
    <3>6. FlagInv(gd')
      BY <1>1, <1>3, <3>1 DEF FlagInv
    <3> QED
      BY <1>1, <1>2, <1>3, <2>4, <3>1, <3>5, <3>6 DEF GdInv
  <2> QED
    BY <2>6, <2>7
<1> QED
  BY <1>7, <1>8

(* A turn of the loop of holly_gdrom_dma. *)
LEMMA DmaKeeps ==
  ASSUME GdInv, DmaRead
  PROVE  GdInv'
PROOF
<1> DEFINE g == Refill(gd)
           n == Min2(Min2(loop, SectorSize), g.dma_size - g.dma_head)
           b == g.dma_buffer
           h == g.dma_head
<1>1. /\ gd \in Drive /\ FlagInv(gd) /\ DataInv(gd, want, got)
      /\ want \in Seq(Bytes) /\ got \in Seq(Bytes)
  BY DEF GdInv
<1>2. loop \in Nat /\ gd.state = "write_dma_data"
  BY DEF GdInv, DmaRead
<1>3. /\ want # <<>> /\ gd.cdr_dma /\ gd.dma_size > 0 /\ gd.dma_size = Len(gd.dma_buffer)
      /\ Delivers(want, got, gd.dma_buffer, gd.dma_head, gd.cdr_first, gd.cdr_num)
      /\ "BSY" \in gd.flags /\ ~("DRQ" \in gd.flags)
  BY <1>1, <1>2 DEF DataInv, FlagInv
<1>4. /\ gd.dma_size \in Nat /\ gd.dma_head \in Nat /\ gd.cdr_num \in Nat /\ gd.cdr_first \in Nat
      /\ gd.dma_buffer \in Seq(Bytes) /\ gd.dma_head <= gd.dma_size
  BY <1>1, <1>3 DEF Drive, Delivers
<1>5. /\ gd' = [g EXCEPT !.dma_head = @ + n]
      /\ got' = got \o SubSeq(b, h + 1, h + n)
      /\ loop' = IF n = 0 THEN NoLoop ELSE loop - n
      /\ UNCHANGED <<features, fatal, want>>
  BY DEF DmaRead
<1>6. gdIrq' \subseteq {"G1GDINT", "G1DEINT"}
  BY DEF DmaRead, GdInv
<1> HIDE DEF g
<1>7. CASE gd.dma_head >= gd.dma_size /\ gd.cdr_num = 0
  <2>1. g = SpiEnd(gd)
    BY <1>4, <1>7 DEF Refill, g
  <2>2. g \in Drive /\ g.state = "read_ata_cmd" /\ FlagInv(g) /\ SameDma(g, gd)
    BY <1>1, <2>1, SpiEndFields
  <2>3. gd.dma_head = Len(gd.dma_buffer)
    BY <1>3, <1>4, <1>7
  <2>4. got = want
    <3>1. Delivers(want, got, gd.dma_buffer, Len(gd.dma_buffer), gd.cdr_first, 0)
      BY <1>3, <1>7, <2>3
    <3> QED
      BY <1>1, <1>4, <3>1, Ends
  <2>5. h \in Nat /\ g.dma_size = h /\ b = gd.dma_buffer
    BY <1>3, <1>4, <2>2, <2>3 DEF SameDma
  <2>6. n = 0
    BY <1>2, <2>5, GdromAssumption DEF Min2
  <2> HIDE DEF n
  <2>7. gd' = g
    <3>1. h + 0 = h
      BY <2>5
    <3> QED
      BY <1>5, <2>2, <2>6, <3>1 DEF Drive
  <2>8. got' = got
    <3>1. SubSeq(b, h + 1, h + 0) = <<>>
      BY <1>4, <2>5
    <3>2. got \o <<>> = got
      BY <1>1, ConcatEmptySeq
    <3> QED
      BY <1>5, <2>6, <3>1, <3>2
  <2> QED
    BY <1>1, <1>5, <1>6, <2>2, <2>4, <2>6, <2>7, <2>8, Idles
<1>8. CASE ~(gd.dma_head >= gd.dma_size /\ gd.cdr_num = 0)
  <2>1. /\ g \in Drive /\ FlagInv(g) /\ DataInv(g, want, got) /\ g.state = "write_dma_data"
    <3>1. CASE gd.dma_head < gd.dma_size
      <4>1. g = gd
        BY <1>4, <3>1 DEF Refill, g
      <4> QED
        BY <1>1, <1>2, <4>1
    <3>2. CASE gd.dma_head >= gd.dma_size /\ gd.cdr_num > 0
      <4>1. g = SpiCdread(gd)
        BY <1>4, <3>2 DEF Refill, g
      <4>2. Delivers(want, got, gd.dma_buffer, Len(gd.dma_buffer), gd.cdr_first, gd.cdr_num)
        <5>1. gd.dma_head = Len(gd.dma_buffer)
          BY <1>3, <1>4, <3>2
        <5> QED
          BY <1>3, <5>1
      <4> QED
        BY <1>1, <1>3, <1>4, <3>2, <4>1, <4>2, CdreadKeeps
    <3> QED
      BY <1>4, <1>8, <3>1, <3>2
  <2>2. /\ g.cdr_dma /\ g.dma_size > 0 /\ g.dma_size = Len(b)
        /\ Delivers(want, got, b, h, g.cdr_first, g.cdr_num)
    BY <2>1 DEF DataInv
  <2>3. h \in Nat /\ b \in Seq(Bytes) /\ Len(b) \in Nat /\ h <= Len(b)
        /\ g.cdr_first \in Nat /\ g.cdr_num \in Nat
    BY <2>1, <2>2 DEF Drive, Delivers
  <2>4. n \in Nat /\ n <= loop /\ h + n <= Len(b)
    BY <1>2, <2>2, <2>3, GdromAssumption DEF Min2
  <2> HIDE DEF n
  <2>5. got' \in Seq(Bytes) /\ Delivers(want, got', b, h + n, g.cdr_first, g.cdr_num)
    BY <1>1, <1>5, <2>2, <2>3, <2>4, Takes
  <2> DEFINE k == h + n
  <2>6. k \in Nat /\ gd' = [g EXCEPT !.dma_head = k]
    BY <1>5, <2>1, <2>3, <2>4 DEF Drive
  <2> HIDE DEF k
  <2>7. /\ gd' \in Drive /\ gd'.state = g.state /\ gd'.flags = g.flags /\ gd'.dma_buffer = b
        /\ gd'.dma_size = g.dma_size /\ gd'.dma_head = k
        /\ gd'.cdr_first = g.cdr_first /\ gd'.cdr_num = g.cdr_num
    BY <2>1, <2>6 DEF Drive
  <2>8. gd'.cdr_dma = g.cdr_dma
    BY <2>1, <2>6 DEF Drive
  <2>9. gd'.cdr_dma
    BY <2>2, <2>8
  <2>10. FlagInv(gd')
    BY <2>1, <2>7 DEF FlagInv
  <2>11. Delivers(want', got', gd'.dma_buffer, gd'.dma_head, gd'.cdr_first, gd'.cdr_num)
    BY <1>5, <2>5, <2>7 DEF k
  <2>12. DataInv(gd', want', got')
    BY <1>3, <1>5, <2>1, <2>2, <2>7, <2>9, <2>11 DEF DataInv
  <2>13. loop' \in Nat \cup {NoLoop}
    BY <1>2, <1>5, <2>4
  <2> QED
    BY <1>1, <1>5, <1>6, <2>1, <2>5, <2>7, <2>10, <2>12, <2>13 DEF GdInv
<1> QED
  BY <1>7, <1>8

(* Every step keeps the invariant. *)
LEMMA GdStep ==
  ~Aborts /\ ~TrustsIO /\ ~EmptyDmas /\ GdInv /\ [GdromNext]_gdromVars => GdInv'
PROOF
<1> SUFFICES ASSUME ~Aborts, ~TrustsIO, ~EmptyDmas, GdInv, [GdromNext]_gdromVars PROVE GdInv'
  OBVIOUS
<1>1. CASE UNCHANGED gdromVars
  BY <1>1 DEF gdromVars, GdInv
<1>2. CASE \E v \in BOOLEAN : WriteFeatures(v)
  BY <1>2 DEF WriteFeatures, GdInv
<1>3. CASE ReadStatus \/ AckDma
  BY <1>3 DEF ReadStatus, AckDma, GdInv
<1>4. CASE AtaPacket \/ AtaSetFeatures \/ AtaNop \/ AtaSoftReset
  BY <1>4, AtaKeeps
<1>5. CASE WriteData \/ WriteMode
  BY <1>5, WriteKeeps
<1>6. CASE ReadData
  BY <1>6, ReadKeeps
<1>7. CASE \E len \in DmaLengths : DmaBegin(len)
  <2>1. PICK len \in DmaLengths : DmaBegin(len)
    BY <1>7
  <2>2. len \in Nat
    BY GdromAssumption
  <2>3. gd.state = "write_dma_data"
    BY <2>1 DEF DmaBegin, Has, GdInv, FlagInv, Drive, States
  <2>4. gd.dma_size > 0 /\ gd.dma_size \in Nat
    BY <2>3 DEF GdInv, DataInv, Drive
  <2>5. fatal' = FALSE
    <3>1. (gd.dma_size = 0) = FALSE
      BY <2>4
    <3>2. fatal' = (gd.dma_size = 0)
      BY <2>1 DEF DmaBegin
    <3> QED
      BY <3>1, <3>2
  <2> QED
    BY <2>1, <2>2, <2>3, <2>5 DEF DmaBegin, GdInv
<1>8. CASE DmaRead
  BY <1>8, DmaKeeps
<1> QED
  BY <1>1, <1>2, <1>3, <1>4, <1>5, <1>6, <1>7, <1>8 DEF GdromNext

(* The invariant says that the drive is sound. *)
LEMMA InvSound == GdInv => DriveSound
PROOF
<1> SUFFICES ASSUME GdInv PROVE DriveSound
  OBVIOUS
<1>1. gd \in Drive /\ FlagInv(gd) /\ DataInv(gd, want, got) /\ want \in Seq(Bytes) /\ got \in Seq(Bytes)
  BY DEF GdInv
<1>2. gd.state \in States /\ gd.flags \subseteq Flags
  BY <1>1 DEF Drive
<1>3. GdromTypeOK
  <2>1. {gd.pio_head, gd.pio_size, gd.dma_head, gd.dma_size} \subseteq Nat
    BY <1>1 DEF Drive
  <2>2. gd.cdr_first \in Nat /\ gd.cdr_num \in Nat
    BY <1>1 DEF Drive
  <2>3. gd.cdr_dma \in BOOLEAN
    BY <1>1 DEF Drive
  <2>4. (gd.state = "write_spi_data" => Len(gd.pio_buffer) = gd.pio_size)
        /\ Len(gd.dma_buffer) = gd.dma_size
    BY <1>1 DEF DataInv
  <2>5. features \in BOOLEAN /\ fatal \in BOOLEAN
    BY DEF GdInv
  <2>6. gdIrq \subseteq {"G1GDINT", "G1DEINT"} /\ loop \in {NoLoop} \cup Nat
    BY DEF GdInv
  <2> QED
    BY <1>2, <2>1, <2>2, <2>3, <2>4, <2>5, <2>6 DEF GdromTypeOK
<1>4. ~fatal
  BY DEF GdInv
<1>5. DrqTruthful
  BY <1>1, <1>2 DEF DrqTruthful, Has, FlagInv, States
<1>6. got = want \/ \E b \in Seq(Bytes), h \in Nat, first \in Nat, num \in Nat :
                      Delivers(want, got, b, h, first, num)
  <2>1. /\ gd.pio_buffer \in Seq(Bytes) /\ gd.dma_buffer \in Seq(Bytes) /\ gd.pio_head \in Nat
        /\ gd.dma_head \in Nat /\ gd.cdr_first \in Nat /\ gd.cdr_num \in Nat
    BY <1>1 DEF Drive
  <2> QED
    BY <1>1, <1>2, <2>1 DEF DataInv, States
<1>7. IsPrefix(got, want)
  <2>1. CASE got = want
    BY <1>1, <2>1 DEF IsPrefix
  <2> QED
    BY <1>1, <1>6, <2>1, Prefix
<1>8. gd.state = "read_ata_cmd" => got = want
  BY <1>1 DEF DataInv
<1> QED
  BY <1>3, <1>4, <1>5, <1>7, <1>8 DEF DriveSound, NoFatal, DataInOrder

(* Whatever the sizes of packets, replies, sectors, buffer and dma transfers,*)
(* a guest that moves data while DRQ says so, in the direction of its        *)
(* command, makes no CHECK fail, and a CD_READ delivers its sectors in order,*)
(* none lost and none twice, before the command ends (gdrom_event,           *)
(* gdrom_spi_cdread, gdrom_dma_read, holly_gdrom_dma).  The guest is assumed *)
(* to send no NOP while a command is under way, to start no dma of no        *)
(* sectors, and to send the data of SET_MODE although IO says to read it.    *)
THEOREM SectorsInOrder ==
  ASSUME ~Aborts, ~TrustsIO, ~EmptyDmas
  PROVE  GdromSpec => []DriveSound
PROOF
<1>1. GdromInit => GdInv
  BY GdInitInv
<1>2. GdInv /\ [GdromNext]_gdromVars => GdInv'
  BY GdStep
<1>3. GdInv => DriveSound
  BY InvSound
<1> QED
  BY <1>1, <1>2, <1>3, PTL DEF GdromSpec

-----------------------------------------------------------------------------
(* The bios: counting *)

(* Counting from 0 reaches every number. *)
LEMMA CountsUp ==
  ASSUME NEW n \in Nat, NEW G \in SUBSET (0 .. n), 0 \in G, \A i \in 0 .. n - 1 : i \in G => i + 1 \in G
  PROVE  \A i \in 0 .. n : i \in G
PROOF
<1> DEFINE Out == {i \in 0 .. n : i \notin G}
           Less == {ss \in Nat \X Nat : ss[1] < ss[2]}
<1>1. SUFFICES ASSUME Out # {} PROVE FALSE
  OBVIOUS
<1>2. Out \in SUBSET Nat
  OBVIOUS
<1>3. IsWellFoundedOn(Less, Nat)
  BY NatLessThanWellFounded DEF OpToRel
<1>4. PICK m \in Out : \A u \in Out : ~(<<u, m>> \in Less)
  <2> HIDE DEF Less, Out
  <2> QED
    BY <1>1, <1>2, <1>3, WFMin
<1>5. m \in 0 .. n /\ m \notin G /\ m # 0
  OBVIOUS
<1>6. m - 1 \in 0 .. n - 1 /\ m - 1 \in 0 .. n /\ m - 1 < m /\ m - 1 \in Nat /\ m \in Nat /\ (m - 1) + 1 = m
  BY <1>5
<1>7. m - 1 \notin Out
  BY <1>4, <1>6
<1>8. m - 1 \in G
  BY <1>6, <1>7
<1> QED
  BY <1>5, <1>6, <1>8

-----------------------------------------------------------------------------
(* The bios: the boot file *)

(* Division with remainder. *)
LEMMA Division ==
  ASSUME NEW m \in Nat \ {0}, NEW n \in Int
  PROVE  /\ n % m \in 0 .. m - 1 /\ n \div m \in Int
         /\ n = m * (n \div m) + (n % m)
PROOF
  OBVIOUS

(* Quotient and remainder are unique. *)
LEMMA QuotientUnique ==
  ASSUME NEW m \in Nat \ {0}, NEW q \in Int, NEW r \in Int, 0 <= r, r < m
  PROVE  (m * q + r) % m = r /\ (m * q + r) \div m = q
PROOF
  OBVIOUS

(* The slice that is swapped is one not dealt yet. *)
LEMMA ScrambleInTable ==
  ASSUME NEW seed \in Nat, NEW i \in Nat
  PROVE  ScrambleNext(seed, i).seed \in Nat /\ ScrambleNext(seed, i).x \in 0 .. i
PROOF
<1> DEFINE s == (seed * 2109 + 9273) % 32768
<1>1. s \in 0 .. 32767
  OBVIOUS
<1> HIDE DEF s
<1> DEFINE v == s + 49152
<1>7. v \in Int
  BY <1>1
<1> HIDE DEF v
<1> DEFINE y == v % 65536
<1>2. y \in 0 .. 65535
  BY <1>7
<1> HIDE DEF y
<1>3. ScrambleNext(seed, i).seed = s /\ ScrambleNext(seed, i).x = (i * y) \div 65536
  BY DEF ScrambleNext, s, v, y
<1>4. i * y \in Nat /\ i * y <= i * 65535
  BY <1>2
<1> DEFINE z == i * y
<1>5. z \in Nat /\ z <= 65535 * i
  BY <1>4
<1> HIDE DEF z
<1>6. z \div 65536 \in 0 .. i
  BY <1>5
<1> QED
  BY <1>1, <1>3, <1>6 DEF z

\* f holds the state after each of the first m slices of a chunk of n.
DealsOf(st, n0, f, m) == f = [i \in 0 .. m |-> IF i = 0 THEN Undealt(st, n0) ELSE DealSlice(st, n0, i, f[i - 1])]

(* The loop over the slices of a chunk is a function. *)
LEMMA DealsExist ==
  ASSUME NEW st, NEW n0, NEW n \in Nat
  PROVE  \E f : DealsOf(st, n0, f, n)
PROOF
<1> DEFINE G == {m \in 0 .. n : \E f : DealsOf(st, n0, f, m)}
<1>1. 0 \in G
  <2> DEFINE f == [i \in 0 .. 0 |-> Undealt(st, n0)]
  <2>1. f = [i \in 0 .. 0 |-> IF i = 0 THEN Undealt(st, n0) ELSE DealSlice(st, n0, i, f[i - 1])]
    <3>1. \A i \in 0 .. 0 : i = 0
      OBVIOUS
    <3> QED
      BY <3>1
  <2> HIDE DEF f
  <2>2. DealsOf(st, n0, f, 0)
    BY <2>1 DEF DealsOf
  <2> QED
    BY <2>2
<1>2. ASSUME NEW m \in 0 .. n - 1, m \in G PROVE m + 1 \in G
  <2>1. PICK f : f = [i \in 0 .. m |-> IF i = 0 THEN Undealt(st, n0) ELSE DealSlice(st, n0, i, f[i - 1])]
    BY <1>2 DEF DealsOf
  <2> DEFINE g == [i \in 0 .. m + 1 |-> IF i = 0 THEN Undealt(st, n0) ELSE DealSlice(st, n0, i, f[i - 1])]
  <2>2. ASSUME NEW i \in 0 .. m + 1
        PROVE  (IF i = 0 THEN Undealt(st, n0) ELSE DealSlice(st, n0, i, f[i - 1])) = (IF i = 0 THEN Undealt(st, n0) ELSE DealSlice(st, n0, i, g[i - 1]))
    <3>1. CASE i = 0
      BY <3>1
    <3>2. CASE i # 0
      <4>1. i - 1 \in 0 .. m /\ i - 1 \in 0 .. m + 1
        BY <3>2
      <4>2. f[i - 1] = (IF i - 1 = 0 THEN Undealt(st, n0) ELSE DealSlice(st, n0, i - 1, f[i - 1 - 1]))
        BY <2>1, <4>1
      <4>3. g[i - 1] = (IF i - 1 = 0 THEN Undealt(st, n0) ELSE DealSlice(st, n0, i - 1, f[i - 1 - 1]))
        BY <4>1
      <4> QED
        BY <4>2, <4>3
    <3> QED
      BY <3>1, <3>2
  <2>3. g = [i \in 0 .. m + 1 |-> IF i = 0 THEN Undealt(st, n0) ELSE DealSlice(st, n0, i, g[i - 1])]
    <3> DEFINE h == [i \in 0 .. m + 1 |-> IF i = 0 THEN Undealt(st, n0) ELSE DealSlice(st, n0, i, g[i - 1])]
    <3>1. \A i \in 0 .. m + 1 : g[i] = h[i]
      BY <2>2
    <3> QED
      BY <3>1
  <2> HIDE DEF g
  <2>4. DealsOf(st, n0, g, m + 1)
    BY <2>3 DEF DealsOf
  <2>5. m + 1 \in 0 .. n
    OBVIOUS
  <2> QED
    BY <2>4, <2>5
<1>3. G \in SUBSET (0 .. n)
  OBVIOUS
<1>4. n \in 0 .. n
  OBVIOUS
<1> HIDE DEF G
<1>5. n \in G
  BY <1>1, <1>2, <1>3, <1>4, CountsUp
<1> QED
  BY <1>5 DEF G

\* f holds the state after each of the first m chunks of a boot file.
ChunksOf(size, f, m) == f = [i \in 0 .. m |-> IF i = 0 THEN Unread(size) ELSE NextChunk(f[i - 1], size)]

(* The loop over the chunks of a boot file is a function. *)
LEMMA ChunksExist ==
  ASSUME NEW size, NEW n \in Nat
  PROVE  \E f : ChunksOf(size, f, n)
PROOF
<1> DEFINE G == {m \in 0 .. n : \E f : ChunksOf(size, f, m)}
<1>1. 0 \in G
  <2> DEFINE f == [i \in 0 .. 0 |-> Unread(size)]
  <2>1. f = [i \in 0 .. 0 |-> IF i = 0 THEN Unread(size) ELSE NextChunk(f[i - 1], size)]
    <3>1. \A i \in 0 .. 0 : i = 0
      OBVIOUS
    <3> QED
      BY <3>1
  <2> HIDE DEF f
  <2>2. ChunksOf(size, f, 0)
    BY <2>1 DEF ChunksOf
  <2> QED
    BY <2>2
<1>2. ASSUME NEW m \in 0 .. n - 1, m \in G PROVE m + 1 \in G
  <2>1. PICK f : f = [i \in 0 .. m |-> IF i = 0 THEN Unread(size) ELSE NextChunk(f[i - 1], size)]
    BY <1>2 DEF ChunksOf
  <2> DEFINE g == [i \in 0 .. m + 1 |-> IF i = 0 THEN Unread(size) ELSE NextChunk(f[i - 1], size)]
  <2>2. ASSUME NEW i \in 0 .. m + 1
        PROVE  (IF i = 0 THEN Unread(size) ELSE NextChunk(f[i - 1], size)) = (IF i = 0 THEN Unread(size) ELSE NextChunk(g[i - 1], size))
    <3>1. CASE i = 0
      BY <3>1
    <3>2. CASE i # 0
      <4>1. i - 1 \in 0 .. m /\ i - 1 \in 0 .. m + 1
        BY <3>2
      <4>2. f[i - 1] = (IF i - 1 = 0 THEN Unread(size) ELSE NextChunk(f[i - 1 - 1], size))
        BY <2>1, <4>1
      <4>3. g[i - 1] = (IF i - 1 = 0 THEN Unread(size) ELSE NextChunk(f[i - 1 - 1], size))
        BY <4>1
      <4> QED
        BY <4>2, <4>3
    <3> QED
      BY <3>1, <3>2
  <2>3. g = [i \in 0 .. m + 1 |-> IF i = 0 THEN Unread(size) ELSE NextChunk(g[i - 1], size)]
    <3> DEFINE h == [i \in 0 .. m + 1 |-> IF i = 0 THEN Unread(size) ELSE NextChunk(g[i - 1], size)]
    <3>1. \A i \in 0 .. m + 1 : g[i] = h[i]
      BY <2>2
    <3> QED
      BY <3>1
  <2> HIDE DEF g
  <2>4. ChunksOf(size, g, m + 1)
    BY <2>3 DEF ChunksOf
  <2>5. m + 1 \in 0 .. n
    OBVIOUS
  <2> QED
    BY <2>4, <2>5
<1>3. G \in SUBSET (0 .. n)
  OBVIOUS
<1>4. n \in 0 .. n
  OBVIOUS
<1> HIDE DEF G
<1>5. n \in G
  BY <1>1, <1>2, <1>3, <1>4, CountsUp
<1> QED
  BY <1>5 DEF G

\* The bytes of a chunk of n slices, and those of slice t of it.
InChunk(off, n, j) == j >= off /\ j < off + n * BSlice
InSlice(off, t, j) == j >= off /\ (j - off) \div BSlice = t

\* Byte r of slice t.
Placed(off, t, r) == off + t * BSlice + r

\* No two entries of a table of n are the same.
OneToOne(t, n) == \A a \in 0 .. n - 1 : \A b \in 0 .. n - 1 : t[a] = t[b] => a = b

\* What k slices of a chunk of n leave: each has gone where the table says,
\* and nothing before the chunk has changed.
DealtTo(st, size, n, k, c) ==
  /\ c.seed \in Nat
  /\ c.table \in [0 .. n - 1 -> 0 .. n - 1]
  /\ OneToOne(c.table, n)
  /\ c.out = [j \in 0 .. size - 1 |-> c.out[j]]
  /\ \A j \in 0 .. size - 1 : j < st.off => c.out[j] = st.out[j]
  /\ \A m \in 1 .. k : \A j \in 0 .. size - 1 :
       InSlice(st.off, c.table[n - m], j) => c.out[j] = st.off + (m - 1) * BSlice + ((j - st.off) % BSlice)

\* A table in which two entries have changed places.
Swapped(t, i, x) == [t EXCEPT ![i] = t[x], ![x] = t[i]]

(* Two entries of the table change places. *)
LEMMA SwapKeeps ==
  ASSUME NEW n \in Nat, NEW t \in [0 .. n - 1 -> 0 .. n - 1],
         OneToOne(t, n),
         NEW i \in 0 .. n - 1, NEW x \in 0 .. n - 1
  PROVE  /\ Swapped(t, i, x) \in [0 .. n - 1 -> 0 .. n - 1]
         /\ OneToOne(Swapped(t, i, x), n)
         /\ \A a \in 0 .. n - 1 : a # i /\ a # x => Swapped(t, i, x)[a] = t[a]
PROOF
<1> DEFINE u == [t EXCEPT ![i] = t[x], ![x] = t[i]]
<1>1. u \in [0 .. n - 1 -> 0 .. n - 1]
  OBVIOUS
<1>2. \A a \in 0 .. n - 1 : u[a] = (IF a = x THEN t[i] ELSE IF a = i THEN t[x] ELSE t[a])
  OBVIOUS
<1>3. ASSUME NEW a \in 0 .. n - 1, NEW b \in 0 .. n - 1, u[a] = u[b] PROVE a = b
  BY <1>2, <1>3 DEF OneToOne
<1> QED
  BY <1>1, <1>2, <1>3 DEF Swapped, OneToOne

(* One slice is dealt. *)
LEMMA DealSliceKeeps ==
  ASSUME NEW st, st.off \in Nat, NEW size \in Nat, NEW n \in Nat, NEW k \in 1 .. n, NEW c,
         DealtTo(st, size, n, k - 1, c)
  PROVE  DealtTo(st, size, n, k, DealSlice(st, n, k, c))
PROOF
<1> DEFINE i == n - k
           r == ScrambleNext(c.seed, i)
           t == Swapped(c.table, i, r.x)
           out == [j \in DOMAIN c.out |->
                     IF InSlice(st.off, t[i], j) THEN st.off + (k - 1) * BSlice + ((j - st.off) % BSlice) ELSE c.out[j]]
           d == DealSlice(st, n, k, c)
<1>1. d = [seed |-> r.seed, table |-> t, out |-> out]
  BY DEF DealSlice, InSlice, Swapped
<1>2. d.seed = r.seed /\ d.table = t /\ d.out = out
  <2> HIDE DEF r, t, out, d
  <2> QED
    BY <1>1
<1>3. i \in 0 .. n - 1 /\ i \in Nat
  OBVIOUS
<1>4. c.seed \in Nat /\ c.table \in [0 .. n - 1 -> 0 .. n - 1]
      /\ OneToOne(c.table, n)
  BY DEF DealtTo
<1> HIDE DEF d
<1>5. r.seed \in Nat /\ r.x \in 0 .. i
  <2> HIDE DEF i
  <2> QED
    BY <1>3, <1>4, ScrambleInTable
<1> HIDE DEF r
<1>6. r.x \in 0 .. n - 1
  BY <1>3, <1>5
<1> HIDE DEF i
<1>7. /\ t \in [0 .. n - 1 -> 0 .. n - 1]
      /\ OneToOne(t, n)
      /\ \A a \in 0 .. n - 1 : a # i /\ a # r.x => t[a] = c.table[a]
  BY <1>3, <1>4, <1>6, SwapKeeps
<1> HIDE DEF t
<1>8. DOMAIN c.out = 0 .. size - 1
  <2>1. c.out = [j \in 0 .. size - 1 |-> c.out[j]]
    BY DEF DealtTo
  <2> QED
    BY <2>1
<1>9. out = [j \in 0 .. size - 1 |-> out[j]]
  BY <1>8
<1>10. \A j \in 0 .. size - 1 : /\ InSlice(st.off, t[i], j) => out[j] = st.off + (k - 1) * BSlice + ((j - st.off) % BSlice)
                                /\ ~InSlice(st.off, t[i], j) => out[j] = c.out[j]
  BY <1>8
<1> HIDE DEF out
<1>11. ASSUME NEW j \in 0 .. size - 1, j < st.off PROVE out[j] = st.out[j]
  <2>1. ~InSlice(st.off, t[i], j)
    BY <1>11 DEF InSlice
  <2>2. c.out[j] = st.out[j]
    BY <1>11 DEF DealtTo
  <2> QED
    BY <1>10, <2>1, <2>2
<1>12. ASSUME NEW m \in 1 .. k, NEW j \in 0 .. size - 1, InSlice(st.off, t[n - m], j)
       PROVE  out[j] = st.off + (m - 1) * BSlice + ((j - st.off) % BSlice)
  <2>1. CASE m = k
    <3>1. n - m = i
      BY <2>1 DEF i
    <3> QED
      BY <1>10, <1>12, <2>1, <3>1
  <2>2. CASE m # k
    <3>1. m \in 1 .. k - 1 /\ n - m \in 0 .. n - 1 /\ i < n - m
      BY <2>2 DEF i
    <3>2. n - m # i /\ n - m # r.x
      BY <1>3, <1>5, <3>1
    <3>3. t[n - m] = c.table[n - m] /\ t[n - m] # t[i]
      BY <1>3, <1>7, <3>1, <3>2 DEF OneToOne
    <3>4. ~InSlice(st.off, t[i], j)
      BY <1>12, <3>3 DEF InSlice
    <3>5. c.out[j] = st.off + (m - 1) * BSlice + ((j - st.off) % BSlice)
      BY <1>12, <3>1, <3>3 DEF DealtTo
    <3> QED
      BY <1>10, <3>4, <3>5
  <2> QED
    BY <2>1, <2>2
<1>13. d.seed \in Nat /\ d.table \in [0 .. n - 1 -> 0 .. n - 1]
  BY <1>2, <1>5, <1>7
<1>14. OneToOne(d.table, n)
  BY <1>2, <1>7
<1>15. d.out = [j \in 0 .. size - 1 |-> d.out[j]]
  BY <1>2, <1>9, Zenon
<1>16. \A j \in 0 .. size - 1 : j < st.off => d.out[j] = st.out[j]
  BY <1>2, <1>11
<1>17. \A m \in 1 .. k : \A j \in 0 .. size - 1 :
         InSlice(st.off, d.table[n - m], j) => d.out[j] = st.off + (m - 1) * BSlice + ((j - st.off) % BSlice)
  BY <1>2, <1>12
<1>18. DealtTo(st, size, n, k, d)
  BY <1>13, <1>14, <1>15, <1>16, <1>17, Zenon DEF DealtTo
<1> QED
  BY <1>18 DEF d

(* All slices are dealt. *)
LEMMA ChunkDealt ==
  ASSUME NEW st, st.off \in Nat, st.seed \in Nat, NEW size \in Nat, st.out = [j \in 0 .. size - 1 |-> st.out[j]],
         NEW n \in Nat, NEW f, DealsOf(st, n, f, n)
  PROVE  DealtTo(st, size, n, n, f[n])
PROOF
<1> DEFINE G == {m \in 0 .. n : DealtTo(st, size, n, m, f[m])}
<1>1. \A i \in 0 .. n : f[i] = (IF i = 0 THEN Undealt(st, n) ELSE DealSlice(st, n, i, f[i - 1]))
  <2>1. f = [i \in 0 .. n |-> IF i = 0 THEN Undealt(st, n) ELSE DealSlice(st, n, i, f[i - 1])]
    BY DEF DealsOf
  <2> QED
    BY <2>1
<1>2. 0 \in G
  <2> DEFINE id == [i \in 0 .. n - 1 |-> i]
  <2>1. f[0] = [seed |-> st.seed, table |-> id, out |-> st.out]
    BY <1>1 DEF Undealt
  <2>2. id \in [0 .. n - 1 -> 0 .. n - 1] /\ \A a \in 0 .. n - 1 : id[a] = a
    OBVIOUS
  <2> HIDE DEF id
  <2>3. f[0].seed = st.seed /\ f[0].table = id /\ f[0].out = st.out
    BY <2>1
  <2>4. OneToOne(id, n)
    BY <2>2 DEF OneToOne
  <2>5. \A m : m \notin 1 .. 0
    OBVIOUS
  <2>6. DealtTo(st, size, n, 0, f[0])
    BY <2>2, <2>3, <2>4, <2>5 DEF DealtTo
  <2> QED
    BY <2>6
<1>3. ASSUME NEW m \in 0 .. n - 1, m \in G PROVE m + 1 \in G
  <2>1. m + 1 \in 0 .. n /\ m + 1 \in 1 .. n /\ m + 1 # 0 /\ (m + 1) - 1 = m
    OBVIOUS
  <2>2. f[m + 1] = DealSlice(st, n, m + 1, f[m])
    BY <1>1, <2>1
  <2>3. DealtTo(st, size, n, m + 1, f[m + 1])
    BY <1>3, <2>1, <2>2, DealSliceKeeps
  <2> QED
    BY <2>1, <2>3
<1>4. G \in SUBSET (0 .. n)
  OBVIOUS
<1>5. n \in 0 .. n
  OBVIOUS
<1> HIDE DEF G
<1>6. n \in G
  BY <1>2, <1>3, <1>4, <1>5, CountsUp
<1> QED
  BY <1>6 DEF G

(* A byte of a chunk of n slices is at the place the table gives its slice. *)
LEMMA SlicePlaced ==
  ASSUME NEW off \in Nat, NEW n \in Nat, NEW t \in 0 .. n - 1, NEW r \in 0 .. BSlice - 1
  PROVE  /\ Placed(off, t, r) \in Nat /\ InChunk(off, n, Placed(off, t, r)) /\ InSlice(off, t, Placed(off, t, r))
         /\ (Placed(off, t, r) - off) % BSlice = r
PROOF
<1>1. BSlice \in Nat \ {0}
  BY BAssumption
<1> DEFINE y == t * BSlice
           z == n * BSlice
           j == Placed(off, t, r)
<1>2. y \in Nat /\ z \in Nat
  BY <1>1
<1>3. y + BSlice <= z
  <2>1. t + 1 <= n /\ t \in Nat
    OBVIOUS
  <2>2. (t + 1) * BSlice <= n * BSlice
    BY <1>1, <2>1
  <2>3. (t + 1) * BSlice = t * BSlice + BSlice
    BY <1>1, <2>1
  <2> QED
    BY <2>2, <2>3
<1>4. (BSlice * t + r) % BSlice = r /\ (BSlice * t + r) \div BSlice = t
  <2>1. t \in Int /\ r \in Int /\ 0 <= r /\ r < BSlice
    BY <1>1
  <2> QED
    BY <1>1, <2>1, QuotientUnique
<1>5. BSlice * t = y
  BY <1>1
<1>8. j = off + y + r
  BY DEF Placed
<1> HIDE DEF y, z, j
<1>6. j = off + y + r /\ j - off = y + r
  BY <1>1, <1>2, <1>8
<1>7. j \in Nat /\ j >= off /\ j < off + z
  BY <1>1, <1>2, <1>3, <1>6
<1> QED
  BY <1>4, <1>5, <1>6, <1>7 DEF InChunk, InSlice, z, j

\* Every byte of the source before off is in the destination before off.
ChunksTo(size, st) ==
  /\ st.seed \in Nat /\ st.off \in 0 .. size /\ st.out = [j \in 0 .. size - 1 |-> st.out[j]]
  /\ \A b \in 0 .. st.off - 1 : \E j \in 0 .. st.off - 1 : st.out[j] = b

(* One more chunk. *)
LEMMA DescrambleKeeps ==
  ASSUME NEW size \in Nat, NEW st, ChunksTo(size, st), NEW ch \in ChunkSizes, st.off + ch <= size
  PROVE  ChunksTo(size, DescrambleChunk(st, ch))
PROOF
<1>1. ch \in Nat /\ ch % BSlice = 0 /\ BSlice \in Nat \ {0}
  <2>1. ch \in 1 .. BMaxChunk /\ BMaxChunk \in Nat
    BY BAssumption DEF ChunkSizes
  <2> QED
    BY <2>1, BAssumption
<1> DEFINE n == ch \div BSlice
           dealt == CHOOSE f : f = [k \in 0 .. n |-> IF k = 0 THEN Undealt(st, n)
                                                     ELSE DealSlice(st, n, k, f[k - 1])]
           c == dealt[n]
           d == DescrambleChunk(st, ch)
<1>2. n \in Nat /\ ch = n * BSlice
  <2>1. n \in Int /\ ch = BSlice * n + (ch % BSlice)
    BY <1>1, Division
  <2>2. n \in Nat
    BY <1>1
  <2> HIDE DEF n
  <2> QED
    BY <1>1, <2>1, <2>2
<1>3. d = [seed |-> c.seed, off |-> st.off + ch, out |-> c.out]
  BY DEF DescrambleChunk
<1> HIDE DEF n
<1>4. \E f : f = [k \in 0 .. n |-> IF k = 0 THEN Undealt(st, n)
                                   ELSE DealSlice(st, n, k, f[k - 1])]
  <2>1. \E f : DealsOf(st, n, f, n)
    BY <1>2, DealsExist
  <2> QED
    BY <2>1, Zenon DEF DealsOf
<1>5. dealt = [k \in 0 .. n |-> IF k = 0 THEN Undealt(st, n)
                               ELSE DealSlice(st, n, k, dealt[k - 1])]
  BY <1>4, Zenon
<1>6. d.seed = c.seed /\ d.off = st.off + ch /\ d.out = c.out
  <2> HIDE DEF c, d
  <2> QED
    BY <1>3
<1> HIDE DEF dealt
<1>7. DealsOf(st, n, dealt, n)
  BY <1>5, Zenon DEF DealsOf
<1>8. st.off \in Nat /\ st.off \in 0 .. size /\ st.seed \in Nat /\ st.out = [j \in 0 .. size - 1 |-> st.out[j]]
  BY DEF ChunksTo
<1>9. DealtTo(st, size, n, n, c)
  BY <1>2, <1>7, <1>8, ChunkDealt
<1> HIDE DEF c, d
<1>10. d.seed \in Nat /\ d.off \in 0 .. size
  BY <1>1, <1>6, <1>8, <1>9 DEF DealtTo
<1>11. d.out = [j \in 0 .. size - 1 |-> d.out[j]]
  <2>1. c.out = [j \in 0 .. size - 1 |-> c.out[j]]
    BY <1>9 DEF DealtTo
  <2> QED
    BY <1>6, <2>1, Zenon
<1>12. ASSUME NEW b \in 0 .. d.off - 1 PROVE \E j \in 0 .. d.off - 1 : d.out[j] = b
  <2>1. CASE b < st.off
    <3>1. b \in 0 .. st.off - 1
      BY <1>6, <1>8, <2>1
    <3>2. PICK j \in 0 .. st.off - 1 : st.out[j] = b
      BY <3>1 DEF ChunksTo
    <3>3. j \in 0 .. d.off - 1 /\ j \in 0 .. size - 1 /\ j < st.off
      BY <1>1, <1>6, <1>8
    <3>4. c.out[j] = b
      BY <1>9, <3>2, <3>3 DEF DealtTo
    <3> QED
      BY <1>6, <3>3, <3>4
  <2>2. CASE b >= st.off
    <3> DEFINE x == b - st.off
               q == x \div BSlice
               r == x % BSlice
    <3>1. x \in Nat /\ x < n * BSlice
      <4>1. b \in Nat /\ b < st.off + ch
        BY <1>1, <1>6, <1>8
      <4>2. x \in Nat /\ x < ch
        BY <1>1, <1>8, <2>2, <4>1
      <4> QED
        BY <1>2, <4>2
    <3> HIDE DEF x
    <3>2. r \in 0 .. BSlice - 1 /\ q \in Int /\ x = BSlice * q + r
      BY <1>1, <3>1, Division
    <3> HIDE DEF q, r
    <3>3. q \in 0 .. n - 1
      <4>1. q >= 0
        <5>1. SUFFICES ASSUME q + 1 <= 0 PROVE FALSE
          BY <3>2
        <5>2. BSlice * (q + 1) <= 0 /\ BSlice * (q + 1) = BSlice * q + BSlice
          BY <1>1, <3>2, <5>1
        <5> QED
          BY <1>1, <3>1, <3>2, <5>2
      <4>2. q < n
        <5>1. SUFFICES ASSUME n <= q PROVE FALSE
          BY <1>2, <3>2
        <5>2. n * BSlice <= BSlice * q
          BY <1>1, <1>2, <3>2, <5>1
        <5> QED
          BY <1>1, <1>2, <3>1, <3>2, <5>2
      <4> QED
        BY <1>2, <3>2, <4>1, <4>2
    <3> DEFINE m == q + 1
               t == c.table[n - m]
               j == Placed(st.off, t, r)
    <3>4. m \in 1 .. n /\ n - m \in 0 .. n - 1 /\ m - 1 = q
      BY <1>2, <3>3
    <3>5. t \in 0 .. n - 1
      BY <1>9, <3>4 DEF DealtTo
    <3> HIDE DEF m, t
    <3>6. j \in Nat /\ InChunk(st.off, n, j) /\ InSlice(st.off, t, j) /\ (j - st.off) % BSlice = r
      BY <1>2, <1>8, <3>2, <3>5, SlicePlaced
    <3> HIDE DEF j
    <3>7. j \in 0 .. d.off - 1 /\ j \in 0 .. size - 1
      BY <1>1, <1>2, <1>6, <1>8, <3>6 DEF InChunk
    <3>8. c.out[j] = st.off + (m - 1) * BSlice + ((j - st.off) % BSlice)
      BY <1>9, <3>4, <3>6, <3>7 DEF DealtTo, t
    <3>9. c.out[j] = b
      <4>1. (m - 1) * BSlice = BSlice * q
        BY <1>1, <3>2, <3>4
      <4>2. c.out[j] = st.off + (BSlice * q + r)
        BY <1>1, <1>8, <3>2, <3>6, <3>8, <4>1
      <4>3. st.off + x = b
        BY <1>6, <1>8, <1>10 DEF x
      <4> QED
        BY <3>2, <4>2, <4>3
    <3> QED
      BY <1>6, <3>7, <3>9
  <2> QED
    BY <1>6, <1>8, <1>10, <2>1, <2>2
<1>13. ChunksTo(size, d)
  BY <1>10, <1>11, <1>12, Zenon DEF ChunksTo
<1> QED
  BY <1>13 DEF d

(* A set of sizes that is not empty has a largest one. *)
LEMMA HighestExists ==
  ASSUME NEW m \in Nat, NEW S \in SUBSET (1 .. m), S # {}
  PROVE  Max(S) \in S
PROOF
<1>1. \A y \in S : y \in 1 .. m
  OBVIOUS
<1> DEFINE above == {n \in Nat : \A y \in S : y <= n}
           Less == {ss \in Nat \X Nat : ss[1] < ss[2]}
<1>2. m \in above /\ above \in SUBSET Nat
  BY <1>1
<1>3. IsWellFoundedOn(Less, Nat)
  BY NatLessThanWellFounded DEF OpToRel
<1>4. PICK x \in above : \A n \in above : ~(<<n, x>> \in Less)
  <2> HIDE DEF above, Less
  <2> QED
    BY <1>2, <1>3, WFMin
<1>5. x \in Nat /\ (\A y \in S : y <= x) /\ \A n \in Nat : (\A y \in S : y <= n) => ~(n < x)
  BY <1>4
<1>6. x \in S
  <2>1. SUFFICES ASSUME x \notin S PROVE FALSE
    OBVIOUS
  <2>2. PICK y \in S : TRUE
    OBVIOUS
  <2>3. x - 1 \in Nat /\ x - 1 < x
    BY <1>1, <1>5, <2>2
  <2>4. ASSUME NEW z \in S PROVE z <= x - 1
    <3>1. z \in Nat /\ z <= x /\ z # x
      BY <1>1, <1>5, <2>1
    <3> QED
      BY <1>5, <3>1
  <2> QED
    BY <1>5, <2>3, <2>4
<1>7. \A y \in S : x >= y
  BY <1>1, <1>5
<1> HIDE DEF above, Less
<1> QED
  BY <1>6, <1>7 DEF Max

(* The bootstrap leaves no byte of the boot file out. *)
LEMMA DescrambledWhole ==
  ASSUME NEW size \in Nat
  PROVE  /\ DOMAIN Descramble(size) = 0 .. size - 1
         /\ \A b \in 0 .. size - 1 : \E j \in 0 .. size - 1 : Descramble(size)[j] = b
PROOF
<1> DEFINE n == size \div BSlice
           chunks == CHOOSE f : f = [k \in 0 .. n |-> IF k = 0 THEN Unread(size)
                                                      ELSE NextChunk(f[k - 1], size)]
           end == chunks[n]
           image == [j \in 0 .. size - 1 |-> IF j >= end.off THEN j ELSE end.out[j]]
<1>1. Descramble(size) = image
  BY DEF Descramble
<1>2. n \in Nat
  <2>1. BSlice \in Nat \ {0}
    BY BAssumption
  <2> QED
    BY <2>1
<1> HIDE DEF n
<1>3. \E f : f = [k \in 0 .. n |-> IF k = 0 THEN Unread(size)
                                   ELSE NextChunk(f[k - 1], size)]
  <2>1. \E f : ChunksOf(size, f, n)
    BY <1>2, ChunksExist
  <2> QED
    BY <2>1, Zenon DEF ChunksOf
<1>4. chunks = [k \in 0 .. n |-> IF k = 0 THEN Unread(size)
                                ELSE NextChunk(chunks[k - 1], size)]
  BY <1>3, Zenon
<1> HIDE DEF chunks
<1>5. \A k \in 0 .. n : chunks[k] = (IF k = 0 THEN Unread(size) ELSE NextChunk(chunks[k - 1], size))
  <2>1. chunks = [k \in 0 .. n |-> IF k = 0 THEN Unread(size) ELSE NextChunk(chunks[k - 1], size)]
    BY <1>4, Zenon
  <2> QED
    BY <2>1
<1> DEFINE G == {m \in 0 .. n : ChunksTo(size, chunks[m])}
<1>6. 0 \in G
  <2>1. chunks[0] = Unread(size)
    BY <1>2, <1>5
  <2> DEFINE blank == [j \in 0 .. size - 1 |-> -1]
  <2>2. blank = [j \in 0 .. size - 1 |-> blank[j]]
    OBVIOUS
  <2> HIDE DEF blank
  <2>3. Unread(size).seed = size % 65536 /\ Unread(size).off = 0 /\ Unread(size).out = blank
    BY DEF Unread, blank
  <2>4. size % 65536 \in Nat
    OBVIOUS
  <2>5. 0 \in 0 .. size /\ \A b : b \notin 0 .. 0 - 1
    OBVIOUS
  <2>6. ChunksTo(size, Unread(size))
    BY <2>2, <2>3, <2>4, <2>5 DEF ChunksTo
  <2> QED
    BY <1>2, <2>1, <2>6
<1>7. ASSUME NEW m \in 0 .. n - 1, m \in G PROVE m + 1 \in G
  <2> DEFINE st == chunks[m]
             fits == {c \in ChunkSizes : st.off + c <= size}
  <2>1. m + 1 \in 0 .. n /\ m + 1 # 0 /\ (m + 1) - 1 = m
    BY <1>2
  <2>2. chunks[m + 1] = NextChunk(st, size)
    BY <1>5, <2>1
  <2>3. ChunksTo(size, st)
    BY <1>7
  <2> HIDE DEF st, G
  <2>4. ChunksTo(size, NextChunk(st, size))
    <3>1. CASE fits = {}
      BY <2>3, <3>1 DEF NextChunk
    <3>2. CASE fits # {}
      <4>1. BMaxChunk \in Nat /\ fits \in SUBSET (1 .. BMaxChunk)
        BY BAssumption DEF ChunkSizes
      <4> DEFINE ch == Max(fits)
      <4>2. ch \in fits
        <5> HIDE DEF fits
        <5> QED
          BY <3>2, <4>1, HighestExists
      <4>3. NextChunk(st, size) = DescrambleChunk(st, ch)
        BY <3>2 DEF NextChunk
      <4> HIDE DEF ch
      <4> QED
        BY <2>3, <4>2, <4>3, DescrambleKeeps
    <3> QED
      BY <3>1, <3>2
  <2> QED
    BY <2>1, <2>2, <2>4 DEF G
<1>8. G \in SUBSET (0 .. n) /\ n \in 0 .. n
  BY <1>2
<1> HIDE DEF G
<1>9. n \in G
  BY <1>2, <1>6, <1>7, <1>8, CountsUp
<1>10. ChunksTo(size, end)
  BY <1>9 DEF G
<1> HIDE DEF end
<1>11. end.off \in 0 .. size
  BY <1>10 DEF ChunksTo
<1>12. ASSUME NEW b \in 0 .. size - 1 PROVE \E j \in 0 .. size - 1 : image[j] = b
  <2>1. CASE b >= end.off
    <3>1. image[b] = b
      BY <2>1
    <3> QED
      BY <3>1
  <2>2. CASE ~(b >= end.off)
    <3>1. b \in 0 .. end.off - 1
      BY <1>11, <2>2
    <3>2. PICK j \in 0 .. end.off - 1 : end.out[j] = b
      BY <1>10, <3>1 DEF ChunksTo
    <3>3. j \in 0 .. size - 1 /\ ~(j >= end.off)
      BY <1>11
    <3>4. image[j] = b
      BY <3>2, <3>3
    <3> QED
      BY <3>3, <3>4
  <2> QED
    BY <2>1, <2>2
<1> QED
  BY <1>1, <1>12

-----------------------------------------------------------------------------
(* The bios: its requests *)

\* A sequence, whatever its elements.
IsSequence(s) == \E S : s \in Seq(S)

\* A request that was accepted, carried out and reported at most once, and
\* never after the game that sent it was replaced.
Reqs(C, B) ==
  [id : 1 .. BIdMod - 1, code : C, params : [1 .. 4 -> Nat], done : 0 .. 1, told : 0 .. 1,
   before : B, old : BOOLEAN, late : {FALSE}]
IsReq(r) == (\E C, B : r \in Reqs(C, B)) /\ r.told <= r.done

\* The requests so far; two in a row have different ids.
ReqsOK(q) ==
  /\ IsSequence(q)
  /\ \A k \in 1 .. Len(q) : IsReq(q[k])
  /\ \A k \in 1 .. Len(q) - 1 : q[k].id # q[k + 1].id

(* A request that is added. *)
LEMMA ReqsAppend ==
  ASSUME NEW q, ReqsOK(q), NEW r, IsReq(r), Len(q) > 0 => q[Len(q)].id # r.id
  PROVE  /\ ReqsOK(Append(q, r)) /\ Len(Append(q, r)) = Len(q) + 1 /\ Len(q) \in Nat
         /\ Append(q, r)[Len(q) + 1] = r
PROOF
<1>1. PICK S : q \in Seq(S)
  BY DEF ReqsOK, IsSequence
<1> DEFINE T == S \cup {r}
           a == Append(q, r)
<1>2. q \in Seq(T) /\ r \in T /\ Len(q) \in Nat
  BY <1>1
<1> HIDE DEF T
<1>3. /\ a \in Seq(T) /\ Len(a) = Len(q) + 1 /\ a[Len(q) + 1] = r
      /\ \A k \in 1 .. Len(q) : a[k] = q[k]
  BY <1>2
<1> HIDE DEF a
<1>4. ASSUME NEW k \in 1 .. Len(a) PROVE IsReq(a[k])
  <2>1. CASE k \in 1 .. Len(q)
    BY <1>3, <2>1 DEF ReqsOK
  <2>2. CASE k = Len(q) + 1
    BY <1>3, <2>2
  <2> QED
    BY <1>2, <1>3, <2>1, <2>2
<1>5. ASSUME NEW k \in 1 .. Len(a) - 1 PROVE a[k].id # a[k + 1].id
  <2>1. CASE k \in 1 .. Len(q) - 1
    <3>1. k \in 1 .. Len(q) /\ k + 1 \in 1 .. Len(q)
      BY <1>2, <2>1
    <3>2. q[k].id # q[k + 1].id
      BY <2>1 DEF ReqsOK
    <3> QED
      BY <1>3, <3>1, <3>2
  <2>2. CASE k = Len(q)
    <3>1. k \in 1 .. Len(q) /\ Len(q) > 0
      BY <1>2, <2>2
    <3> QED
      BY <1>3, <2>2, <3>1
  <2> QED
    BY <1>2, <1>3, <2>1, <2>2
<1>6. IsSequence(a)
  BY <1>3 DEF IsSequence
<1> QED
  BY <1>2, <1>3, <1>4, <1>5, <1>6 DEF ReqsOK, a

(* A request that is changed, but for its id. *)
LEMMA ReqsChange ==
  ASSUME NEW q, ReqsOK(q), NEW n \in 1 .. Len(q), NEW r, IsReq(r), r.id = q[n].id
  PROVE  /\ ReqsOK([q EXCEPT ![n] = r]) /\ Len([q EXCEPT ![n] = r]) = Len(q)
         /\ \A k \in 1 .. Len(q) : [q EXCEPT ![n] = r][k] = IF k = n THEN r ELSE q[k]
PROOF
<1>1. PICK S : q \in Seq(S)
  BY DEF ReqsOK, IsSequence
<1> DEFINE T == S \cup {r}
           a == [q EXCEPT ![n] = r]
<1>2. q \in Seq(T) /\ r \in T /\ Len(q) \in Nat
  BY <1>1
<1> HIDE DEF T
<1>3. a \in Seq(T) /\ Len(a) = Len(q) /\ \A k \in 1 .. Len(q) : a[k] = IF k = n THEN r ELSE q[k]
  BY <1>2
<1> HIDE DEF a
<1>4. \A k \in 1 .. Len(a) : IsReq(a[k]) /\ a[k].id = q[k].id
  BY <1>3 DEF ReqsOK
<1>5. ASSUME NEW k \in 1 .. Len(a) - 1 PROVE a[k].id # a[k + 1].id
  <2>1. k \in 1 .. Len(a) /\ k + 1 \in 1 .. Len(a)
    BY <1>2, <1>3
  <2>2. q[k].id # q[k + 1].id
    BY <1>3 DEF ReqsOK
  <2> QED
    BY <1>4, <2>1, <2>2
<1>6. IsSequence(a)
  BY <1>3 DEF IsSequence
<1> QED
  BY <1>3, <1>4, <1>5, <1>6 DEF ReqsOK, a

\* A request whose game has been replaced.
Aged(r) == [r EXCEPT !.old = TRUE, !.before = NotYet]

(* Another game is loaded. *)
LEMMA ReqsAge ==
  ASSUME NEW q, ReqsOK(q), NEW a, a = [k \in DOMAIN q |-> Aged(q[k])]
  PROVE  /\ ReqsOK(a) /\ Len(a) = Len(q)
         /\ \A k \in 1 .. Len(q) : /\ a[k].id = q[k].id /\ a[k].code = q[k].code /\ a[k].params = q[k].params
                                    /\ a[k].done = q[k].done /\ a[k].told = q[k].told
PROOF
<1>1. PICK S : q \in Seq(S)
  BY DEF ReqsOK, IsSequence
<1>2. Len(q) \in Nat /\ DOMAIN q = 1 .. Len(q)
  BY <1>1
<1> DEFINE T == {Aged(q[k]) : k \in 1 .. Len(q)}
<1>3. a = [k \in 1 .. Len(q) |-> Aged(q[k])]
  BY <1>2
<1>4. a \in Seq(T) /\ Len(a) = Len(q) /\ \A k \in 1 .. Len(q) : a[k] = Aged(q[k])
  BY <1>2, <1>3
<1> HIDE DEF T
<1>5. ASSUME NEW r, IsReq(r)
      PROVE  /\ IsReq(Aged(r)) /\ Aged(r).id = r.id /\ Aged(r).code = r.code /\ Aged(r).params = r.params
             /\ Aged(r).done = r.done /\ Aged(r).told = r.told
  <2>1. PICK C, B : r \in Reqs(C, B)
    BY <1>5 DEF IsReq
  <2> DEFINE u == Aged(r)
  <2>2. /\ u \in Reqs(C, B \cup {NotYet}) /\ u.id = r.id /\ u.code = r.code /\ u.params = r.params
        /\ u.done = r.done /\ u.told = r.told
    <3> DEFINE D == B \cup {NotYet}
    <3>1. r \in Reqs(C, D) /\ NotYet \in D
      BY <2>1 DEF Reqs
    <3> HIDE DEF D
    <3>2. /\ u \in Reqs(C, D) /\ u.id = r.id /\ u.code = r.code /\ u.params = r.params
          /\ u.done = r.done /\ u.told = r.told
      BY <3>1 DEF Reqs, Aged
    <3> QED
      BY <3>2 DEF D
  <2> HIDE DEF u
  <2>3. IsReq(u)
    BY <1>5, <2>2 DEF IsReq
  <2> QED
    BY <2>2, <2>3 DEF u
<1>6. \A k \in 1 .. Len(q) : IsReq(q[k])
  BY DEF ReqsOK
<1>7. \A k \in 1 .. Len(a) : IsReq(a[k]) /\ a[k].id = q[k].id
  BY <1>4, <1>5, <1>6
<1>8. ASSUME NEW k \in 1 .. Len(a) - 1 PROVE a[k].id # a[k + 1].id
  <2>1. k \in 1 .. Len(a) /\ k + 1 \in 1 .. Len(a)
    BY <1>2, <1>4
  <2>2. q[k].id # q[k + 1].id
    BY <1>4 DEF ReqsOK
  <2> QED
    BY <1>7, <2>1, <2>2
<1>9. IsSequence(a)
  BY <1>4 DEF IsSequence
<1> QED
  BY <1>4, <1>5, <1>6, <1>7, <1>8, <1>9 DEF ReqsOK

\* The memory after a read, by its parameters.
Filled(r, result, mem) ==
  LET n == IF r.before.disc THEN r.params[2] ELSE 0
  IN  /\ result = <<0, 0, n, -n>>
      /\ \A i \in 0 .. n - 1 :
           r.params[3] + i \in BAddrs /\ r.params[1] + i \in BDisc
             => mem[r.params[3] + i] = <<"sector", r.params[1] + i>>
      /\ \A a \in BAddrs :
           a < r.params[3] \/ a >= r.params[3] + n => mem[a] = r.before.mem[a]

(* This is what the property asks of a read that is reported. *)
LEMMA FilledWhole ==
  ASSUME NEW r, Filled(r, breply.result, bmem)
  PROVE  ReadWhole(r)
PROOF
  BY DEF Filled, ReadWhole

(* What a read leaves. *)
LEMMA ReadFills ==
  ASSUME NEW r, r.params \in [1 .. 4 -> Nat], NEW o, o = DoRead(r.params),
         NEW b, b.params = r.params, b.before = AsFound
  PROVE  Filled(b, o.result, o.mem) /\ o.status = "COMPLETE"
PROOF
<1> DEFINE fad == r.params[1]
           dst == r.params[3]
           n == IF bdrive THEN r.params[2] ELSE 0
           s == SectorsRead(fad, r.params[2])
           mem == CopyToGuest(bmem, dst, s)
<1>1. fad \in Nat /\ n \in Nat /\ dst \in Nat
  OBVIOUS
<1>2. o.status = "COMPLETE" /\ o.mem = mem /\ o.result = <<0, 0, Len(s), -Len(s)>>
  <2> HIDE DEF fad, n, dst, s, mem
  <2>1. o = [status |-> "COMPLETE", mem |-> mem, mode |-> bmode, result |-> <<0, 0, Len(s), -Len(s)>>]
    BY Zenon DEF DoRead, Outcome, fad, dst, s, mem
  <2> QED
    BY <2>1
<1>3. Len(s) = n /\ \A i \in 1 .. n : s[i] = SectorAt(fad + i - 1)
  BY <1>1 DEF SectorsRead, FramesOf
<1>4. b.before.mem = bmem /\ b.before.disc = bdrive
  BY DEF AsFound
<1>5. b.params[1] = fad /\ b.params[3] = dst /\ n = IF b.before.disc THEN b.params[2] ELSE 0
  BY <1>4
<1> HIDE DEF fad, n, dst, s
<1>6. \A a \in BAddrs : mem[a] = IF a >= dst /\ a < dst + n THEN s[a - dst + 1] ELSE bmem[a]
  BY <1>3 DEF CopyToGuest
<1> HIDE DEF mem
<1>7. ASSUME NEW i \in 0 .. n - 1, dst + i \in BAddrs, fad + i \in BDisc
      PROVE  mem[dst + i] = <<"sector", fad + i>>
  <2>1. i + 1 \in 1 .. n /\ fad + (i + 1) - 1 = fad + i
    BY <1>1
  <2>2. dst + i >= dst /\ dst + i < dst + n /\ (dst + i) - dst + 1 = i + 1
    BY <1>1
  <2>3. mem[dst + i] = s[(dst + i) - dst + 1]
    BY <1>6, <1>7, <2>2
  <2>4. s[i + 1] = SectorAt(fad + i)
    BY <1>3, <2>1
  <2> QED
    BY <1>7, <2>2, <2>3, <2>4 DEF SectorAt
<1>8. ASSUME NEW a \in BAddrs, a < dst \/ a >= dst + n
      PROVE  mem[a] = bmem[a]
  <2>1. a \in Nat
    BY BAssumption DEF BAddrs
  <2> QED
    BY <1>1, <1>6, <1>8, <2>1
<1>9. o.result = <<0, 0, n, -n>>
  BY <1>2, <1>3
<1>10. Filled(b, o.result, mem)
  BY <1>4, <1>5, <1>7, <1>8, <1>9 DEF Filled
<1> QED
  BY <1>2, <1>10

\* struct bios.
IsBios(b) ==
  /\ \E C, R : b \in [status : {"INACTIVE", "ACTIVE", "COMPLETE"}, id : 0 .. BIdMod - 1, code : C,
                        params : [1 .. 4 -> Nat], result : R]

\* The request in place is the last one: not carried out while it is active,
\* not reported yet when it is complete, and of the game that runs.
Current(b, q, init, mem) ==
  /\ Len(q) > 0 => b.id = q[Len(q)].id
  /\ b.status = "ACTIVE" =>
       /\ Len(q) > 0 /\ q[Len(q)].done = 0 /\ b.code = q[Len(q)].code /\ b.params = q[Len(q)].params
       /\ init => ~q[Len(q)].old
  /\ b.status = "COMPLETE" =>
       /\ Len(q) > 0 /\ q[Len(q)].done = 1 /\ q[Len(q)].told = 0
       /\ init /\ q[Len(q)].code = "READ" => Filled(q[Len(q)], b.result, mem)

\* The last answer, while no other request has been sent.
Replied(a, b, q, mem) ==
  /\ a.k \in 0 .. Len(q)
  /\ a.k = Len(q) /\ a.k # 0 /\ a.status = "COMPLETE" =>
       /\ b.status = "INACTIVE"
       /\ q[Len(q)].code = "READ" => Filled(q[Len(q)], a.result, mem)

\* The inductive invariant.
BiosInv ==
  /\ IsBios(bios) /\ bpar \in BParams /\ ReqsOK(breqs)
  /\ Current(bios, breqs, binit, bmem) /\ Replied(breply, bios, breqs, bmem)
  /\ BootImageWhole

(* How many requests there are. *)
LEMMA ReqsCount ==
  ASSUME NEW q, ReqsOK(q)
  PROVE  Len(q) \in Nat /\ DOMAIN q = 1 .. Len(q) /\ (Len(q) > 0 => Len(q) \in 1 .. Len(q))
PROOF
<1>1. PICK S : q \in Seq(S)
  BY DEF ReqsOK, IsSequence
<1> QED
  BY <1>1

(* No requests. *)
LEMMA NoReqs == ReqsOK(<<>>) /\ Len(<<>>) = 0
PROOF
<1>1. <<>> \in Seq({}) /\ Len(<<>>) = 0 /\ \A k : k \notin 1 .. 0 /\ k \notin 1 .. 0 - 1
  OBVIOUS
<1> QED
  BY <1>1 DEF ReqsOK, IsSequence

(* struct bios at power on. *)
LEMMA PowerOnIs == IsBios(PowerOn) /\ PowerOn.status = "INACTIVE"
PROOF
<1>1. NoResult \in [1 .. 4 -> Nat]
  BY DEF NoResult
<1>2. 0 \in 0 .. BIdMod - 1
  BY BAssumption
<1> DEFINE b == PowerOn
<1>3. b \in [status : {"INACTIVE", "ACTIVE", "COMPLETE"}, id : 0 .. BIdMod - 1, code : {""},
             params : [1 .. 4 -> Nat], result : {NoResult}]
  BY <1>1, <1>2 DEF PowerOn
<1>4. b.status = "INACTIVE"
  BY DEF PowerOn
<1> HIDE DEF b
<1>5. IsBios(b)
  BY <1>3 DEF IsBios
<1> QED
  BY <1>4, <1>5 DEF b

\* struct bios when a request has been carried out, or reported.
Finished(b, s, r) == [b EXCEPT !.status = s, !.result = r]

(* struct bios with another status and result. *)
LEMMA BiosBecomes ==
  ASSUME NEW b, IsBios(b), NEW s \in {"INACTIVE", "ACTIVE", "COMPLETE"}, NEW r
  PROVE  /\ IsBios(Finished(b, s, r)) /\ Finished(b, s, r).status = s /\ Finished(b, s, r).result = r
         /\ Finished(b, s, r).id = b.id /\ Finished(b, s, r).code = b.code /\ Finished(b, s, r).params = b.params
PROOF
<1>1. PICK C, R : b \in [status : {"INACTIVE", "ACTIVE", "COMPLETE"}, id : 0 .. BIdMod - 1, code : C,
                         params : [1 .. 4 -> Nat], result : R]
  BY DEF IsBios
<1> DEFINE T == R \cup {r}
           c == Finished(b, s, r)
<1>2. /\ c \in [status : {"INACTIVE", "ACTIVE", "COMPLETE"}, id : 0 .. BIdMod - 1, code : C,
                params : [1 .. 4 -> Nat], result : T]
      /\ c.status = s /\ c.result = r /\ c.id = b.id /\ c.code = b.code /\ c.params = b.params
  BY <1>1 DEF Finished
<1> HIDE DEF T, c
<1>3. IsBios(c)
  BY <1>2 DEF IsBios
<1> QED
  BY <1>2, <1>3 DEF c

(* struct bios with another status. *)
LEMMA BiosTurns ==
  ASSUME NEW b, IsBios(b), NEW s \in {"INACTIVE", "ACTIVE", "COMPLETE"}, NEW c, c = [b EXCEPT !.status = s]
  PROVE  IsBios(c) /\ c.status = s /\ c.id = b.id /\ c.code = b.code /\ c.params = b.params
PROOF
<1>1. PICK C, R : b \in [status : {"INACTIVE", "ACTIVE", "COMPLETE"}, id : 0 .. BIdMod - 1, code : C,
                         params : [1 .. 4 -> Nat], result : R]
  BY DEF IsBios
<1>2. /\ c \in [status : {"INACTIVE", "ACTIVE", "COMPLETE"}, id : 0 .. BIdMod - 1, code : C,
                params : [1 .. 4 -> Nat], result : R]
      /\ c.status = s /\ c.id = b.id /\ c.code = b.code /\ c.params = b.params
  BY <1>1
<1> QED
  BY <1>2 DEF IsBios

(* Without a request or an answer there is nothing to keep. *)
LEMMA NothingPending ==
  ASSUME NEW b, b.status = "INACTIVE", NEW q, ReqsOK(q), NEW init, NEW mem, Len(q) > 0 => b.id = q[Len(q)].id
  PROVE  Current(b, q, init, mem) /\ Replied(NoReply, b, q, mem)
PROOF
<1>1. NoReply.k = 0
  BY DEF NoReply
<1>2. 0 \in 0 .. Len(q)
  BY ReqsCount
<1> QED
  BY <1>1, <1>2 DEF Current, Replied

(* Before power on. *)
LEMMA BiosStart == BInit => BiosInv
PROOF
<1> SUFFICES ASSUME BInit PROVE BiosInv
  OBVIOUS
<1>1. bios = PowerOn /\ bpar \in BParams /\ breqs = <<>> /\ breply = NoReply /\ bimage = <<>>
  BY DEF BInit
<1>2. Current(bios, breqs, binit, bmem) /\ Replied(breply, bios, breqs, bmem)
  BY <1>1, NoReqs, PowerOnIs, NothingPending
<1>3. BootImageWhole
  BY <1>1 DEF BootImageWhole
<1> QED
  BY <1>1, <1>2, <1>3, NoReqs, PowerOnIs DEF BiosInv

(* LOG_FATAL and a failed CHECK. *)
LEMMA AbortKeeps == BiosInv /\ BAbort => BiosInv'
PROOF
<1> SUFFICES ASSUME BiosInv, BAbort PROVE BiosInv'
  OBVIOUS
<1>1. bios' = PowerOn /\ bpar' \in BParams /\ breqs' = <<>> /\ breply' = NoReply /\ bimage' = <<>>
  BY DEF BAbort, BiosInv
<1>2. Current(bios', breqs', binit', bmem') /\ Replied(breply', bios', breqs', bmem')
  BY <1>1, NoReqs, PowerOnIs, NothingPending
<1>3. BootImageWhole'
  BY <1>1 DEF BootImageWhole
<1> QED
  BY <1>1, <1>2, <1>3, NoReqs, PowerOnIs DEF BiosInv

(* Another game takes the place of the one that runs. *)
LEMMA GameReplaced ==
  ASSUME BiosInv, NewGame, BootImageWhole'
  PROVE  BiosInv'
PROOF
<1>1. /\ breqs' = [k \in DOMAIN breqs |-> Aged(breqs[k])]
      /\ binit' = FALSE /\ breply' = NoReply /\ bios' = bios /\ bpar' = bpar
  BY DEF NewGame, Aged
<1>2. IsBios(bios) /\ bpar \in BParams /\ ReqsOK(breqs) /\ Current(bios, breqs, binit, bmem)
  BY DEF BiosInv
<1>3. /\ ReqsOK(breqs') /\ Len(breqs') = Len(breqs)
      /\ \A k \in 1 .. Len(breqs) : /\ breqs'[k].id = breqs[k].id /\ breqs'[k].code = breqs[k].code
                                     /\ breqs'[k].params = breqs[k].params
                                     /\ breqs'[k].done = breqs[k].done /\ breqs'[k].told = breqs[k].told
  BY <1>1, <1>2, ReqsAge
<1>4. Current(bios', breqs', binit', bmem')
  <2> DEFINE n == Len(breqs)
  <2>1. n \in Nat /\ (n > 0 => n \in 1 .. n)
    BY <1>2, ReqsCount
  <2>2. n > 0 => /\ breqs'[n].id = breqs[n].id /\ breqs'[n].code = breqs[n].code
                 /\ breqs'[n].params = breqs[n].params
                 /\ breqs'[n].done = breqs[n].done /\ breqs'[n].told = breqs[n].told
    BY <1>3, <2>1
  <2>3. Len(breqs') = n /\ ~binit' /\ bios' = bios
    BY <1>1, <1>3
  <2> HIDE DEF n
  <2>4. Current(bios, breqs, binit, bmem) /\ n = Len(breqs)
    BY <1>2 DEF n
  <2> QED
    BY <2>2, <2>3, <2>4 DEF Current
<1>5. Replied(breply', bios', breqs', bmem')
  <2>1. NoReply.k = 0
    BY DEF NoReply
  <2>2. 0 \in 0 .. Len(breqs')
    BY <1>2, <1>3, ReqsCount
  <2> QED
    BY <1>1, <2>1, <2>2 DEF Replied
<1> QED
  BY <1>1, <1>2, <1>3, <1>4, <1>5 DEF BiosInv

(* bios_boot. *)
LEMMA BootKeeps ==
  ASSUME BiosInv, NEW size \in BSizes, NEW xa \in BOOLEAN, BBoot(size, xa)
  PROVE  BiosInv'
PROOF
<1>1. NewGame /\ bimage' = IF xa THEN Descrambled[size] ELSE [j \in 0 .. size - 1 |-> j]
  BY DEF BBoot
<1>2. BootImageWhole'
  <2>1. size \in Nat
    BY BAssumption
  <2>2. CASE xa
    <3>1. bimage' = Descramble(size)
      BY <1>1, <2>2 DEF Descrambled
    <3> QED
      BY <2>1, <3>1, DescrambledWhole DEF BootImageWhole
  <2>3. CASE ~xa
    <3>1. DOMAIN bimage' = 0 .. size - 1 /\ \A j \in 0 .. size - 1 : bimage'[j] = j
      BY <1>1, <2>3
    <3> QED
      BY <3>1 DEF BootImageWhole
  <2> QED
    BY <2>2, <2>3
<1> QED
  BY <1>1, <1>2, GameReplaced

(* dc_load_bin. *)
LEMMA LoadBinKeeps == BiosInv /\ LoadBin => BiosInv'
PROOF
<1> SUFFICES ASSUME BiosInv, LoadBin PROVE BiosInv'
  OBVIOUS
<1>1. NewGame /\ bimage' = <<>>
  BY DEF LoadBin
<1>2. BootImageWhole'
  BY <1>1 DEF BootImageWhole
<1> QED
  BY <1>1, <1>2, GameReplaced

(* GDROM_INIT. *)
LEMMA InitKeeps == BiosInv /\ GdInit => BiosInv'
PROOF
<1> SUFFICES ASSUME BiosInv, GdInit PROVE BiosInv'
  OBVIOUS
<1>1. /\ bios' = [bios EXCEPT !.status = "INACTIVE"] /\ bimage' = <<>>
      /\ bpar' = bpar /\ bmem' = bmem /\ breqs' = breqs /\ breply' = breply
  BY DEF GdInit
<1>2. /\ IsBios(bios) /\ bpar \in BParams /\ ReqsOK(breqs)
      /\ Current(bios, breqs, binit, bmem) /\ Replied(breply, bios, breqs, bmem)
  BY DEF BiosInv
<1>3. IsBios(bios') /\ bios'.status = "INACTIVE" /\ bios'.id = bios.id
  BY <1>1, <1>2, BiosTurns
<1>4. Current(bios', breqs', binit', bmem')
  BY <1>1, <1>2, <1>3 DEF Current
<1>5. Replied(breply', bios', breqs', bmem')
  BY <1>1, <1>2, <1>3 DEF Replied
<1>6. BootImageWhole'
  BY <1>1 DEF BootImageWhole
<1> QED
  BY <1>1, <1>2, <1>3, <1>4, <1>5, <1>6 DEF BiosInv

(* bios_gdrom_send_cmd. *)
LEMMA SendKeeps ==
  ASSUME BiosInv, NEW code, NEW null \in BOOLEAN, SendCommand(code, null)
  PROVE  BiosInv'
PROOF
<1> DEFINE next == (bios.id + 1) % BIdMod
           id == IF next = 0 THEN 1 ELSE next
           params == IF null THEN NoResult ELSE bpar
           r == [id |-> id, code |-> code, params |-> params, done |-> 0, told |-> 0,
                 before |-> NotYet, old |-> FALSE, late |-> FALSE]
           n == Len(breqs)
<1>1. /\ bios' = [status |-> "ACTIVE", id |-> id, code |-> code, params |-> params, result |-> NoResult]
      /\ breqs' = Append(breqs, r) /\ bios.status = "INACTIVE"
      /\ bpar' = bpar /\ bmem' = bmem /\ binit' = binit /\ breply' = breply /\ bimage' = bimage
  BY DEF SendCommand
<1>2. /\ IsBios(bios) /\ bpar \in BParams /\ ReqsOK(breqs)
      /\ Current(bios, breqs, binit, bmem) /\ Replied(breply, bios, breqs, bmem)
  BY DEF BiosInv
<1>3. bios.id \in 0 .. BIdMod - 1 /\ BIdMod \in Nat /\ BIdMod > 2
  BY <1>2, BAssumption DEF IsBios
<1>4. id \in 1 .. BIdMod - 1 /\ id # bios.id
  <2> DEFINE x == bios.id
  <2>1. x \in 0 .. BIdMod - 1
    BY <1>3
  <2> HIDE DEF x
  <2>2. (x + 1) % BIdMod = (IF x = BIdMod - 1 THEN 0 ELSE x + 1)
    <3>1. CASE x = BIdMod - 1
      <4>1. x + 1 = BIdMod /\ BIdMod % BIdMod = 0
        BY <1>3, <3>1
      <4> QED
        BY <3>1, <4>1
    <3>2. CASE x # BIdMod - 1
      <4>1. x + 1 \in 0 .. BIdMod - 1
        BY <1>3, <2>1, <3>2
      <4>2. (x + 1) % BIdMod = x + 1
        BY <1>3, <4>1
      <4> QED
        BY <3>2, <4>2
    <3> QED
      BY <3>1, <3>2
  <2>3. next = IF x = BIdMod - 1 THEN 0 ELSE x + 1
    BY <2>2 DEF x
  <2> HIDE DEF next
  <2>4. (IF next = 0 THEN 1 ELSE next) \in 1 .. BIdMod - 1 /\ (IF next = 0 THEN 1 ELSE next) # x
    BY <1>3, <2>1, <2>3
  <2> QED
    BY <2>4 DEF x
<1> HIDE DEF next, id
<1>5. params \in [1 .. 4 -> Nat]
  BY <1>2, BAssumption DEF NoResult
<1> HIDE DEF params
<1>6. r \in Reqs({code}, {NotYet})
  BY <1>4, <1>5 DEF Reqs
<1>7. r.id = id /\ r.code = code /\ r.params = params /\ r.done = 0 /\ r.told = 0 /\ ~r.old
  OBVIOUS
<1> HIDE DEF r
<1>8. IsReq(r)
  BY <1>6, <1>7 DEF IsReq
<1>9. n \in Nat
  BY <1>2, ReqsCount
<1>10. n > 0 => breqs[n].id # r.id
  BY <1>2, <1>4, <1>7 DEF Current
<1>11. ReqsOK(breqs') /\ Len(breqs') = n + 1 /\ breqs'[n + 1] = r
  BY <1>1, <1>2, <1>8, <1>10, ReqsAppend
<1> HIDE DEF n
<1>12. IsBios(bios') /\ bios'.status = "ACTIVE" /\ bios'.id = id /\ bios'.code = code /\ bios'.params = params
  <2> DEFINE b == [status |-> "ACTIVE", id |-> id, code |-> code, params |-> params, result |-> NoResult]
  <2>1. b \in [status : {"INACTIVE", "ACTIVE", "COMPLETE"}, id : 0 .. BIdMod - 1, code : {code},
               params : [1 .. 4 -> Nat], result : {NoResult}]
    BY <1>3, <1>4, <1>5
  <2>2. b.status = "ACTIVE" /\ b.id = id /\ b.code = code /\ b.params = params
    OBVIOUS
  <2>3. bios' = b
    BY <1>1
  <2> HIDE DEF b
  <2>4. IsBios(b)
    BY <2>1 DEF IsBios
  <2> QED
    BY <2>2, <2>3, <2>4
<1>13. Current(bios', breqs', binit', bmem')
  <2>1. Len(breqs') > 0
    BY <1>9, <1>11
  <2> QED
    BY <1>7, <1>11, <1>12, <2>1 DEF Current
<1>14. Replied(breply', bios', breqs', bmem')
  <2>1. breply.k \in 0 .. n
    BY <1>2 DEF Replied, n
  <2>2. breply.k \in 0 .. n + 1 /\ breply.k # n + 1
    BY <1>9, <2>1
  <2> QED
    BY <1>1, <1>11, <2>2 DEF Replied
<1>15. BootImageWhole'
  BY <1>1 DEF BiosInv, BootImageWhole
<1> QED
  BY <1>1, <1>2, <1>11, <1>12, <1>13, <1>14, <1>15 DEF BiosInv

(* Every command completes but one. *)
LEMMA DoStatus ==
  ASSUME NEW code, NEW p
  PROVE  Do(code, p).status \in {"COMPLETE", "INACTIVE"} /\ (code = "READ" => Do(code, p) = DoRead(p))
PROOF
<1>1. \A s, m, d, r : Outcome(s, m, d, r).status = s
  BY DEF Outcome
<1>2. /\ DoRead(p).status = "COMPLETE" /\ DoReqMode(p).status = "COMPLETE" /\ DoSetMode(p).status = "COMPLETE"
      /\ DoReqStat(p).status = "COMPLETE" /\ DoGetScd(p).status = "COMPLETE" /\ DoGetVer(p).status = "COMPLETE"
      /\ DoNothing.status = "COMPLETE" /\ DoGetToc2(p).status \in {"COMPLETE", "INACTIVE"}
  BY <1>1 DEF DoRead, DoReqMode, DoSetMode, DoReqStat, DoGetScd, DoGetVer, DoNothing, DoGetToc2
<1> QED
  BY <1>2 DEF Do

(* bios_gdrom_mainloop. *)
LEMMA MainloopKeeps == BiosInv /\ Mainloop => BiosInv'
PROOF
<1> SUFFICES ASSUME BiosInv, Mainloop PROVE BiosInv'
  OBVIOUS
<1> DEFINE o == Do(bios.code, bios.params)
           n == Len(breqs)
           r == CarriedOut(breqs[n], AsFound)
<1>1. CASE BAbort
  BY <1>1, AbortKeeps
<1>2. CASE ~BAbort
  <2>1. /\ bios.status = "ACTIVE" /\ binit /\ bios' = Finished(bios, o.status, o.result)
        /\ bmem' = o.mem /\ breqs' = [breqs EXCEPT ![n] = r]
        /\ bpar' = bpar /\ binit' = binit /\ breply' = breply /\ bimage' = bimage
    BY <1>2 DEF Mainloop, Finished
  <2>2. /\ IsBios(bios) /\ bpar \in BParams /\ ReqsOK(breqs)
        /\ Current(bios, breqs, binit, bmem) /\ Replied(breply, bios, breqs, bmem)
    BY DEF BiosInv
  <2>3. /\ n \in Nat /\ n > 0 /\ n \in 1 .. n /\ breqs[n].done = 0 /\ bios.code = breqs[n].code
        /\ bios.params = breqs[n].params /\ ~breqs[n].old /\ bios.id = breqs[n].id
    BY <2>1, <2>2, ReqsCount DEF Current
  <2>4. o.status \in {"COMPLETE", "INACTIVE"} /\ (bios.code = "READ" => o = DoRead(bios.params))
    BY DoStatus
  <2> HIDE DEF o, n
  <2>5. /\ IsReq(r) /\ r.id = breqs[n].id /\ r.code = breqs[n].code /\ r.params = breqs[n].params
        /\ r.done = 1 /\ r.told = 0 /\ r.before = AsFound /\ r.params \in [1 .. 4 -> Nat]
    <3> DEFINE q == breqs[n]
    <3>1. IsReq(q) /\ q.done = 0 /\ ~q.old
      BY <2>2, <2>3 DEF ReqsOK, n
    <3> HIDE DEF q
    <3>2. PICK C, B : q \in Reqs(C, B)
      BY <3>1 DEF IsReq
    <3>3. q.told = 0
      BY <3>1, <3>2 DEF IsReq, Reqs
    <3> DEFINE u == CarriedOut(q, AsFound)
               D == B \cup {AsFound}
    <3>6. q.done + 1 = 1 /\ q.old = FALSE /\ q.params \in [1 .. 4 -> Nat]
      BY <3>1, <3>2 DEF Reqs
    <3>7. u = [q EXCEPT !.done = 1, !.before = AsFound, !.late = FALSE]
      BY <3>6, Zenon DEF CarriedOut
    <3>8. q \in Reqs(C, D) /\ AsFound \in D
      BY <3>2 DEF Reqs
    <3> HIDE DEF u, D
    <3>4. /\ u \in Reqs(C, D) /\ u.id = q.id /\ u.code = q.code /\ u.params = q.params
          /\ u.done = 1 /\ u.told = q.told /\ u.before = AsFound /\ q.params \in [1 .. 4 -> Nat]
      <4> DEFINE one == 1
                 v == [q EXCEPT !.done = one]
                 w == [v EXCEPT !.before = AsFound]
      <4>0. one \in 0 .. 1
        OBVIOUS
      <4>2. u = [w EXCEPT !.late = FALSE]
        BY <3>7
      <4> HIDE DEF one
      <4>1. /\ v \in Reqs(C, D) /\ v.id = q.id /\ v.code = q.code /\ v.params = q.params
            /\ v.done = one /\ v.told = q.told
        BY <3>8, <4>0 DEF Reqs
      <4> HIDE DEF v
      <4>3. /\ w \in Reqs(C, D) /\ w.id = v.id /\ w.code = v.code /\ w.params = v.params
            /\ w.done = v.done /\ w.told = v.told /\ w.before = AsFound
        BY <3>8, <4>1 DEF Reqs
      <4> HIDE DEF w
      <4>4. /\ u \in Reqs(C, D) /\ u.id = w.id /\ u.code = w.code /\ u.params = w.params
            /\ u.done = w.done /\ u.told = w.told /\ u.before = w.before
        BY <4>2, <4>3 DEF Reqs
      <4> QED
        BY <3>6, <4>1, <4>3, <4>4 DEF one
    <3>5. IsReq(u)
      BY <3>3, <3>4 DEF IsReq
    <3> QED
      BY <3>3, <3>4, <3>5 DEF u, q
  <2> HIDE DEF r
  <2>6. ReqsOK(breqs') /\ Len(breqs') = n /\ breqs'[n] = r
    <3>1. n \in 1 .. Len(breqs)
      BY <2>3 DEF n
    <3>2. /\ ReqsOK([breqs EXCEPT ![n] = r]) /\ Len([breqs EXCEPT ![n] = r]) = Len(breqs)
          /\ \A k \in 1 .. Len(breqs) : [breqs EXCEPT ![n] = r][k] = IF k = n THEN r ELSE breqs[k]
      BY <2>2, <2>5, <3>1, ReqsChange
    <3> QED
      BY <2>1, <3>1, <3>2 DEF n
  <2>7. /\ IsBios(bios') /\ bios'.status = o.status /\ bios'.result = o.result /\ bios'.id = bios.id
    <3>1. o.status \in {"INACTIVE", "ACTIVE", "COMPLETE"}
      BY <2>4
    <3> QED
      BY <2>1, <2>2, <3>1, BiosBecomes
  <2>8. r.code = "READ" => Filled(r, bios'.result, bmem')
    <3>1. SUFFICES ASSUME r.code = "READ" PROVE Filled(r, o.result, o.mem)
      BY <2>1, <2>7
    <3>2. o = DoRead(r.params)
      BY <2>3, <2>4, <2>5, <3>1
    <3> QED
      BY <2>5, <3>2, ReadFills
  <2>9. Current(bios', breqs', binit', bmem')
    BY <2>3, <2>4, <2>5, <2>6, <2>7, <2>8 DEF Current
  <2>10. Replied(breply', bios', breqs', bmem')
    <3>1. breply.k \in 0 .. n /\ (breply.k = n /\ breply.k # 0 => breply.status # "COMPLETE")
      BY <2>1, <2>2 DEF Replied, n
    <3> QED
      BY <2>1, <2>6, <3>1 DEF Replied
  <2>11. BootImageWhole'
    BY <2>1 DEF BiosInv, BootImageWhole
  <2> QED
    BY <2>1, <2>2, <2>6, <2>7, <2>9, <2>10, <2>11 DEF BiosInv
<1> QED
  BY <1>1, <1>2

(* GDROM_CHECK_COMMAND. *)
LEMMA CheckKeeps ==
  ASSUME BiosInv, NEW k \in DOMAIN breqs, k > Len(breqs) - 2, CheckCommand(k)
  PROVE  BiosInv'
PROOF
<1> DEFINE n == Len(breqs)
           mine == breqs[k].id = bios.id
           status == IF mine THEN bios.status ELSE "ERROR"
           told == IF status = "COMPLETE" THEN breqs[k].told + 1 ELSE breqs[k].told
           r == [breqs[k] EXCEPT !.told = told]
           answer == [k |-> k, status |-> status, result |-> IF mine THEN bios.result ELSE <<5, 0, 0, 0>>]
<1>1. /\ binit /\ breply' = answer
      /\ bios' = IF mine THEN Finished(bios, "INACTIVE", NoResult) ELSE bios
      /\ bpar' = bpar /\ bmem' = bmem /\ binit' = binit /\ bimage' = bimage
  BY DEF CheckCommand, Finished
<1>2. breqs' = [breqs EXCEPT ![k] = r]
  BY DEF CheckCommand
<1>3. /\ IsBios(bios) /\ bpar \in BParams /\ ReqsOK(breqs)
      /\ Current(bios, breqs, binit, bmem) /\ Replied(breply, bios, breqs, bmem)
  BY DEF BiosInv
<1>4. n \in Nat /\ k \in 1 .. n /\ n \in 1 .. n /\ k \in {n - 1, n}
  BY <1>3, ReqsCount
<1>5. answer.k = k /\ answer.status = status /\ (mine => answer.result = bios.result)
  OBVIOUS
<1> HIDE DEF answer
<1>6. mine <=> k = n
  <2>1. breqs[n].id = bios.id
    BY <1>3, <1>4 DEF Current
  <2>2. CASE k = n
    BY <2>1, <2>2
  <2>3. CASE k = n - 1
    <3>1. k \in 1 .. n - 1 /\ k + 1 = n /\ k # n
      BY <1>4, <2>3
    <3>2. breqs[k].id # breqs[n].id
      BY <1>3, <3>1 DEF ReqsOK
    <3> QED
      BY <2>1, <3>1, <3>2
  <2> QED
    BY <1>4, <2>2, <2>3
<1> HIDE DEF mine
<1>7. status = "COMPLETE" => k = n /\ bios.status = "COMPLETE" /\ breqs[n].done = 1 /\ breqs[n].told = 0
                             /\ (breqs[n].code = "READ" => Filled(breqs[n], bios.result, bmem))
  BY <1>1, <1>3, <1>6 DEF Current
<1> HIDE DEF status
<1>8. IsReq(breqs[k])
  BY <1>3, <1>4 DEF ReqsOK
<1>9. /\ IsReq(r) /\ r.id = breqs[k].id /\ r.code = breqs[k].code /\ r.params = breqs[k].params
      /\ r.done = breqs[k].done /\ r.before = breqs[k].before /\ r.old = breqs[k].old
      /\ (status # "COMPLETE" => r.told = breqs[k].told)
  <2> DEFINE q == breqs[k]
             u == [q EXCEPT !.told = told]
  <2>1. PICK C, B : q \in Reqs(C, B)
    BY <1>8 DEF IsReq
  <2>2. q.told \in 0 .. 1 /\ q.done \in 0 .. 1 /\ q.told <= q.done
    BY <1>8, <2>1 DEF Reqs, IsReq
  <2>3. told \in 0 .. 1 /\ told <= q.done /\ (status # "COMPLETE" => told = q.told)
    BY <1>7, <2>2
  <2> HIDE DEF q, told
  <2>4. /\ u \in Reqs(C, B) /\ u.id = q.id /\ u.code = q.code /\ u.params = q.params
        /\ u.done = q.done /\ u.told = told /\ u.before = q.before /\ u.old = q.old
    BY <2>1, <2>3 DEF Reqs
  <2> HIDE DEF u
  <2>5. IsReq(u)
    BY <2>3, <2>4 DEF IsReq
  <2> QED
    BY <2>3, <2>4, <2>5 DEF u, q
<1> HIDE DEF r, told
<1>10. /\ ReqsOK(breqs') /\ Len(breqs') = n
       /\ \A j \in 1 .. n : breqs'[j] = IF j = k THEN r ELSE breqs[j]
  <2>1. /\ ReqsOK([breqs EXCEPT ![k] = r]) /\ Len([breqs EXCEPT ![k] = r]) = Len(breqs)
        /\ \A j \in 1 .. Len(breqs) : [breqs EXCEPT ![k] = r][j] = IF j = k THEN r ELSE breqs[j]
    BY <1>3, <1>4, <1>9, ReqsChange
  <2> QED
    BY <1>2, <2>1
<1> DEFINE last == breqs[n]
           next == breqs'[n]
<1>11. /\ next.id = last.id /\ next.code = last.code /\ next.params = last.params
       /\ next.done = last.done /\ next.before = last.before /\ next.old = last.old
       /\ (status # "COMPLETE" => next.told = last.told)
  BY <1>4, <1>9, <1>10
<1>12. \A result, mem : Filled(next, result, mem) <=> Filled(last, result, mem)
  <2>1. next.params = last.params /\ next.before = last.before
    BY <1>11
  <2> HIDE DEF next, last
  <2> QED
    BY <2>1, Zenon DEF Filled
<1>13. BootImageWhole'
  BY <1>1 DEF BiosInv, BootImageWhole
<1>14. CASE k = n
  <2>1. IsBios(bios') /\ bios'.status = "INACTIVE" /\ bios'.id = bios.id
    BY <1>1, <1>3, <1>6, <1>14, BiosBecomes
  <2>2. next.id = bios.id
    BY <1>3, <1>4, <1>11 DEF Current
  <2>3. Current(bios', breqs', binit', bmem')
    BY <1>10, <2>1, <2>2 DEF Current
  <2>4. status = "COMPLETE" /\ next.code = "READ" => Filled(next, answer.result, bmem)
    BY <1>5, <1>6, <1>7, <1>11, <1>12, <1>14
  <2>5. Replied(breply', bios', breqs', bmem')
    <3>1. n \in 0 .. n
      BY <1>4
    <3> HIDE DEF next, last, n
    <3>2. breply'.k = n /\ breply'.status = status /\ breply'.result = answer.result /\ bmem' = bmem /\ Len(breqs') = n
      BY <1>1, <1>5, <1>10, <1>14
    <3> QED
      BY <2>1, <2>4, <3>1, <3>2 DEF Replied, next
  <2> QED
    BY <1>1, <1>3, <1>10, <1>13, <2>1, <2>3, <2>5 DEF BiosInv
<1>15. CASE k # n
  <2>1. bios' = bios /\ status # "COMPLETE" /\ next = last
    BY <1>1, <1>4, <1>6, <1>7, <1>10, <1>15
  <2>2. Len(breqs') = n /\ breqs'[n] = breqs[n]
    BY <1>10, <2>1
  <2>3. Current(bios', breqs', binit', bmem')
    BY <1>1, <1>3, <2>1, <2>2 DEF Current
  <2>4. Replied(breply', bios', breqs', bmem')
    <3>1. breply'.k = k /\ k # n /\ k \in 0 .. n
      BY <1>1, <1>4, <1>5, <1>15
    <3> QED
      BY <2>2, <3>1 DEF Replied
  <2> QED
    BY <1>1, <1>3, <1>10, <1>13, <2>1, <2>3, <2>4 DEF BiosInv
<1> QED
  BY <1>14, <1>15

(* Every step keeps the invariant. *)
LEMMA BiosStep == BiosInv /\ [BNext]_bvars => BiosInv'
PROOF
<1> SUFFICES ASSUME BiosInv, [BNext]_bvars PROVE BiosInv'
  OBVIOUS
<1>1. ASSUME NEW size \in BSizes, NEW xa \in BOOLEAN, BBoot(size, xa) PROVE BiosInv'
  BY <1>1, BootKeeps
<1>2. CASE BootFails
  BY <1>2, AbortKeeps DEF BootFails
<1>3. CASE Unsupported
  BY <1>3, AbortKeeps DEF Unsupported
<1>4. CASE AbortCommand
  <2>1. /\ bios.status = "ACTIVE" /\ breply' = NoReply
        /\ UNCHANGED <<bios, bpar, bmem, bmode, bdrive, binit, breqs, bimage, bfatal>>
    BY <1>4 DEF AbortCommand
  <2>2. NoReply.k = 0
    BY DEF NoReply
  <2>3. 0 \in 0 .. Len(breqs)
    BY ReqsCount DEF BiosInv
  <2>4. Replied(breply', bios', breqs', bmem')
    BY <2>1, <2>2, <2>3 DEF Replied
  <2>5. Current(bios', breqs', binit', bmem') /\ BootImageWhole'
    BY <2>1 DEF BiosInv, BootImageWhole
  <2> QED
    BY <2>1, <2>4, <2>5 DEF BiosInv
<1>5. ASSUME NEW p \in BParams, SetParams(p) PROVE BiosInv'
  <2>1. bpar' \in BParams /\ UNCHANGED <<bios, bmem, bmode, bdrive, binit, breqs, breply, bimage, bfatal>>
    BY <1>5 DEF SetParams
  <2> QED
    BY <2>1 DEF BiosInv, BootImageWhole
<1>6. CASE GdInit
  BY <1>6, InitKeeps
<1>7. ASSUME NEW code \in BCodes \cup {"STOP"}, NEW null \in BOOLEAN, SendCommand(code, null) PROVE BiosInv'
  BY <1>7, SendKeeps
<1>8. CASE Mainloop
  BY <1>8, MainloopKeeps
<1>9. ASSUME NEW k \in DOMAIN breqs, k > Len(breqs) - 2, CheckCommand(k) PROVE BiosInv'
  BY <1>9, CheckKeeps
<1>10. CASE LoadBin
  BY <1>10, LoadBinKeeps
<1>11. CASE UNCHANGED bvars
  <2>1. UNCHANGED <<bios, bpar, bmem, bmode, bdrive, binit, breqs, breply, bimage, bfatal>>
    BY <1>11 DEF bvars
  <2> QED
    BY <2>1 DEF BiosInv, BootImageWhole
<1> QED
  BY <1>1, <1>2, <1>3, <1>4, <1>5, <1>6, <1>7, <1>8, <1>9, <1>10, <1>11 DEF BNext

(* The invariant says what the property asks. *)
LEMMA BiosInvImplies == BiosInv => BiosExact
PROOF
<1> SUFFICES ASSUME BiosInv PROVE BiosExact
  OBVIOUS
<1>1. ReqsOK(breqs) /\ Replied(breply, bios, breqs, bmem) /\ BootImageWhole
  BY DEF BiosInv
<1>2. ASSUME NEW k \in DOMAIN breqs
      PROVE  /\ breqs[k].id # 0 /\ breqs[k].done <= 1 /\ breqs[k].told <= breqs[k].done /\ ~breqs[k].late
             /\ breply.k = k /\ k = Len(breqs) /\ breply.status = "COMPLETE" /\ breqs[k].code = "READ"
                  => ReadWhole(breqs[k])
  <2>1. k \in 1 .. Len(breqs) /\ IsReq(breqs[k])
    BY <1>1, ReqsCount DEF ReqsOK
  <2> DEFINE r == breqs[k]
  <2>2. /\ r.id # 0 /\ r.done <= 1 /\ r.told <= r.done /\ ~r.late /\ r.params \in [1 .. 4 -> Nat]
    <3> HIDE DEF r
    <3>1. IsReq(r)
      BY <2>1 DEF r
    <3>2. PICK C, B : r \in Reqs(C, B)
      BY <3>1 DEF IsReq
    <3>3. r.id \in 1 .. BIdMod - 1 /\ r.params \in [1 .. 4 -> Nat] /\ r.done \in 0 .. 1
      BY <3>2 DEF Reqs
    <3>4. r.late = FALSE
      BY <3>2 DEF Reqs
    <3>5. r.told <= r.done
      BY <3>1 DEF IsReq
    <3> QED
      BY <3>3, <3>4, <3>5
  <2>3. ASSUME breply.k = k, k = Len(breqs), breply.status = "COMPLETE", r.code = "READ"
        PROVE  ReadWhole(r)
    <3>1. Filled(r, breply.result, bmem)
      <4>1. k # 0
        BY <2>1
      <4> QED
        BY <1>1, <2>3, <4>1 DEF Replied
    <3> QED
      BY <3>1, FilledWhole
  <2> QED
    BY <2>2, <2>3
<1>3. RequestsExact
  BY <1>2 DEF RequestsExact
<1> QED
  BY <1>1, <1>3 DEF BiosExact

(* A request that GDROM_CHECK_COMMAND reports as complete was carried out  *)
(* exactly once, with the parameters it was sent with and in the memory of *)
(* the game that sent it; a read has left each frame of its range at its   *)
(* place and nothing else; the boot file reaches memory with no byte lost  *)
(* or doubled (guest/bios).                                                *)
THEOREM BiosHolds == BSpec => []BiosExact
PROOF
<1>1. BInit => BiosInv
  BY BiosStart
<1>2. BiosInv /\ [BNext]_bvars => BiosInv'
  BY BiosStep
<1>3. BiosInv => BiosExact
  BY BiosInvImplies
<1> QED
  BY <1>1, <1>2, <1>3, PTL DEF BSpec

-----------------------------------------------------------------------------
(* Disc images: sums *)

\* f holds the sums of the first n numbers of s.
SumsOf(s, f, n) == f = [i \in 0 .. n |-> IF i = 0 THEN 0 ELSE f[i - 1] + s[i]]

(* There are such sums. *)
LEMMA SumsExist ==
  ASSUME NEW s, NEW n \in Nat
  PROVE  \E f : SumsOf(s, f, n)
PROOF
<1> DEFINE G == {m \in 0 .. n : \E f : SumsOf(s, f, m)}
<1>1. 0 \in G
  <2> DEFINE f == [k \in 0 .. 0 |-> 0]
  <2>1. f = [k \in 0 .. 0 |-> IF k = 0 THEN 0 ELSE f[k - 1] + s[k]]
    <3>1. \A k \in 0 .. 0 : k = 0
      OBVIOUS
    <3> QED
      BY <3>1
  <2> HIDE DEF f
  <2>2. SumsOf(s, f, 0)
    BY <2>1 DEF SumsOf
  <2> QED
    BY <2>2
<1>2. ASSUME NEW m \in 0 .. n - 1, m \in G PROVE m + 1 \in G
  <2>1. PICK f : f = [k \in 0 .. m |-> IF k = 0 THEN 0 ELSE f[k - 1] + s[k]]
    BY <1>2 DEF SumsOf
  <2> DEFINE g == [k \in 0 .. m + 1 |-> IF k = 0 THEN 0 ELSE f[k - 1] + s[k]]
  <2>2. ASSUME NEW k \in 0 .. m + 1
        PROVE  (IF k = 0 THEN 0 ELSE f[k - 1] + s[k]) = (IF k = 0 THEN 0 ELSE g[k - 1] + s[k])
    <3>1. CASE k = 0
      BY <3>1
    <3>2. CASE k # 0
      <4>1. k - 1 \in 0 .. m /\ k - 1 \in 0 .. m + 1
        BY <3>2
      <4>2. f[k - 1] = (IF k - 1 = 0 THEN 0 ELSE f[k - 1 - 1] + s[k - 1])
        BY <2>1, <4>1
      <4>3. g[k - 1] = (IF k - 1 = 0 THEN 0 ELSE f[k - 1 - 1] + s[k - 1])
        BY <4>1
      <4> QED
        BY <4>2, <4>3
    <3> QED
      BY <3>1, <3>2
  <2>3. g = [k \in 0 .. m + 1 |-> IF k = 0 THEN 0 ELSE g[k - 1] + s[k]]
    <3> DEFINE h == [k \in 0 .. m + 1 |-> IF k = 0 THEN 0 ELSE g[k - 1] + s[k]]
    <3>1. \A k \in 0 .. m + 1 : g[k] = h[k]
      BY <2>2
    <3> QED
      BY <3>1
  <2> HIDE DEF g
  <2>4. SumsOf(s, g, m + 1)
    BY <2>3 DEF SumsOf
  <2>5. m + 1 \in 0 .. n
    OBVIOUS
  <2> QED
    BY <2>4, <2>5
<1>3. G \in SUBSET (0 .. n)
  OBVIOUS
<1> HIDE DEF G
<1>4. n \in G
  <2>1. \A i \in 0 .. n : i \in G
    BY <1>1, <1>2, <1>3, CountsUp
  <2> QED
    BY <2>1
<1> QED
  BY <1>4 DEF G

(* SumOf is the last of them. *)
LEMMA SumIsLast ==
  ASSUME NEW s, NEW n \in Nat
  PROVE  \E f : SumsOf(s, f, n) /\ SumOf(s, n) = f[n]
PROOF
<1> DEFINE sum == CHOOSE f : f = [i \in 0 .. n |-> IF i = 0 THEN 0 ELSE f[i - 1] + s[i]]
<1>1. SumOf(s, n) = sum[n]
  BY DEF SumOf
<1>2. \E f : f = [i \in 0 .. n |-> IF i = 0 THEN 0 ELSE f[i - 1] + s[i]]
  BY SumsExist DEF SumsOf
<1>3. sum = [i \in 0 .. n |-> IF i = 0 THEN 0 ELSE sum[i - 1] + s[i]]
  BY <1>2, Zenon
<1> HIDE DEF sum
<1> QED
  BY <1>1, <1>3 DEF SumsOf

(* A longer sum has the shorter one in it. *)
LEMMA SumsAgree ==
  ASSUME NEW s, NEW m \in Nat, NEW n \in Nat, m <= n, NEW f, SumsOf(s, f, m), NEW g, SumsOf(s, g, n)
  PROVE  f[m] = g[m]
PROOF
<1> DEFINE G == {i \in 0 .. m : f[i] = g[i]}
<1>1. 0 \in G
  BY DEF SumsOf
<1>2. ASSUME NEW i \in 0 .. m - 1, i \in G PROVE i + 1 \in G
  <2>1. i + 1 \in 0 .. m /\ i + 1 \in 0 .. n /\ i + 1 # 0 /\ (i + 1) - 1 = i
    OBVIOUS
  <2>2. f[i + 1] = f[i] + s[i + 1]
    BY <2>1 DEF SumsOf
  <2>3. g[i + 1] = g[i] + s[i + 1]
    BY <2>1 DEF SumsOf
  <2> QED
    BY <1>2, <2>1, <2>2, <2>3
<1>3. G \in SUBSET (0 .. m)
  OBVIOUS
<1>4. \A i \in 0 .. m : i \in G
  <2> HIDE DEF G
  <2> QED
    BY <1>1, <1>2, <1>3, CountsUp
<1> QED
  BY <1>4

(* The sum of no numbers, and that of one more. *)
LEMMA SumStep ==
  ASSUME NEW s
  PROVE  /\ SumOf(s, 0) = 0
         /\ \A n \in Nat : SumOf(s, n + 1) = SumOf(s, n) + s[n + 1]
PROOF
<1>1. SumOf(s, 0) = 0
  <2>1. PICK f : SumsOf(s, f, 0) /\ SumOf(s, 0) = f[0]
    BY SumIsLast
  <2> QED
    BY <2>1 DEF SumsOf
<1>2. ASSUME NEW n \in Nat PROVE SumOf(s, n + 1) = SumOf(s, n) + s[n + 1]
  <2>1. PICK f : SumsOf(s, f, n) /\ SumOf(s, n) = f[n]
    BY SumIsLast
  <2>2. PICK g : SumsOf(s, g, n + 1) /\ SumOf(s, n + 1) = g[n + 1]
    BY SumIsLast
  <2>3. f[n] = g[n]
    BY <2>1, <2>2, SumsAgree
  <2>4. g[n + 1] = g[n] + s[n + 1]
    <3>1. n + 1 \in 0 .. n + 1 /\ n + 1 # 0 /\ (n + 1) - 1 = n
      OBVIOUS
    <3> QED
      BY <2>2, <3>1 DEF SumsOf
  <2> QED
    BY <2>1, <2>2, <2>3, <2>4
<1> QED
  BY <1>1, <1>2

(* Sums of natural numbers are natural, and grow. *)
LEMMA SumGrows ==
  ASSUME NEW n \in Nat, NEW s, \A i \in 1 .. n : s[i] \in Nat
  PROVE  /\ \A i \in 0 .. n : SumOf(s, i) \in Nat
         /\ \A i, j \in 0 .. n : i <= j => SumOf(s, i) <= SumOf(s, j)
PROOF
<1>1. ASSUME NEW i \in 0 .. n - 1 PROVE SumOf(s, i + 1) = SumOf(s, i) + s[i + 1] /\ s[i + 1] \in Nat
  <2>1. i \in Nat /\ i + 1 \in 1 .. n
    OBVIOUS
  <2> QED
    BY <2>1, SumStep
<1>2. \A i \in 0 .. n : SumOf(s, i) \in Nat
  <2> DEFINE G == {i \in 0 .. n : SumOf(s, i) \in Nat}
  <2>1. 0 \in G
    BY SumStep
  <2>2. ASSUME NEW i \in 0 .. n - 1, i \in G PROVE i + 1 \in G
    BY <1>1, <2>2
  <2>3. G \in SUBSET (0 .. n)
    OBVIOUS
  <2>4. \A i \in 0 .. n : i \in G
    <3> HIDE DEF G
    <3> QED
      BY <2>1, <2>2, <2>3, CountsUp
  <2> QED
    BY <2>4
<1>3. ASSUME NEW i \in 0 .. n, NEW j \in 0 .. n, i <= j PROVE SumOf(s, i) <= SumOf(s, j)
  <2> DEFINE G == {k \in 0 .. j - i : SumOf(s, i) <= SumOf(s, i + k)}
  <2>1. 0 \in G
    <3>1. SumOf(s, i) \in Nat /\ i + 0 = i
      BY <1>2
    <3> QED
      BY <1>3, <3>1
  <2>2. ASSUME NEW k \in 0 .. (j - i) - 1, k \in G PROVE k + 1 \in G
    <3>1. i + k \in 0 .. n - 1 /\ i + k \in 0 .. n /\ (i + k) + 1 = i + (k + 1) /\ (i + k) + 1 \in 0 .. n
      BY <1>3
    <3>2. SumOf(s, (i + k) + 1) = SumOf(s, i + k) + s[(i + k) + 1] /\ s[(i + k) + 1] \in Nat
      BY <1>1, <3>1
    <3>3. SumOf(s, i) \in Nat /\ SumOf(s, i + k) \in Nat
      BY <1>2, <3>1
    <3>4. SumOf(s, i) <= SumOf(s, i + k)
      BY <2>2
    <3>5. SumOf(s, i) <= SumOf(s, i + (k + 1))
      BY <3>1, <3>2, <3>3, <3>4
    <3> QED
      BY <3>5
  <2>3. G \in SUBSET (0 .. j - i) /\ j - i \in Nat
    BY <1>3
  <2>4. \A k \in 0 .. j - i : k \in G
    <3> HIDE DEF G
    <3> QED
      BY <2>1, <2>2, <2>3, CountsUp
  <2>5. j - i \in 0 .. j - i /\ i + (j - i) = j
    BY <1>3
  <2>6. j - i \in G
    BY <2>4, <2>5
  <2> QED
    BY <2>5, <2>6
<1> QED
  BY <1>2, <1>3

(* Two things that start alike and go on alike end alike. *)
LEMMA GoOnAlike ==
  ASSUME NEW n \in Nat, NEW f, NEW g, f[0] = g[0], \A i \in 0 .. n - 1 : f[i] = g[i] => f[i + 1] = g[i + 1]
  PROVE  f[n] = g[n]
PROOF
<1> DEFINE G == {i \in 0 .. n : f[i] = g[i]}
<1>1. 0 \in G
  OBVIOUS
<1>2. ASSUME NEW i \in 0 .. n - 1, i \in G PROVE i + 1 \in G
  BY <1>2
<1>3. G \in SUBSET (0 .. n)
  OBVIOUS
<1>4. \A i \in 0 .. n : i \in G
  <2> HIDE DEF G
  <2> QED
    BY <1>1, <1>2, <1>3, CountsUp
<1> QED
  BY <1>4

(* A table grows by its next row. *)
LEMMA TableGrows ==
  ASSUME NEW i \in Nat, NEW f
  PROVE  Append([k \in 1 .. i |-> f[k]], f[i + 1]) = [k \in 1 .. i + 1 |-> f[k]]
PROOF
<1> DEFINE S == {f[k] : k \in 1 .. i + 1}
           t == [k \in 1 .. i |-> f[k]]
           u == [k \in 1 .. i + 1 |-> f[k]]
           a == Append(t, f[i + 1])
<1>1. t \in Seq(S) /\ Len(t) = i
  <2>1. \A k \in 1 .. i : f[k] \in S
    OBVIOUS
  <2>2. t \in [1 .. i -> S]
    BY <2>1
  <2> QED
    BY <2>2
<1>2. f[i + 1] \in S
  OBVIOUS
<1>3. /\ a \in Seq(S) /\ Len(a) = i + 1
      /\ \A k \in 1 .. i : a[k] = t[k]
      /\ a[i + 1] = f[i + 1]
  <2> HIDE DEF S, t
  <2> QED
    BY <1>1, <1>2, AppendProperties
<1>4. \A k \in 1 .. i + 1 : a[k] = u[k]
  BY <1>3
<1>5. DOMAIN a = 1 .. i + 1 /\ a = [k \in 1 .. i + 1 |-> a[k]]
  BY <1>3
<1> HIDE DEF a
<1> QED
  BY <1>4, <1>5

-----------------------------------------------------------------------------
(* Disc images: what the parsers make of them *)

(* The tracks of an image. *)
LEMMA TrackTypes ==
  ASSUME NEW img, WellMade(img)
  PROVE  /\ Len(img.tracks) \in Nat /\ DOMAIN img.tracks = 1 .. Len(img.tracks)
         /\ \A n \in DOMAIN img.tracks : img.tracks[n] \in DiscTracks
         /\ img.kind \in {"gdi", "cdi", "chd"} /\ img.boot \in DOMAIN img.tracks
PROOF
<1>1. img.tracks \in Seq(DiscTracks) /\ img.kind \in {"gdi", "cdi", "chd"} /\ img.boot \in DOMAIN img.tracks
  BY DEF WellMade
<1> QED
  BY <1>1

(* What a track is, one by one. *)
LEMMA TrackFields ==
  ASSUME NEW t \in DiscTracks
  PROVE  /\ t.mode \in 0 .. 2 /\ t.size \in Nat /\ t.size > 0 /\ t.frames \in Nat /\ t.frames > 0
         /\ t.lba \in Nat /\ t.pregap \in Nat /\ t.skip \in Nat
PROOF
  BY DEF DiscTracks

\* The numbers that are summed up.
CdiSizes(img) == [i \in DOMAIN img.tracks |-> TotalLen(img.tracks[i]) * img.tracks[i].size]
ChdFrames(img) == [i \in DOMAIN img.tracks |-> img.tracks[i].frames]
ChdUnits(img) == [i \in DOMAIN img.tracks |-> AlignUp(img.tracks[i].frames)]
ChdSizes(img) == [i \in DOMAIN img.tracks |-> AlignUp(img.tracks[i].frames) * UnitBytes]

\* A track of each format as it should be laid out.
CdiLaid(img) ==
  [n \in 1 .. Len(img.tracks) |->
     LaidOut(img.tracks[n].mode, img.tracks[n].size, DiscStart(img, n), FileStart(img, n) - DiscStart(img, n) * img.tracks[n].size)]
ChdLaid(img) ==
  [n \in 1 .. Len(img.tracks) |->
     LaidOut(img.tracks[n].mode, img.tracks[n].size, DiscStart(img, n), DiscStart(img, n) - SumOf(ChdUnits(img), n - 1))]

(* cdi_parse: the running offset is the sum of what came before. *)
LEMMA CdiParsed ==
  ASSUME NEW img, WellMade(img), img.kind = "cdi"
  PROVE  CdiTracks(img) = CdiLaid(img)
PROOF
<1> DEFINE n == Len(img.tracks)
           laid == CdiLaid(img)
           sizes == CdiSizes(img)
           closed == [i \in 0 .. n |-> [offset |-> SumOf(sizes, i), tracks |-> [k \in 1 .. i |-> laid[k]]]]
           after == CHOOSE f : f = [i \in 0 .. n |-> IF i = 0 THEN [offset |-> 0, tracks |-> <<>>] ELSE CdiTrack(f[i - 1], img.tracks[i])]
<1>1. n \in Nat /\ DOMAIN img.tracks = 1 .. n /\ \A k \in 1 .. n : img.tracks[k] \in DiscTracks
  BY TrackTypes
<1>2. CdiTracks(img) = after[n].tracks
  BY DEF CdiTracks
<1>3. closed[0] = [offset |-> 0, tracks |-> <<>>]
  <2>1. SumOf(sizes, 0) = 0 /\ 0 \in 0 .. n
    BY <1>1, SumStep
  <2>2. [k \in 1 .. 0 |-> laid[k]] = <<>>
    OBVIOUS
  <2> QED
    BY <2>1, <2>2
<1>4. ASSUME NEW i \in 0 .. n - 1 PROVE closed[i + 1] = CdiTrack(closed[i], img.tracks[i + 1])
  <2> DEFINE t == img.tracks[i + 1]
             fad == t.pregap + t.lba
             nibble == SumOf(sizes, i) + t.pregap * t.size
  <2>1. i + 1 \in 1 .. n /\ i + 1 \in 0 .. n /\ i \in 0 .. n /\ i \in Nat /\ t \in DiscTracks /\ (i + 1) - 1 = i
    BY <1>1
  <2>2. CdiTrack(closed[i], t) = [offset |-> SumOf(sizes, i) + TotalLen(t) * t.size,
                                  tracks |-> Append([k \in 1 .. i |-> laid[k]], LaidOut(t.mode, t.size, fad, nibble - fad * t.size))]
    <3> HIDE DEF laid, sizes
    <3> QED
      BY <2>1 DEF CdiTrack
  <2>3. SumOf(sizes, i + 1) = SumOf(sizes, i) + TotalLen(t) * t.size
    <3>1. sizes[i + 1] = TotalLen(t) * t.size
      BY <1>1, <2>1 DEF CdiSizes
    <3> HIDE DEF sizes
    <3> QED
      BY <2>1, <3>1, SumStep
  <2>4. laid[i + 1] = LaidOut(t.mode, t.size, fad, nibble - fad * t.size)
    <3>1. DiscStart(img, i + 1) = fad
      <4>1. DiscStart(img, i + 1) = t.lba + t.pregap
        BY DEF DiscStart, ImageKind
      <4>2. t.lba \in Nat /\ t.pregap \in Nat
        BY <2>1, TrackFields
      <4> HIDE DEF t
      <4> QED
        BY <4>1, <4>2
    <3>2. FileStart(img, i + 1) = nibble
      BY <2>1 DEF FileStart, ImageKind, CdiSizes
    <3> HIDE DEF fad, nibble
    <3> QED
      BY <2>1, <3>1, <3>2 DEF CdiLaid
  <2> HIDE DEF laid, sizes, t, nibble, fad
  <2>5. Append([k \in 1 .. i |-> laid[k]], laid[i + 1]) = [k \in 1 .. i + 1 |-> laid[k]]
    BY <2>1, TableGrows
  <2>6. closed[i + 1] = [offset |-> SumOf(sizes, i + 1), tracks |-> [k \in 1 .. i + 1 |-> laid[k]]]
    BY <2>1
  <2> HIDE DEF closed
  <2> QED
    BY <2>2, <2>3, <2>4, <2>5, <2>6 DEF t
<1> HIDE DEF laid, sizes
<1>5. closed = [i \in 0 .. n |-> IF i = 0 THEN [offset |-> 0, tracks |-> <<>>] ELSE CdiTrack(closed[i - 1], img.tracks[i])]
  <2> DEFINE h == [i \in 0 .. n |-> IF i = 0 THEN [offset |-> 0, tracks |-> <<>>] ELSE CdiTrack(closed[i - 1], img.tracks[i])]
  <2>1. ASSUME NEW i \in 0 .. n PROVE closed[i] = h[i]
    <3>1. CASE i = 0
      BY <1>3, <3>1
    <3>2. CASE i # 0
      <4>1. i - 1 \in 0 .. n - 1 /\ (i - 1) + 1 = i
        BY <1>1, <3>2
      <4>2. closed[(i - 1) + 1] = CdiTrack(closed[i - 1], img.tracks[(i - 1) + 1])
        BY <1>4, <4>1
      <4>3. h[i] = CdiTrack(closed[i - 1], img.tracks[i])
        BY <3>2
      <4> HIDE DEF closed, h
      <4> QED
        BY <4>1, <4>2, <4>3
    <3> QED
      BY <3>1, <3>2
  <2>2. closed = [i \in 0 .. n |-> closed[i]]
    OBVIOUS
  <2>3. h = [i \in 0 .. n |-> h[i]]
    OBVIOUS
  <2>4. closed = h
    <3> HIDE DEF closed, h
    <3> QED
      BY <2>1, <2>2, <2>3
  <2> QED
    BY <2>4
<1>6. closed[n] = [offset |-> SumOf(sizes, n), tracks |-> [k \in 1 .. n |-> laid[k]]]
  BY <1>1
<1> HIDE DEF closed
<1>7. \E f : f = [i \in 0 .. n |-> IF i = 0 THEN [offset |-> 0, tracks |-> <<>>] ELSE CdiTrack(f[i - 1], img.tracks[i])]
  BY <1>5
<1>8. after = [i \in 0 .. n |-> IF i = 0 THEN [offset |-> 0, tracks |-> <<>>] ELSE CdiTrack(after[i - 1], img.tracks[i])]
  BY <1>7, Zenon
<1> HIDE DEF after
<1>9. after[0] = closed[0]
  BY <1>1, <1>3, <1>8
<1>10. ASSUME NEW i \in 0 .. n - 1, after[i] = closed[i] PROVE after[i + 1] = closed[i + 1]
  <2>1. i + 1 \in 0 .. n /\ i + 1 # 0 /\ (i + 1) - 1 = i
    BY <1>1
  <2>2. after[i + 1] = CdiTrack(after[i], img.tracks[i + 1])
    BY <1>8, <2>1
  <2> QED
    BY <1>4, <1>10, <2>2
<1>11. after[n] = closed[n]
  BY <1>1, <1>9, <1>10, GoOnAlike
<1>12. [k \in 1 .. n |-> laid[k]] = laid
  BY DEF laid, CdiLaid
<1> QED
  BY <1>2, <1>6, <1>11, <1>12 DEF laid

(* chd_parse: so are the running addresses of frames and of blocks. *)
LEMMA ChdParsed ==
  ASSUME NEW img, WellMade(img), img.kind = "chd"
  PROVE  ChdTracks(img) = ChdLaid(img)
PROOF
<1> DEFINE n == Len(img.tracks)
           laid == ChdLaid(img)
           units == ChdUnits(img)
           frames == ChdFrames(img)
           closed == [i \in 0 .. n |-> [cad |-> SumOf(units, i), fad |-> DcPregap + SumOf(frames, i), tracks |-> [k \in 1 .. i |-> laid[k]]]]
           after == CHOOSE f : f = [i \in 0 .. n |-> IF i = 0 THEN [cad |-> 0, fad |-> DcPregap, tracks |-> <<>>] ELSE ChdTrack(f[i - 1], img.tracks[i])]
<1>1. n \in Nat /\ DOMAIN img.tracks = 1 .. n /\ \A k \in 1 .. n : img.tracks[k] \in DiscTracks
  BY TrackTypes
<1>2. ChdTracks(img) = after[n].tracks
  BY DEF ChdTracks
<1>3. closed[0] = [cad |-> 0, fad |-> DcPregap, tracks |-> <<>>]
  <2>1. SumOf(units, 0) = 0 /\ DcPregap + SumOf(frames, 0) = DcPregap /\ 0 \in 0 .. n
    <3>1. SumOf(units, 0) = 0 /\ SumOf(frames, 0) = 0
      BY SumStep
    <3> HIDE DEF units, frames
    <3> QED
      BY <1>1, <3>1, DcAssumption
  <2>2. [k \in 1 .. 0 |-> laid[k]] = <<>>
    OBVIOUS
  <2> QED
    BY <2>1, <2>2
<1>4. ASSUME NEW i \in 0 .. n - 1 PROVE closed[i + 1] = ChdTrack(closed[i], img.tracks[i + 1])
  <2> DEFINE t == img.tracks[i + 1]
             fad == DcPregap + SumOf(frames, i)
             cad == SumOf(units, i)
  <2>1. i + 1 \in 1 .. n /\ i + 1 \in 0 .. n /\ i \in 0 .. n /\ i \in Nat /\ t \in DiscTracks /\ (i + 1) - 1 = i
    BY <1>1
  <2>2. ChdTrack(closed[i], t) = [cad |-> cad + AlignUp(t.frames), fad |-> fad + t.frames,
                                  tracks |-> Append([k \in 1 .. i |-> laid[k]], LaidOut(t.mode, t.size, fad, fad - cad))]
    <3> HIDE DEF laid, units, frames
    <3> QED
      BY <2>1 DEF ChdTrack
  <2>3. SumOf(units, i + 1) = cad + AlignUp(t.frames) /\ DcPregap + SumOf(frames, i + 1) = fad + t.frames
    <3>1. units[i + 1] = AlignUp(t.frames) /\ frames[i + 1] = t.frames
      BY <1>1, <2>1 DEF ChdUnits, ChdFrames
    <3>2. \A k \in 1 .. n : frames[k] \in Nat
      BY <1>1, TrackFields DEF ChdFrames
    <3> HIDE DEF units, frames
    <3>3. SumOf(frames, i) \in Nat
      BY <1>1, <2>1, <3>2, SumGrows
    <3>4. SumOf(units, i + 1) = SumOf(units, i) + units[i + 1] /\ SumOf(frames, i + 1) = SumOf(frames, i) + frames[i + 1]
      BY <2>1, SumStep
    <3>5. t.frames \in Nat /\ DcPregap \in Nat
      BY <2>1, TrackFields, DcAssumption
    <3> HIDE DEF t
    <3> QED
      BY <3>1, <3>3, <3>4, <3>5
  <2>4. laid[i + 1] = LaidOut(t.mode, t.size, fad, fad - cad)
    <3>1. DiscStart(img, i + 1) = fad
      BY <2>1 DEF DiscStart, ImageKind, ChdFrames
    <3> HIDE DEF fad, frames
    <3>2. laid[i + 1] = LaidOut(t.mode, t.size, DiscStart(img, i + 1), DiscStart(img, i + 1) - SumOf(ChdUnits(img), (i + 1) - 1))
      BY <2>1 DEF ChdLaid
    <3> QED
      BY <2>1, <3>1, <3>2
  <2> HIDE DEF laid, units, frames, t, cad, fad
  <2>5. Append([k \in 1 .. i |-> laid[k]], laid[i + 1]) = [k \in 1 .. i + 1 |-> laid[k]]
    BY <2>1, TableGrows
  <2>6. closed[i + 1] = [cad |-> SumOf(units, i + 1), fad |-> DcPregap + SumOf(frames, i + 1), tracks |-> [k \in 1 .. i + 1 |-> laid[k]]]
    BY <2>1
  <2> HIDE DEF closed
  <2> QED
    BY <2>2, <2>3, <2>4, <2>5, <2>6 DEF t
<1> HIDE DEF laid, units, frames
<1>5. closed = [i \in 0 .. n |-> IF i = 0 THEN [cad |-> 0, fad |-> DcPregap, tracks |-> <<>>] ELSE ChdTrack(closed[i - 1], img.tracks[i])]
  <2> DEFINE h == [i \in 0 .. n |-> IF i = 0 THEN [cad |-> 0, fad |-> DcPregap, tracks |-> <<>>] ELSE ChdTrack(closed[i - 1], img.tracks[i])]
  <2>1. ASSUME NEW i \in 0 .. n PROVE closed[i] = h[i]
    <3>1. CASE i = 0
      BY <1>3, <3>1
    <3>2. CASE i # 0
      <4>1. i - 1 \in 0 .. n - 1 /\ (i - 1) + 1 = i
        BY <1>1, <3>2
      <4>2. closed[(i - 1) + 1] = ChdTrack(closed[i - 1], img.tracks[(i - 1) + 1])
        BY <1>4, <4>1
      <4>3. h[i] = ChdTrack(closed[i - 1], img.tracks[i])
        BY <3>2
      <4> HIDE DEF closed, h
      <4> QED
        BY <4>1, <4>2, <4>3
    <3> QED
      BY <3>1, <3>2
  <2>2. closed = [i \in 0 .. n |-> closed[i]]
    OBVIOUS
  <2>3. h = [i \in 0 .. n |-> h[i]]
    OBVIOUS
  <2>4. closed = h
    <3> HIDE DEF closed, h
    <3> QED
      BY <2>1, <2>2, <2>3
  <2> QED
    BY <2>4
<1>6. closed[n] = [cad |-> SumOf(units, n), fad |-> DcPregap + SumOf(frames, n), tracks |-> [k \in 1 .. n |-> laid[k]]]
  BY <1>1
<1> HIDE DEF closed
<1>7. \E f : f = [i \in 0 .. n |-> IF i = 0 THEN [cad |-> 0, fad |-> DcPregap, tracks |-> <<>>] ELSE ChdTrack(f[i - 1], img.tracks[i])]
  BY <1>5
<1>8. after = [i \in 0 .. n |-> IF i = 0 THEN [cad |-> 0, fad |-> DcPregap, tracks |-> <<>>] ELSE ChdTrack(after[i - 1], img.tracks[i])]
  BY <1>7, Zenon
<1> HIDE DEF after
<1>9. after[0] = closed[0]
  BY <1>1, <1>3, <1>8
<1>10. ASSUME NEW i \in 0 .. n - 1, after[i] = closed[i] PROVE after[i + 1] = closed[i + 1]
  <2>1. i + 1 \in 0 .. n /\ i + 1 # 0 /\ (i + 1) - 1 = i
    BY <1>1
  <2>2. after[i + 1] = ChdTrack(after[i], img.tracks[i + 1])
    BY <1>8, <2>1
  <2> QED
    BY <1>4, <1>10, <2>2
<1>11. after[n] = closed[n]
  BY <1>1, <1>9, <1>10, GoOnAlike
<1>12. [k \in 1 .. n |-> laid[k]] = laid
  BY DEF laid, ChdLaid
<1> QED
  BY <1>2, <1>6, <1>11, <1>12 DEF laid

\* The mode a parser goes by.
ParsedMode(img, n) == IF img.kind = "gdi" THEN 1 ELSE img.tracks[n].mode

\* Track n as the parser of its format leaves it.
ParsedAs(img, n, p) ==
  /\ p.fad = DiscStart(img, n) /\ p.size = img.tracks[n].size
  /\ p.fmt = TrackLayout(ParsedMode(img, n), img.tracks[n].size).fmt
  /\ p.header = TrackLayout(ParsedMode(img, n), img.tracks[n].size).header
  /\ p.data = TrackLayout(ParsedMode(img, n), img.tracks[n].size).data
  /\ p.off = IF img.kind = "chd" THEN DiscStart(img, n) - SumOf(ChdUnits(img), n - 1)
             ELSE FileStart(img, n) - DiscStart(img, n) * img.tracks[n].size

(* What a layout puts into a track. *)
LEMMA LaidOutFields ==
  ASSUME NEW mode, NEW size, NEW fad, NEW off
  PROVE  LET p == LaidOut(mode, size, fad, off)
         IN  /\ p.fad = fad /\ p.off = off /\ p.size = size
             /\ p.fmt = TrackLayout(mode, size).fmt /\ p.header = TrackLayout(mode, size).header
             /\ p.data = TrackLayout(mode, size).data
PROOF
  BY DEF LaidOut

(* The three parsers put every track where it is on the disc and in its file. *)
LEMMA ParsedIs ==
  ASSUME NEW img, WellMade(img)
  PROVE  /\ DOMAIN ParsedTracks(img) = 1 .. Len(img.tracks) /\ Len(ParsedTracks(img)) = Len(img.tracks)
         /\ \A n \in 1 .. Len(img.tracks) : ParsedAs(img, n, ParsedTracks(img)[n])
PROOF
<1>1. /\ Len(img.tracks) \in Nat /\ DOMAIN img.tracks = 1 .. Len(img.tracks) /\ img.kind \in {"gdi", "cdi", "chd"}
  BY TrackTypes
<1>2. CASE img.kind = "gdi"
  <2>1. ParsedTracks(img) = GdiTracks(img)
    BY <1>2 DEF ParsedTracks, ImageKind
  <2>2. DOMAIN GdiTracks(img) = 1 .. Len(img.tracks) /\ Len(GdiTracks(img)) = Len(img.tracks)
    BY <1>1 DEF GdiTracks
  <2>3. ASSUME NEW n \in 1 .. Len(img.tracks) PROVE ParsedAs(img, n, GdiTracks(img)[n])
    <3> DEFINE t == img.tracks[n]
    <3>1. DiscStart(img, n) = t.lba + DcPregap /\ FileStart(img, n) = t.skip
      BY <1>2 DEF DiscStart, FileStart, ImageKind
    <3>2. GdiTracks(img)[n] = LaidOut(1, t.size, DiscStart(img, n), FileStart(img, n) - DiscStart(img, n) * t.size)
      BY <1>1, <3>1 DEF GdiTracks
    <3> HIDE DEF t
    <3> QED
      BY <1>2, <3>2, LaidOutFields DEF ParsedAs, ParsedMode, t
  <2> QED
    BY <2>1, <2>2, <2>3
<1>3. CASE img.kind = "cdi"
  <2>1. ParsedTracks(img) = CdiLaid(img)
    BY <1>3, CdiParsed DEF ParsedTracks, ImageKind
  <2>2. DOMAIN CdiLaid(img) = 1 .. Len(img.tracks) /\ Len(CdiLaid(img)) = Len(img.tracks)
    BY <1>1 DEF CdiLaid
  <2>3. ASSUME NEW n \in 1 .. Len(img.tracks) PROVE ParsedAs(img, n, CdiLaid(img)[n])
    <3> DEFINE t == img.tracks[n]
    <3>1. CdiLaid(img)[n] = LaidOut(t.mode, t.size, DiscStart(img, n), FileStart(img, n) - DiscStart(img, n) * t.size)
      BY DEF CdiLaid
    <3> HIDE DEF t
    <3> QED
      BY <1>3, <3>1, LaidOutFields DEF ParsedAs, ParsedMode, t
  <2> QED
    BY <2>1, <2>2, <2>3
<1>4. CASE img.kind = "chd"
  <2>1. ParsedTracks(img) = ChdLaid(img)
    BY <1>4, ChdParsed DEF ParsedTracks, ImageKind
  <2>2. DOMAIN ChdLaid(img) = 1 .. Len(img.tracks) /\ Len(ChdLaid(img)) = Len(img.tracks)
    BY <1>1 DEF ChdLaid
  <2>3. ASSUME NEW n \in 1 .. Len(img.tracks) PROVE ParsedAs(img, n, ChdLaid(img)[n])
    <3> DEFINE t == img.tracks[n]
    <3>1. ChdLaid(img)[n] = LaidOut(t.mode, t.size, DiscStart(img, n), DiscStart(img, n) - SumOf(ChdUnits(img), n - 1))
      BY DEF ChdLaid
    <3> HIDE DEF t
    <3> QED
      BY <1>4, <3>1, LaidOutFields DEF ParsedAs, ParsedMode, t
  <2> QED
    BY <2>1, <2>2, <2>3
<1> QED
  BY <1>1, <1>2, <1>3, <1>4

(* The layouts that are known: where the data of a sector begins, and how long it is. *)
LEMMA LayoutTable ==
  /\ TrackLayout(1, 2048).header = 0 /\ TrackLayout(1, 2048).data = 2048
  /\ TrackLayout(1, 2352).header = 16 /\ TrackLayout(1, 2352).data = 2048
  /\ TrackLayout(1, 2336).header = 0 /\ TrackLayout(1, 2336).data = 2048
  /\ TrackLayout(2, 2048).header = 0 /\ TrackLayout(2, 2048).data = 2048
  /\ TrackLayout(2, 2352).header = 24 /\ TrackLayout(2, 2352).data = 2048
  /\ TrackLayout(2, 2336).header = 8 /\ TrackLayout(2, 2336).data = 2048
PROOF
<1>1. TrackLayout(1, 2048) = [fmt |-> "M1", header |-> 0, error |-> 0, data |-> 2048]
  BY DEF TrackLayout
<1>2. TrackLayout(1, 2352) = [fmt |-> "M1", header |-> 16, error |-> 288, data |-> 2048]
  BY DEF TrackLayout
<1>3. TrackLayout(1, 2336) = [fmt |-> "M1", header |-> 0, error |-> 288, data |-> 2048]
  BY DEF TrackLayout
<1>4. TrackLayout(2, 2048) = [fmt |-> "M2F1", header |-> 0, error |-> 0, data |-> 2048]
  BY DEF TrackLayout
<1>5. TrackLayout(2, 2352) = [fmt |-> "M2F1", header |-> 24, error |-> 280, data |-> 2048]
  BY DEF TrackLayout
<1>6. TrackLayout(2, 2336) = [fmt |-> "M2F1", header |-> 8, error |-> 280, data |-> 2048]
  BY DEF TrackLayout
<1> QED
  BY <1>1, <1>2, <1>3, <1>4, <1>5, <1>6

(* Every other pair of a mode of data and a size is refused. *)
LEMMA LayoutKnown ==
  ASSUME NEW mode \in 1 .. 2, NEW size \in Nat, TrackLayout(mode, size).fmt # "none"
  PROVE  size \in {2048, 2336, 2352}
PROOF
<1>1. SUFFICES ASSUME size # 2048, size # 2336, size # 2352 PROVE FALSE
  OBVIOUS
<1>2. mode # 0
  OBVIOUS
<1>3. TrackLayout(mode, size) = [fmt |-> "none", header |-> 0, error |-> 0, data |-> 0]
  BY <1>1, <1>2 DEF TrackLayout
<1> QED
  BY <1>3

(* The user data of a sector, by the mode and the size of its track. *)
LEMMA UserDataOf ==
  ASSUME NEW t, t.mode \in 1 .. 2, t.size \in {2048, 2336, 2352}
  PROVE  UserData(t) = TrackLayout(t.mode, t.size).header /\ TrackLayout(t.mode, t.size).data = 2048
PROOF
<1> DEFINE m == t.mode
           s == t.size
<1>1. UserData(t) = CASE m = 0 -> 0 [] m = 1 -> IF s = 2352 THEN 16 ELSE 0 [] OTHER -> s - 2048 - (IF s = 2048 THEN 0 ELSE 280)
  BY DEF UserData
<1>2. m \in 1 .. 2 /\ s \in {2048, 2336, 2352}
  OBVIOUS
<1> HIDE DEF m, s
<1>3. CASE m = 1 /\ s = 2048
  BY <1>1, <1>3, LayoutTable DEF m, s
<1>4. CASE m = 1 /\ s = 2336
  BY <1>1, <1>4, LayoutTable DEF m, s
<1>5. CASE m = 1 /\ s = 2352
  BY <1>1, <1>5, LayoutTable DEF m, s
<1>6. CASE m = 2 /\ s = 2048
  BY <1>1, <1>6, LayoutTable DEF m, s
<1>7. CASE m = 2 /\ s = 2336
  BY <1>1, <1>7, LayoutTable DEF m, s
<1>8. CASE m = 2 /\ s = 2352
  BY <1>1, <1>8, LayoutTable DEF m, s
<1> QED
  BY <1>2, <1>3, <1>4, <1>5, <1>6, <1>7, <1>8

(* The formats of the layouts that are known. *)
LEMMA LayoutFormat ==
  ASSUME NEW mode \in 1 .. 2, NEW size \in {2048, 2336, 2352}
  PROVE  TrackLayout(mode, size).fmt = FormatOf(mode)
PROOF
<1> DEFINE T(m, s) == TrackLayout(m, s).fmt
<1>1. T(1, 2048) = "M1" /\ T(1, 2352) = "M1" /\ T(1, 2336) = "M1"
  BY DEF TrackLayout
<1>2. T(2, 2048) = "M2F1" /\ T(2, 2352) = "M2F1" /\ T(2, 2336) = "M2F1"
  BY DEF TrackLayout
<1>3. FormatOf(1) = "M1" /\ FormatOf(2) = "M2F1"
  BY DEF FormatOf
<1> HIDE DEF T
<1>4. T(mode, size) = FormatOf(mode)
  <2>1. mode = 1 \/ mode = 2
    OBVIOUS
  <2> QED
    BY <1>1, <1>2, <1>3, <2>1
<1> QED
  BY <1>4 DEF T

(* Where a parser finds the user data of a sector that is not audio. *)
LayoutRight(img, n, l) ==
  /\ l.fmt = FormatOf(img.tracks[n].mode)
  /\ l.header = UserData(img.tracks[n]) /\ l.data = 2048
  /\ l.header \in 0 .. 24 /\ img.tracks[n].size \in {2048, 2336, 2352}

(* A layout that is known finds the user data of a sector, unless it is audio. *)
LEMMA LayoutIs ==
  ASSUME NEW img, WellMade(img), NEW n \in 1 .. Len(img.tracks), img.tracks[n].mode # 0,
         TrackLayout(ParsedMode(img, n), img.tracks[n].size).fmt # "none"
  PROVE  LayoutRight(img, n, TrackLayout(ParsedMode(img, n), img.tracks[n].size))
PROOF
<1> DEFINE t == img.tracks[n]
           m == t.mode
           s == t.size
<1>1. t \in DiscTracks /\ n \in DOMAIN img.tracks
  BY TrackTypes
<1>2. img.kind = "gdi" => m # 2
  BY <1>1, Zenon DEF WellMade
<1>3. m \in 1 .. 2 /\ s \in Nat
  BY <1>1, TrackFields
<1>4. ParsedMode(img, n) = m
  <2> HIDE DEF m
  <2>1. CASE img.kind = "gdi"
    BY <1>2, <1>3, <2>1 DEF ParsedMode
  <2>2. CASE img.kind # "gdi"
    BY <2>2 DEF ParsedMode, m
  <2> QED
    BY <2>1, <2>2
<1>5. TrackLayout(m, s).fmt # "none"
  BY <1>4
<1> HIDE DEF m, s
<1>6. s \in {2048, 2336, 2352}
  BY <1>3, <1>5, LayoutKnown
<1>7. UserData(t) = TrackLayout(m, s).header /\ TrackLayout(m, s).data = 2048
  <2> HIDE DEF t
  <2> QED
    BY <1>3, <1>6, UserDataOf DEF m, s
<1>8. TrackLayout(m, s).header \in 0 .. 24
  <2> DEFINE T(m0, s0) == TrackLayout(m0, s0).header
  <2>1. m = 1 \/ m = 2
    BY <1>3
  <2>2. T(1, 2048) = 0 /\ T(1, 2352) = 16 /\ T(1, 2336) = 0 /\ T(2, 2048) = 0 /\ T(2, 2352) = 24 /\ T(2, 2336) = 8
    BY LayoutTable
  <2> HIDE DEF T
  <2>3. T(m, s) \in {0, 8, 16, 24}
    BY <1>6, <2>1, <2>2
  <2>4. T(m, s) \in 0 .. 24
    BY <2>3
  <2> QED
    BY <2>4 DEF T
<1>9. TrackLayout(m, s).fmt = FormatOf(m)
  BY <1>3, <1>6, LayoutFormat
<1> QED
  BY <1>4, <1>6, <1>7, <1>8, <1>9 DEF LayoutRight, m, s

-----------------------------------------------------------------------------
(* Disc images: the sectors of a file *)

(* Products of numbers. *)
LEMMA NatTimes ==
  \A a, b, c \in Nat : a * c \in Nat /\ (a + b) * c = a * c + b * c /\ (a <= b => a * c <= b * c)
PROOF
<1>1. ASSUME NEW a \in Nat, NEW b \in Nat, NEW c \in Nat, a <= b PROVE a * c <= b * c
  <2>1. PICK d \in Nat : b = a + d
    <3>1. b - a \in Nat /\ b = a + (b - a)
      BY <1>1
    <3> QED
      BY <3>1
  <2>2. b * c = a * c + d * c /\ d * c \in Nat /\ a * c \in Nat
    BY <2>1
  <2> QED
    BY <2>2
<1> QED
  BY <1>1

(* Where a track is on the disc and in its file is a number. *)
LEMMA StartsNat ==
  ASSUME NEW img, WellMade(img), NEW n \in 1 .. Len(img.tracks)
  PROVE  /\ DiscStart(img, n) \in Nat /\ FileStart(img, n) \in Nat
         /\ SectorPitch(img, n) \in Nat /\ SectorPitch(img, n) > 0
PROOF
<1> DEFINE t == img.tracks[n]
<1>1. /\ Len(img.tracks) \in Nat /\ DOMAIN img.tracks = 1 .. Len(img.tracks) /\ img.kind \in {"gdi", "cdi", "chd"}
      /\ \A k \in 1 .. Len(img.tracks) : img.tracks[k] \in DiscTracks
  BY TrackTypes
<1>2. t.lba \in Nat /\ t.pregap \in Nat /\ t.size \in Nat /\ t.size > 0 /\ t.skip \in Nat /\ DcPregap \in Nat
  BY <1>1, TrackFields, DcAssumption
<1>3. n - 1 \in 0 .. Len(img.tracks)
  BY <1>1
<1>4. SectorPitch(img, n) \in Nat /\ SectorPitch(img, n) > 0
  BY <1>2 DEF SectorPitch, UnitBytes, ImageKind
<1>5. CASE img.kind = "gdi"
  BY <1>2, <1>4, <1>5 DEF DiscStart, FileStart, ImageKind
<1>6. CASE img.kind = "cdi"
  <2>1. \A i \in 1 .. Len(img.tracks) : CdiSizes(img)[i] \in Nat
    <3>1. ASSUME NEW i \in 1 .. Len(img.tracks) PROVE CdiSizes(img)[i] \in Nat
      <4>1. CdiSizes(img)[i] = TotalLen(img.tracks[i]) * img.tracks[i].size
        BY <1>1 DEF CdiSizes
      <4>2. TotalLen(img.tracks[i]) \in Nat /\ img.tracks[i].size \in Nat
        BY <1>1, TrackFields DEF TotalLen
      <4> QED
        BY <4>1, <4>2
    <3> QED
      BY <3>1
  <2>2. SumOf(CdiSizes(img), n - 1) \in Nat
    BY <1>1, <1>3, <2>1, SumGrows
  <2>3. t.pregap * t.size \in Nat /\ t.lba + t.pregap \in Nat
    <3>1. t.lba + t.pregap \in Nat
      BY <1>2
    <3> DEFINE x == t.pregap
               y == t.size
    <3>2. x \in Nat /\ y \in Nat
      BY <1>2
    <3> HIDE DEF x, y
    <3>3. x * y \in Nat
      BY <3>2
    <3> QED
      BY <3>1, <3>3 DEF x, y
  <2>4. DiscStart(img, n) = t.lba + t.pregap /\ FileStart(img, n) = SumOf(CdiSizes(img), n - 1) + t.pregap * t.size
    BY <1>6 DEF DiscStart, FileStart, ImageKind, CdiSizes
  <2> QED
    BY <1>4, <2>2, <2>3, <2>4
<1>7. CASE img.kind = "chd"
  <2>1. \A i \in 1 .. Len(img.tracks) : ChdFrames(img)[i] \in Nat /\ ChdSizes(img)[i] \in Nat
    <3>1. ASSUME NEW i \in 1 .. Len(img.tracks) PROVE ChdFrames(img)[i] \in Nat /\ ChdSizes(img)[i] \in Nat
      <4>1. ChdFrames(img)[i] = img.tracks[i].frames /\ ChdSizes(img)[i] = AlignUp(img.tracks[i].frames) * UnitBytes
        BY <1>1 DEF ChdFrames, ChdSizes
      <4>2. img.tracks[i].frames \in Nat
        BY <1>1, TrackFields
      <4>3. \A x \in Nat : AlignUp(x) * UnitBytes \in Nat
        BY DEF AlignUp, UnitBytes
      <4> QED
        BY <4>1, <4>2, <4>3
    <3> QED
      BY <3>1
  <2>2. SumOf(ChdFrames(img), n - 1) \in Nat /\ SumOf(ChdSizes(img), n - 1) \in Nat
    BY <1>1, <1>3, <2>1, SumGrows
  <2>3. DiscStart(img, n) = DcPregap + SumOf(ChdFrames(img), n - 1) /\ FileStart(img, n) = SumOf(ChdSizes(img), n - 1)
    BY <1>7 DEF DiscStart, FileStart, ImageKind, ChdFrames, ChdSizes
  <2> QED
    BY <1>2, <1>4, <2>2, <2>3
<1> QED
  BY <1>1, <1>5, <1>6, <1>7

(* In one file the sectors of a track end before those of the next begin. *)
LEMMA FilesApart ==
  ASSUME NEW img, WellMade(img), img.kind # "gdi", NEW m \in 1 .. Len(img.tracks), NEW n \in 1 .. Len(img.tracks), m < n
  PROVE  FileStart(img, m) + img.tracks[m].frames * SectorPitch(img, m) <= FileStart(img, n)
PROOF
<1> DEFINE t == img.tracks[m]
           u == img.tracks[n]
<1>1. /\ Len(img.tracks) \in Nat /\ DOMAIN img.tracks = 1 .. Len(img.tracks) /\ img.kind \in {"gdi", "cdi", "chd"}
      /\ \A k \in 1 .. Len(img.tracks) : img.tracks[k] \in DiscTracks
  BY TrackTypes
<1>2. t.pregap \in Nat /\ t.size \in Nat /\ t.frames \in Nat /\ u.pregap \in Nat /\ u.size \in Nat
  BY <1>1, TrackFields
<1>3. /\ m - 1 \in 0 .. Len(img.tracks) /\ m \in 0 .. Len(img.tracks) /\ n - 1 \in 0 .. Len(img.tracks) /\ m <= n - 1
      /\ m - 1 \in Nat /\ (m - 1) + 1 = m
  BY <1>1
<1>4. CASE img.kind = "cdi"
  <2> DEFINE s == CdiSizes(img)
  <2>1. \A i \in 1 .. Len(img.tracks) : s[i] \in Nat
    <3>1. ASSUME NEW i \in 1 .. Len(img.tracks) PROVE s[i] \in Nat
      <4>1. s[i] = TotalLen(img.tracks[i]) * img.tracks[i].size
        BY <1>1 DEF CdiSizes
      <4>2. TotalLen(img.tracks[i]) \in Nat /\ img.tracks[i].size \in Nat
        BY <1>1, TrackFields DEF TotalLen
      <4> QED
        BY <4>1, <4>2
    <3> QED
      BY <3>1
  <2>2. s[m] = (t.pregap + t.frames) * t.size
    BY <1>1 DEF CdiSizes, TotalLen
  <2>3. /\ FileStart(img, m) = SumOf(s, m - 1) + t.pregap * t.size
        /\ FileStart(img, n) = SumOf(s, n - 1) + u.pregap * u.size
        /\ SectorPitch(img, m) = t.size
    BY <1>4 DEF FileStart, ImageKind, SectorPitch, CdiSizes
  <2> HIDE DEF s
  <2>4. SumOf(s, m) = SumOf(s, m - 1) + s[m]
    <3>1. SumOf(s, (m - 1) + 1) = SumOf(s, m - 1) + s[(m - 1) + 1]
      BY <1>3, SumStep
    <3> QED
      BY <1>3, <3>1
  <2>5. SumOf(s, m) <= SumOf(s, n - 1) /\ SumOf(s, m - 1) \in Nat /\ SumOf(s, m) \in Nat /\ SumOf(s, n - 1) \in Nat
    BY <1>1, <1>3, <2>1, SumGrows
  <2> HIDE DEF t, u
  <2>6. (t.pregap + t.frames) * t.size = t.pregap * t.size + t.frames * t.size /\ u.pregap * u.size \in Nat
        /\ t.pregap * t.size \in Nat /\ t.frames * t.size \in Nat
    <3> DEFINE a == t.pregap
               b == t.frames
               c == t.size
               d == u.pregap
               e == u.size
    <3>1. a \in Nat /\ b \in Nat /\ c \in Nat /\ d \in Nat /\ e \in Nat
      BY <1>2
    <3> HIDE DEF a, b, c, d, e
    <3>2. (a + b) * c = a * c + b * c
      BY <3>1
    <3>3. d * e \in Nat /\ a * c \in Nat /\ b * c \in Nat
      BY <3>1
    <3> QED
      BY <3>2, <3>3 DEF a, b, c, d, e
  <2>7. FileStart(img, m) + t.frames * SectorPitch(img, m) = SumOf(s, m)
    <3> DEFINE a == t.pregap * t.size
               b == t.frames * t.size
    <3>1. a \in Nat /\ b \in Nat /\ s[m] = a + b
      BY <2>2, <2>6
    <3>2. FileStart(img, m) = SumOf(s, m - 1) + a /\ t.frames * SectorPitch(img, m) = b
      BY <2>3
    <3> HIDE DEF a, b
    <3> QED
      BY <2>4, <2>5, <3>1, <3>2
  <2>8. FileStart(img, n) >= SumOf(s, n - 1)
    <3> DEFINE c == u.pregap * u.size
    <3>1. c \in Nat /\ FileStart(img, n) = SumOf(s, n - 1) + c
      BY <2>3, <2>6
    <3> HIDE DEF c
    <3> QED
      BY <2>5, <3>1
  <2>9. FileStart(img, n) \in Nat
    BY <1>4, StartsNat
  <2> QED
    BY <2>5, <2>7, <2>8, <2>9 DEF t
<1>5. CASE img.kind = "chd"
  <2> DEFINE s == ChdSizes(img)
  <2>1. \A i \in 1 .. Len(img.tracks) : s[i] \in Nat
    <3>1. ASSUME NEW i \in 1 .. Len(img.tracks) PROVE s[i] \in Nat
      <4>1. s[i] = AlignUp(img.tracks[i].frames) * UnitBytes
        BY <1>1 DEF ChdSizes
      <4>2. img.tracks[i].frames \in Nat
        BY <1>1, TrackFields
      <4>3. \A x \in Nat : AlignUp(x) * UnitBytes \in Nat
        BY DEF AlignUp, UnitBytes
      <4> QED
        BY <4>1, <4>2, <4>3
    <3> QED
      BY <3>1
  <2>2. s[m] = AlignUp(t.frames) * UnitBytes
    BY <1>1 DEF ChdSizes
  <2>3. FileStart(img, m) = SumOf(s, m - 1) /\ FileStart(img, n) = SumOf(s, n - 1) /\ SectorPitch(img, m) = UnitBytes
    BY <1>5 DEF FileStart, ImageKind, SectorPitch, ChdSizes
  <2> HIDE DEF s
  <2>4. SumOf(s, m) = SumOf(s, m - 1) + s[m]
    <3>1. SumOf(s, (m - 1) + 1) = SumOf(s, m - 1) + s[(m - 1) + 1]
      BY <1>3, SumStep
    <3> QED
      BY <1>3, <3>1
  <2>5. SumOf(s, m) <= SumOf(s, n - 1) /\ SumOf(s, m - 1) \in Nat /\ SumOf(s, m) \in Nat /\ SumOf(s, n - 1) \in Nat
    BY <1>1, <1>3, <2>1, SumGrows
  <2> HIDE DEF t, u
  <2>6. t.frames * UnitBytes <= AlignUp(t.frames) * UnitBytes /\ AlignUp(t.frames) * UnitBytes \in Nat /\ t.frames * UnitBytes \in Nat
    <3>1. \A x \in Nat : x <= AlignUp(x) /\ AlignUp(x) \in Nat
      BY DEF AlignUp
    <3>2. t.frames <= AlignUp(t.frames) /\ AlignUp(t.frames) \in Nat
      BY <1>2, <3>1
    <3> QED
      BY <1>2, <3>2 DEF UnitBytes
  <2> QED
    BY <2>2, <2>3, <2>4, <2>5, <2>6 DEF t
<1> QED
  BY <1>1, <1>4, <1>5

\* Byte h of sector k of track n is read at its place in the file.
SectorPlace(img, n, k) == FileStart(img, n) + k * SectorPitch(img, n)

(* The sectors of a file that begin before another one end before it begins. *)
LEMMA SectorsApart ==
  ASSUME NEW img, WellMade(img), NEW m \in 1 .. Len(img.tracks), NEW n \in 1 .. Len(img.tracks),
         img.kind = "gdi" => m = n,
         NEW j \in 0 .. img.tracks[m].frames - 1, NEW k \in 0 .. img.tracks[n].frames - 1,
         m < n \/ (m = n /\ j < k)
  PROVE  SectorPlace(img, m, j) + SectorPitch(img, m) <= SectorPlace(img, n, k)
PROOF
<1> DEFINE p == SectorPitch(img, m)
           q == SectorPitch(img, n)
           a == FileStart(img, m)
           b == FileStart(img, n)
           f == img.tracks[m].frames
<1>1. p \in Nat /\ q \in Nat /\ a \in Nat /\ b \in Nat
  BY StartsNat
<1>2. f \in Nat /\ img.tracks[n].frames \in Nat
  <2>1. img.tracks[m] \in DiscTracks /\ img.tracks[n] \in DiscTracks
    BY TrackTypes
  <2> QED
    BY <2>1, TrackFields
<1>3. m < n => a + f * p <= b
  <2>1. ASSUME m < n PROVE a + f * p <= b
    <3>1. img.kind # "gdi"
      BY <2>1
    <3> HIDE DEF a, b, f, p
    <3> QED
      BY <2>1, <3>1, FilesApart DEF a, b, f, p
  <2> QED
    BY <2>1
<1>4. SectorPlace(img, m, j) = a + j * p /\ SectorPlace(img, n, k) = b + k * q
  BY DEF SectorPlace
<1>5. j \in Nat /\ k \in Nat /\ j + 1 <= f
  BY <1>2
<1>6. m = n => a = b /\ p = q
  OBVIOUS
<1> HIDE DEF a, b, f, p, q
<1>7. j * p \in Nat /\ k * q \in Nat /\ (j + 1) * p = j * p + p /\ f * p \in Nat /\ j + 1 \in Nat
  <2>1. j * p \in Nat /\ k * q \in Nat
    BY <1>1, <1>5
  <2>2. (j + 1) * p = j * p + p
    BY <1>1, <1>5
  <2>3. f * p \in Nat
    BY <1>1, <1>2
  <2> QED
    BY <1>5, <2>1, <2>2, <2>3
<1> DEFINE x == j * p
           y == k * q
           z == f * p
           w == (j + 1) * p
<1>8. CASE m < n
  <2>1. w <= z
    BY <1>1, <1>2, <1>5, <1>7, NatTimes
  <2>2. w = x + p /\ x \in Nat /\ y \in Nat /\ z \in Nat /\ a + z <= b
    BY <1>3, <1>7, <1>8
  <2>3. SectorPlace(img, m, j) = a + x /\ SectorPlace(img, n, k) = b + y
    BY <1>4
  <2> HIDE DEF w, x, y, z
  <2>4. p \in Nat /\ a \in Nat /\ b \in Nat
    BY <1>1
  <2>5. x + p <= z
    BY <2>1, <2>2
  <2>6. a + x + p <= a + z
    BY <2>2, <2>4, <2>5
  <2>7. a + x + p <= b + y
    BY <2>2, <2>4, <2>6
  <2> QED
    BY <2>3, <2>7 DEF p
<1>9. CASE m = n /\ j < k
  <2>1. p = q /\ a = b /\ j + 1 <= k
    BY <1>5, <1>6, <1>9
  <2>2. w <= k * p
    BY <1>1, <1>5, <1>7, <2>1, NatTimes
  <2>3. w <= y
    BY <2>1, <2>2
  <2>4. w = x + p /\ x \in Nat /\ y \in Nat /\ SectorPlace(img, m, j) = a + x /\ SectorPlace(img, n, k) = b + y
    BY <1>4, <1>7
  <2> HIDE DEF w, x, y, z
  <2>5. a + x + p <= b + y
    BY <1>1, <2>1, <2>3, <2>4
  <2> QED
    BY <2>4, <2>5 DEF p
<1> QED
  BY <1>8, <1>9

(* A byte of a sector is read as what it is. *)
LEMMA ReadAtSector ==
  ASSUME NEW img, WellMade(img), NEW n \in 1 .. Len(img.tracks), NEW k \in 0 .. img.tracks[n].frames - 1,
         NEW h \in Nat, h < SectorPitch(img, n)
  PROVE  ReadAt(img, n, SectorPlace(img, n, k) + h) = <<<<n, k>>, h>>
PROOF
<1> DEFINE pos == SectorPlace(img, n, k) + h
           Here == {s \in SectorsOf(img) :
                      /\ ImageKind(img) = "gdi" => s[1] = n
                      /\ LET p == FileStart(img, s[1]) + s[2] * SectorPitch(img, s[1])
                         IN  p <= pos /\ pos < p + SectorPitch(img, s[1])}
<1>1. /\ Len(img.tracks) \in Nat /\ DOMAIN img.tracks = 1 .. Len(img.tracks)
  BY TrackTypes
<1>2. \A m \in 1 .. Len(img.tracks) : img.tracks[m].frames \in Nat
  BY <1>1, TrackTypes, TrackFields
<1>3. ASSUME NEW m \in 1 .. Len(img.tracks), NEW j \in 0 .. img.tracks[m].frames - 1
      PROVE  SectorPlace(img, m, j) \in Nat /\ SectorPitch(img, m) \in Nat /\ SectorPitch(img, m) > 0
  <2>1. j \in Nat
    BY <1>2
  <2>2. FileStart(img, m) \in Nat /\ SectorPitch(img, m) \in Nat /\ SectorPitch(img, m) > 0
    BY StartsNat
  <2>3. j * SectorPitch(img, m) \in Nat
    BY <2>1, <2>2
  <2> QED
    BY <2>2, <2>3 DEF SectorPlace
<1>4. pos \in Nat
  BY <1>3
<1>5. <<n, k>> \in SectorsOf(img)
  BY <1>1 DEF SectorsOf
<1>6. <<n, k>> \in Here
  <2>1. SectorPlace(img, n, k) <= pos /\ pos < SectorPlace(img, n, k) + SectorPitch(img, n)
    BY <1>3
  <2> HIDE DEF pos
  <2> QED
    BY <1>5, <2>1 DEF SectorPlace
<1>7. ASSUME NEW s \in Here PROVE s = <<n, k>>
  <2>1. PICK m \in 1 .. Len(img.tracks) : \E j \in 0 .. img.tracks[m].frames - 1 : s = <<m, j>>
    <3>1. s \in SectorsOf(img)
      OBVIOUS
    <3>2. PICK m \in DOMAIN img.tracks : s \in {<<m, j>> : j \in 0 .. img.tracks[m].frames - 1}
      BY <3>1 DEF SectorsOf
    <3> QED
      BY <1>1, <3>2
  <2>10. PICK j \in 0 .. img.tracks[m].frames - 1 : s = <<m, j>>
    BY <2>1
  <2>2. /\ img.kind = "gdi" => m = n
        /\ SectorPlace(img, m, j) <= pos /\ pos < SectorPlace(img, m, j) + SectorPitch(img, m)
    <3> HIDE DEF pos
    <3> QED
      BY <2>10 DEF SectorPlace, ImageKind
  <2>3. SectorPlace(img, n, k) <= pos /\ pos < SectorPlace(img, n, k) + SectorPitch(img, n)
    BY <1>3
  <2> HIDE DEF pos, Here
  <2>4. /\ SectorPlace(img, m, j) \in Nat /\ SectorPitch(img, m) \in Nat
        /\ SectorPlace(img, n, k) \in Nat /\ SectorPitch(img, n) \in Nat
    BY <1>3
  <2>5. ~(m < n \/ (m = n /\ j < k))
    <3>1. SUFFICES ASSUME m < n \/ (m = n /\ j < k) PROVE FALSE
      OBVIOUS
    <3>2. SectorPlace(img, m, j) + SectorPitch(img, m) <= SectorPlace(img, n, k)
      BY <2>2, <3>1, SectorsApart
    <3> QED
      BY <1>4, <2>2, <2>3, <2>4, <3>2
  <2>6. ~(n < m \/ (m = n /\ k < j))
    <3>1. SUFFICES ASSUME n < m \/ (n = m /\ k < j) PROVE FALSE
      OBVIOUS
    <3>2. SectorPlace(img, n, k) + SectorPitch(img, n) <= SectorPlace(img, m, j)
      BY <2>2, <3>1, SectorsApart
    <3> QED
      BY <1>4, <2>2, <2>3, <2>4, <3>2
  <2>7. m \in Int /\ n \in Int /\ m = n
    BY <1>1, <2>5, <2>6
  <2>8. j \in Int /\ k \in Int /\ j = k
    BY <1>2, <2>5, <2>6, <2>7
  <2> QED
    BY <2>10, <2>7, <2>8
<1> DEFINE c == CHOOSE s \in Here : TRUE
<1>8. Here # {} /\ c = <<n, k>>
  <2> HIDE DEF Here
  <2> QED
    BY <1>6, <1>7
<1>9. ReadAt(img, n, pos) = IF Here = {} THEN <<>> ELSE <<c, pos - FileStart(img, c[1]) - c[2] * SectorPitch(img, c[1])>>
  BY DEF ReadAt
<1>10. pos - FileStart(img, n) - k * SectorPitch(img, n) = h
  <2> DEFINE a == FileStart(img, n)
             b == k * SectorPitch(img, n)
  <2>1. a \in Nat /\ b \in Nat
    <3>1. FileStart(img, n) \in Nat /\ SectorPitch(img, n) \in Nat /\ k \in Nat
      BY <1>2, StartsNat
    <3> QED
      BY <3>1
  <2>2. pos = a + b + h
    BY DEF SectorPlace
  <2> HIDE DEF a, b, pos
  <2>3. pos - a - b = h
    BY <2>1, <2>2
  <2> QED
    BY <2>3 DEF a, b
<1> HIDE DEF Here, pos, c
<1>11. c = <<n, k>> /\ c[1] = n /\ c[2] = k
  BY <1>8
<1>12. ReadAt(img, n, pos) = <<<<n, k>>, h>>
  BY <1>8, <1>9, <1>10, <1>11
<1> QED
  BY <1>12 DEF pos

\* Every number of s is c times that of u.
Multiples(s, u, c, n) == \A i \in 1 .. n : u[i] \in Nat /\ s[i] = u[i] * c

(* A sum of multiples is the multiple of the sum. *)
LEMMA SumScaled ==
  ASSUME NEW n \in Nat, NEW s, NEW u, NEW c \in Nat, Multiples(s, u, c, n)
  PROVE  \A i \in 0 .. n : SumOf(s, i) = SumOf(u, i) * c
PROOF
<1> USE DEF Multiples
<1> DEFINE G == {i \in 0 .. n : SumOf(s, i) = SumOf(u, i) * c}
<1>1. 0 \in G
  <2>1. SumOf(s, 0) = 0 /\ SumOf(u, 0) = 0 /\ 0 * c = 0
    BY SumStep
  <2> QED
    BY <2>1
<1>2. ASSUME NEW i \in 0 .. n - 1, i \in G PROVE i + 1 \in G
  <2>1. i \in Nat /\ i + 1 \in 1 .. n /\ i \in 0 .. n /\ i + 1 \in 0 .. n
    OBVIOUS
  <2>2. SumOf(s, i + 1) = SumOf(s, i) + s[i + 1] /\ SumOf(u, i + 1) = SumOf(u, i) + u[i + 1]
    BY <2>1, SumStep
  <2>3. SumOf(u, i) \in Nat
    <3>1. \A k \in 1 .. n : u[k] \in Nat
      OBVIOUS
    <3> QED
      BY <2>1, <3>1, SumGrows
  <2>4. u[i + 1] \in Nat /\ s[i + 1] = u[i + 1] * c
    BY <2>1
  <2>5. SumOf(s, i) = SumOf(u, i) * c
    BY <1>2
  <2> DEFINE x == SumOf(u, i)
             y == u[i + 1]
  <2>6. x \in Nat /\ y \in Nat
    BY <2>3, <2>4
  <2>7. SumOf(s, i + 1) = x * c + y * c /\ SumOf(u, i + 1) = x + y
    BY <2>2, <2>4, <2>5
  <2> HIDE DEF x, y
  <2>8. (x + y) * c = x * c + y * c
    BY <2>6
  <2>9. SumOf(s, i + 1) = SumOf(u, i + 1) * c
    BY <2>7, <2>8
  <2> QED
    BY <2>1, <2>9
<1>3. G \in SUBSET (0 .. n)
  OBVIOUS
<1>4. \A i \in 0 .. n : i \in G
  <2> HIDE DEF G
  <2> QED
    BY <1>1, <1>2, <1>3, CountsUp
<1> QED
  BY <1>4

(* The first sector of a track of a chd is at its unit of the file. *)
LEMMA UnitsAre ==
  ASSUME NEW img, WellMade(img), img.kind = "chd", NEW n \in 1 .. Len(img.tracks)
  PROVE  SumOf(ChdUnits(img), n - 1) \in Nat /\ FileStart(img, n) = SumOf(ChdUnits(img), n - 1) * UnitBytes
PROOF
<1>1. /\ Len(img.tracks) \in Nat /\ DOMAIN img.tracks = 1 .. Len(img.tracks)
      /\ \A k \in 1 .. Len(img.tracks) : img.tracks[k] \in DiscTracks
  BY TrackTypes
<1>2. n - 1 \in 0 .. Len(img.tracks)
  BY <1>1
<1> DEFINE u == ChdUnits(img)
           s == ChdSizes(img)
<1>3. \A i \in 1 .. Len(img.tracks) : u[i] \in Nat /\ s[i] = u[i] * UnitBytes
  <2>1. ASSUME NEW i \in 1 .. Len(img.tracks) PROVE u[i] \in Nat /\ s[i] = u[i] * UnitBytes
    <3>1. u[i] = AlignUp(img.tracks[i].frames) /\ s[i] = AlignUp(img.tracks[i].frames) * UnitBytes
      BY <1>1 DEF ChdUnits, ChdSizes
    <3>2. img.tracks[i].frames \in Nat
      BY <1>1, TrackFields
    <3>3. \A x \in Nat : AlignUp(x) \in Nat
      BY DEF AlignUp
    <3> QED
      BY <3>1, <3>2, <3>3
  <2> QED
    BY <2>1
<1>4. FileStart(img, n) = SumOf(s, n - 1)
  BY DEF FileStart, ImageKind, ChdSizes
<1>5. \A i \in 1 .. Len(img.tracks) : u[i] \in Nat
  BY <1>3
<1>6. UnitBytes \in Nat
  BY DEF UnitBytes
<1> HIDE DEF u, s
<1>7. SumOf(u, n - 1) \in Nat
  BY <1>1, <1>2, <1>5, SumGrows
<1>8. SumOf(s, n - 1) = SumOf(u, n - 1) * UnitBytes
  <2> DEFINE m == Len(img.tracks)
             c == UnitBytes
  <2>1. m \in Nat /\ c \in Nat /\ Multiples(s, u, c, m)
    BY <1>1, <1>3, <1>6 DEF Multiples
  <2>2. n - 1 \in 0 .. m
    BY <1>2
  <2> HIDE DEF m, c
  <2>3. \A i \in 0 .. m : SumOf(s, i) = SumOf(u, i) * c
    BY <2>1, SumScaled
  <2> QED
    BY <2>2, <2>3 DEF c
<1> QED
  BY <1>4, <1>7, <1>8 DEF u

(* A number is made of its quotient and its remainder. *)
LEMMA HunkSplit ==
  ASSUME NEW a \in Nat, NEW b \in Nat, NEW c \in Nat, b > 0, c > 0
  PROVE  (a \div (b * c)) * b * c + (a % (b * c)) = a
PROOF
<1> DEFINE d == b * c
<1>1. d \in Nat /\ d > 0
  <2>1. b * c \in Nat
    OBVIOUS
  <2>2. 1 * c <= b * c
    BY NatTimes, 1 \in Nat, 1 <= b
  <2>3. 1 * c = c
    OBVIOUS
  <2> QED
    BY <2>1, <2>2, <2>3
<1> DEFINE q == a \div d
           r == a % d
<1>2. q \in Int /\ r \in Int /\ a = d * q + r
  <2> HIDE DEF d
  <2> QED
    BY <1>1
<1>3. q * b * c = d * q
  <2>1. q \in Int
    BY <1>2
  <2> HIDE DEF q
  <2> QED
    BY <2>1
<1>4. q * b * c + r = a
  <2> HIDE DEF q, r, d
  <2> DEFINE x == q * b * c
             y == d * q
  <2>1. x = y /\ a = y + r
    BY <1>2, <1>3
  <2> HIDE DEF x, y
  <2>2. x + r = a
    BY <2>1
  <2> QED
    BY <2>2 DEF x
<1> HIDE DEF q, r, d
<1> QED
  BY <1>4 DEF q, r, d

\* A sector of user data that the image has, and a track that is laid out as its parser says.
DataSector(img, n, k) ==
  /\ n \in 1 .. Len(img.tracks) /\ k \in 0 .. img.tracks[n].frames - 1 /\ img.tracks[n].mode # 0

(* gdi_read_sector, cdi_read_sector: the sector that is read is the one that is asked for. *)
LEMMA FileReadIs ==
  ASSUME NEW img, WellMade(img), img.kind # "chd", NEW n, NEW k, DataSector(img, n, k),
         NEW p, ParsedAs(img, n, p), p.fmt # "none"
  PROVE  /\ FileReadSector(img, n, p, DiscStart(img, n) + k) = <<<<n, k>>, UserData(img.tracks[n])>>
         /\ p.data = 2048
PROOF
<1>1. n \in 1 .. Len(img.tracks) /\ k \in 0 .. img.tracks[n].frames - 1 /\ img.tracks[n].mode # 0
  BY DEF DataSector
<1>2. /\ p.fad = DiscStart(img, n) /\ p.size = img.tracks[n].size
      /\ p.off = FileStart(img, n) - DiscStart(img, n) * img.tracks[n].size
      /\ p.fmt = TrackLayout(ParsedMode(img, n), img.tracks[n].size).fmt
      /\ p.header = TrackLayout(ParsedMode(img, n), img.tracks[n].size).header
      /\ p.data = TrackLayout(ParsedMode(img, n), img.tracks[n].size).data
  BY DEF ParsedAs
<1>3. LayoutRight(img, n, TrackLayout(ParsedMode(img, n), img.tracks[n].size))
  BY <1>1, <1>2, LayoutIs
<1>4. /\ p.header = UserData(img.tracks[n]) /\ p.data = 2048 /\ p.header \in 0 .. 24
      /\ img.tracks[n].size \in {2048, 2336, 2352}
  BY <1>2, <1>3 DEF LayoutRight
<1>5. k \in Nat /\ img.tracks[n].size \in Nat /\ DiscStart(img, n) \in Nat /\ FileStart(img, n) \in Nat
  <2>1. img.tracks[n] \in DiscTracks
    BY <1>1, TrackTypes
  <2>2. img.tracks[n].frames \in Nat /\ img.tracks[n].size \in Nat
    BY <2>1, TrackFields
  <2> QED
    BY <1>1, <2>2, StartsNat
<1>6. SectorPitch(img, n) = img.tracks[n].size
  BY DEF SectorPitch, ImageKind
<1> DEFINE z == img.tracks[n].size
           ds == DiscStart(img, n)
           fs == FileStart(img, n)
           h == p.header
<1>7. p.off + (ds + k) * p.size + h = (fs + k * z) + h
  <2>1. z \in Nat /\ ds \in Nat /\ fs \in Nat /\ h \in Nat /\ k \in Nat
    BY <1>4, <1>5
  <2>2. p.off = fs - ds * z /\ p.size = z
    BY <1>2
  <2> HIDE DEF z, ds, fs, h
  <2>3. (ds + k) * z = ds * z + k * z /\ ds * z \in Nat /\ k * z \in Nat
    <3>1. ds * z \in Nat /\ k * z \in Nat
      BY <2>1
    <3>2. (ds + k) * z = ds * z + k * z
      BY <2>1
    <3> QED
      BY <3>1, <3>2
  <2> DEFINE x == ds * z
             y == k * z
  <2>4. x \in Nat /\ y \in Nat /\ (ds + k) * z = x + y /\ p.off = fs - x
    BY <2>2, <2>3
  <2> HIDE DEF x, y
  <2>5. (fs - x) + (x + y) + h = fs + y + h
    BY <2>1, <2>4
  <2>6. p.off + (ds + k) * p.size + h = fs + y + h
    BY <2>2, <2>4, <2>5
  <2> QED
    BY <2>6 DEF y
<1>8. FileReadSector(img, n, p, ds + k) = ReadAt(img, n, p.off + (ds + k) * p.size + h)
  BY DEF FileReadSector
<1>9. SectorPlace(img, n, k) = fs + k * z
  BY <1>6 DEF SectorPlace
<1> HIDE DEF z, ds, fs, h
<1>10. FileReadSector(img, n, p, ds + k) = ReadAt(img, n, SectorPlace(img, n, k) + h)
  BY <1>7, <1>8, <1>9
<1>11. h \in Nat /\ h < SectorPitch(img, n)
  <2>1. h \in 0 .. 24 /\ SectorPitch(img, n) \in {2048, 2336, 2352}
    BY <1>4, <1>6 DEF h
  <2> QED
    BY <2>1
<1>12. ReadAt(img, n, SectorPlace(img, n, k) + h) = <<<<n, k>>, h>>
  BY <1>1, <1>11, ReadAtSector
<1> QED
  BY <1>4, <1>10, <1>12 DEF ds, h

(* chd_read_sector: the hunk that has the unit, and the place of the unit in it. *)
LEMMA ChdReadIs ==
  ASSUME NEW img, WellMade(img), img.kind = "chd", NEW n, NEW k, DataSector(img, n, k),
         NEW p, ParsedAs(img, n, p), p.fmt # "none"
  PROVE  ChdReadSector(img, n, p, DiscStart(img, n) + k) = <<<<n, k>>, UserData(img.tracks[n])>>
PROOF
<1>1. n \in 1 .. Len(img.tracks) /\ k \in 0 .. img.tracks[n].frames - 1 /\ img.tracks[n].mode # 0
  BY DEF DataSector
<1> DEFINE u == SumOf(ChdUnits(img), n - 1)
           ds == DiscStart(img, n)
           fs == FileStart(img, n)
           h == p.header
<1>2. /\ p.off = ds - u
      /\ p.fmt = TrackLayout(ParsedMode(img, n), img.tracks[n].size).fmt
      /\ p.header = TrackLayout(ParsedMode(img, n), img.tracks[n].size).header
  BY DEF ParsedAs
<1>3. LayoutRight(img, n, TrackLayout(ParsedMode(img, n), img.tracks[n].size))
  BY <1>1, <1>2, LayoutIs
<1>4. p.header = UserData(img.tracks[n]) /\ p.header \in 0 .. 24
  BY <1>2, <1>3 DEF LayoutRight
<1>5. k \in Nat /\ ds \in Nat /\ u \in Nat /\ fs = u * UnitBytes
  <2>1. img.tracks[n] \in DiscTracks
    BY <1>1, TrackTypes
  <2>2. img.tracks[n].frames \in Nat
    BY <2>1, TrackFields
  <2>3. k \in Nat
    BY <1>1, <2>2
  <2>4. ds \in Nat
    BY <1>1, StartsNat
  <2>5. u \in Nat /\ fs = u * UnitBytes
    BY <1>1, UnitsAre
  <2> QED
    BY <2>3, <2>4, <2>5
<1>6. SectorPitch(img, n) = UnitBytes /\ UnitBytes = 2448
  BY DEF SectorPitch, ImageKind, UnitBytes
<1> DEFINE at == ((ds + k) - p.off) * UnitBytes
<1>7. SectorPlace(img, n, k) = fs + k * UnitBytes
  BY <1>6 DEF SectorPlace
<1> HIDE DEF u, ds, fs, h
<1>8. at \in Nat /\ at = fs + k * UnitBytes
  <2>1. (ds + k) - p.off = u + k
    BY <1>2, <1>5
  <2>2. (u + k) * UnitBytes = u * UnitBytes + k * UnitBytes /\ (u + k) * UnitBytes \in Nat
    BY <1>5, <1>6
  <2> QED
    BY <1>5, <2>1, <2>2
<1> HIDE DEF at
<1>9. ChdReadSector(img, n, p, ds + k) = ReadAt(img, n, (at \div (DcHunk * UnitBytes)) * DcHunk * UnitBytes + (at % (DcHunk * UnitBytes)) + h)
  BY DEF ChdReadSector, at, h
<1>10. (at \div (DcHunk * UnitBytes)) * DcHunk * UnitBytes + (at % (DcHunk * UnitBytes)) = at
  <2>1. DcHunk \in Nat /\ DcHunk > 0 /\ UnitBytes \in Nat /\ UnitBytes > 0
    BY <1>6, DcAssumption
  <2> QED
    BY <1>8, <2>1, HunkSplit
<1>11. ChdReadSector(img, n, p, ds + k) = ReadAt(img, n, SectorPlace(img, n, k) + h)
  BY <1>7, <1>8, <1>9, <1>10
<1>12. h \in Nat /\ h < SectorPitch(img, n)
  <2>1. h \in 0 .. 24
    BY <1>4 DEF h
  <2> QED
    BY <1>6, <2>1
<1>13. ReadAt(img, n, SectorPlace(img, n, k) + h) = <<<<n, k>>, h>>
  BY <1>1, <1>12, ReadAtSector
<1> QED
  BY <1>4, <1>11, <1>13 DEF ds, h

-----------------------------------------------------------------------------
(* Disc images: which track has a frame address *)

(* The only place of a sequence that holds is the first one. *)
LEMMA OnlyIsFirst ==
  ASSUME NEW m \in Nat, NEW s, Len(s) = m, NEW n \in 1 .. m, s[n], \A i \in 1 .. m : s[i] => i = n
  PROVE  SelectInSeq(s, LAMBDA b : b) = n
PROOF
<1> DEFINE I == {i \in 1 .. Len(s) : s[i]}
<1>1. I = {n}
  OBVIOUS
<1>2. Min({n}) = n
  BY DEF Min
<1>3. SelectInSeq(s, LAMBDA b : b) = IF I # {} THEN Min(I) ELSE 0
  BY DEF SelectInSeq
<1> HIDE DEF I
<1> QED
  BY <1>1, <1>2, <1>3

(* What is not found is nowhere. *)
LEMMA NoneIsFirst ==
  ASSUME NEW m \in Nat, NEW s, Len(s) = m, \A i \in 1 .. m : ~s[i]
  PROVE  SelectInSeq(s, LAMBDA b : b) = 0
PROOF
  BY DEF SelectInSeq

\* A frame address is one of the track.
HasFrame(img, n, fad) == n \in 1 .. Len(img.tracks) /\ fad - DiscStart(img, n) \in 0 .. img.tracks[n].frames - 1

(* A frame address is one of at most one track. *)
LEMMA FrameOnce ==
  ASSUME NEW img, WellMade(img), NEW fad \in Int, NEW m, NEW n, HasFrame(img, m, fad), HasFrame(img, n, fad)
  PROVE  m = n
PROOF
<1>1. /\ Len(img.tracks) \in Nat /\ DOMAIN img.tracks = 1 .. Len(img.tracks)
      /\ m \in 1 .. Len(img.tracks) /\ n \in 1 .. Len(img.tracks)
  BY TrackTypes DEF HasFrame
<1>2. \A i \in 1 .. Len(img.tracks) : DiscStart(img, i) \in Nat
  BY StartsNat
<1>3. \A i \in 1 .. Len(img.tracks) : img.tracks[i].frames \in Nat
  BY <1>1, TrackTypes, TrackFields
<1>4. \A i \in 1 .. Len(img.tracks) : \A j \in 1 .. Len(img.tracks) :
        i < j => DiscStart(img, i) + img.tracks[i].frames <= DiscStart(img, j)
  BY <1>1 DEF WellMade, TracksApart
<1>5. fad - DiscStart(img, m) \in 0 .. img.tracks[m].frames - 1 /\ fad - DiscStart(img, n) \in 0 .. img.tracks[n].frames - 1
  BY DEF HasFrame
<1> DEFINE a == DiscStart(img, m)
           b == DiscStart(img, n)
           f == img.tracks[m].frames
           g == img.tracks[n].frames
<1>6. a \in Nat /\ b \in Nat /\ f \in Nat /\ g \in Nat /\ fad - a \in 0 .. f - 1 /\ fad - b \in 0 .. g - 1
      /\ (m < n => a + f <= b) /\ (n < m => b + g <= a)
  BY <1>1, <1>2, <1>3, <1>4, <1>5
<1> HIDE DEF a, b, f, g
<1>7. ~(m < n) /\ ~(n < m)
  BY <1>6
<1> QED
  BY <1>1, <1>7

(* disc_lookup_track finds the track that has the frame address. *)
LEMMA LookupIs ==
  ASSUME NEW img, WellMade(img), NEW d, d.tracks = ParsedTracks(img), NEW fad \in Int, NEW n, HasFrame(img, n, fad)
  PROVE  LookupTrack(d, fad) = n
PROOF
<1> DEFINE m == Len(img.tracks)
           s == [i \in 1 .. m |-> fad >= d.tracks[i].fad /\ (i < m => fad < d.tracks[i + 1].fad)]
           st(i) == DiscStart(img, i)
<1>1. m \in Nat /\ DOMAIN img.tracks = 1 .. m /\ n \in 1 .. m
  BY TrackTypes DEF HasFrame
<1>2. Len(d.tracks) = m /\ \A i \in 1 .. m : d.tracks[i].fad = st(i)
  BY ParsedIs DEF ParsedAs
<1>3. \A i \in 1 .. m : st(i) \in Nat
  BY StartsNat
<1>4. \A i \in 1 .. m : img.tracks[i].frames \in Nat /\ img.tracks[i].frames > 0
  BY <1>1, TrackTypes, TrackFields
<1>5. ASSUME NEW i \in 1 .. m, NEW j \in 1 .. m, i < j PROVE st(i) + img.tracks[i].frames <= st(j)
  BY <1>1, <1>5 DEF WellMade, TracksApart
<1>6. fad >= st(n) /\ fad < st(n) + img.tracks[n].frames
  <2>1. fad - st(n) \in 0 .. img.tracks[n].frames - 1 /\ st(n) \in Nat /\ img.tracks[n].frames \in Nat
    BY <1>1, <1>3, <1>4 DEF HasFrame
  <2> HIDE DEF st
  <2> QED
    BY <2>1
<1> HIDE DEF st, m
<1>7. s[n]
  <2>1. fad >= d.tracks[n].fad
    BY <1>1, <1>2, <1>6
  <2>2. ASSUME n < m PROVE fad < d.tracks[n + 1].fad
    <3>1. n + 1 \in 1 .. m /\ n < n + 1
      BY <1>1, <2>2
    <3>2. st(n) + img.tracks[n].frames <= st(n + 1)
      BY <1>1, <1>5, <3>1
    <3>3. st(n) \in Nat /\ st(n + 1) \in Nat /\ img.tracks[n].frames \in Nat
      BY <1>1, <1>3, <1>4, <3>1
    <3>4. fad < st(n + 1)
      BY <1>6, <3>2, <3>3
    <3> QED
      BY <1>2, <3>1, <3>4
  <2> QED
    BY <1>1, <2>1, <2>2
<1>8. ASSUME NEW i \in 1 .. m, s[i] PROVE i = n
  <2>1. fad >= st(i) /\ (i < m => fad < st(i + 1))
    <3>1. fad >= d.tracks[i].fad /\ (i < m => fad < d.tracks[i + 1].fad)
      BY <1>8
    <3>2. i < m => i + 1 \in 1 .. m
      BY <1>1
    <3> QED
      BY <1>2, <3>1, <3>2
  <2>2. ~(n < i)
    <3>1. SUFFICES ASSUME n < i PROVE FALSE
      OBVIOUS
    <3>2. st(n) + img.tracks[n].frames <= st(i)
      BY <1>1, <1>5, <3>1
    <3>3. st(n) \in Nat /\ st(i) \in Nat /\ img.tracks[n].frames \in Nat
      BY <1>1, <1>3, <1>4
    <3> QED
      BY <1>6, <2>1, <3>2, <3>3
  <2>3. ~(i < n)
    <3>1. SUFFICES ASSUME i < n PROVE FALSE
      OBVIOUS
    <3>2. i + 1 \in 1 .. m /\ i < m /\ i + 1 <= n
      BY <1>1, <3>1
    <3>3. st(i + 1) <= st(n)
      <4>1. CASE i + 1 = n
        BY <1>1, <1>3, <4>1
      <4>2. CASE i + 1 < n
        <5>1. st(i + 1) + img.tracks[i + 1].frames <= st(n)
          BY <1>1, <1>5, <3>2, <4>2
        <5>2. st(n) \in Nat /\ st(i + 1) \in Nat /\ img.tracks[i + 1].frames \in Nat
          BY <1>1, <1>3, <1>4, <3>2
        <5> QED
          BY <5>1, <5>2
      <4> QED
        BY <1>1, <3>2, <4>1, <4>2
    <3>4. fad < st(i + 1) /\ st(i + 1) \in Nat /\ st(n) \in Nat
      BY <1>1, <1>3, <2>1, <3>2
    <3> QED
      BY <1>6, <3>3, <3>4
  <2> QED
    BY <1>1, <2>2, <2>3
<1>9. LookupTrack(d, fad) = SelectInSeq(s, LAMBDA b : b)
  BY <1>2 DEF LookupTrack
<1>10. Len(s) = m
  BY <1>1
<1> HIDE DEF s
<1> QED
  BY <1>1, <1>7, <1>8, <1>9, <1>10, OnlyIsFirst

-----------------------------------------------------------------------------
(* Disc images: reads *)

\* The image is open as its parser and disc_create leave it.
OpenedAs(img, d) ==
  /\ d.tracks = ParsedTracks(img) /\ Supported(img, d.tracks)
  /\ d.session.first = img.boot /\ d.session.leadin = DiscStart(img, img.boot)
  /\ d.meta = DiscStart(img, img.boot) /\ d.area = DiscStart(img, img.boot) + IpAreas \div 2048

\* A disc that has no identity yet.
DiscShaped(d) == \E t : \E s : \E m : \E a : d = [tracks |-> t, session |-> s, meta |-> m, area |-> a, uid |-> <<>>]

(* disc_create: an image that is not refused boots from the track it was made with. *)
LEMMA CreateIs ==
  ASSUME NEW img, WellMade(img), CreateDisc(img) # NoDisc
  PROVE  /\ OpenedAs(img, CreateDisc(img)) /\ DataSector(img, img.boot, 0)
         /\ DiscShaped(CreateDisc(img))
PROOF
<1> DEFINE tr == ParsedTracks(img)
           b == img.boot
           ses == ParsedSession(img, tr)
<1>1. b \in 1 .. Len(img.tracks) /\ Len(img.tracks) \in Nat /\ DOMAIN img.tracks = 1 .. Len(img.tracks)
      /\ img.tracks[b] \in DiscTracks
  BY TrackTypes
<1>2. img.tracks[b].mode # 0 /\ (img.kind # "cdi" => b = 3 /\ DiscStart(img, 3) = DcHigh)
  BY DEF WellMade, BootsFrom, ImageKind
<1>3. ParsedAs(img, b, tr[b])
  BY <1>1, ParsedIs
<1>4. tr[b].fad = DiscStart(img, b)
  BY <1>3 DEF ParsedAs
<1> HIDE DEF tr
<1>5. ses.first = b /\ ses.leadin = DiscStart(img, b)
  <2>1. CASE img.kind = "cdi"
    BY <1>4, <2>1 DEF ParsedSession, CdiSession, ImageKind
  <2>2. CASE img.kind # "cdi"
    BY <1>2, <2>2 DEF ParsedSession, HighDensity, ImageKind
  <2> QED
    BY <2>1, <2>2
<1> HIDE DEF ses
<1>6. CreateDisc(img) = IF ~Supported(img, tr) THEN NoDisc
                        ELSE [tracks |-> tr, session |-> ses, meta |-> tr[ses.first].fad,
                              area |-> tr[ses.first].fad + IpAreas \div tr[ses.first].data, uid |-> <<>>]
  BY DEF CreateDisc, DiscOf, ses, tr
<1>7. Supported(img, tr)
  BY <1>6
<1>8. tr[b].data = 2048
  <2>1. b \in DOMAIN tr
    BY <1>1, ParsedIs DEF tr
  <2>2. tr[b].fmt # "none"
    BY <1>7, <2>1 DEF Supported
  <2>3. TrackLayout(ParsedMode(img, b), img.tracks[b].size).fmt # "none"
    BY <1>3, <2>2 DEF ParsedAs, tr
  <2>4. LayoutRight(img, b, TrackLayout(ParsedMode(img, b), img.tracks[b].size))
    BY <1>1, <1>2, <2>3, LayoutIs
  <2> QED
    BY <1>3, <2>4 DEF ParsedAs, LayoutRight, tr
<1>9. CreateDisc(img) = [tracks |-> tr, session |-> ses, meta |-> DiscStart(img, b),
                         area |-> DiscStart(img, b) + IpAreas \div 2048, uid |-> <<>>]
  BY <1>4, <1>5, <1>6, <1>7, <1>8
<1> HIDE DEF b
<1>10. OpenedAs(img, CreateDisc(img))
  BY <1>5, <1>7, <1>9 DEF OpenedAs, tr, b
<1>11. DataSector(img, b, 0)
  <2>1. img.tracks[b].frames \in Nat /\ img.tracks[b].frames > 0
    BY <1>1, TrackFields DEF b
  <2> QED
    BY <1>1, <1>2, <2>1 DEF DataSector, b
<1>12. DiscShaped(CreateDisc(img))
  <2> DEFINE m == DiscStart(img, b)
             a == DiscStart(img, b) + IpAreas \div 2048
  <2>1. CreateDisc(img) = [tracks |-> tr, session |-> ses, meta |-> m, area |-> a, uid |-> <<>>]
    BY <1>9
  <2> HIDE DEF m, a
  <2> QED
    BY <2>1, Zenon DEF DiscShaped
<1> QED
  BY <1>10, <1>11, <1>12 DEF b

\* What disc_read_sectors delivers of sector k of track n.
SectorGot(img, d, n, k) ==
  [from |-> <<<<n, k>>, UserData(img.tracks[n])>>, bytes |-> 2048, patch |-> PatchOf(d, DiscStart(img, n) + k)]

(* One sector is read right. *)
LEMMA SectorReadIs ==
  ASSUME NEW img, WellMade(img), NEW d, OpenedAs(img, d), NEW n, NEW k, DataSector(img, n, k)
  PROVE  /\ ReadSector(img, n, d.tracks[n], DiscStart(img, n) + k) = <<<<n, k>>, UserData(img.tracks[n])>>
         /\ CopiedBytes(img, d.tracks[n]) = 2048
PROOF
<1> DEFINE p == d.tracks[n]
<1>1. n \in 1 .. Len(img.tracks)
  BY DEF DataSector
<1>2. ParsedAs(img, n, p)
  BY <1>1, ParsedIs DEF OpenedAs
<1>3. p.fmt # "none"
  <2>1. n \in DOMAIN d.tracks
    BY <1>1, ParsedIs DEF OpenedAs
  <2> QED
    BY <2>1 DEF OpenedAs, Supported
<1> HIDE DEF p
<1>4. CASE img.kind = "chd"
  <2>1. ReadSector(img, n, p, DiscStart(img, n) + k) = ChdReadSector(img, n, p, DiscStart(img, n) + k)
    BY <1>4 DEF ReadSector, ImageKind
  <2>2. CopiedBytes(img, p) = 2048
    BY <1>4 DEF CopiedBytes, ImageKind
  <2> QED
    BY <1>2, <1>3, <1>4, <2>1, <2>2, ChdReadIs DEF p
<1>5. CASE img.kind # "chd"
  <2>1. ReadSector(img, n, p, DiscStart(img, n) + k) = FileReadSector(img, n, p, DiscStart(img, n) + k)
    BY <1>5 DEF ReadSector, ImageKind
  <2>2. CopiedBytes(img, p) = p.data
    BY <1>5 DEF CopiedBytes, ImageKind
  <2> QED
    BY <1>2, <1>3, <1>5, <2>1, <2>2, FileReadIs DEF p
<1> QED
  BY <1>4, <1>5

\* A read of some sectors of a track, in its format, into room for them.
AsksRight(img, n, count, how) ==
  /\ how.fmt \in {"ANY", FormatOf(img.tracks[n].mode)} /\ how.part = "DATA"
  /\ count * 2048 <= how.room

(* The CHECKs of disc_read_sectors accept such a read. *)
LEMMA ReadAccepted ==
  ASSUME NEW img, WellMade(img), NEW d, OpenedAs(img, d), NEW n, NEW k, DataSector(img, n, k),
         NEW count, NEW how, AsksRight(img, n, count, how)
  PROVE  Accepts(d.tracks[n], count, how)
PROOF
<1> DEFINE p == d.tracks[n]
<1>1. n \in 1 .. Len(img.tracks) /\ img.tracks[n].mode # 0
  BY DEF DataSector
<1>2. ParsedAs(img, n, p)
  BY <1>1, ParsedIs DEF OpenedAs
<1>3. p.fmt # "none"
  <2>1. n \in DOMAIN d.tracks
    BY <1>1, ParsedIs DEF OpenedAs
  <2> QED
    BY <2>1 DEF OpenedAs, Supported
<1> HIDE DEF p
<1>4. /\ p.fmt = TrackLayout(ParsedMode(img, n), img.tracks[n].size).fmt
      /\ p.data = TrackLayout(ParsedMode(img, n), img.tracks[n].size).data
  BY <1>2 DEF ParsedAs
<1>5. LayoutRight(img, n, TrackLayout(ParsedMode(img, n), img.tracks[n].size))
  BY <1>1, <1>3, <1>4, LayoutIs
<1>6. p.fmt = FormatOf(img.tracks[n].mode) /\ p.data = 2048
  BY <1>4, <1>5 DEF LayoutRight
<1>7. Accepts(p, count, how)
  BY <1>6 DEF Accepts, AsksRight
<1> QED
  BY <1>7 DEF p

(* disc_read_sectors delivers every sector of a read within a track of data. *)
LEMMA SectorsReadAre ==
  ASSUME NEW img, WellMade(img), NEW d, OpenedAs(img, d), NEW n, NEW k, DataSector(img, n, k),
         NEW count \in Nat \ {0}, DataSector(img, n, k + count - 1),
         NEW how, AsksRight(img, n, count, how)
  PROVE  DiscReadSectors(img, d, DiscStart(img, n) + k, count, how)
           = [ok |-> TRUE, got |-> [i \in 1 .. count |-> SectorGot(img, d, n, k + (i - 1))]]
PROOF
<1> DEFINE fad == DiscStart(img, n) + k
           one(f) == [from |-> ReadSector(img, n, d.tracks[n], f), bytes |-> CopiedBytes(img, d.tracks[n]), patch |-> PatchOf(d, f)]
           gave == [i \in 1 .. count |-> one(fad + (i - 1))]
           right == [i \in 1 .. count |-> SectorGot(img, d, n, k + (i - 1))]
<1>1. /\ n \in 1 .. Len(img.tracks) /\ Len(img.tracks) \in Nat /\ img.tracks[n].mode # 0
      /\ k \in 0 .. img.tracks[n].frames - 1 /\ k + count - 1 \in 0 .. img.tracks[n].frames - 1
  BY TrackTypes DEF DataSector
<1>2. img.tracks[n].frames \in Nat /\ DiscStart(img, n) \in Nat
  <2>1. img.tracks[n] \in DiscTracks
    BY <1>1, TrackTypes
  <2> QED
    BY <1>1, <2>1, TrackFields, StartsNat
<1>3. k \in Nat /\ fad \in Nat /\ count \in Nat /\ count > 0
  BY <1>1, <1>2
<1>4. LookupTrack(d, fad) = n
  <2>1. fad - DiscStart(img, n) = k
    BY <1>2, <1>3
  <2>2. HasFrame(img, n, fad)
    <3> HIDE DEF fad
    <3> QED
      BY <1>1, <2>1 DEF HasFrame
  <2> HIDE DEF fad
  <2> QED
    BY <1>3, <2>2, LookupIs DEF OpenedAs
<1>5. ASSUME NEW i \in 1 .. count PROVE gave[i] = right[i] /\ right[i].from # <<>>
  <2>1. k + (i - 1) \in 0 .. img.tracks[n].frames - 1
    <3> DEFINE f == img.tracks[n].frames
    <3>1. f \in Nat /\ k \in Nat /\ count \in Nat /\ k + (count - 1) \in 0 .. f - 1 /\ i \in 1 .. count
      BY <1>1, <1>2, <1>3
    <3> HIDE DEF f
    <3>2. k + (i - 1) \in 0 .. f - 1
      BY <3>1
    <3> QED
      BY <3>2 DEF f
  <2>2. DataSector(img, n, k + (i - 1))
    BY <1>1, <2>1 DEF DataSector
  <2>3. fad + (i - 1) = DiscStart(img, n) + (k + (i - 1))
    BY <1>2, <1>3
  <2> DEFINE j == k + (i - 1)
             f == DiscStart(img, n) + j
  <2>4. /\ ReadSector(img, n, d.tracks[n], f) = <<<<n, j>>, UserData(img.tracks[n])>>
        /\ CopiedBytes(img, d.tracks[n]) = 2048
    <3> HIDE DEF j
    <3> QED
      BY <2>2, SectorReadIs DEF j
  <2>5. gave[i] = one(f)
    <3> HIDE DEF fad, one
    <3> QED
      BY <2>3
  <2>6. right[i] = SectorGot(img, d, n, j)
    OBVIOUS
  <2>7. one(f) = SectorGot(img, d, n, j)
    <3> HIDE DEF j
    <3> QED
      BY <2>4 DEF SectorGot
  <2>8. SectorGot(img, d, n, j).from # <<>>
    <3> HIDE DEF j
    <3>1. SectorGot(img, d, n, j).from = <<<<n, j>>, UserData(img.tracks[n])>>
      BY DEF SectorGot
    <3>2. \A x : \A y : <<x, y>> # <<>>
      OBVIOUS
    <3> QED
      BY <3>1, <3>2
  <2> HIDE DEF gave, right, one, f, j
  <2> QED
    BY <2>5, <2>6, <2>7, <2>8
<1>6. gave = right
  <2>1. gave = [i \in 1 .. count |-> gave[i]] /\ right = [i \in 1 .. count |-> right[i]]
    BY DEF gave, right
  <2> HIDE DEF gave, right
  <2> QED
    BY <1>5, <2>1
<1>7. n # 0 /\ ~(\E i \in 1 .. count : gave[i].from = <<>>)
  <2> HIDE DEF gave, right
  <2> QED
    BY <1>1, <1>5
<1>8. DiscReadSectors(img, d, fad, count, how) =
        IF n = 0 THEN NotRead
        ELSE IF ~Accepts(d.tracks[n], count, how) THEN NotRead
        ELSE IF \E i \in 1 .. count : gave[i].from = <<>> THEN NotRead ELSE [ok |-> TRUE, got |-> gave]
  <2> HIDE DEF fad
  <2> QED
    BY <1>4 DEF DiscReadSectors
<1> HIDE DEF gave, right, fad
<1>9. DiscReadSectors(img, d, fad, count, how) = [ok |-> TRUE, got |-> right]
  BY <1>6, <1>7, <1>8, ReadAccepted
<1> QED
  BY <1>9 DEF fad, right

(* The track that has a frame address is the one that is found. *)
LEMMA TrackAtIs ==
  ASSUME NEW img, WellMade(img), NEW fad \in Int, NEW n, HasFrame(img, n, fad)
  PROVE  TrackAt(img, fad) = n
PROOF
<1> DEFINE m == Len(img.tracks)
           s == [i \in DOMAIN img.tracks |-> fad - DiscStart(img, i) \in 0 .. img.tracks[i].frames - 1]
<1>1. m \in Nat /\ DOMAIN img.tracks = 1 .. m /\ n \in 1 .. m
  BY TrackTypes DEF HasFrame
<1>2. Len(s) = m
  BY <1>1
<1>3. \A i \in 1 .. m : s[i] <=> HasFrame(img, i, fad)
  BY <1>1 DEF HasFrame
<1>4. TrackAt(img, fad) = SelectInSeq(s, LAMBDA b : b)
  BY DEF TrackAt
<1> HIDE DEF m, s
<1>5. s[n] /\ \A i \in 1 .. m : s[i] => i = n
  BY <1>1, <1>3, FrameOnce
<1> QED
  BY <1>1, <1>2, <1>4, <1>5, OnlyIsFirst

(* The track that is found has the frame address. *)
LEMMA TrackAtHas ==
  ASSUME NEW img, WellMade(img), NEW fad \in Int, TrackAt(img, fad) # 0
  PROVE  HasFrame(img, TrackAt(img, fad), fad)
PROOF
<1> DEFINE m == Len(img.tracks)
           s == [i \in DOMAIN img.tracks |-> fad - DiscStart(img, i) \in 0 .. img.tracks[i].frames - 1]
<1>1. m \in Nat /\ DOMAIN img.tracks = 1 .. m
  BY TrackTypes
<1>2. Len(s) = m
  BY <1>1
<1>3. \A i \in 1 .. m : s[i] <=> HasFrame(img, i, fad)
  BY <1>1 DEF HasFrame
<1>4. TrackAt(img, fad) = SelectInSeq(s, LAMBDA b : b)
  BY DEF TrackAt
<1> HIDE DEF m, s
<1>5. PICK n \in 1 .. m : s[n]
  BY <1>1, <1>2, <1>4, NoneIsFirst
<1>6. HasFrame(img, n, fad)
  BY <1>3, <1>5
<1> QED
  BY <1>6, TrackAtIs

(* The sectors that are patched are the two of IP.BIN that name the regions. *)
LEMMA PatchIs ==
  ASSUME NEW img, WellMade(img), NEW d, OpenedAs(img, d), NEW n, NEW k, DataSector(img, n, k)
  PROVE  PatchOf(d, DiscStart(img, n) + k) = PatchRight(img, n, k)
PROOF
<1> DEFINE b == img.boot
           x == DiscStart(img, n)
           y == DiscStart(img, b)
           fb == img.tracks[b].frames
           fn == img.tracks[n].frames
<1>1. b \in 1 .. Len(img.tracks) /\ n \in 1 .. Len(img.tracks) /\ k \in 0 .. fn - 1
  BY TrackTypes DEF DataSector
<1>2. x \in Nat /\ y \in Nat /\ fb \in Nat /\ fn \in Nat
  <2>1. img.tracks[b] \in DiscTracks /\ img.tracks[n] \in DiscTracks
    BY <1>1, TrackTypes
  <2> QED
    BY <1>1, <2>1, TrackFields, StartsNat
<1>3. IpAreas \div 2048 = 6 /\ fb > 6
  <2>1. IpAreas \div 2048 = 6
    BY DEF IpAreas
  <2>2. fb > IpAreas \div 2048
    BY DEF WellMade, BootsFrom
  <2> QED
    BY <2>1, <2>2
<1>4. d.meta = y /\ d.area = y + 6
  BY <1>3 DEF OpenedAs
<1>5. n = b => x = y /\ fn = fb
  OBVIOUS
<1>6. \A j \in 0 .. fb - 1 : HasFrame(img, b, y + j)
  <2>1. ASSUME NEW j \in 0 .. fb - 1 PROVE HasFrame(img, b, y + j)
    <3>1. (y + j) - y = j
      <4> HIDE DEF y, fb
      <4> QED
        BY <1>2
    <3> DEFINE f == y + j
    <3>2. f - DiscStart(img, b) \in 0 .. img.tracks[b].frames - 1
      BY <3>1
    <3> HIDE DEF f
    <3> QED
      BY <1>1, <3>2 DEF HasFrame, f
  <2> QED
    BY <2>1
<1>7. HasFrame(img, n, x + k)
  <2>1. (x + k) - x = k
    <3> HIDE DEF x, fn
    <3> QED
      BY <1>1, <1>2
  <2> DEFINE f == x + k
  <2>2. f - DiscStart(img, n) \in 0 .. img.tracks[n].frames - 1
    BY <1>1, <2>1
  <2> HIDE DEF f
  <2> QED
    BY <1>1, <2>2 DEF HasFrame, f
<1> HIDE DEF b, x, y, fb, fn
<1>8. ASSUME NEW j \in {0, 6} PROVE x + k = y + j <=> n = b /\ k = j
  <2>1. j \in 0 .. fb - 1 /\ j \in Nat /\ k \in Nat
    BY <1>1, <1>2, <1>3
  <2>2. ASSUME x + k = y + j PROVE n = b /\ k = j
    <3>1. HasFrame(img, b, x + k) /\ x + k \in Int
      BY <1>2, <1>6, <2>1, <2>2
    <3>2. n = b
      BY <1>7, <3>1, FrameOnce
    <3> QED
      BY <1>2, <1>5, <2>1, <2>2, <3>2
  <2> QED
    BY <1>5, <2>2
<1>9. PatchOf(d, x + k) = IF x + k = y + 0 THEN "meta" ELSE IF x + k = y + 6 THEN "area" ELSE "none"
  BY <1>2, <1>4 DEF PatchOf
<1>10. PatchRight(img, n, k) = IF n = b /\ k = 0 THEN "meta" ELSE IF n = b /\ k = 6 THEN "area" ELSE "none"
  <2>1. CASE n = b /\ k = 0
    BY <1>3, <2>1 DEF PatchRight, b
  <2>2. CASE n = b /\ k = 6
    BY <1>3, <2>2 DEF PatchRight, b
  <2>3. CASE ~(n = b /\ k = 0) /\ ~(n = b /\ k = 6)
    BY <1>3, <2>3 DEF PatchRight, b
  <2> QED
    BY <2>1, <2>2, <2>3
<1> DEFINE z == x + k
           y0 == y + 0
           y6 == y + 6
<1>11. (z = y0 <=> n = b /\ k = 0) /\ (z = y6 <=> n = b /\ k = 6)
  BY <1>8
<1>12. PatchOf(d, z) = IF z = y0 THEN "meta" ELSE IF z = y6 THEN "area" ELSE "none"
  BY <1>9
<1> HIDE DEF z, y0, y6
<1>13. PatchOf(d, z) = PatchRight(img, n, k)
  BY <1>10, <1>11, <1>12
<1> QED
  BY <1>13 DEF z, x

(* What is delivered of a sector of data is right. *)
LEMMA GotRight ==
  ASSUME NEW img, WellMade(img), NEW d, OpenedAs(img, d), NEW n, NEW k, DataSector(img, n, k)
  PROVE  SectorRight(img, SectorGot(img, d, n, k), DiscStart(img, n) + k)
PROOF
<1> DEFINE fad == DiscStart(img, n) + k
           gave == SectorGot(img, d, n, k)
<1>1. n \in 1 .. Len(img.tracks) /\ k \in 0 .. img.tracks[n].frames - 1 /\ img.tracks[n].mode # 0
  BY DEF DataSector
<1>2. k \in Nat /\ DiscStart(img, n) \in Nat
  <2>1. img.tracks[n] \in DiscTracks
    BY <1>1, TrackTypes
  <2>2. img.tracks[n].frames \in Nat
    BY <2>1, TrackFields
  <2> QED
    BY <1>1, <2>2, StartsNat
<1>3. fad \in Int /\ fad - DiscStart(img, n) = k
  BY <1>2
<1>4. gave.from = <<<<n, k>>, UserData(img.tracks[n])>> /\ gave.bytes = 2048 /\ gave.patch = PatchRight(img, n, k)
  BY PatchIs DEF SectorGot
<1> HIDE DEF fad, gave
<1>5. TrackAt(img, fad) = n
  BY <1>1, <1>3, TrackAtIs DEF HasFrame
<1>6. SectorRight(img, gave, fad)
  BY <1>1, <1>3, <1>4, <1>5 DEF SectorRight
<1> QED
  BY <1>6 DEF fad, gave

-----------------------------------------------------------------------------
(* Disc images: the root directory *)

\* The lengths of the records, and the records where they are.
RootLens(img) == [i \in DOMAIN img.root |-> img.root[i].len]
RootRows(img) == [i \in 1 .. Len(img.root) |-> [at |-> SumOf(RootLens(img), i - 1), e |-> img.root[i]]]

(* The records of the root directory fit into a sector, one behind the other. *)
LEMMA RootTypes ==
  ASSUME NEW img, WellMade(img)
  PROVE  /\ Len(img.root) \in Nat /\ DOMAIN img.root = 1 .. Len(img.root)
         /\ \A i \in 1 .. Len(img.root) : img.root[i].len \in Nat /\ img.root[i].len > 0 /\ img.root[i].extent \in Nat
         /\ \A i \in 0 .. Len(img.root) : SumOf(RootLens(img), i) \in Nat /\ SumOf(RootLens(img), i) <= DcDirSize
         /\ \A i \in 0 .. Len(img.root) - 1 : SumOf(RootLens(img), i + 1) = SumOf(RootLens(img), i) + img.root[i + 1].len
PROOF
<1> DEFINE n == Len(img.root)
           s == RootLens(img)
<1>1. img.root \in Seq(DirRecords)
  BY DEF WellMade
<1>2. n \in Nat /\ DOMAIN img.root = 1 .. n /\ \A i \in 1 .. n : img.root[i] \in DirRecords
  BY <1>1
<1>3. \A i \in 1 .. n : img.root[i].len \in Nat /\ img.root[i].len > 0 /\ img.root[i].extent \in Nat
  BY <1>2 DEF DirRecords
<1>4. \A i \in 1 .. n : s[i] \in Nat /\ s[i] = img.root[i].len
  BY <1>2, <1>3 DEF RootLens
<1>5. SumOf(s, n) <= DcDirSize
  BY DEF WellMade, RootFits, RootLens
<1> HIDE DEF n, s
<1>6. (\A i \in 0 .. n : SumOf(s, i) \in Nat) /\ (\A i, j \in 0 .. n : i <= j => SumOf(s, i) <= SumOf(s, j))
  <2>1. \A i \in 1 .. n : s[i] \in Nat
    BY <1>4
  <2> QED
    BY <1>2, <2>1, SumGrows
<1>7. ASSUME NEW i \in 0 .. n PROVE SumOf(s, i) \in Nat /\ SumOf(s, i) <= DcDirSize
  <2>1. n \in 0 .. n /\ i <= n
    BY <1>2
  <2>2. SumOf(s, i) <= SumOf(s, n) /\ SumOf(s, i) \in Nat /\ SumOf(s, n) \in Nat
    BY <1>6, <2>1
  <2> QED
    BY <1>5, <2>2, DcAssumption
<1>8. ASSUME NEW i \in 0 .. n - 1 PROVE SumOf(s, i + 1) = SumOf(s, i) + img.root[i + 1].len
  <2>1. i \in Nat /\ i + 1 \in 1 .. n
    BY <1>2
  <2>2. SumOf(s, i + 1) = SumOf(s, i) + s[i + 1]
    BY <2>1, SumStep
  <2> QED
    BY <1>4, <2>1, <2>2
<1> QED
  BY <1>2, <1>3, <1>7, <1>8 DEF n, s

(* No record of a directory of one sector has to be moved on to the next. *)
LEMMA PlacedIs ==
  ASSUME NEW at \in Nat, NEW dir, NEW e, e.len \in Nat, e.len > 0, at + e.len <= DcDirSize
  PROVE  DirPlaced([at |-> at, dir |-> dir], e) = [at |-> at + e.len, dir |-> Append(dir, [at |-> at, e |-> e])]
PROOF
<1> DEFINE l == e.len
<1>1. l \in Nat /\ l > 0 /\ at + l <= DcDirSize /\ DcDirSize \in Nat
  BY DcAssumption
<1> HIDE DEF l
<1>2. at < DcDirSize /\ DcDirSize > 0
  BY <1>1
<1>3. at % DcDirSize = at
  BY <1>1, <1>2
<1>4. ~(l > DcDirSize - (at % DcDirSize))
  BY <1>1, <1>2, <1>3
<1> DEFINE st == [at |-> at, dir |-> dir]
<1>5. st.at = at /\ st.dir = dir
  OBVIOUS
<1> HIDE DEF st
<1>6. DirPlaced(st, e) = [at |-> at + e.len, dir |-> Append(dir, [at |-> at, e |-> e])]
  BY <1>4, <1>5 DEF DirPlaced, l
<1> QED
  BY <1>6 DEF st

(* The root directory in memory: record behind record. *)
LEMMA RootDirIs ==
  ASSUME NEW img, WellMade(img)
  PROVE  RootDir(img) = RootRows(img)
PROOF
<1> DEFINE n == Len(img.root)
           lens == RootLens(img)
           row == RootRows(img)
           closed == [i \in 0 .. n |-> [at |-> SumOf(lens, i), dir |-> [k \in 1 .. i |-> row[k]]]]
           after == CHOOSE f : f = [i \in 0 .. n |-> IF i = 0 THEN [at |-> 0, dir |-> <<>>] ELSE DirPlaced(f[i - 1], img.root[i])]
<1>1. /\ n \in Nat
      /\ \A i \in 1 .. n : img.root[i].len \in Nat /\ img.root[i].len > 0
      /\ \A i \in 0 .. n : SumOf(lens, i) \in Nat /\ SumOf(lens, i) <= DcDirSize
      /\ \A i \in 0 .. n - 1 : SumOf(lens, i + 1) = SumOf(lens, i) + img.root[i + 1].len
  BY RootTypes
<1>2. RootDir(img) = after[n].dir
  BY DEF RootDir
<1>3. closed[0] = [at |-> 0, dir |-> <<>>]
  <2>1. SumOf(lens, 0) = 0 /\ 0 \in 0 .. n
    BY <1>1, SumStep
  <2>2. [k \in 1 .. 0 |-> row[k]] = <<>>
    OBVIOUS
  <2> QED
    BY <2>1, <2>2
<1>4. ASSUME NEW i \in 0 .. n - 1 PROVE closed[i + 1] = DirPlaced(closed[i], img.root[i + 1])
  <2> DEFINE e == img.root[i + 1]
             at == SumOf(lens, i)
             dir == [k \in 1 .. i |-> row[k]]
  <2>1. i + 1 \in 1 .. n /\ i + 1 \in 0 .. n /\ i \in 0 .. n /\ i \in Nat /\ (i + 1) - 1 = i
    BY <1>1
  <2>2. at \in Nat /\ e.len \in Nat /\ e.len > 0 /\ SumOf(lens, i + 1) = at + e.len /\ at + e.len <= DcDirSize
    BY <1>1, <2>1
  <2>3. row[i + 1] = [at |-> at, e |-> e]
    <3>1. row[i + 1] = [at |-> SumOf(lens, (i + 1) - 1), e |-> e]
      BY <2>1 DEF RootRows
    <3> HIDE DEF e
    <3> QED
      BY <2>1, <3>1
  <2>4. closed[i] = [at |-> at, dir |-> dir]
    BY <2>1
  <2>5. closed[i + 1] = [at |-> SumOf(lens, i + 1), dir |-> [k \in 1 .. i + 1 |-> row[k]]]
    BY <2>1
  <2> HIDE DEF e, at, row, lens, n
  <2>6. Append(dir, row[i + 1]) = [k \in 1 .. i + 1 |-> row[k]]
    BY <2>1, TableGrows
  <2> HIDE DEF closed, dir
  <2>7. DirPlaced([at |-> at, dir |-> dir], e) = [at |-> at + e.len, dir |-> Append(dir, [at |-> at, e |-> e])]
    BY <2>2, PlacedIs
  <2> QED
    BY <2>2, <2>3, <2>4, <2>5, <2>6, <2>7 DEF e
<1> HIDE DEF row, lens
<1>5. closed = [i \in 0 .. n |-> IF i = 0 THEN [at |-> 0, dir |-> <<>>] ELSE DirPlaced(closed[i - 1], img.root[i])]
  <2> DEFINE h == [i \in 0 .. n |-> IF i = 0 THEN [at |-> 0, dir |-> <<>>] ELSE DirPlaced(closed[i - 1], img.root[i])]
  <2>1. ASSUME NEW i \in 0 .. n PROVE closed[i] = h[i]
    <3>1. CASE i = 0
      BY <1>3, <3>1
    <3>2. CASE i # 0
      <4>1. i - 1 \in 0 .. n - 1 /\ (i - 1) + 1 = i
        BY <1>1, <3>2
      <4>2. closed[(i - 1) + 1] = DirPlaced(closed[i - 1], img.root[(i - 1) + 1])
        BY <1>4, <4>1
      <4>3. h[i] = DirPlaced(closed[i - 1], img.root[i])
        BY <3>2
      <4> HIDE DEF closed, h
      <4> QED
        BY <4>1, <4>2, <4>3
    <3> QED
      BY <3>1, <3>2
  <2>2. closed = [i \in 0 .. n |-> closed[i]]
    OBVIOUS
  <2>3. h = [i \in 0 .. n |-> h[i]]
    OBVIOUS
  <2>4. closed = h
    <3> HIDE DEF closed, h
    <3> QED
      BY <2>1, <2>2, <2>3
  <2> QED
    BY <2>4
<1>6. closed[n] = [at |-> SumOf(lens, n), dir |-> [k \in 1 .. n |-> row[k]]]
  BY <1>1
<1> HIDE DEF closed
<1>7. \E f : f = [i \in 0 .. n |-> IF i = 0 THEN [at |-> 0, dir |-> <<>>] ELSE DirPlaced(f[i - 1], img.root[i])]
  BY <1>5
<1>8. after = [i \in 0 .. n |-> IF i = 0 THEN [at |-> 0, dir |-> <<>>] ELSE DirPlaced(after[i - 1], img.root[i])]
  BY <1>7, Zenon
<1> HIDE DEF after
<1>9. after[0] = closed[0]
  BY <1>1, <1>3, <1>8
<1>10. ASSUME NEW i \in 0 .. n - 1, after[i] = closed[i] PROVE after[i + 1] = closed[i + 1]
  <2>1. i + 1 \in 0 .. n /\ i + 1 # 0 /\ (i + 1) - 1 = i
    BY <1>1
  <2>2. after[i + 1] = DirPlaced(after[i], img.root[i + 1])
    BY <1>8, <2>1
  <2> QED
    BY <1>4, <1>10, <2>2
<1>11. after[n] = closed[n]
  BY <1>1, <1>9, <1>10, GoOnAlike
<1>12. [k \in 1 .. n |-> row[k]] = row
  BY DEF row, RootRows
<1> QED
  BY <1>2, <1>6, <1>11, <1>12 DEF row

(* A set of numbers that is not empty has a least one. *)
LEMMA HasLeast ==
  ASSUME NEW S \in SUBSET Nat, S # {}
  PROVE  \E m \in S : \A k \in S : m <= k
PROOF
<1> DEFINE Less == {ss \in Nat \X Nat : ss[1] < ss[2]}
<1>1. IsWellFoundedOn(Less, Nat)
  BY NatLessThanWellFounded DEF OpToRel
<1>2. PICK m \in S : \A u \in S : ~(<<u, m>> \in Less)
  <2> HIDE DEF Less
  <2> QED
    BY <1>1, WFMin
<1>3. ASSUME NEW k \in S PROVE m <= k
  <2>1. ~(<<k, m>> \in Less) /\ k \in Nat /\ m \in Nat
    BY <1>2
  <2>2. ~(k < m)
    BY <2>1
  <2> QED
    BY <2>1, <2>2
<1> QED
  BY <1>3

\* The walk over the root directory after i records, if record j is the first that fits.
WalkedTo(img, i, j) ==
  IF j # 0 /\ j <= i THEN [at |-> SumOf(RootLens(img), j - 1), over |-> TRUE, found |-> img.root[j].extent]
  ELSE [at |-> SumOf(RootLens(img), i), over |-> FALSE, found |-> -1]

(* One more record of the walk: it fits exactly if it has the name. *)
LEMMA WalkStep ==
  ASSUME NEW img, WellMade(img), NEW name \in DcNames, NEW j \in 0 .. Len(img.root),
         \A k \in 1 .. Len(img.root) : img.root[k].name = name => j # 0 /\ j <= k,
         j # 0 => img.root[j].name = name,
         NEW i \in 0 .. Len(img.root) - 1
  PROVE  WalkedTo(img, i + 1, j) = WalkRecord(WalkedTo(img, i, j), RootRows(img)[i + 1], name)
PROOF
<1> DEFINE n == Len(img.root)
           r == RootRows(img)[i + 1]
           at == SumOf(RootLens(img), i)
           w == WalkedTo(img, i, j)
<1>1. /\ n \in Nat /\ DOMAIN img.root = 1 .. n
      /\ SumOf(RootLens(img), i + 1) = at + img.root[i + 1].len
  BY RootTypes
<1>2. i + 1 \in 1 .. n /\ i \in Nat /\ (i + 1) - 1 = i /\ j \in Nat /\ i + 1 # 0
  <2>1. n \in Nat /\ i \in 0 .. n - 1 /\ j \in 0 .. n
    BY <1>1
  <2> HIDE DEF n
  <2> QED
    BY <2>1
<1>3. r.at = at /\ r.e = img.root[i + 1]
  <2>1. r = [at |-> SumOf(RootLens(img), (i + 1) - 1), e |-> img.root[i + 1]]
    BY <1>2 DEF RootRows
  <2> HIDE DEF r
  <2> QED
    BY <1>2, <2>1
<1>4. IsPrefix(name, r.e.name) <=> img.root[i + 1].name = name
  BY <1>1, <1>2, <1>3 DEF WellMade, NamesApart
<1> HIDE DEF r, n
<1>5. CASE j # 0 /\ j <= i
  <2>1. w = [at |-> SumOf(RootLens(img), j - 1), over |-> TRUE, found |-> img.root[j].extent]
    BY <1>5 DEF WalkedTo
  <2>2. j <= i + 1
    BY <1>2, <1>5
  <2>3. WalkedTo(img, i + 1, j) = w
    BY <1>5, <2>2 DEF WalkedTo
  <2> HIDE DEF w
  <2>4. w.over
    BY <2>1
  <2> QED
    BY <2>3, <2>4 DEF WalkRecord, w, r
<1>6. CASE ~(j # 0 /\ j <= i)
  <2>1. w = [at |-> at, over |-> FALSE, found |-> -1]
    BY <1>6 DEF WalkedTo
  <2> HIDE DEF w, at
  <2>2. ~w.over /\ w.at = at
    BY <2>1
  <2>3. CASE img.root[i + 1].name = name
    <3>1. j = i + 1
      BY <1>2, <1>6, <2>3 DEF n
    <3>2. WalkedTo(img, i + 1, j) = [at |-> SumOf(RootLens(img), (i + 1) - 1), over |-> TRUE, found |-> img.root[i + 1].extent]
      BY <1>2, <3>1 DEF WalkedTo
    <3>3. WalkRecord(w, r, name) = [at |-> at, over |-> TRUE, found |-> img.root[i + 1].extent]
      BY <1>3, <1>4, <2>2, <2>3 DEF WalkRecord
    <3> QED
      BY <1>2, <3>2, <3>3 DEF w, at, r
  <2>4. CASE img.root[i + 1].name # name
    <3>1. ~(j # 0 /\ j <= i + 1)
      <4>1. j # i + 1
        BY <2>4
      <4> QED
        BY <1>2, <1>6, <4>1
    <3>2. WalkedTo(img, i + 1, j) = [at |-> at + img.root[i + 1].len, over |-> FALSE, found |-> -1]
      BY <1>1, <3>1 DEF WalkedTo
    <3>3. WalkRecord(w, r, name) = [at |-> at + img.root[i + 1].len, over |-> FALSE, found |-> -1]
      BY <1>3, <1>4, <2>2, <2>4 DEF WalkRecord
    <3> QED
      BY <3>2, <3>3 DEF w, r
  <2> QED
    BY <2>3, <2>4
<1> QED
  BY <1>5, <1>6

(* disc_find_file: the walk ends at the first record that has the name. *)
LEMMA WalkIs ==
  ASSUME NEW img, WellMade(img), NEW name \in DcNames, NEW j \in 0 .. Len(img.root),
         \A k \in 1 .. Len(img.root) : img.root[k].name = name => j # 0 /\ j <= k,
         j # 0 => img.root[j].name = name
  PROVE  WalkDir(RootRows(img), name) = WalkedTo(img, Len(img.root), j)
PROOF
<1> DEFINE n == Len(img.root)
           dir == RootRows(img)
           start == [at |-> 0, over |-> FALSE, found |-> -1]
           closed == [i \in 0 .. n |-> WalkedTo(img, i, j)]
           after == CHOOSE f : f = [i \in 0 .. n |-> IF i = 0 THEN start ELSE WalkRecord(f[i - 1], dir[i], name)]
<1>1. n \in Nat /\ Len(dir) = n
  BY RootTypes DEF RootRows
<1>2. WalkDir(dir, name) = after[n]
  <2> HIDE DEF dir, n
  <2> QED
    BY <1>1 DEF WalkDir
<1>3. closed[0] = start
  <2>1. SumOf(RootLens(img), 0) = 0 /\ 0 \in 0 .. n /\ ~(j # 0 /\ j <= 0)
    <3>1. SumOf(RootLens(img), 0) = 0
      BY SumStep
    <3>2. n \in Nat /\ j \in 0 .. n
      BY <1>1
    <3> HIDE DEF n
    <3>3. 0 \in 0 .. n /\ ~(j # 0 /\ j <= 0)
      BY <3>2
    <3> QED
      BY <3>1, <3>3
  <2>2. WalkedTo(img, 0, j) = start
    BY <2>1 DEF WalkedTo
  <2> QED
    BY <2>1, <2>2
<1>4. ASSUME NEW i \in 0 .. n - 1 PROVE closed[i + 1] = WalkRecord(closed[i], dir[i + 1], name)
  <2>1. i + 1 \in 0 .. n /\ i \in 0 .. n
    BY <1>1
  <2>2. closed[i] = WalkedTo(img, i, j) /\ closed[i + 1] = WalkedTo(img, i + 1, j)
    BY <2>1
  <2>3. WalkedTo(img, i + 1, j) = WalkRecord(WalkedTo(img, i, j), dir[i + 1], name)
    BY WalkStep
  <2> HIDE DEF closed, dir
  <2> QED
    BY <2>2, <2>3
<1> HIDE DEF dir, start
<1>5. closed = [i \in 0 .. n |-> IF i = 0 THEN start ELSE WalkRecord(closed[i - 1], dir[i], name)]
  <2> DEFINE h == [i \in 0 .. n |-> IF i = 0 THEN start ELSE WalkRecord(closed[i - 1], dir[i], name)]
  <2>1. ASSUME NEW i \in 0 .. n PROVE closed[i] = h[i]
    <3>1. CASE i = 0
      BY <1>3, <3>1
    <3>2. CASE i # 0
      <4>1. i - 1 \in 0 .. n - 1 /\ (i - 1) + 1 = i
        BY <1>1, <3>2
      <4>2. closed[(i - 1) + 1] = WalkRecord(closed[i - 1], dir[(i - 1) + 1], name)
        BY <1>4, <4>1
      <4>3. h[i] = WalkRecord(closed[i - 1], dir[i], name)
        BY <3>2
      <4> HIDE DEF closed, h
      <4> QED
        BY <4>1, <4>2, <4>3
    <3> QED
      BY <3>1, <3>2
  <2>2. closed = [i \in 0 .. n |-> closed[i]]
    OBVIOUS
  <2>3. h = [i \in 0 .. n |-> h[i]]
    OBVIOUS
  <2>4. closed = h
    <3> HIDE DEF closed, h
    <3> QED
      BY <2>1, <2>2, <2>3
  <2> QED
    BY <2>4
<1>6. closed[n] = WalkedTo(img, n, j)
  BY <1>1
<1> HIDE DEF closed
<1>7. \E f : f = [i \in 0 .. n |-> IF i = 0 THEN start ELSE WalkRecord(f[i - 1], dir[i], name)]
  BY <1>5
<1>8. after = [i \in 0 .. n |-> IF i = 0 THEN start ELSE WalkRecord(after[i - 1], dir[i], name)]
  BY <1>7, Zenon
<1> HIDE DEF after
<1>9. after[0] = closed[0]
  BY <1>1, <1>3, <1>8
<1>10. ASSUME NEW i \in 0 .. n - 1, after[i] = closed[i] PROVE after[i + 1] = closed[i + 1]
  <2>1. i + 1 \in 0 .. n /\ i + 1 # 0 /\ (i + 1) - 1 = i
    BY <1>1
  <2>2. after[i + 1] = WalkRecord(after[i], dir[i + 1], name)
    BY <1>8, <2>1
  <2> QED
    BY <1>4, <1>10, <2>2
<1>11. after[n] = closed[n]
  BY <1>1, <1>9, <1>10, GoOnAlike
<1> QED
  BY <1>2, <1>6, <1>11 DEF dir

(* disc_find_file: a file is found exactly if the root directory has it, at its extent. *)
LEMMA FindIs ==
  ASSUME NEW img, WellMade(img), NEW name \in DcNames
  PROVE  FileRight(img, FileAnswer(name, WalkDir(RootDir(img), name).found))
PROOF
<1> DEFINE n == Len(img.root)
           S == {k \in 1 .. n : img.root[k].name = name}
           found == WalkDir(RootDir(img), name).found
           answer == FileAnswer(name, found)
<1>1. n \in Nat /\ DOMAIN img.root = 1 .. n /\ \A i \in 1 .. n : img.root[i].extent \in Nat
  BY RootTypes
<1>2. answer.name = name /\ answer.fad = IF found = -1 THEN -1 ELSE DcPregap + found
  BY DEF FileAnswer
<1>3. Named(img, name) = S
  BY <1>1 DEF Named
<1>4. WalkDir(RootDir(img), name) = WalkDir(RootRows(img), name)
  BY RootDirIs
<1> HIDE DEF answer
<1>5. CASE S = {}
  <2>1. \A k \in 1 .. n : img.root[k].name = name => 0 # 0 /\ 0 <= k
    BY <1>5
  <2>2. 0 \in 0 .. n
    BY <1>1
  <2>3. WalkDir(RootRows(img), name) = WalkedTo(img, n, 0)
    BY <2>1, <2>2, WalkIs
  <2>4. WalkedTo(img, n, 0).found = -1
    BY DEF WalkedTo
  <2>5. answer.fad = -1
    BY <1>2, <1>4, <2>3, <2>4
  <2> QED
    BY <1>2, <1>3, <1>5, <2>5 DEF FileRight, answer
<1>6. CASE S # {}
  <2>1. PICK j \in S : \A k \in S : j <= k
    <3>1. S \in SUBSET Nat
      OBVIOUS
    <3> HIDE DEF S
    <3> QED
      BY <1>6, <3>1, HasLeast
  <2>2. j \in 0 .. n /\ j # 0 /\ j <= n /\ img.root[j].name = name /\ j \in 1 .. n
    BY <1>1, <2>1
  <2>3. \A k \in 1 .. n : img.root[k].name = name => j # 0 /\ j <= k
    BY <2>1, <2>2
  <2>4. WalkDir(RootRows(img), name) = WalkedTo(img, n, j)
    BY <2>2, <2>3, WalkIs
  <2>5. WalkedTo(img, n, j).found = img.root[j].extent
    BY <2>2 DEF WalkedTo
  <2>6. img.root[j].extent \in Nat
    BY <1>1, <2>2
  <2>7. found = img.root[j].extent /\ found # -1
    <3>1. found = img.root[j].extent
      BY <1>4, <2>4, <2>5
    <3> QED
      BY <2>6, <3>1
  <2> HIDE DEF found
  <2>8. answer.fad = DcPregap + img.root[j].extent
    BY <1>2, <2>7
  <2> QED
    BY <1>2, <1>3, <1>6, <2>1, <2>8 DEF FileRight, answer, found
<1> QED
  BY <1>5, <1>6

-----------------------------------------------------------------------------
(* Disc images: the theorem *)

\* An image is open as it should be, and what it has answered is right.
DiscOpen(img, d, gave, ask, file) ==
  /\ img \in DcImages /\ OpenedAs(img, d) /\ d.uid = <<img.boot, 0>>
  /\ \A i \in DOMAIN gave : SectorRight(img, gave[i], ask[i])
  /\ file # NotAsked => FileRight(img, file)
DiscInv ==
  /\ ~dcfatal
  /\ dcimg = <<>> => dcgot = <<>> /\ dcfile = NotAsked
  /\ dcimg # <<>> => DiscOpen(dcimg, dc, dcgot, dcask, dcfile)

(* disc_read_sectors of one sector. *)
LEMMA OneSectorRead ==
  ASSUME NEW img, WellMade(img), NEW d, OpenedAs(img, d), NEW n, NEW k, DataSector(img, n, k),
         NEW bytes \in Nat, bytes >= 2048
  PROVE  SectorIs(DiscReadSectors(img, d, DiscStart(img, n) + k, 1, AnyData(bytes)), n, k)
PROOF
<1> DEFINE c == 1
           r == DiscReadSectors(img, d, DiscStart(img, n) + k, c, AnyData(bytes))
<1>1. k \in Int
  <2>1. img.tracks[n] \in DiscTracks /\ k \in 0 .. img.tracks[n].frames - 1
    BY TrackTypes DEF DataSector
  <2>2. img.tracks[n].frames \in Nat
    BY <2>1, TrackFields
  <2> QED
    BY <2>1, <2>2
<1>2. c \in Nat \ {0} /\ k + (c - 1) = k /\ 1 \in 1 .. c /\ k + (1 - 1) = k
  BY <1>1
<1>8. AsksRight(img, n, c, AnyData(bytes))
  BY DEF AsksRight, AnyData
<1> HIDE DEF c
<1>3. DataSector(img, n, k + (c - 1))
  BY <1>2
<1>4. r = [ok |-> TRUE, got |-> [i \in 1 .. c |-> SectorGot(img, d, n, k + (i - 1))]]
  BY <1>2, <1>3, <1>8, SectorsReadAre
<1> HIDE DEF r
<1>5. r.ok /\ r.got[1] = SectorGot(img, d, n, k + (1 - 1))
  BY <1>2, <1>4
<1>6. r.got[1] = SectorGot(img, d, n, k)
  BY <1>2, <1>5
<1>7. r.got[1].from[1] = <<n, k>>
  BY <1>6 DEF SectorGot
<1> QED
  BY <1>5, <1>7 DEF SectorIs, r, c

(* Another identity leaves the layout of a disc alone. *)
LEMMA NamedDisc ==
  ASSUME NEW img, NEW d, DiscShaped(d), OpenedAs(img, d), NEW u
  PROVE  OpenedAs(img, [d EXCEPT !.uid = u]) /\ [d EXCEPT !.uid = u].uid = u
PROOF
<1> DEFINE e == [d EXCEPT !.uid = u]
<1>1. PICK t, s, m, a : d = [tracks |-> t, session |-> s, meta |-> m, area |-> a, uid |-> <<>>]
  BY DEF DiscShaped
<1>2. e.tracks = t /\ e.session = s /\ e.meta = m /\ e.area = a /\ e.uid = u
  BY <1>1
<1>3. d.tracks = t /\ d.session = s /\ d.meta = m /\ d.area = a
  BY <1>1
<1> HIDE DEF e
<1>4. OpenedAs(img, e) /\ e.uid = u
  BY <1>2, <1>3 DEF OpenedAs
<1> QED
  BY <1>4 DEF e

(* disc_create opens the disc, and disc_get_meta knows it by its first sector. *)
LEMMA OpenStep ==
  ASSUME DiscInv, NEW img \in DcImages, OpenDisc(img)
  PROVE  DiscInv'
PROOF
<1> DEFINE d == CreateDisc(img)
<1>1. dcimg = <<>> /\ ~dcfatal /\ dcgot = <<>> /\ dcfile = NotAsked /\ WellMade(img)
  BY DcAssumption DEF OpenDisc, DiscInv
<1>2. dcgot' = dcgot /\ dcask' = dcask /\ dcfile' = dcfile
  BY DEF OpenDisc
<1>3. CASE d = NoDisc
  <2>1. dcimg' = dcimg /\ dc' = dc /\ dcfatal' = dcfatal
    BY <1>3 DEF OpenDisc
  <2> QED
    BY <1>1, <1>2, <2>1 DEF DiscInv
<1>4. CASE d # NoDisc
  <2> DEFINE ip == DiscReadSectors(img, d, d.session.leadin, 1, AnyData(SectorBound))
  <2>1. dcimg' = img /\ dcfatal' = ~ip.ok /\ dc' = [d EXCEPT !.uid = IF ip.ok THEN ip.got[1].from[1] ELSE <<>>]
    BY <1>4 DEF OpenDisc
  <2>2. /\ OpenedAs(img, d) /\ DataSector(img, img.boot, 0)
        /\ DiscShaped(d)
    BY <1>1, <1>4, CreateIs
  <2> HIDE DEF d
  <2>5. SectorBound \in Nat /\ SectorBound >= 2048
    BY DEF SectorBound
  <2>3. SectorIs(DiscReadSectors(img, d, DiscStart(img, img.boot) + 0, 1, AnyData(SectorBound)), img.boot, 0)
    BY <1>1, <2>2, <2>5, OneSectorRead
  <2>4. d.session.leadin = DiscStart(img, img.boot) + 0
    <3>1. d.session.leadin = DiscStart(img, img.boot) /\ DiscStart(img, img.boot) \in Nat
      BY <1>1, <2>2, StartsNat DEF OpenedAs, DataSector
    <3> QED
      BY <3>1
  <2>6. ip.ok /\ ip.got[1].from[1] = <<img.boot, 0>>
    BY <2>3, <2>4 DEF SectorIs
  <2> HIDE DEF ip
  <2>7. dc' = [d EXCEPT !.uid = <<img.boot, 0>>]
    BY <2>1, <2>6
  <2>8. OpenedAs(img, dc') /\ dc'.uid = <<img.boot, 0>>
    BY <2>2, <2>7, NamedDisc
  <2>9. \A i \in DOMAIN dcgot' : SectorRight(img, dcgot'[i], dcask'[i])
    BY <1>1, <1>2
  <2>10. DiscOpen(dcimg', dc', dcgot', dcask', dcfile')
    BY <1>1, <1>2, <2>1, <2>8, <2>9 DEF DiscOpen
  <2> QED
    BY <1>1, <1>2, <2>1, <2>6, <2>10 DEF DiscInv
<1> QED
  BY <1>3, <1>4

(* disc_read_sectors, for the frames a guest reads of a track of data. *)
LEMMA ReadStep ==
  ASSUME ~DcAcross, ~DcAudio, ~DcOther, DiscInv, dcimg # <<>>,
         NEW n \in DOMAIN dcimg.tracks, NEW k \in 0 .. dcimg.tracks[n].frames - 1,
         NEW count \in 1 .. DcMaxRead, NEW how \in Asked, ReadFrames(DiscStart(dcimg, n) + k, count, how)
  PROVE  DiscInv'
PROOF
<1> DEFINE img == dcimg
           start == DiscStart(img, n)
           fad == start + k
           f == img.tracks[n].frames
           r == DiscReadSectors(img, dc, fad, count, how)
<1>1. DiscOpen(img, dc, dcgot, dcask, dcfile) /\ ~dcfatal
  BY DEF DiscInv
<1>2. WellMade(img) /\ OpenedAs(img, dc)
  BY <1>1, DcAssumption DEF DiscOpen
<1>3. n \in 1 .. Len(img.tracks)
  BY <1>2, TrackTypes
<1>4. start \in Nat /\ f \in Nat /\ k \in Nat /\ k \in 0 .. f - 1 /\ count \in Nat \ {0}
  <2>1. img.tracks[n] \in DiscTracks
    BY <1>2, <1>3, TrackTypes
  <2>2. f \in Nat
    BY <2>1, TrackFields
  <2>3. count \in Nat \ {0}
    BY DcAssumption
  <2>4. start \in Nat
    BY <1>2, <1>3, StartsNat
  <2> HIDE DEF f, start
  <2>5. k \in 0 .. f - 1
    BY DEF f
  <2> QED
    BY <2>2, <2>3, <2>4, <2>5
<1>5. /\ dcfatal' = ~r.ok /\ dcgot' = r.got /\ dcask' = [i \in 1 .. count |-> fad + i - 1]
      /\ dcimg' = dcimg /\ dc' = dc /\ dcfile' = dcfile /\ ReadWanted(fad, count, how)
  BY DEF ReadFrames
<1>6. fad \in Int /\ fad + count - 1 \in Int /\ fad - start = k /\ (fad + count - 1) - start = k + count - 1
  <2> HIDE DEF start, f
  <2> QED
    BY <1>4
<1> HIDE DEF fad, start, f, r, img
<1>7. TrackAt(img, fad) = n
  BY <1>2, <1>3, <1>4, <1>6, TrackAtIs DEF HasFrame, start, f
<1>8. TrackAt(img, fad + count - 1) = n /\ img.tracks[n].mode # 0 /\ n # 0
  BY <1>5, <1>7 DEF ReadWanted, img
<1>9. HasFrame(img, n, fad + count - 1)
  BY <1>2, <1>6, <1>8, TrackAtHas
<1>10. k + count - 1 \in 0 .. f - 1
  BY <1>6, <1>9 DEF HasFrame, start, f
<1>11. DataSector(img, n, k) /\ DataSector(img, n, k + count - 1)
  BY <1>3, <1>4, <1>8, <1>10 DEF DataSector, f
<1>17. AsksRight(img, n, count, how)
  <2>1. how.fmt \in {"ANY", FormatOf(img.tracks[n].mode)} /\ how.part = "DATA"
    BY <1>5, <1>7 DEF ReadWanted, img
  <2>2. how.room = DcMaxRead * 2352
    BY DEF Asked, SectorBound
  <2>3. count * 2048 <= DcMaxRead * 2352
    <3>1. DcMaxRead \in Nat
      BY DcAssumption
    <3>2. count \in Nat /\ count <= DcMaxRead
      BY <3>1
    <3> QED
      BY <3>1, <3>2
  <2> QED
    BY <2>1, <2>2, <2>3 DEF AsksRight
<1>12. r = [ok |-> TRUE, got |-> [i \in 1 .. count |-> SectorGot(img, dc, n, k + (i - 1))]]
  BY <1>2, <1>4, <1>11, <1>17, SectorsReadAre DEF r, fad, start
<1>13. r.ok /\ r.got = [i \in 1 .. count |-> SectorGot(img, dc, n, k + (i - 1))]
  BY <1>12
<1>14. ASSUME NEW i \in 1 .. count PROVE SectorRight(img, dcgot'[i], dcask'[i])
  <2>1. k + (i - 1) \in 0 .. f - 1
    <3>1. f \in Nat /\ k \in Nat /\ count \in Nat /\ k + (count - 1) \in 0 .. f - 1 /\ i \in 1 .. count
      BY <1>4, <1>10
    <3> QED
      BY <3>1
  <2>2. DataSector(img, n, k + (i - 1))
    BY <1>3, <1>8, <2>1 DEF DataSector, f
  <2>3. SectorRight(img, SectorGot(img, dc, n, k + (i - 1)), start + (k + (i - 1)))
    BY <1>2, <2>2, GotRight DEF start
  <2>4. dcgot'[i] = SectorGot(img, dc, n, k + (i - 1))
    BY <1>5, <1>13
  <2>5. dcask'[i] = start + (k + (i - 1))
    <3>1. dcask'[i] = fad + i - 1
      BY <1>5
    <3>2. fad + i - 1 = start + (k + (i - 1))
      BY <1>4 DEF fad
    <3> QED
      BY <3>1, <3>2
  <2> QED
    BY <2>3, <2>4, <2>5
<1>15. DOMAIN dcgot' = 1 .. count
  BY <1>5, <1>13
<1>16. DiscOpen(img, dc, dcgot', dcask', dcfile)
  BY <1>1, <1>14, <1>15 DEF DiscOpen
<1> QED
  BY <1>5, <1>13, <1>16 DEF DiscInv, img

(* disc_find_file reads the volume descriptor and the root directory, and walks it. *)
LEMMA FindStep ==
  ASSUME DiscInv, NEW name \in DcNames, FindFile(name)
  PROVE  DiscInv'
PROOF
<1> DEFINE img == dcimg
           b == img.boot
           start == DiscStart(img, b)
<1>0. dcimg # <<>> /\ dcimg' = dcimg /\ dc' = dc /\ dcgot' = dcgot /\ dcask' = dcask
  BY DEF FindFile
<1>1. DiscOpen(img, dc, dcgot, dcask, dcfile)
  BY <1>0 DEF DiscInv
<1>2. WellMade(img) /\ OpenedAs(img, dc)
  BY <1>1, DcAssumption DEF DiscOpen
<1>3. b \in 1 .. Len(img.tracks) /\ img.tracks[b].frames \in Nat /\ start \in Nat
  <2>1. b \in 1 .. Len(img.tracks) /\ img.tracks[b] \in DiscTracks
    BY <1>2, TrackTypes
  <2> QED
    BY <1>2, <2>1, TrackFields, StartsNat
<1>4. img.tracks[b].mode # 0 /\ img.tracks[b].frames > DcPvd + 1 /\ DcPvd \in Nat /\ DcPregap \in Nat
  BY <1>2, DcAssumption DEF WellMade, BootsFrom
<1>5. ASSUME NEW k \in {DcPvd, DcPvd + 1}, NEW bytes \in Nat, bytes >= 2048
      PROVE  SectorIs(DiscReadSectors(img, dc, start + k, 1, AnyData(bytes)), b, k)
  <2> DEFINE f == img.tracks[b].frames
  <2>1. k \in 0 .. f - 1
    <3>1. f \in Nat /\ f > DcPvd + 1 /\ DcPvd \in Nat
      BY <1>3, <1>4
    <3> HIDE DEF f
    <3> QED
      BY <3>1
  <2>2. DataSector(img, b, k)
    BY <1>3, <1>4, <2>1 DEF DataSector
  <2> HIDE DEF img, b
  <2> QED
    BY <1>2, <1>5, <2>2, OneSectorRead
<1>6. SectorIs(VolumeRead, b, DcPvd)
  <2>1. dc.session.first = b /\ dc.tracks[b].fad = start
    <3>1. ParsedAs(img, b, dc.tracks[b]) /\ dc.session.first = b
      BY <1>2, <1>3, ParsedIs DEF OpenedAs
    <3> QED
      BY <3>1 DEF ParsedAs
  <2>2. VolumeRead = DiscReadSectors(img, dc, start + DcPvd, 1, AnyData(65536))
    BY <2>1 DEF VolumeRead
  <2>3. SectorIs(DiscReadSectors(img, dc, start + DcPvd, 1, AnyData(65536)), b, DcPvd)
    BY <1>5
  <2> HIDE DEF img, b, start
  <2> QED
    BY <2>2, <2>3
<1>7. SectorIs(RootRead, b, DcPvd + 1)
  <2>1. DcPregap + RootExtent(img) = start + (DcPvd + 1)
    <3>1. RootExtent(img) = start + DcPvd + 1 - DcPregap
      BY DEF RootExtent
    <3> HIDE DEF start
    <3> QED
      BY <1>3, <1>4, <3>1
  <2>2. RootRead = DiscReadSectors(img, dc, start + (DcPvd + 1), 1, AnyData(SectorBound))
    BY <2>1 DEF RootRead
  <2>3. SectorIs(DiscReadSectors(img, dc, start + (DcPvd + 1), 1, AnyData(SectorBound)), b, DcPvd + 1)
    BY <1>5 DEF SectorBound
  <2> HIDE DEF img, b, start
  <2> QED
    BY <2>2, <2>3
<1>8. DirRead = RootDir(img)
  BY <1>7 DEF DirRead
<1>9. ~dcfatal'
  <2>1. dcfatal' = (~SectorIs(VolumeRead, b, DcPvd) \/ ~RootRead.ok)
    BY DEF FindFile
  <2>2. RootRead.ok
    BY <1>7 DEF SectorIs
  <2> QED
    BY <1>6, <2>1, <2>2
<1>10. dcfile' = FileAnswer(name, WalkDir(RootDir(img), name).found)
  BY <1>8 DEF FindFile
<1> HIDE DEF b, start
<1>11. FileRight(img, dcfile')
  BY <1>2, <1>10, FindIs
<1>12. DiscOpen(img, dc, dcgot, dcask, dcfile')
  BY <1>1, <1>11 DEF DiscOpen
<1> QED
  BY <1>0, <1>9, <1>12 DEF DiscInv

(* Whatever images there are, reads of the data of a track, in its own    *)
(* format, deliver the right sectors, files are found, the disc is known  *)
(* by its own first sector, and no CHECK fails: for every number, mode,   *)
(* size, gap and length of the tracks (disc.c, gdi.c, cdi.c, chd.c).  A    *)
(* guest that asks for another format, for more than the data, for audio  *)
(* or for frames of two tracks at once is not meant.                      *)
THEOREM DiscHolds ==
  ASSUME ~DcAcross, ~DcAudio, ~DcOther
  PROVE  DcSpec => []DiscExact
PROOF
<1>1. DcInit => DiscInv
  BY DEF DcInit, DiscInv
<1>2. DiscInv /\ [DcNext]_dcvars => DiscInv'
  <2> SUFFICES ASSUME DiscInv, [DcNext]_dcvars PROVE DiscInv'
    OBVIOUS
  <2>1. CASE \E img \in DcImages : OpenDisc(img)
    BY <2>1, OpenStep
  <2>2. CASE CloseDisc
    BY <2>2 DEF CloseDisc, DiscInv
  <2>3. CASE /\ dcimg # <<>>
             /\ \E n \in DOMAIN dcimg.tracks : \E k \in 0 .. dcimg.tracks[n].frames - 1, count \in 1 .. DcMaxRead :
                  \E how \in Asked : ReadFrames(DiscStart(dcimg, n) + k, count, how)
    <3>1. PICK n \in DOMAIN dcimg.tracks : \E k \in 0 .. dcimg.tracks[n].frames - 1, count \in 1 .. DcMaxRead :
                  \E how \in Asked : ReadFrames(DiscStart(dcimg, n) + k, count, how)
      BY <2>3
    <3>2. PICK k \in 0 .. dcimg.tracks[n].frames - 1, count \in 1 .. DcMaxRead :
                  \E how \in Asked : ReadFrames(DiscStart(dcimg, n) + k, count, how)
      BY <3>1
    <3>3. PICK how \in Asked : ReadFrames(DiscStart(dcimg, n) + k, count, how)
      BY <3>2
    <3> QED
      BY <2>3, <3>3, ReadStep
  <2>4. CASE \E name \in DcNames : FindFile(name)
    BY <2>4, FindStep
  <2>5. CASE UNCHANGED dcvars
    BY <2>5 DEF dcvars, DiscInv
  <2> QED
    BY <2>1, <2>2, <2>3, <2>4, <2>5 DEF DcNext
<1>3. DiscInv => DiscExact
  BY DEF DiscInv, DiscExact, DiscOpen, ReadsExact, FilesFound
<1> QED
  BY <1>1, <1>2, <1>3, PTL DEF DcSpec

=============================================================================
