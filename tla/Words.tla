-------------------------------- MODULE Words --------------------------------
(***************************************************************************)
(* Machine words of WordBits bits: the arithmetic that the guest           *)
(* instruction sets and the intermediate language are defined in.  The     *)
(* code has words of 32 bits, bytes of 8 and half words of 16; a model     *)
(* keeps the proportions and shrinks the width, so that every carry, sign  *)
(* and shift of a boundary value can be enumerated.                        *)
(***************************************************************************)
EXTENDS Integers, Bitwise, FiniteSetsExt

CONSTANTS WordBits,   \* bits of a word (32 in the code)
          MemBytes    \* bytes of guest memory, which repeats

ASSUME WordBitsAssumption == WordBits \in Nat /\ WordBits % 4 = 0 /\ WordBits > 0 /\ MemBytes \in Nat \ {0}

Modulus == 2 ^ WordBits
ByteBits == WordBits \div 4
HalfBits == WordBits \div 2
Wrap(x) == x % Modulus
Msb(v) == v \div (Modulus \div 2)
Signed(v) == v - Modulus * Msb(v)
NotWord(v) == Modulus - 1 - v
Shl(v, k) == Wrap(v * 2 ^ k)
Lshr(v, k) == v \div 2 ^ k
Ashr(v, k) == Wrap(Signed(v) \div 2 ^ k)

(* The signed value of the low b bits, as a word, and those bits alone.    *)
Sext(v, b) ==
  LET x == v % 2 ^ b IN Wrap(x - 2 ^ b * (x \div 2 ^ (b - 1)))
Zext(v, b) == v % 2 ^ b

Select(c, a, b) == IF c # 0 THEN a ELSE b
Bool(b) == IF b THEN 1 ELSE 0

(* The bidirectional shifts: a count with the sign bit set shifts right by *)
(* what its low bits lack to a full word, a zero there being the whole.    *)
Ashd(v, n) ==
  LET k == n % WordBits
  IN  CASE Msb(n) = 0 -> Shl(v, k)
        [] Msb(n) = 1 /\ k # 0 -> Ashr(v, WordBits - k)
        [] OTHER -> Ashr(v, WordBits - 1)
Lshd(v, n) ==
  LET k == n % WordBits
  IN  CASE Msb(n) = 0 -> Shl(v, k)
        [] Msb(n) = 1 /\ k # 0 -> Lshr(v, WordBits - k)
        [] OTHER -> 0

(* The carry out of a + b (+ carry in) = v, as the code computes it with   *)
(* logical operations on the three words.                                  *)
CarryOf(a, b, v) == Msb((a & b) | ((a | b) & NotWord(v)))

(* Guest memory, little endian, behind the r8 .. w32 callbacks of a guest. *)
ByteAt(c, a) == c.mem[a % MemBytes]
LoadZ(c, a, w) == MapThenSumSet(LAMBDA k : ByteAt(c, a + k) * 2 ^ (k * ByteBits), 0 .. w - 1)
LoadS(c, a, w) == Sext(LoadZ(c, a, w), w * ByteBits)
StoreMem(c, a, w, v) ==
  [c EXCEPT !.mem = [b \in DOMAIN @ |->
     IF \E k \in 0 .. w - 1 : (a + k) % MemBytes = b
     THEN (v \div 2 ^ (((b - a) % MemBytes) * ByteBits)) % 2 ^ ByteBits
     ELSE @[b]]]
==============================================================================
