------------------------------ MODULE XorShift ------------------------------
(***************************************************************************)
(* createRng of the k6 scripts: Marsaglia's xorshift on 32 bits, one       *)
(* generator per virtual user.  A 32-bit value is the set of its one bits, *)
(* so that a shift moves bits, zeros come in at the other end and          *)
(* exclusive or is the symmetric difference.  (| 0 and >>> 0 only say      *)
(* whether bit 31 is a sign; every >>> of the code shifts zeros in.)       *)
(***************************************************************************)
EXTENDS Integers

Bits == 0..31
Words == SUBSET Bits

\* Mutant of Xor: &= for ^=.
XorAsAnd(x, y) == x \cap y

Xor(x, y) == (x \ y) \cup (y \ x)
ShiftLeft(x, k)  == {b \in Bits : b - k \in x}
ShiftRight(x, k) == {b \in Bits : b + k \in x}

\* One call of nextU32: the new state is the draw.
NextU32(x) ==
  LET a == Xor(x, ShiftLeft(x, 13))
      c == Xor(a, ShiftRight(a, 17))
  IN  Xor(c, ShiftLeft(c, 5))

\* The 16 bits of a number from bit k on.
BitsOf(n, k) == {b \in k..(k + 15) : (n \div 2^(b - k)) % 2 = 1}

\* Mutant of Seed: the same for every virtual user.
SeedForAll(vu) == BitsOf(31153, 0) \cup BitsOf(40503, 16)

\* The virtual users whose product with 2654435761 a JavaScript number holds exactly: up to
\* 2^53 \div 2654435761.
MaxVU == 3393263

\* (__VU * 2654435761) >>> 0, where 2654435761 = 40503 * 65536 + 31153.
Seed(vu) ==
  LET low  == vu * 31153
      high == vu * 40503 + low \div 65536
  IN  BitsOf(low % 65536, 0) \cup BitsOf(high % 65536, 16)

\* The number of the 16 bits of a word from bit k on.
Bit(x, k)    == IF k \in x THEN 1 ELSE 0
Nibble(x, k) == Bit(x, k) + 2 * Bit(x, k + 1) + 4 * Bit(x, k + 2) + 8 * Bit(x, k + 3)
Half(x, k)   == Nibble(x, k) + 16 * Nibble(x, k + 4) + 256 * Nibble(x, k + 8) + 4096 * Nibble(x, k + 12)

\* draw % n, without a number of more than 31 bits.
Mod(x, n) == ((Half(x, 16) % n) * (65536 % n) + (Half(x, 0) % n)) % n

\* draw / 0xffffffff < 0.8, HOT_TRAFFIC_PERCENTAGE's default: below 0xCCCCCCCC.
IsHot(x) == Half(x, 16) < 52428 \/ (Half(x, 16) = 52428 /\ Half(x, 0) < 52428)
=============================================================================
