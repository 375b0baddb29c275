--------------------------- MODULE XorShiftProofs ---------------------------
(***************************************************************************)
(* A step of the generator is a bijection that keeps zero apart: no        *)
(* generator gets stuck at zero, and two that differ go on to differ.      *)
(* Each of the three exclusive ors can be undone from one end of the word: *)
(* the bits the shift filled with zeros are there as they were, they tell  *)
(* the next k bits, and so on.                                             *)
(*                                                                         *)
(* What XorShift computes with two halves of a word is what the script     *)
(* computes with its 32-bit number: the seed, the remainder, the threshold.*)
(* (Numbers of more than 31 bits appear in these statements only, which    *)
(* the prover can handle and the model checker could not.)                 *)
(***************************************************************************)
EXTENDS XorShift, TLAPS

\* The result of a shift and an exclusive or is a word again.
LEMMA XorIsWord == ASSUME NEW x \in Words, NEW y \in Words PROVE Xor(x, y) \in Words
BY DEF Xor, Words

LEMMA ShiftIsWord == ASSUME NEW x, NEW k PROVE ShiftLeft(x, k) \in Words /\ ShiftRight(x, k) \in Words
BY DEF ShiftLeft, ShiftRight, Words

\* What one bit of x ^ (x << k), and of x ^ (x >>> k), is.
LEMMA LeftBit ==
  ASSUME NEW x \in Words, NEW k \in Nat, NEW b \in Bits
  PROVE  b \in Xor(x, ShiftLeft(x, k)) <=> ~(b \in x <=> b - k \in x)
BY DEF Xor, ShiftLeft, Words, Bits

LEMMA RightBit ==
  ASSUME NEW x \in Words, NEW k \in Nat, NEW b \in Bits
  PROVE  b \in Xor(x, ShiftRight(x, k)) <=> ~(b \in x <=> b + k \in x)
BY DEF Xor, ShiftRight, Words, Bits

\* Two words that agree below bit m, and after the shift everywhere, agree below m + k.
LEMMA LeftChunk ==
  ASSUME NEW x \in Words, NEW y \in Words, NEW k \in Nat, NEW m \in Nat,
         Xor(x, ShiftLeft(x, k)) = Xor(y, ShiftLeft(y, k)),
         \A b \in Bits : b < m => (b \in x <=> b \in y)
  PROVE  \A b \in Bits : b < m + k => (b \in x <=> b \in y)
<1> TAKE b \in Bits
<1> HAVE b < m + k
<1>1. ~(b \in x <=> b - k \in x) <=> ~(b \in y <=> b - k \in y)
  BY LeftBit
<1>2. b - k \in x <=> b - k \in y
  <2>1. CASE b - k \in Bits
    BY <2>1 DEF Bits
  <2>2. CASE b - k \notin Bits
    BY <2>2 DEF Words
  <2> QED BY <2>1, <2>2
<1> QED BY <1>1, <1>2

\* The same from the other end.
LEMMA RightChunk ==
  ASSUME NEW x \in Words, NEW y \in Words, NEW k \in Nat, NEW m \in Int,
         Xor(x, ShiftRight(x, k)) = Xor(y, ShiftRight(y, k)),
         \A b \in Bits : b > m => (b \in x <=> b \in y)
  PROVE  \A b \in Bits : b > m - k => (b \in x <=> b \in y)
<1> TAKE b \in Bits
<1> HAVE b > m - k
<1>1. ~(b \in x <=> b + k \in x) <=> ~(b \in y <=> b + k \in y)
  BY RightBit
<1>2. b + k \in x <=> b + k \in y
  <2>1. CASE b + k \in Bits
    BY <2>1 DEF Bits
  <2>2. CASE b + k \notin Bits
    BY <2>2 DEF Words
  <2> QED BY <2>1, <2>2
<1> QED BY <1>1, <1>2

\* x ^ (x << 13) and x ^ (x << 5) tell x; so does x ^ (x >>> 17).
LEMMA LeftInjective ==
  ASSUME NEW x \in Words, NEW y \in Words, NEW k \in {5, 13},
         Xor(x, ShiftLeft(x, k)) = Xor(y, ShiftLeft(y, k))
  PROVE  x = y
<1> DEFINE Below(m) == \A b \in Bits : b < m => (b \in x <=> b \in y)
<1>1. Below(0)
  BY DEF Bits
<1>2. \A m \in Nat : Below(m) => Below(m + k)
  BY LeftChunk
<1> HIDE DEF Below
<1>3. Below(k)
  BY <1>1, <1>2
<1>4. Below(k + k)
  BY <1>2, <1>3
<1>5. Below(k + k + k)
  BY <1>2, <1>4
<1>6. Below(k + k + k + k)
  BY <1>2, <1>5
<1>7. Below(k + k + k + k + k)
  BY <1>2, <1>6
<1>8. Below(k + k + k + k + k + k)
  BY <1>2, <1>7
<1>9. Below(k + k + k + k + k + k + k)
  BY <1>2, <1>8
<1>10. \A b \in Bits : b \in x <=> b \in y
  BY <1>9 DEF Below, Bits
<1> QED BY <1>10 DEF Words

LEMMA RightInjective ==
  ASSUME NEW x \in Words, NEW y \in Words, Xor(x, ShiftRight(x, 17)) = Xor(y, ShiftRight(y, 17))
  PROVE  x = y
<1>1. \A b \in Bits : b > 31 => (b \in x <=> b \in y)
  BY DEF Bits
<1>2. \A b \in Bits : b > 31 - 17 => (b \in x <=> b \in y)
  BY <1>1, RightChunk
<1>3. \A b \in Bits : b > (31 - 17) - 17 => (b \in x <=> b \in y)
  BY <1>2, RightChunk
<1>4. \A b \in Bits : b \in x <=> b \in y
  BY <1>3 DEF Bits
<1> QED BY <1>4 DEF Words

\* A draw is a word.
LEMMA NextIsWord == ASSUME NEW x \in Words PROVE NextU32(x) \in Words
BY XorIsWord, ShiftIsWord DEF NextU32

\* Two generators in different states are in different states after a draw.
THEOREM NextIsInjective ==
  ASSUME NEW x \in Words, NEW y \in Words, NextU32(x) = NextU32(y)
  PROVE  x = y
<1> DEFINE a(z) == Xor(z, ShiftLeft(z, 13))
           c(z) == Xor(a(z), ShiftRight(a(z), 17))
<1>1. a(x) \in Words /\ a(y) \in Words
  BY XorIsWord, ShiftIsWord
<1>2. c(x) \in Words /\ c(y) \in Words
  BY <1>1, XorIsWord, ShiftIsWord
<1>3. Xor(c(x), ShiftLeft(c(x), 5)) = Xor(c(y), ShiftLeft(c(y), 5))
  BY DEF NextU32
<1> HIDE DEF c
<1>4. c(x) = c(y)
  BY <1>2, <1>3, LeftInjective
<1> USE DEF c
<1> HIDE DEF a
<1>5. a(x) = a(y)
  BY <1>1, <1>4, RightInjective
<1> USE DEF a
<1> QED BY <1>5, LeftInjective

\* Zero is the only state that a draw leaves at zero.
THEOREM NextIsNotZero == ASSUME NEW x \in Words, x # {} PROVE NextU32(x) # {}
<1>1. {} \in Words
  BY DEF Words
<1>2. NextU32({}) = {}
  BY DEF NextU32, Xor, ShiftLeft, ShiftRight
<1> QED BY <1>1, <1>2, NextIsInjective

-----------------------------------------------------------------------------
(* The number of a word.                                                   *)

Number(x) == 65536 * Half(x, 16) + Half(x, 0)

\* The 16 bits of a word from bit k on are those of a number.
HasBits(x, k, n) == \A i \in 0..15 : Bit(x, k + i) = (n \div 2^i) % 2

\* A number that has no more than 16 bits.
IsShort(n) == n \in Nat /\ n < 65536

\* Four of them are one digit of the number to the base 16.
LEMMA NibbleOfBits ==
  ASSUME NEW m \in Nat, NEW x, NEW j \in Nat,
         Bit(x, j)     = m % 2,
         Bit(x, j + 1) = (m \div 2) % 2,
         Bit(x, j + 2) = (m \div 4) % 2,
         Bit(x, j + 3) = (m \div 8) % 2
  PROVE  Nibble(x, j) = m % 16
<1>1. m % 16 = (m % 2) + 2 * ((m \div 2) % 2) + 4 * ((m \div 4) % 2) + 8 * ((m \div 8) % 2)
  BY SMT
<1> QED BY <1>1 DEF Nibble

LEMMA NibblesOfBits ==
  ASSUME NEW n \in Nat, NEW x, NEW k \in Nat, HasBits(x, k, n)
  PROVE  /\ Nibble(x, k)      = n % 16
         /\ Nibble(x, k + 4)  = (n \div 16) % 16
         /\ Nibble(x, k + 8)  = (n \div 256) % 16
         /\ Nibble(x, k + 12) = (n \div 4096) % 16
<1>1. Nibble(x, k) = n % 16
  <2>1. Bit(x, k) = n % 2
    BY SMT DEF HasBits
  <2>2. Bit(x, k + 1) = (n \div 2) % 2
    BY SMT DEF HasBits
  <2>3. Bit(x, k + 2) = (n \div 4) % 2
    BY SMT DEF HasBits
  <2>4. Bit(x, k + 3) = (n \div 8) % 2
    BY SMT DEF HasBits
  <2> QED BY <2>1, <2>2, <2>3, <2>4, NibbleOfBits
<1>2. Nibble(x, k + 4) = (n \div 16) % 16
  <2> DEFINE m == n \div 16
             j == k + 4
  <2>0. m \in Nat /\ j \in Nat
    BY SMT
  <2>1. Bit(x, j) = m % 2
    BY SMT DEF HasBits
  <2>2. Bit(x, j + 1) = (m \div 2) % 2
    <3>1. Bit(x, k + 5) = (n \div 32) % 2
      BY SMT DEF HasBits
    <3>2. m \div 2 = n \div 32
      BY SMT
    <3>3. j + 1 = k + 5
      OBVIOUS
    <3> QED BY <3>1, <3>2, <3>3
  <2>3. Bit(x, j + 2) = (m \div 4) % 2
    <3>1. Bit(x, k + 6) = (n \div 64) % 2
      BY SMT DEF HasBits
    <3>2. m \div 4 = n \div 64
      BY SMT
    <3>3. j + 2 = k + 6
      OBVIOUS
    <3> QED BY <3>1, <3>2, <3>3
  <2>4. Bit(x, j + 3) = (m \div 8) % 2
    <3>1. Bit(x, k + 7) = (n \div 128) % 2
      BY SMT DEF HasBits
    <3>2. m \div 8 = n \div 128
      BY SMT
    <3>3. j + 3 = k + 7
      OBVIOUS
    <3> QED BY <3>1, <3>2, <3>3
  <2> HIDE DEF m, j
  <2>5. Nibble(x, j) = m % 16
    BY <2>0, <2>1, <2>2, <2>3, <2>4, NibbleOfBits
  <2> QED BY <2>5 DEF m, j
<1>3. Nibble(x, k + 8) = (n \div 256) % 16
  <2> DEFINE m == n \div 256
             j == k + 8
  <2>0. m \in Nat /\ j \in Nat
    BY SMT
  <2>1. Bit(x, j) = m % 2
    BY SMT DEF HasBits
  <2>2. Bit(x, j + 1) = (m \div 2) % 2
    <3>1. Bit(x, k + 9) = (n \div 512) % 2
      BY SMT DEF HasBits
    <3>2. m \div 2 = n \div 512
      BY SMT
    <3>3. j + 1 = k + 9
      OBVIOUS
    <3> QED BY <3>1, <3>2, <3>3
  <2>3. Bit(x, j + 2) = (m \div 4) % 2
    <3>1. Bit(x, k + 10) = (n \div 1024) % 2
      BY SMT DEF HasBits
    <3>2. m \div 4 = n \div 1024
      BY SMT
    <3>3. j + 2 = k + 10
      OBVIOUS
    <3> QED BY <3>1, <3>2, <3>3
  <2>4. Bit(x, j + 3) = (m \div 8) % 2
    <3>1. Bit(x, k + 11) = (n \div 2048) % 2
      BY SMT DEF HasBits
    <3>2. m \div 8 = n \div 2048
      BY SMT
    <3>3. j + 3 = k + 11
      OBVIOUS
    <3> QED BY <3>1, <3>2, <3>3
  <2> HIDE DEF m, j
  <2>5. Nibble(x, j) = m % 16
    BY <2>0, <2>1, <2>2, <2>3, <2>4, NibbleOfBits
  <2> QED BY <2>5 DEF m, j
<1>4. Nibble(x, k + 12) = (n \div 4096) % 16
  <2> DEFINE m == n \div 4096
             j == k + 12
  <2>0. m \in Nat /\ j \in Nat
    BY SMT
  <2>1. Bit(x, j) = m % 2
    BY SMT DEF HasBits
  <2>2. Bit(x, j + 1) = (m \div 2) % 2
    <3>1. Bit(x, k + 13) = (n \div 8192) % 2
      BY SMT DEF HasBits
    <3>2. m \div 2 = n \div 8192
      BY SMT
    <3>3. j + 1 = k + 13
      OBVIOUS
    <3> QED BY <3>1, <3>2, <3>3
  <2>3. Bit(x, j + 2) = (m \div 4) % 2
    <3>1. Bit(x, k + 14) = (n \div 16384) % 2
      BY SMT DEF HasBits
    <3>2. m \div 4 = n \div 16384
      BY SMT
    <3>3. j + 2 = k + 14
      OBVIOUS
    <3> QED BY <3>1, <3>2, <3>3
  <2>4. Bit(x, j + 3) = (m \div 8) % 2
    <3>1. Bit(x, k + 15) = (n \div 32768) % 2
      BY SMT DEF HasBits
    <3>2. m \div 8 = n \div 32768
      BY SMT
    <3>3. j + 3 = k + 15
      OBVIOUS
    <3> QED BY <3>1, <3>2, <3>3
  <2> HIDE DEF m, j
  <2>5. Nibble(x, j) = m % 16
    BY <2>0, <2>1, <2>2, <2>3, <2>4, NibbleOfBits
  <2> QED BY <2>5 DEF m, j
<1> QED BY <1>1, <1>2, <1>3, <1>4

\* Sixteen bits of a number that has no more.
LEMMA HalfOfBits ==
  ASSUME NEW n, IsShort(n), NEW x, NEW k \in Nat, HasBits(x, k, n)
  PROVE  Half(x, k) = n
<1>1. n \in Nat
  BY DEF IsShort
<1>2. /\ Nibble(x, k) = n % 16 /\ Nibble(x, k + 4) = (n \div 16) % 16
      /\ Nibble(x, k + 8) = (n \div 256) % 16 /\ Nibble(x, k + 12) = (n \div 4096) % 16
  BY <1>1, NibblesOfBits
<1>3. n = (n % 16) + 16 * ((n \div 16) % 16) + 256 * ((n \div 256) % 16) + 4096 * ((n \div 4096) % 16)
  <2>1. n = 16 * (n \div 16) + (n % 16)
    BY <1>1, SMT
  <2>2. n \div 16 = 16 * (n \div 256) + ((n \div 16) % 16)
    BY <1>1, SMT
  <2>3. n \div 256 = 16 * (n \div 4096) + ((n \div 256) % 16)
    BY <1>1, SMT
  <2>4. n \div 4096 = (n \div 4096) % 16
    BY <1>1, SMT DEF IsShort
  <2> QED BY <1>1, <2>1, <2>2, <2>3, <2>4, SMT
<1> QED BY <1>1, <1>2, <1>3, SMT DEF Half

\* The two halves of a word that is made of two numbers.
LEMMA HalvesOfWord ==
  ASSUME NEW n, NEW m, IsShort(n), IsShort(m)
  PROVE  LET x == BitsOf(n, 0) \cup BitsOf(m, 16)
         IN  x \in Words /\ Half(x, 0) = n /\ Half(x, 16) = m
<1> DEFINE x == BitsOf(n, 0) \cup BitsOf(m, 16)
<1>0. n \in Nat /\ m \in Nat
  BY DEF IsShort
<1>1. ASSUME NEW i \in 0..15
      PROVE  Bit(x, i) = (n \div 2^i) % 2 /\ Bit(x, 16 + i) = (m \div 2^i) % 2
  <2>1. (n \div 2^i) % 2 \in {0, 1} /\ (m \div 2^i) % 2 \in {0, 1}
    BY <1>0, SMT
  <2>2. i \in x <=> (n \div 2^i) % 2 = 1
    BY <1>0, SMT DEF BitsOf
  <2>3. 16 + i \in x <=> (m \div 2^i) % 2 = 1
    BY <1>0, SMT DEF BitsOf
  <2> QED BY <2>1, <2>2, <2>3 DEF Bit
<1>2. x \in Words
  BY <1>0, SMT DEF Words, Bits, BitsOf
<1> HIDE DEF x
<1>3. HasBits(x, 0, n) /\ HasBits(x, 16, m)
  <2>1. \A i \in 0..15 : 0 + i = i
    OBVIOUS
  <2> QED BY <1>1, <2>1, Zenon DEF HasBits
<1>4. 0 \in Nat /\ 16 \in Nat
  OBVIOUS
<1>5. Half(x, 0) = n /\ Half(x, 16) = m
  BY <1>3, <1>4, HalfOfBits, Zenon
<1> QED BY <1>2, <1>5 DEF x

\* A remainder does not see multiples of the divisor.
LEMMA Remainder ==
  ASSUME NEW n \in Nat \ {0}, NEW x \in Int, NEW y \in Int, NEW k \in Int, x = n * k + y
  PROVE  x % n = y % n
<1> DEFINE d == k + (y \div n) - (x \div n)
<1>1. x % n \in 0..(n - 1) /\ y % n \in 0..(n - 1) /\ x \div n \in Int /\ y \div n \in Int
  BY SMT
<1>2. x = n * (x \div n) + (x % n) /\ y = n * (y \div n) + (y % n)
  BY SMT
<1>3. d \in Int /\ n * d = (x % n) - (y % n)
  <2>1. n * d = n * k + n * (y \div n) - n * (x \div n)
    BY <1>1, SMT
  <2> QED BY <1>1, <1>2, <2>1, SMT
<1> HIDE DEF d
<1>4. ~(d >= 1)
  <2>1. d >= 1 => n * d >= n
    BY <1>3, SMT
  <2> QED BY <1>1, <1>3, <2>1, SMT
<1>5. ~(d <= -1)
  <2>1. d <= -1 => n * d <= -n
    BY <1>3, SMT
  <2> QED BY <1>1, <1>3, <2>1, SMT
<1>6. (x % n) - (y % n) = 0
  BY <1>3, <1>4, <1>5, SMT
<1> QED BY <1>1, <1>6, SMT

\* The halves of a number, each divided for itself.
LEMMA RemainderOfHalves ==
  ASSUME NEW n \in Nat \ {0}, NEW g \in Nat, NEW h \in Nat, NEW l \in Nat
  PROVE  ((h % n) * (g % n) + (l % n)) % n = (g * h + l) % n
<1> DEFINE a == h % n
           b == g % n
           c == l % n
           p == h \div n
           q == g \div n
           r == l \div n
<1>1. a \in Int /\ b \in Int /\ c \in Int /\ p \in Int /\ q \in Int /\ r \in Int
  BY SMT
<1>2. h = n * p + a /\ g = n * q + b /\ l = n * r + c
  BY SMT
<1> HIDE DEF a, b, c, p, q, r
<1>3. g * h + l = n * (n * p * q + p * b + q * a + r) + (a * b + c)
  BY <1>1, <1>2, SMT
<1>4. n * p * q + p * b + q * a + r \in Int /\ a * b + c \in Int /\ g * h + l \in Int
  BY <1>1, SMT
<1>5. (g * h + l) % n = (a * b + c) % n
  BY <1>3, <1>4, Remainder
<1> QED BY <1>5 DEF a, b, c

\* The bits of a word make a number of 16 bits on either side.
LEMMA HalfInRange == ASSUME NEW x, NEW k \in Nat PROVE IsShort(Half(x, k))
<1>1. \A i \in Nat : Bit(x, i) \in 0..1
  BY DEF Bit
<1>2. \A i \in Nat : Nibble(x, i) \in Nat /\ Nibble(x, i) < 16
  BY <1>1, SMT DEF Nibble
<1>3. k + 4 \in Nat /\ k + 8 \in Nat /\ k + 12 \in Nat
  OBVIOUS
<1> QED BY <1>2, <1>3, SMT DEF Half, IsShort

-----------------------------------------------------------------------------
(* The seed, the remainder and the threshold.                              *)

\* What Seed puts together from two halves is the product of the script, modulo 2^32.
THEOREM SeedIsProduct ==
  ASSUME NEW vu \in Nat
  PROVE  Seed(vu) \in Words /\ Number(Seed(vu)) = (vu * 2654435761) % 4294967296
<1> DEFINE low  == vu * 31153
           high == vu * 40503 + low \div 65536
           a    == high \div 65536
           y    == 65536 * (high % 65536) + (low % 65536)
<1>1. IsShort(low % 65536) /\ IsShort(high % 65536) /\ a \in Int
  BY SMT DEF IsShort
<1>2. Seed(vu) \in Words /\ Number(Seed(vu)) = y
  <2> DEFINE l == low % 65536
             h == high % 65536
  <2>1. Seed(vu) = BitsOf(l, 0) \cup BitsOf(h, 16) /\ IsShort(l) /\ IsShort(h)
    BY <1>1 DEF Seed
  <2>2. y = 65536 * h + l
    OBVIOUS
  <2> HIDE DEF l, h, y
  <2>3. Seed(vu) \in Words /\ Half(Seed(vu), 0) = l /\ Half(Seed(vu), 16) = h
    BY <2>1, HalvesOfWord
  <2> QED BY <2>2, <2>3, SMT DEF Number
<1>3. low = 65536 * (low \div 65536) + (low % 65536) /\ high = 65536 * a + (high % 65536)
  BY SMT
<1>4. vu * 2654435761 = 65536 * high + (low % 65536)
  BY <1>3, SMT
<1>5. y \in Nat /\ y < 4294967296
  BY <1>1, SMT DEF IsShort
<1> HIDE DEF a
<1>6. vu * 2654435761 = 4294967296 * a + y
  BY <1>1, <1>3, <1>4, SMT DEF IsShort
<1> HIDE DEF y
<1>7. (vu * 2654435761) % 4294967296 = y % 4294967296
  BY <1>1, <1>5, <1>6, Remainder, SMT
<1>8. y % 4294967296 = y
  BY <1>5, SMT
<1> QED BY <1>2, <1>7, <1>8

\* 2654435761 is odd, and every factor of the modulus is a two.
LEMMA ProductsDiffer ==
  ASSUME NEW v \in Nat, NEW w \in Nat, v <= MaxVU, w <= MaxVU,
         (v * 2654435761) % 4294967296 = (w * 2654435761) % 4294967296
  PROVE  v = w
<1> DEFINE p == (v * 2654435761) \div 4294967296 - (w * 2654435761) \div 4294967296
<1>1. v <= 3393263 /\ w <= 3393263
  BY SMT DEF MaxVU
<1>2. p \in Int /\ 2654435761 * (v - w) = 4294967296 * p
  BY <1>1, SMT
<1> HIDE DEF p
<1> DEFINE e == 244002641 * p - 150801925 * (v - w)
<1>3. e \in Int /\ v - w = 4294967296 * e
  BY <1>1, <1>2, SMT
<1> HIDE DEF e
<1> QED BY <1>1, <1>3, SMT

\* Two virtual users have two seeds.
THEOREM SeedsDiffer ==
  ASSUME NEW v \in Nat, NEW w \in Nat, v <= MaxVU, w <= MaxVU, Seed(v) = Seed(w)
  PROVE  v = w
<1>1. (v * 2654435761) % 4294967296 = (w * 2654435761) % 4294967296
  BY SeedIsProduct, SMT
<1> QED BY <1>1, ProductsDiffer, SMT

\* None has the seed zero, which is that of the number 0.
THEOREM SeedIsNotZero == ASSUME NEW v \in Nat, v # 0, v <= MaxVU PROVE Seed(v) # {}
<1> DEFINE n == (v * 2654435761) % 4294967296
<1>1. Number({}) = 0
  BY SMT DEF Number, Half, Nibble, Bit
<1>2. 0 \in Nat /\ 0 <= MaxVU /\ (0 * 2654435761) % 4294967296 = 0
  BY SMT DEF MaxVU
<1>3. n # 0
  BY <1>2, ProductsDiffer, SMT
<1>4. Number(Seed(v)) = n
  BY SeedIsProduct, SMT
<1> HIDE DEF n
<1> QED BY <1>1, <1>3, <1>4

\* The remainder that picks an item is that of the drawn number.
THEOREM ModIsRemainder ==
  ASSUME NEW x, NEW n \in Nat \ {0}
  PROVE  Mod(x, n) = Number(x) % n
<1>1. Half(x, 16) \in Nat /\ Half(x, 0) \in Nat
  BY HalfInRange DEF IsShort
<1>2. \A g \in Nat : ((Half(x, 16) % n) * (g % n) + (Half(x, 0) % n)) % n
                       = (g * Half(x, 16) + Half(x, 0)) % n
  BY <1>1, RemainderOfHalves
<1> QED BY <1>2, SMT DEF Mod, Number

\* A path is hot when the drawn number is less than 0.8 * 0xffffffff.
THEOREM HotIsFourFifths == ASSUME NEW x PROVE IsHot(x) <=> 5 * Number(x) < 4 * 4294967295
<1> DEFINE h == Half(x, 16)
           l == Half(x, 0)
<1>1. h \in Nat /\ h < 65536 /\ l \in Nat /\ l < 65536
  BY HalfInRange DEF IsShort
<1>2. (IsHot(x) <=> (h < 52428 \/ (h = 52428 /\ l < 52428))) /\ Number(x) = 65536 * h + l
  BY DEF IsHot, Number
<1> HIDE DEF h, l
<1>3. (h < 52428 \/ (h = 52428 /\ l < 52428)) <=> 65536 * h + l < 3435973836
  BY <1>1, SMT
<1> QED BY <1>1, <1>2, <1>3, SMT
=============================================================================
